------------------------------ MODULE Stacking ------------------------------
(***************************************************************************)
(* The stacking order of the subsurfaces of one surface that is itself no  *)
(* subsurface: the vectors of children in its pending and current state,   *)
(* bottom first, and the requests that rearrange them (server/surface.cpp, *)
(* addChild to lowerChild, server/subcompositor.cpp).                      *)
(***************************************************************************)
EXTENDS Integers, SequencesExt

CONSTANTS
  Child,     \* subsurfaces that can be made for this parent
  Stranger,  \* other surfaces a client can name as a sibling
  Parent     \* the parent's surface

(* What is assumed of the constants.                                       *)
Assumptions == Parent \notin Child

VARIABLES
  pending,   \* pending.pub.children
  flag,      \* pending.pub.updates has surface_change::children
  current,   \* current.pub.children
  desync,    \* children in desynchronized mode
  failed     \* a protocol error was posted; the client is killed

vars == <<pending, flag, current, desync, failed>>

IndexOf(s, c) == SelectInSeq(s, LAMBDA x : x = c)

TypeOK ==
  /\ pending \in BoundedSeq(Child, Cardinality(Child))
  /\ current \in BoundedSeq(Child, Cardinality(Child))
  /\ flag \in BOOLEAN
  /\ desync \subseteq ToSet(pending)
  /\ failed \in BOOLEAN

Init ==
  /\ pending = <<>> /\ current = <<>>
  /\ flag = FALSE
  /\ desync = {}
  /\ failed = FALSE

(* get_subsurface: Subsurface::Private::init calls addChild. *)
AddChild(c) ==
  /\ c \notin ToSet(pending)
  /\ pending' = Append(pending, c)
  /\ flag' = TRUE
  /\ UNCHANGED <<current, desync, failed>>

(* The subsurface or its surface is destroyed: removeChild.  It takes every *)
(* occurrence away; a child is listed once at most.                         *)
RemoveChild(c) ==
  /\ c \in ToSet(pending)
  /\ pending' = RemoveFirst(pending, c)
  /\ current' = RemoveFirst(current, c)
  /\ desync' = desync \ {c}
  /\ UNCHANGED <<flag, failed>>

(* Moving c next to sib: erase it, find the sibling again, insert after or *)
(* before it.                                                              *)
InsertOnOtherSide(c, sib, offset) ==  \* mutated form of InsertNextTo
  LET erased == RemoveFirst(pending, c)
  IN  InsertAt(erased, IndexOf(erased, sib) + 1 - offset, c)
InsertUnerased(c, sib, offset) ==  \* mutated form of InsertNextTo
  InsertAt(pending, IndexOf(pending, sib) + offset, c)
InsertNextTo(c, sib, offset) ==
  LET erased == RemoveFirst(pending, c)
  IN  InsertAt(erased, IndexOf(erased, sib) + offset, c)

Restacked(list) == pending' = list /\ flag' = TRUE

IsSibling(c, sib) == sib \in ToSet(pending) \ {c}

(* raiseChild, called by place_above. *)
PlaceAbove(c, sib) ==
  /\ c \in ToSet(pending) /\ Len(pending) > 1
  /\ \/ sib = Parent /\ Restacked(Append(RemoveFirst(pending, c), c))
     \/ IsSibling(c, sib) /\ Restacked(InsertNextTo(c, sib, 1))
  /\ UNCHANGED <<current, desync, failed>>

(* lowerChild, called by place_below. *)
PlaceBelow(c, sib) ==
  /\ c \in ToSet(pending) /\ Len(pending) > 1
  /\ \/ sib = Parent /\ Restacked(<<c>> \o RemoveFirst(pending, c))
     \/ IsSibling(c, sib) /\ Restacked(InsertNextTo(c, sib, 0))
  /\ UNCHANGED <<current, desync, failed>>

(* Neither the parent nor another child of it: BAD_SURFACE.  An only child *)
(* is never moved, whatever the sibling is.                                *)
WrongSibling(c, sib) ==
  /\ c \in ToSet(pending) /\ Len(pending) > 1
  /\ sib # Parent /\ ~IsSibling(c, sib)
  /\ failed' = TRUE
  /\ UNCHANGED <<pending, flag, current, desync>>

(* wl_surface.commit on the parent. *)
CommitParent ==
  /\ current' = IF flag THEN pending ELSE current
  /\ pending' = current'
  /\ flag' = FALSE
  /\ UNCHANGED <<desync, failed>>

ShownWith(c) == IF Contains(current, c) THEN current ELSE Append(current, c)

SetDesync(c) ==
  /\ c \in ToSet(pending) \ desync
  /\ desync' = desync \cup {c}
  /\ current' = ShownWith(c)
  /\ UNCHANGED <<pending, flag, failed>>

SetSync(c) ==
  /\ c \in desync
  /\ desync' = desync \ {c}
  /\ UNCHANGED <<pending, flag, current, failed>>

ChildStep(c) ==
  \/ AddChild(c) \/ RemoveChild(c)
  \/ \E sib \in Child \cup Stranger \cup {Parent} :
       PlaceAbove(c, sib) \/ PlaceBelow(c, sib) \/ WrongSibling(c, sib)
  \/ SetDesync(c) \/ SetSync(c)

Next == ~failed /\ ((\E c \in Child : ChildStep(c)) \/ CommitParent)

Spec == Init /\ [][Next]_vars

-----------------------------------------------------------------------------
(* The order a vector of children stands for. *)
Pairs(list) ==
  UNION {{<<list[i], list[j]>> : j \in 1 .. i} : i \in DOMAIN list}

Order == INSTANCE StackOrder WITH over <- Pairs(pending), shown <- Pairs(current)

(* The vectors implement the promised order (src/client/subsurface.h:122): *)
(* every request moves one child and leaves the order of the others alone, *)
(* and only a commit or the end of synchronized mode shows it.             *)
ImplementsOrder == Order!Spec

(* A child ends up directly above or below the sibling, as it was asked    *)
(* for, wherever the two were before: "put directly above the              *)
(* referenceSurface in the stacking order" (src/client/subsurface.h:128).  *)
PlacedAsAsked ==
  [][\A c, sib \in Child :
       LET order == Pairs(pending)
       IN  /\ PlaceAbove(c, sib) => Pairs(pending') = Order!DirectlyOver(order, c, sib)
           /\ PlaceBelow(c, sib) => Pairs(pending') = Order!DirectlyUnder(order, c, sib)]_vars

(* The order shown is the requested one unless the next commit is going to *)
(* change it: no rearrangement misses its flag (surface.cpp:149).          *)
ShownUnlessFlagged == flag \/ current = pending
=============================================================================
