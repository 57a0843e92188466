---------------------------- MODULE MCSeatFocus ----------------------------
(***************************************************************************)
(* The selection, the text input and the pointers of a seat on a small     *)
(* instance: a behaviour is one of one of them, chosen at the start, and   *)
(* the others stay in their initial states.                                *)
(*                                                                         *)
(* Client a has two pointers and two kinds of gestures, client b has one   *)
(* pointer.                                                                *)
(***************************************************************************)
EXTENDS SeatFocus, TLC

CONSTANTS a1, a2, b1, da, db, c, x, y, z, ta, ua, p1, p2, p3, g1, g2

Owners ==
  [o \in {a1, a2, da, x, ta, ua, p1, p2} |-> "a"] @@ [o \in {b1, db, y, p3} |-> "b"] @@
  [o \in {c, z} |-> "manager"] @@ (None :> "none")
Kinds == (g1 :> "swipe") @@ (g2 :> "hold")
Hosts == (g1 :> p1) @@ (g2 :> p1)
Interchangeable == Permutations(Button)

VARIABLE part

MCInit ==
  /\ part \in {"selection", "text", "pointers"}
  /\ Init /\ Texts!Init /\ Pointers!Init

SelectionStep ==
  /\ part = "selection" /\ Next
  /\ UNCHANGED <<textVars, pointerVars>>
TextStep ==
  /\ part = "text" /\ Texts!Next
  /\ UNCHANGED <<vars, pointerVars>>
PointersStep ==
  /\ part = "pointers" /\ Pointers!Next
  /\ UNCHANGED <<vars, textVars>>

MCNext ==
  /\ UNCHANGED part
  /\ SelectionStep \/ TextStep \/ PointersStep

MCSpec == MCInit /\ [][MCNext]_<<part, vars, textVars, pointerVars>>
=============================================================================
