----------------------------- MODULE StackOrder -----------------------------
(***************************************************************************)
(* What wl_subsurface.place_above and place_below promise a client         *)
(* (src/client/subsurface.h:104-158): an order of the children of a        *)
(* surface, rearranged by requests and shown when the parent is committed. *)
(* The order is a relation: <<x, y>> \in over says that x is over y.       *)
(***************************************************************************)
CONSTANT Child

VARIABLES
  over,   \* the requested order; its pairs <<x, x>> name the children
  shown   \* the order in force, in the same form

KidsIn(order) == {x \in Child : <<x, x>> \in order}
Without(order, c) == {e \in order : c \notin {e[1], e[2]}}

(* c is put into an order it is not in, over the children below only.      *)
Put(order, c, below) ==
  order \cup {<<c, c>>} \cup {<<c, x>> : x \in below}
        \cup {<<x, c>> : x \in KidsIn(order) \ below}

(* Moves of c directly over and directly under the child x, to the top and *)
(* to the bottom.                                                          *)
OverOf(order, x) == {y \in KidsIn(order) : <<x, y>> \in order}
DirectlyOver(order, c, x) ==
  LET rest == Without(order, c) IN Put(rest, c, OverOf(rest, x))
DirectlyUnder(order, c, x) ==
  LET rest == Without(order, c) IN Put(rest, c, OverOf(rest, x) \ {x})
OnTop(order, c) ==
  LET rest == Without(order, c) IN Put(rest, c, KidsIn(rest))
AtBottom(order, c) == Put(Without(order, c), c, {})

Init == over = {} /\ shown = {}

Add(c) ==
  /\ c \notin KidsIn(over)
  /\ over' = OnTop(over, c)
  /\ UNCHANGED shown

Remove(c) ==
  /\ over' = Without(over, c)
  /\ shown' = Without(shown, c)

Rearrange(c) ==
  /\ c \in KidsIn(over)
  /\ over' \in {OnTop(over, c), AtBottom(over, c)}
       \cup {DirectlyOver(over, c, x) : x \in KidsIn(over) \ {c}}
       \cup {DirectlyUnder(over, c, x) : x \in KidsIn(over) \ {c}}
  /\ UNCHANGED shown

(* A commit shows the requested order; leaving synchronized mode shows a   *)
(* child that was not, on top.                                             *)
Commit == shown' = over /\ UNCHANGED over
ShowOnTop(c) ==
  /\ c \in KidsIn(over) \ KidsIn(shown)
  /\ shown' = OnTop(shown, c)
  /\ UNCHANGED over

Next ==
  \/ \E c \in Child : Add(c) \/ Remove(c) \/ Rearrange(c) \/ ShowOnTop(c)
  \/ Commit

Spec == Init /\ [][Next]_<<over, shown>>
=============================================================================
