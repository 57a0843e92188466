----------------------------- MODULE MCSeatInput -----------------------------
(***************************************************************************)
(* The input of a seat on a small instance.  The parts share no state, so  *)
(* that a behaviour is one of one of them, chosen at the start; the others *)
(* stay in an initial state.                                               *)
(*                                                                         *)
(* Surface s1 is of client a, s2 of client b.  Each has a keyboard and a   *)
(* data device; the sources and offers of drags are interchangeable; a has *)
(* two wl_touch and a wl_pointer, b one wl_touch.                          *)
(***************************************************************************)
EXTENDS SeatInput, TLC

CONSTANTS s1, s2, ka, kb, da, db, x, y, o1, o2, t1, t2, t3, p

Owners ==
  [o \in {s1, ka, t1, t2, p} |-> "a"] @@ [o \in {s2, kb, t3} |-> "b"]
DataDevices == (s1 :> da) @@ (s2 :> db)
Interchangeable == Permutations({x, y}) \cup Permutations({o1, o2}) \cup Permutations({t1, t2})

VARIABLE part

MCInit ==
  /\ part \in {"keys", "drags", "touch"}
  /\ Init /\ Drags!Init /\ Touches!Init
  /\ part # "touch" => hasPointer

KeysStep ==
  /\ part = "keys" /\ Next
  /\ UNCHANGED <<dragVars, touchVars>>
DragsStep ==
  /\ part = "drags" /\ Drags!Next
  /\ UNCHANGED <<vars, touchVars>>
TouchStep ==
  /\ part = "touch" /\ Touches!Next
  /\ UNCHANGED <<vars, dragVars>>

MCNext ==
  /\ UNCHANGED part
  /\ KeysStep \/ DragsStep \/ TouchStep

MCSpec == MCInit /\ [][MCNext]_<<part, vars, dragVars, touchVars>>
=============================================================================
