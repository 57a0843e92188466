-------------------------------- MODULE Lists --------------------------------
(***************************************************************************)
(* What the code does with the standard containers that hold its objects   *)
(* in an order.                                                            *)
(***************************************************************************)
EXTENDS Naturals, Sequences, FiniteSets, Functions

(* std::find_if and erase: the first of the places goes, if there is any.  *)
EraseFirst(q, places) ==
  LET k == CHOOSE i \in places : \A j \in places : i <= j
  IN  IF places = {} THEN q ELSE SubSeq(q, 1, k - 1) \o SubSeq(q, k + 1, Len(q))

(* remove_one of server/utils.h                                            *)
RemoveOne(q, x) == EraseFirst(q, {i \in 1 .. Len(q) : q[i] = x})

(* insert before the element at an offset, which counts from zero          *)
InsertAt(q, offset, x) == SubSeq(q, 1, offset) \o <<x>> \o SubSeq(q, offset + 1, Len(q))

(* The members of a set in an order that nothing depends on.               *)
Listing(S) == CHOOSE q \in Bijection(1 .. Cardinality(S), S) : TRUE
=============================================================================
