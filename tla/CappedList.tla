---------------------------- MODULE CappedList ----------------------------
(***************************************************************************)
(* The bounded memories of the cursors: python's list[-cap:].              *)
(***************************************************************************)
EXTENDS Integers, Sequences

(* The elements of a sequence.                                             *)
Elements(s) == {s[i] : i \in DOMAIN s}

(* list[-cap:] for cap > 0: the last cap elements, all of a shorter list.  *)
LastN(s, cap) ==
  IF Len(s) <= cap THEN s ELSE SubSeq(s, Len(s) - cap + 1, Len(s))
=============================================================================
