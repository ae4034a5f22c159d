-------------------------- MODULE MCQueueCursor --------------------------
(***************************************************************************)
(* QueueCursor on small instances.                                         *)
(***************************************************************************)
EXTENDS QueueCursor, TLC

(* Wakes and records differ only in their names.                           *)
NamesAreInterchangeable == Permutations(Wake) \cup Permutations(Event)

LedgerSpec == Ledger!LedgerSpec
=============================================================================
