--------------------------- MODULE MCLegacyQueue ---------------------------
(***************************************************************************)
(* LegacyQueue on small instances.                                         *)
(***************************************************************************)
EXTENDS LegacyQueue, TLC

(* Records differ only in their names.                                     *)
NamesAreInterchangeable == Permutations(Event)
=============================================================================
