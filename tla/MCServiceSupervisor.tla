------------------------ MODULE MCServiceSupervisor ------------------------
(***************************************************************************)
(* ServiceSupervisor on small instances.                                   *)
(***************************************************************************)
EXTENDS ServiceSupervisor, TLC

(* Services differ only in their names.                                    *)
NamesAreInterchangeable == Permutations(Plugin)
=============================================================================
