-------------------------- MODULE MCCollectRuns --------------------------
(***************************************************************************)
(* CollectRuns on small instances.                                         *)
(***************************************************************************)
EXTENDS CollectRuns, TLC

ThreadsAreInterchangeable == Permutations(Thread)
=============================================================================
