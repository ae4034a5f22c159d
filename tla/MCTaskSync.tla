------------------------------ MODULE MCTaskSync ------------------------------
(* Instances of TaskSync for TLC. *)
EXTENDS TaskSync

(* Everything is selected, or one list only. *)
MCSelections == {{"a", "b"}, {"a"}}
MCOneSelection == {{"a", "b"}}
=============================================================================
