--------------------------- MODULE MCSubagentRegistry ---------------------------
(* Instances of SubagentRegistry: a run to keep and one to delete. *)
EXTENDS SubagentRegistry
================================================================================
