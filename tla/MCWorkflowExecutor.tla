------------------------- MODULE MCWorkflowExecutor -------------------------
(* Instances of WorkflowExecutor for TLC. *)
EXTENDS WorkflowExecutor
=============================================================================
