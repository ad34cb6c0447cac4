--------------------------- MODULE MCToolExecution ---------------------------
(* Checked instances of ToolExecution.  Callers are not made interchangeable: the
   run has a liveness property. *)
EXTENDS ToolExecution
==============================================================================
