---------------------------- MODULE MCRunLifecycle ----------------------------
(* Checked instance of RunLifecycle.  Liveness is checked with safety, so that
   callers are not declared interchangeable. *)
EXTENDS RunLifecycle
==============================================================================
