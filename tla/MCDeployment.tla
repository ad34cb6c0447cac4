----------------------------- MODULE MCDeployment -----------------------------
(* Two containers and one fault: see MCDeployment.cfg. *)
EXTENDS Deployment
==============================================================================
