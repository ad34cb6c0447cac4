------------------------------ MODULE RunStates ------------------------------
(***************************************************************************)
(* The canonical workflow states of an agent run and the table of allowed  *)
(* transitions: src/backend/app/domain/runs.py.                            *)
(***************************************************************************)

RunStatus == {"queued", "running", "waiting_approval", "completed_verified",
              "failed_no_side_effect", "execution_uncertain", "reconciling",
              "escalated"}

TERMINAL_RUN_STATES == {"completed_verified", "escalated"}

AllowedTransitions ==
  [current \in RunStatus |->
     CASE current = "queued" -> {"running", "escalated"}
       [] current = "running" ->
            {"waiting_approval", "completed_verified", "failed_no_side_effect",
             "execution_uncertain", "escalated"}
       [] current \in {"waiting_approval", "failed_no_side_effect"} ->
            {"queued", "escalated"}
       [] current = "execution_uncertain" -> {"reconciling", "escalated"}
       [] current = "reconciling" ->
            {"completed_verified", "failed_no_side_effect",
             "execution_uncertain", "escalated"}
       [] current \in TERMINAL_RUN_STATES -> {}]

(* validate_run_transition raises InvalidRunTransition exactly when this is
   FALSE. *)
ValidRunTransition(current, target) == target \in AllowedTransitions[current]
==============================================================================
