-------------------------- MODULE OrchestrationClaims --------------------------
(***************************************************************************)
(* A statement of the repository's documents about runs, stated over       *)
(* Orchestration.  The code does not meet it; a run shows how.  Requests    *)
(* here are served without process crashes.                                *)
(***************************************************************************)
EXTENDS Orchestration

(* Workers go on with their requests, and clients ask again and again for each
   run they know to be resumed. *)
PersistentSpec ==
  /\ FairSpec
  /\ \A t \in Tasks, r \in Runs : SF_vars(\E w \in Workers : Resume(w, t, r))

(* BACKEND_PLATFORM_DELIVERY_ROADMAP.md: "Every consequential transition is
   auditable and recoverable from PostgreSQL-backed state."  Once the database
   holds a proposal ready for approval, asking for its run to be resumed
   eventually parks the run in waiting_approval. *)
ReadyProposalParksRun ==
  \A r \in Runs : proposal[r].status = "waiting_approval"
                    ~> run[r].status = "waiting_approval"
==============================================================================
