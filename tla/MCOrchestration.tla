--------------------------- MODULE MCOrchestration ---------------------------
(* Checked instances of Orchestration. *)
EXTENDS OrchestrationClaims, TLC

Interchangeable == Permutations(Workers) \cup Permutations(Runs)
                     \cup Permutations(Tasks) \cup Permutations(Chunks)
==============================================================================
