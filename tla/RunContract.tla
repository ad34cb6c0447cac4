----------------------------- MODULE RunContract -----------------------------
(***************************************************************************)
(* What the run store promises, with no callers, versions or transactions: *)
(* every run is born queued, moves one allowed transition at a time, and   *)
(* remembers every state it has been in, in order, and nothing else.       *)
(***************************************************************************)
EXTENDS RunStates, Sequences

CONSTANT Runs

VARIABLES status,   \* status[r]: the state of run r, "absent" before it exists
          history   \* history[r]: the states run r has been in, oldest first

contractVars == <<status, history>>

ContractInit == /\ status = [r \in Runs |-> "absent"]
                /\ history = [r \in Runs |-> << >>]

Move(r, s) == /\ status' = [status EXCEPT ![r] = s]
              /\ history' = [history EXCEPT ![r] = Append(@, s)]

Born(r) == status[r] = "absent" /\ Move(r, "queued")

Advance(r, s) == /\ status[r] \in RunStatus
                 /\ ValidRunTransition(status[r], s)
                 /\ Move(r, s)

ContractNext == \E r \in Runs : Born(r) \/ \E s \in RunStatus : Advance(r, s)

ContractSpec == ContractInit /\ [][ContractNext]_contractVars
==============================================================================
