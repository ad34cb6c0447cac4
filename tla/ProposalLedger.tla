---------------------------- MODULE ProposalLedger ----------------------------
(***************************************************************************)
(* What the orchestration promises about proposals, with no workers and no *)
(* transactions: each task keeps an append-only ledger of proposals, one   *)
(* per run at most, whose n-th entry is version n for ever; the only thing *)
(* that ever happens to an entry is that a draft becomes ready for         *)
(* approval.                                                               *)
(***************************************************************************)
EXTENDS Naturals, Sequences

CONSTANTS Runs, Tasks

VARIABLE ledger   \* ledger[t]: the proposals of task t, oldest first

LedgerInit == ledger = [t \in Tasks |-> << >>]

Proposed(r) == \E t \in Tasks : \E i \in DOMAIN ledger[t] : ledger[t][i].run = r

Draft(t, r) ==
  /\ ~Proposed(r)
  /\ ledger' = [ledger EXCEPT ![t] =
                  Append(@, [run |-> r, status |-> "draft_waiting_evidence"])]

Ready(t, i) ==
  /\ ledger[t][i].status = "draft_waiting_evidence"
  /\ ledger' = [ledger EXCEPT ![t][i].status = "waiting_approval"]

LedgerNext == \E t \in Tasks : \/ \E r \in Runs : Draft(t, r)
                               \/ \E i \in DOMAIN ledger[t] : Ready(t, i)

LedgerSpec == LedgerInit /\ [][LedgerNext]_ledger
==============================================================================
