---------------------------- MODULE Orchestration ----------------------------
(***************************************************************************)
(* OrchestrationService.start_or_resume: POST /tasks/{id}/runs, which      *)
(* starts a run or resumes one, takes it through the refund graph, records *)
(* a proposal, binds policy evidence to it and parks the run for approval. *)
(*                                                                         *)
(* One request is a chain of separate transactions and one graph           *)
(* invocation; the synchronous endpoint runs in a thread pool, so several  *)
(* requests interleave between them, on the same task and on the same run. *)
(* Any exception answers 500 (404 for a LookupError) and leaves committed  *)
(* steps behind; so does the death of the process.  The run store is       *)
(* RunLifecycle, its callers the workers.                                  *)
(***************************************************************************)
EXTENDS RunStates, Naturals, Sequences, FiniteSets

CONSTANTS Workers,     \* threads that serve requests
          Runs,        \* public identifiers of runs
          Tasks,       \* tasks that have their request and snapshots
          Chunks,      \* policy clauses that can be evidence
          NoRun, NoTask, NoMatch,
          MaxVersion   \* bound on run versions (RunLifecycle)

ASSUME OrchestrationAssumption ==
  /\ NoRun \notin Runs /\ NoTask \notin Tasks /\ NoMatch \notin Chunks
  /\ MaxVersion \in Nat /\ MaxVersion >= 3

VARIABLES
  run, audit, held, call,  \* the run store
  taskOf,      \* taskOf[r]: the task run r was created for
  proposal,    \* proposal[r]: the proposal recorded for run r
  evidence,    \* evidence[r]: the clauses bound to the proposal of run r
  provenance,  \* runs whose model, prompt and graph versions are recorded
  match,       \* the clause retrieval selects now, NoMatch when it abstains
  pc,          \* pc[w]: what worker w does next
  task,        \* task[w]: the task of its request
  latest,      \* latest[w]: the highest proposal version it read
  seen         \* seen[w]: the proposal record it holds

storeVars == <<run, audit, held, call>>
tables == <<taskOf, proposal, evidence, provenance, match>>
locals == <<task, latest, seen>>
vars == <<storeVars, tables, pc, locals>>

Store == INSTANCE RunLifecycle WITH Callers <- Workers

NoProposal == [task |-> NoTask, version |-> 0, status |-> "none"]
Proposal == [task : Tasks, version : Nat \ {0},
             status : {"draft_waiting_evidence", "waiting_approval"}]

Steps == {"idle", "created", "check", "graph", "persist", "latest", "insert",
          "refresh", "retrieve", "bound", "reread", "reply", "failed"}

runOf(w) == held[w].run
Goto(w, step) == pc' = [pc EXCEPT ![w] = step]
At(w, step) == pc[w] = step
Recorded(r) == proposal[r] # NoProposal
TaskVersions(t) == {proposal[r].version : r \in {q \in Runs : proposal[q].task = t}}
MaxOrZero(S) == IF S = {} THEN 0 ELSE CHOOSE n \in S : \A m \in S : m <= n
Holds(w) == seen' = [seen EXCEPT ![w] = proposal'[runOf(w)]]

------------------------------------------------------------------------------
Init == /\ Store!Init
        /\ taskOf = [r \in Runs |-> NoTask]
        /\ proposal = [r \in Runs |-> NoProposal]
        /\ evidence = [r \in Runs |-> {}]
        /\ provenance = {}
        /\ match \in Chunks \cup {NoMatch}
        /\ pc = [w \in Workers |-> "idle"]
        /\ task = [w \in Workers |-> NoTask]
        /\ latest = [w \in Workers |-> 0]
        /\ seen = [w \in Workers |-> NoProposal]

(* The run of a request that names none, in state queued. *)
Create(w, t, r) ==
  /\ Store!CreateRun(w, r)
  /\ taskOf' = [taskOf EXCEPT ![r] = t]
  /\ UNCHANGED <<proposal, evidence, provenance, match, latest, seen>>

Start(w, t, r) == /\ At(w, "idle")
                  /\ Create(w, t, r)
                  /\ task' = [task EXCEPT ![w] = t]
                  /\ Goto(w, "created")

(* scripts/seed_demo.py creates a run too, and leaves it queued. *)
SeedRun(w, t, r) == /\ At(w, "idle")
                    /\ Create(w, t, r)
                    /\ Goto(w, "reply")
                    /\ UNCHANGED task

BeginRunning(w) == /\ At(w, "created")
                   /\ Store!Validate(w, "running")
                   /\ UNCHANGED <<tables, pc, locals>>

SetRunning(w) == /\ At(w, "created")
                 /\ Store!CompareAndSet(w)
                 /\ Goto(w, "check")
                 /\ UNCHANGED <<tables, locals>>

(* A run of another task is refused with 404.  Fault: it is accepted. *)
AnyTask(r, t) == TRUE
BelongsTo(r, t) == taskOf[r] = t

(* A request that names its run: whatever state the run is in, it is used as
   it is. *)
Resume(w, t, r) == /\ At(w, "idle")
                   /\ BelongsTo(r, t)
                   /\ Store!GetRun(w, r)
                   /\ task' = [task EXCEPT ![w] = t]
                   /\ Goto(w, "check")
                   /\ UNCHANGED <<tables, latest, seen>>

(* An existing proposal is answered at once, with the run read before it. *)
ReturnExisting(w) == /\ At(w, "check")
                     /\ Recorded(runOf(w))
                     /\ Goto(w, "reply")
                     /\ UNCHANGED <<storeVars, tables, task, latest>>
                     /\ Holds(w)

SetProvenance(w) == /\ At(w, "check")
                    /\ ~Recorded(runOf(w))
                    /\ provenance' = provenance \cup {runOf(w)}
                    /\ Goto(w, "graph")
                    /\ UNCHANGED <<storeVars, taskOf, proposal, evidence,
                                   match, locals>>

(* graph.invoke with an input starts from START whatever the thread's
   checkpoint says; the nodes after classify are pure. *)
InvokeGraph(w) == /\ At(w, "graph")
                  /\ Goto(w, "persist")
                  /\ UNCHANGED <<storeVars, tables, locals>>

(* The model gateway raises. *)
ModelFails(w) == /\ At(w, "graph")
                 /\ Goto(w, "failed")
                 /\ UNCHANGED <<storeVars, tables, locals>>

(* persist_result, first statement: somebody recorded the proposal meanwhile.  The
   run is read again by another statement, before which its proposal may become
   ready and it may be parked. *)
PersistFinds(w) == /\ At(w, "persist")
                   /\ Recorded(runOf(w))
                   /\ Goto(w, "refresh")
                   /\ UNCHANGED <<storeVars, tables, task, latest>>
                   /\ Holds(w)

Refresh(w) == /\ At(w, "refresh")
              /\ Store!GetRun(w, runOf(w))
              /\ Goto(w, "retrieve")
              /\ UNCHANGED <<tables, locals>>

PersistMisses(w) == /\ At(w, "persist")
                    /\ ~Recorded(runOf(w))
                    /\ Goto(w, "latest")
                    /\ UNCHANGED <<storeVars, tables, locals>>

(* persist_result, second statement, in the same transaction but with a
   snapshot of its own: READ COMMITTED. *)
ReadLatest(w) ==
  /\ At(w, "latest")
  /\ latest' = [latest EXCEPT ![w] = MaxOrZero(TaskVersions(task[w]))]
  /\ Goto(w, "insert")
  /\ UNCHANGED <<storeVars, tables, task, seen>>

(* Fault: the latest version is used again. *)
LatestAgain(w) == latest[w]
NextProposal(w) == latest[w] + 1

(* The unique constraints on a proposal's run and on its task and version.
   Faults: one of the two is missing. *)
OneOfRun(w) == ~Recorded(runOf(w))
OneOfVersion(w) == NextProposal(w) \notin TaskVersions(task[w])
Unique(w) == /\ ~Recorded(runOf(w))
             /\ NextProposal(w) \notin TaskVersions(task[w])

(* The INSERT of the risk decision and the proposal, the refreshed run, and
   the commit: one step, since nobody sees the proposal before the commit and who
   inserts beside it waits for that. *)
Insert(w) ==
  LET r == runOf(w) IN
  /\ At(w, "insert")
  /\ Unique(w)
  /\ proposal' = [proposal EXCEPT ![r] =
                    [task |-> task[w], version |-> NextProposal(w),
                     status |-> "draft_waiting_evidence"]]
  /\ Store!GetRun(w, r)
  /\ Goto(w, "retrieve")
  /\ UNCHANGED <<taskOf, evidence, provenance, match, task, latest>>
  /\ Holds(w)

InsertCollides(w) == /\ At(w, "insert")
                     /\ ~Unique(w)
                     /\ Goto(w, "failed")
                     /\ UNCHANGED <<storeVars, tables, locals>>

(* retrieve_and_bind finds no single clause: the request ends here. *)
Abstain(w) == /\ At(w, "retrieve")
              /\ match = NoMatch
              /\ Goto(w, "reply")
              /\ UNCHANGED <<storeVars, tables, locals>>

(* One transaction binds the clause and advances the proposal.
   Fault: the status is not assigned. *)
BindOnly(p) == p
Advanced(p) == [p EXCEPT !.status = "waiting_approval"]

Bind(w) ==
  LET r == runOf(w) IN
  /\ At(w, "retrieve")
  /\ match # NoMatch /\ match \notin evidence[r]
  /\ evidence' = [evidence EXCEPT ![r] = @ \cup {match}]
  /\ proposal' = [proposal EXCEPT ![r] = Advanced(@)]
  /\ Goto(w, "bound")
  /\ UNCHANGED <<storeVars, taskOf, provenance, match, locals>>

(* A proposal and a clause are bound once: IntegrityError. *)
BindCollides(w) == /\ At(w, "retrieve")
                   /\ match \in evidence[runOf(w)]
                   /\ Goto(w, "failed")
                   /\ UNCHANGED <<storeVars, tables, locals>>

BeginWaiting(w) == /\ At(w, "bound")
                   /\ Store!Validate(w, "waiting_approval")
                   /\ UNCHANGED <<tables, pc, locals>>

(* The run's state does not allow waiting_approval: InvalidRunTransition. *)
RefuseWaiting(w) ==
  /\ At(w, "bound")
  /\ call[w] = Store!Idle
  /\ ~ValidRunTransition(run[runOf(w)].status, "waiting_approval")
  /\ Goto(w, "failed")
  /\ UNCHANGED <<storeVars, tables, locals>>

(* Fault: the status is assigned through the ORM, not by RunService. *)
AssignWaiting(w) == /\ At(w, "bound")
                    /\ run' = [run EXCEPT ![runOf(w)].status = "waiting_approval"]
                    /\ Goto(w, "reread")
                    /\ UNCHANGED <<audit, held, call, tables, locals>>

SetWaiting(w) == /\ At(w, "bound")
                 /\ Store!CompareAndSet(w)
                 /\ Goto(w, "reread")
                 /\ UNCHANGED <<tables, locals>>

(* The run moved since it was refreshed: ConcurrencyConflict. *)
LoseWaiting(w) == /\ At(w, "bound")
                  /\ Store!LoseRace(w)
                  /\ Goto(w, "failed")
                  /\ UNCHANGED <<tables, locals>>

(* The proposal is read again: it was a draft when it was recorded.
   Fault: it is not. *)
SkipReread(w) == /\ At(w, "reread")
                 /\ Goto(w, "reply")
                 /\ UNCHANGED <<storeVars, tables, locals>>

Reread(w) == /\ At(w, "reread")
             /\ Goto(w, "reply")
             /\ UNCHANGED <<storeVars, tables, task, latest>>
             /\ Holds(w)

(* The response is sent, or the process dies before it is: either way the
   worker starts afresh. *)
Reset(w) == /\ Store!Drop(w)
            /\ Goto(w, "idle")
            /\ task' = [task EXCEPT ![w] = NoTask]
            /\ latest' = [latest EXCEPT ![w] = 0]
            /\ seen' = [seen EXCEPT ![w] = NoProposal]
            /\ UNCHANGED tables

Respond(w) == pc[w] \in {"reply", "failed"} /\ Reset(w)
Crash(w) == pc[w] \notin {"idle", "reply", "failed"} /\ Reset(w)

(* Policies are published, come into force and expire. *)
CorpusChanges == /\ match' \in (Chunks \cup {NoMatch}) \ {match}
                 /\ UNCHANGED <<storeVars, taskOf, proposal, evidence, provenance,
                                pc, locals>>

(* What a worker does next, once it has a request. *)
Step(w) == \/ BeginRunning(w) \/ SetRunning(w)
           \/ ReturnExisting(w) \/ SetProvenance(w)
           \/ InvokeGraph(w) \/ ModelFails(w)
           \/ PersistFinds(w) \/ Refresh(w) \/ PersistMisses(w) \/ ReadLatest(w)
           \/ Insert(w) \/ InsertCollides(w)
           \/ Abstain(w) \/ Bind(w) \/ BindCollides(w)
           \/ BeginWaiting(w) \/ RefuseWaiting(w)
           \/ SetWaiting(w) \/ LoseWaiting(w)
           \/ Reread(w) \/ Respond(w)

Request(w) == \E t \in Tasks, r \in Runs :
                Start(w, t, r) \/ SeedRun(w, t, r) \/ Resume(w, t, r)

NextUncrashed == \/ \E w \in Workers : Request(w) \/ Step(w)
                 \/ CorpusChanges

Next == NextUncrashed \/ \E w \in Workers : Crash(w)

Spec == Init /\ [][Next]_vars

(* No process dies, and a worker that has a request goes on with it. *)
UncrashedSpec == Init /\ [][NextUncrashed]_vars
FairSpec == UncrashedSpec /\ \A w \in Workers : WF_vars(Step(w))

------------------------------------------------------------------------------
(* Properties. *)

(* Every variable has its type; only the worker of a request holds a task. *)
TypeOK == /\ Store!TypeOK
          /\ taskOf \in [Runs -> Tasks \cup {NoTask}]
          /\ proposal \in [Runs -> Proposal \cup {NoProposal}]
          /\ evidence \in [Runs -> SUBSET Chunks]
          /\ provenance \subseteq Runs
          /\ match \in Chunks \cup {NoMatch}
          /\ pc \in [Workers -> Steps]
          /\ task \in [Workers -> Tasks \cup {NoTask}]
          /\ latest \in [Workers -> Nat]
          /\ seen \in [Workers -> Proposal \cup {NoProposal}]

(* The proposals of a task are numbered 1, 2, ... with no gap and no number
   given twice, although the highest version is read in one statement and the
   next is written in a later one (persist_result).  Each belongs to the task its
   run was created for, whichever request recorded it, and came after its run's
   provenance. *)
ProposalsAreInOrder ==
  /\ \A t \in Tasks :
       LET ofTask == {r \in Runs : proposal[r].task = t} IN
       /\ TaskVersions(t) = 1 .. Cardinality(ofTask)
       /\ Cardinality(TaskVersions(t)) = Cardinality(ofTask)
  /\ \A r \in Runs : Recorded(r) => proposal[r].task = taskOf[r] /\ r \in provenance

(* A run waits for approval only on a proposal that is ready and has evidence,
   whatever happened to the requests that worked on it; and a proposal is ready
   exactly when it has evidence (backend-sprint-07). *)
WaitingRunsHaveEvidence ==
  \A r \in Runs :
    /\ run[r].status = "waiting_approval" => proposal[r].status = "waiting_approval"
    /\ proposal[r].status = "waiting_approval" <=> evidence[r] # {}

(* The state of the run record a worker holds. *)
HeldStatus(w) == audit[runOf(w)][held[w].version].to

(* A response joins a run record and a proposal that were read in different
   statements.  The proposal is the requested task's and the run's own; a run that is
   shown waiting for approval waits on a proposal that is ready by then; and the
   proposal shown beside it is that ready one, unless the request found a proposal
   another one had recorded and its own search came to nothing. *)
RepliesAreCoherent ==
  [][\A w \in Workers : At(w, "reply")' /\ ~At(w, "reply") /\ seen'[w] # NoProposal =>
       /\ seen'[w].task = task[w]
       /\ seen'[w].version = proposal'[runOf(w)].version
       /\ HeldStatus(w) = "waiting_approval" =>
            /\ seen'[w].status = "waiting_approval" \/ At(w, "retrieve")
            /\ proposal'[runOf(w)].status = "waiting_approval" /\ evidence'[runOf(w)] # {}
    ]_vars

(* The requests use the run store only through its operations. *)
UsesRunStore == Store!Spec

(* The ledger the proposals make, entry n the proposal of version n. *)
Entry(t, n) ==
  LET runs == {r \in Runs : proposal[r].task = t /\ proposal[r].version = n} IN
  [run |-> IF runs = {} THEN NoRun ELSE CHOOSE r \in runs : TRUE,
   status |-> IF runs = {} THEN "none" ELSE proposal[CHOOSE r \in runs : TRUE].status]

Ledger == INSTANCE ProposalLedger WITH
  ledger <- [t \in Tasks |-> [n \in 1 .. MaxOrZero(TaskVersions(t)) |-> Entry(t, n)]]

(* Proposals are append-only, one per run, never renumbered or rewritten and
   never set back to draft, under every interleaving of requests and crashes. *)
KeepsLedger == Ledger!LedgerSpec
==============================================================================
