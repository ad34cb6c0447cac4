-------------------------- MODULE OrchestrationProofs --------------------------
(***************************************************************************)
(* Proofs about Orchestration for any workers, runs, tasks and clauses.    *)
(* The requests use the run store through its operations only, so that     *)
(* what is proved of the run store (RunLifecycleProofs) holds of every     *)
(* request.  The inductive invariant adds to it what a request relies on   *)
(* between two of its transactions: the records it holds, the run it owns, *)
(* the version it read, and the proposal it saw.                           *)
(***************************************************************************)
EXTENDS Orchestration, FiniteSetTheorems, SequenceTheorems, TLAPS

Lifecycle == INSTANCE RunLifecycleProofs WITH Callers <- Workers

(* What is proved of the run store on its own. *)
StoreInv == Lifecycle!IInv

OfTask(t) == {r \in Runs : proposal[r].task = t}
HasWaited(r) == \E i \in DOMAIN audit[r] : audit[r][i].to = "waiting_approval"
IsReady(r) == proposal[r].status = "waiting_approval"

(* The proposals of a task are numbered from 1 with no gap, no two alike. *)
VersionsAreInOrder ==
  \A t \in Tasks : /\ IsFiniteSet(OfTask(t))
                   /\ TaskVersions(t) = 1 .. Cardinality(OfTask(t))
                   /\ \A q, r \in OfTask(t) : proposal[q].version = proposal[r].version => q = r

(* A run that has a proposal exists, is of the proposal's task and has its
   provenance; one that ever waited for approval has a proposal that is ready; and
   to be ready is to have evidence. *)
ProposalsAreOwn ==
  \A r \in Runs : /\ Recorded(r) => /\ proposal[r].task = taskOf[r] /\ r \in provenance
                                    /\ run[r] # Store!NoRow
                  /\ HasWaited(r) => IsReady(r)
                  /\ IsReady(r) <=> evidence[r] # {}

(* The proposal a worker saw is its task's and its run's own.  It need not be ready
   when the run beside it waits: the two are read in different statements. *)
SawItsOwn(w) == /\ seen[w] # NoProposal /\ Recorded(runOf(w))
                /\ seen[w].task = task[w]
                /\ seen[w].version = proposal[runOf(w)].version

Working == {"created", "check", "graph", "persist", "latest", "insert", "refresh",
            "retrieve", "bound", "reread"}

(* Where a worker is tells what its request has and what it has done. *)
WorkerIsCoherent(w) ==
  /\ At(w, "idle") => held[w] = Store!NoRecord /\ seen[w] = NoProposal
  /\ ~At(w, "idle") => held[w] # Store!NoRecord
  /\ call[w] # Store!Idle => \/ At(w, "created") /\ call[w].target = "running"
                             \/ At(w, "bound") /\ call[w].target = "waiting_approval"
  /\ pc[w] \in Working => task[w] \in Tasks /\ task[w] = taskOf[runOf(w)]
  /\ pc[w] \in {"graph", "persist", "latest", "insert"} => runOf(w) \in provenance
  /\ At(w, "insert") => latest[w] <= Cardinality(OfTask(task[w]))
  /\ pc[w] \in {"refresh", "retrieve"} => SawItsOwn(w)
  /\ pc[w] \in {"bound", "reread"} => IsReady(runOf(w))
  /\ At(w, "reply") /\ seen[w] # NoProposal => SawItsOwn(w)

WorkersAreCoherent == \A w \in Workers : WorkerIsCoherent(w)

IInv == StoreInv /\ TypeOK /\ VersionsAreInOrder /\ ProposalsAreOwn /\ WorkersAreCoherent

------------------------------------------------------------------------------
(* The requests and the run store. *)

(* The two instances of the run store speak of the same values. *)
LEMMA SameStore ==
  /\ Store!NoRow = Lifecycle!NoRow /\ Store!NoRecord = Lifecycle!NoRecord
  /\ Store!Idle = Lifecycle!Idle
  /\ Store!Row = Lifecycle!Row /\ Store!Record = Lifecycle!Record
  /\ Store!Event = Lifecycle!Event /\ Store!Call = Lifecycle!Call
  /\ Store!RunStatus = RunStatus /\ Lifecycle!RunStatus = RunStatus
BY DEF Store!NoRow, Lifecycle!NoRow, Store!NoRecord, Lifecycle!NoRecord, Store!Idle,
       Lifecycle!Idle, Store!Row, Lifecycle!Row, Store!Record, Lifecycle!Record, Store!Event,
       Lifecycle!Event, Store!Call, Lifecycle!Call, Store!RunStatus, Lifecycle!RunStatus,
       RunStatus

(* The bound on versions the requests need is one the run store accepts. *)
LEMMA StoreAssumption == Lifecycle!LifecycleAssumption
BY OrchestrationAssumption DEF Lifecycle!LifecycleAssumption

(* What the run store guarantees of the records that workers hold and of the rows
   and trails of the runs. *)
LEMMA StoreFacts ==
  ASSUME StoreInv
  PROVE  /\ Store!TypeOK
         /\ \A w \in Workers : held[w] # Store!NoRecord =>
              /\ held[w] \in Store!Record /\ runOf(w) \in Runs
              /\ run[runOf(w)] \in Store!Row
              /\ held[w].version \in DOMAIN audit[runOf(w)]
         /\ \A r \in Runs :
              /\ run[r] = Store!NoRow <=> audit[r] = << >>
              /\ DOMAIN audit[r] = 1 .. Len(audit[r]) /\ Len(audit[r]) \in Nat
              /\ run[r].version = Len(audit[r])
              /\ run[r] # Store!NoRow =>
                   run[r].version \in DOMAIN audit[r] /\ run[r].status = audit[r][run[r].version].to
<1>1. Store!TypeOK
  BY SameStore DEF StoreInv, Lifecycle!IInv, Lifecycle!TypeOK, Store!TypeOK
<1>2. ASSUME NEW r \in Runs
      PROVE  /\ run[r] = Store!NoRow <=> audit[r] = << >>
             /\ DOMAIN audit[r] = 1 .. Len(audit[r]) /\ Len(audit[r]) \in Nat
             /\ run[r].version = Len(audit[r])
             /\ run[r] # Store!NoRow => run[r].version \in DOMAIN audit[r]
             /\ run[r] # Store!NoRow => run[r].status = audit[r][run[r].version].to
             /\ run[r] # Store!NoRow => run[r] \in Store!Row
  <2>1. /\ audit[r] \in Seq(Lifecycle!Event) /\ run[r].version = Len(audit[r])
        /\ DOMAIN audit[r] = 1 .. Len(audit[r])
        /\ run[r] = Lifecycle!NoRow <=> audit[r] = << >>
        /\ run[r] # Lifecycle!NoRow => run[r] \in Lifecycle!Row
    BY StoreAssumption, Lifecycle!RowsAndTrails DEF StoreInv
  <2>2. audit[r] # << >> => run[r].status = audit[r][Len(audit[r])].to
    BY DEF StoreInv, Lifecycle!IInv, Lifecycle!AuditIsHistory
  <2>3. Len(audit[r]) \in Nat /\ (audit[r] # << >> => Len(audit[r]) \in 1 .. Len(audit[r]))
    BY <2>1
  <2> QED BY <2>1, <2>2, <2>3, SameStore
<1>3. ASSUME NEW w \in Workers, held[w] # Store!NoRecord
      PROVE  /\ held[w] \in Store!Record /\ runOf(w) \in Runs
             /\ run[runOf(w)] \in Store!Row
             /\ held[w].version \in DOMAIN audit[runOf(w)]
  <2>1. held[w] \in Store!Record /\ runOf(w) \in Runs
    BY <1>1, <1>3 DEF Store!TypeOK, Store!Record, runOf
  <2>2. held[w].version \in DOMAIN audit[runOf(w)]
    BY <1>3, SameStore DEF StoreInv, Lifecycle!IInv, Lifecycle!HeldIsHistory, runOf
  <2>3. run[runOf(w)] # Store!NoRow
    BY <1>2, <2>1, <2>2
  <2> QED BY <1>2, <2>1, <2>2, <2>3
<1> QED BY <1>1, <1>2, <1>3

(* Every step of a request is an operation of the run store or leaves it alone. *)
LEMMA StepsUseStore ==
  ASSUME IInv, [Next]_vars
  PROVE  [Store!Next]_(Store!lifecycleVars)
<1> SUFFICES ASSUME ~UNCHANGED storeVars PROVE Store!Next
  BY DEF storeVars, Store!lifecycleVars
<1>1. PICK w \in Workers : Request(w) \/ Step(w) \/ Crash(w)
  BY DEF Next, NextUncrashed, CorpusChanges, vars
<1>2. CASE Request(w)
  BY <1>2 DEF Request, Start, SeedRun, Create, Resume, Store!Next
<1>3. CASE Step(w)
  <2>1. \/ \E s \in {"running", "waiting_approval"} : Store!Validate(w, s)
        \/ Store!CompareAndSet(w) \/ Store!LoseRace(w)
        \/ Store!GetRun(w, runOf(w)) /\ ~At(w, "idle")
        \/ Store!Drop(w)
    BY <1>3 DEF Step, BeginRunning, SetRunning, ReturnExisting, SetProvenance, InvokeGraph,
       ModelFails, PersistFinds, Refresh, PersistMisses, ReadLatest, Insert, InsertCollides,
       Abstain, Bind, BindCollides, BeginWaiting, RefuseWaiting, SetWaiting, LoseWaiting, Reread,
       Respond, Reset, At
  <2>2. ~At(w, "idle") => runOf(w) \in Runs
    BY StoreFacts DEF IInv, WorkersAreCoherent, WorkerIsCoherent
  <2>3. {"running", "waiting_approval"} \subseteq Store!RunStatus
    BY DEF Store!RunStatus
  <2> QED BY <2>1, <2>2, <2>3 DEF Store!Next
<1>4. CASE Crash(w)
  BY <1>4 DEF Crash, Reset, Store!Next
<1> QED BY <1>1, <1>2, <1>3, <1>4

(* So the run store's invariant is preserved. *)
LEMMA StepsKeepStore ==
  ASSUME IInv, [Next]_vars
  PROVE  StoreInv'
<1>1. [Store!Next]_(Store!lifecycleVars)
  BY StepsUseStore
<1>2. [Lifecycle!Next]_(Lifecycle!lifecycleVars)
  BY <1>1, SameStore
    DEF Store!Next, Lifecycle!Next, Store!lifecycleVars, Lifecycle!lifecycleVars,
        Store!CreateRun, Lifecycle!CreateRun, Store!NewRow, Lifecycle!NewRow,
        Store!RecordCreation, Lifecycle!RecordCreation, Store!GetRun, Lifecycle!GetRun,
        Store!Validate, Lifecycle!Validate, Store!ValidRunTransition,
        Lifecycle!ValidRunTransition, Store!AllowedTransitions, Lifecycle!AllowedTransitions,
        Store!TERMINAL_RUN_STATES, Lifecycle!TERMINAL_RUN_STATES,
        Store!CompareAndSet, Lifecycle!CompareAndSet, Store!AtExpectedVersion,
        Lifecycle!AtExpectedVersion, Store!NextVersion, Lifecycle!NextVersion,
        Store!LoseRace, Lifecycle!LoseRace, Store!Drop, Lifecycle!Drop
<1> QED BY <1>2, StoreAssumption, Lifecycle!StepIInv DEF IInv, StoreInv

------------------------------------------------------------------------------
(* What the operations of the run store do to runs and trails. *)

(* No run disappears, no event is changed or removed. *)
RunsGrow ==
  \A r \in Runs :
    /\ run[r] # Store!NoRow => run'[r] # Store!NoRow
    /\ \A i \in DOMAIN audit[r] : i \in DOMAIN audit'[r] /\ audit'[r][i] = audit[r][i]

(* An event more on a trail changes none of the events before. *)
LEMMA TrailGrows ==
  ASSUME StoreInv, NEW r \in Runs, NEW e \in Store!Event,
         audit' = [audit EXCEPT ![r] = Append(@, e)]
  PROVE  /\ \A q \in Runs : \A i \in DOMAIN audit[q] :
              i \in DOMAIN audit'[q] /\ audit'[q][i] = audit[q][i]
         /\ \A q \in Runs :
              HasWaited(q)' => HasWaited(q) \/ (q = r /\ e.to = "waiting_approval")
<1>1. /\ audit'[r] = Append(audit[r], e) /\ audit[r] \in Seq(Store!Event)
      /\ \A q \in Runs \ {r} : audit'[q] = audit[q]
  BY StoreFacts DEF Store!TypeOK
<1>2. /\ DOMAIN audit[r] = 1 .. Len(audit[r]) /\ Len(audit[r]) \in Nat
      /\ DOMAIN audit'[r] = 1 .. Len(audit[r]) + 1
      /\ \A i \in 1 .. Len(audit[r]) : audit'[r][i] = audit[r][i]
      /\ audit'[r][Len(audit[r]) + 1] = e
  BY <1>1
<1>3. \A i \in DOMAIN audit[r] : i \in DOMAIN audit'[r] /\ audit'[r][i] = audit[r][i]
  BY <1>2
<1>4. HasWaited(r)' => HasWaited(r) \/ e.to = "waiting_approval"
  <2> SUFFICES ASSUME NEW i \in DOMAIN audit'[r], audit'[r][i].to = "waiting_approval"
               PROVE  HasWaited(r) \/ e.to = "waiting_approval"
    BY DEF HasWaited
  <2>1. i \in DOMAIN audit[r] \/ i = Len(audit[r]) + 1
    BY <1>2
  <2> QED BY <1>2, <1>3, <2>1 DEF HasWaited
<1>5. \A q \in Runs \ {r} : HasWaited(q)' <=> HasWaited(q)
  BY <1>1 DEF HasWaited
<1> QED BY <1>1, <1>3, <1>4, <1>5

(* A new run has not waited for anything. *)
LEMMA CreateRunEffect ==
  ASSUME StoreInv, NEW w \in Workers, NEW r \in Runs, Store!CreateRun(w, r)
  PROVE  /\ RunsGrow
         /\ \A q \in Runs : HasWaited(q)' => HasWaited(q)
         /\ run[r] = Store!NoRow
         /\ held'[w] # Store!NoRecord /\ runOf(w)' = r
         /\ call[w] = Store!Idle /\ UNCHANGED call
         /\ \A d \in Workers \ {w} : held'[d] = held[d]
<1> DEFINE e == [from |-> "absent", to |-> "queued", fromVersion |-> 0, toVersion |-> 1]
<1>1. e \in Store!Event /\ e.to # "waiting_approval"
  BY DEF Store!Event, Store!RunStatus
<1>2. audit' = [audit EXCEPT ![r] = Append(@, e)]
  BY DEF Store!CreateRun, Store!RecordCreation
<1> HIDE DEF e
<1>3. /\ run' = [run EXCEPT ![r] = Store!NewRow] /\ Store!NewRow # Store!NoRow
      /\ held' = [held EXCEPT ![w] = [run |-> r, version |-> 1]]
      /\ [run |-> r, version |-> 1] # Store!NoRecord
  BY OrchestrationAssumption DEF Store!CreateRun, Store!NewRow, Store!NoRow, Store!NoRecord
<1>4. RunsGrow /\ \A q \in Runs : HasWaited(q)' => HasWaited(q)
  BY <1>1, <1>2, <1>3, TrailGrows, StoreFacts DEF RunsGrow, Store!TypeOK
<1>5. /\ held'[w] # Store!NoRecord /\ runOf(w)' = r
      /\ \A d \in Workers \ {w} : held'[d] = held[d]
  BY <1>3, StoreFacts DEF runOf, Store!TypeOK
<1> QED BY <1>4, <1>5 DEF Store!CreateRun

(* A read of a run is of a run that exists, and what the record says is in its
   trail. *)
LEMMA GetRunEffect ==
  ASSUME StoreInv, NEW w \in Workers, NEW r \in Runs, Store!GetRun(w, r)
  PROVE  /\ UNCHANGED <<run, audit, call>> /\ run[r] # Store!NoRow
         /\ held'[w] # Store!NoRecord /\ runOf(w)' = r
         /\ HeldStatus(w)' = "waiting_approval" => HasWaited(r)
         /\ call[w] = Store!Idle
         /\ \A d \in Workers \ {w} : held'[d] = held[d]
<1>1. /\ held'[w] = [run |-> r, version |-> run[r].version]
      /\ \A d \in Workers \ {w} : held'[d] = held[d]
      /\ UNCHANGED <<run, audit, call>> /\ run[r] # Store!NoRow /\ call[w] = Store!Idle
  BY StoreFacts DEF Store!GetRun, Store!TypeOK
<1>2. held'[w].run = r /\ held'[w].version = run[r].version
  BY <1>1
<1>3. held'[w] # Store!NoRecord
  BY <1>2, OrchestrationAssumption DEF Store!NoRecord
<1>4. HeldStatus(w)' = audit[r][run[r].version].to
  BY <1>1, <1>2 DEF HeldStatus, runOf
<1>5. run[r].version \in DOMAIN audit[r]
  BY <1>1, StoreFacts
<1> QED BY <1>1, <1>2, <1>3, <1>4, <1>5 DEF HasWaited, runOf

(* A transition that succeeds moves the run its worker holds to the state the
   worker asked for. *)
LEMMA CompareAndSetEffect ==
  ASSUME StoreInv, NEW w \in Workers, Store!CompareAndSet(w)
  PROVE  /\ RunsGrow
         /\ \A q \in Runs : HasWaited(q)' =>
              HasWaited(q) \/ (q = runOf(w) /\ call[w].target = "waiting_approval")
         /\ held[w] # Store!NoRecord /\ held'[w] # Store!NoRecord /\ runOf(w)' = runOf(w)
         /\ call[w] # Store!Idle /\ call'[w] = Store!Idle
         /\ \A d \in Workers \ {w} : held'[d] = held[d] /\ call'[d] = call[d]
<1> DEFINE r == runOf(w)
           next == run[r].version + 1
           e == [from |-> call[w].current.status, to |-> call[w].target,
                 fromVersion |-> held[w].version, toVersion |-> next]
<1>1. /\ call[w] # Store!Idle
      /\ run' = [run EXCEPT ![r] = [status |-> call[w].target, version |-> next]]
      /\ audit' = [audit EXCEPT ![r] = Append(@, e)]
      /\ held' = [held EXCEPT ![w] = [run |-> r, version |-> next]]
      /\ call' = [call EXCEPT ![w] = Store!Idle]
  BY DEF Store!CompareAndSet, Store!NextVersion, runOf
<1>2. held[w] # Store!NoRecord
  BY <1>1, SameStore DEF StoreInv, Lifecycle!IInv, Lifecycle!ValidationHolds
<1>3. /\ held[w] \in Store!Record /\ r \in Runs /\ run[r] \in Store!Row
      /\ call[w] \in [phase : {"checked"}, target : Store!RunStatus, current : Store!Row]
      /\ run \in [Runs -> Store!Row \cup {Store!NoRow}]
      /\ held \in [Workers -> Store!Record \cup {Store!NoRecord}]
      /\ call \in [Workers -> Store!Call]
  BY <1>1, <1>2, StoreFacts DEF Store!TypeOK, Store!Call
<1>4. next \in Nat \ {0} /\ e \in Store!Event /\ e.to = call[w].target
  BY <1>3 DEF Store!Event, Store!Row, Store!Record
<1>5. /\ [status |-> call[w].target, version |-> next] # Store!NoRow
      /\ [run |-> r, version |-> next] # Store!NoRecord
  BY <1>4 DEF Store!NoRow, Store!NoRecord
<1> HIDE DEF e, next, r
<1>6. RunsGrow /\ \A q \in Runs : HasWaited(q)' =>
        HasWaited(q) \/ (q = r /\ call[w].target = "waiting_approval")
  BY <1>1, <1>3, <1>4, <1>5, TrailGrows DEF RunsGrow
<1>7. /\ held'[w] = [run |-> r, version |-> next] /\ held'[w].run = r
      /\ call'[w] = Store!Idle
      /\ \A d \in Workers \ {w} : held'[d] = held[d] /\ call'[d] = call[d]
  BY <1>1, <1>3
<1> QED BY <1>1, <1>2, <1>5, <1>6, <1>7 DEF r, runOf

------------------------------------------------------------------------------
(* What a step of one worker leaves to the others. *)

(* What no step takes back: a run's task, a proposal's task and number, that a
   proposal is ready, a run's provenance, its trail, how many proposals a task has. *)
Grows ==
  /\ RunsGrow
  /\ \A r \in Runs : run[r] # Store!NoRow => taskOf'[r] = taskOf[r]
  /\ \A r \in Runs : Recorded(r) => /\ Recorded(r)'
                                    /\ proposal'[r].task = proposal[r].task
                                    /\ proposal'[r].version = proposal[r].version
                                    /\ IsReady(r) => IsReady(r)'
  /\ provenance \subseteq provenance'
  /\ \A t \in Tasks : Cardinality(OfTask(t)) \in Nat /\ Cardinality(OfTask(t))' \in Nat
                       /\ Cardinality(OfTask(t)) <= Cardinality(OfTask(t))'

LocalTypes == /\ pc \in [Workers -> Steps] /\ task \in [Workers -> Tasks \cup {NoTask}]
              /\ latest \in [Workers -> Nat]
              /\ seen \in [Workers -> Proposal \cup {NoProposal}]

OthersStay(w) ==
  \A d \in Workers \ {w} :
    /\ pc'[d] = pc[d] /\ held'[d] = held[d] /\ call'[d] = call[d]
    /\ task'[d] = task[d] /\ latest'[d] = latest[d] /\ seen'[d] = seen[d]

(* A proposal that is ready has been recorded. *)
LEMMA ReadyIsRecorded == ASSUME NEW r \in Runs, IsReady(r) PROVE Recorded(r)
BY DEF IsReady, Recorded, NoProposal

(* A worker that holds a run sees the same of it later. *)
LEMMA SightLasts ==
  ASSUME IInv, NEW d \in Workers, Grows, held[d] # Store!NoRecord,
         held'[d] = held[d], task'[d] = task[d], seen'[d] = seen[d], SawItsOwn(d)
  PROVE  SawItsOwn(d)'
<1>1. runOf(d) \in Runs /\ runOf(d)' = runOf(d)
  BY StoreFacts DEF IInv, runOf
<1> QED BY <1>1 DEF SawItsOwn, Grows

(* What one worker does leaves the others coherent. *)
LEMMA OthersAreCoherent ==
  ASSUME IInv, NEW w \in Workers, Grows, OthersStay(w), WorkerIsCoherent(w)'
  PROVE  WorkersAreCoherent'
<1> SUFFICES ASSUME NEW d \in Workers, d # w PROVE WorkerIsCoherent(d)'
  BY DEF WorkersAreCoherent
<1>1. /\ pc'[d] = pc[d] /\ held'[d] = held[d] /\ call'[d] = call[d]
      /\ task'[d] = task[d] /\ latest'[d] = latest[d] /\ seen'[d] = seen[d]
      /\ runOf(d)' = runOf(d)
  BY DEF OthersStay, runOf
<1>2. WorkerIsCoherent(d) /\ latest[d] \in Nat
  BY DEF IInv, WorkersAreCoherent, TypeOK
<1>3. CASE At(d, "idle")
  BY <1>1, <1>2, <1>3 DEF WorkerIsCoherent, At, Working
<1>4. CASE ~At(d, "idle")
  <2>1. /\ held[d] # Store!NoRecord /\ runOf(d) \in Runs /\ run[runOf(d)] # Store!NoRow
    BY <1>2, <1>4, StoreFacts DEF WorkerIsCoherent, IInv, Store!Row, Store!NoRow
  <2>2. SawItsOwn(d) => SawItsOwn(d)'
    BY <1>1, <2>1, SightLasts
  <2>3. IsReady(runOf(d)) => IsReady(runOf(d))'
    BY <1>1, <2>1, ReadyIsRecorded DEF Grows, IsReady
  <2>4. taskOf'[runOf(d)] = taskOf[runOf(d)]
    BY <2>1 DEF Grows
  <2>5. At(d, "insert") => latest'[d] <= Cardinality(OfTask(task[d]))'
    BY <1>1, <1>2 DEF WorkerIsCoherent, Grows, At, Working
  <2>6. runOf(d) \in provenance => runOf(d) \in provenance'
    BY DEF Grows
  <2> QED
    BY <1>1, <1>2, <1>4, <2>1, <2>2, <2>3, <2>4, <2>5, <2>6
      DEF WorkerIsCoherent, At, Working, OfTask
<1> QED BY <1>3, <1>4

(* A step that writes no proposal and no evidence, and lets no run wait that did
   not, leaves the tables in order. *)
LEMMA TablesStay ==
  ASSUME IInv, RunsGrow, UNCHANGED <<proposal, evidence>>, provenance \subseteq provenance',
         \A r \in Runs : run[r] # Store!NoRow => taskOf'[r] = taskOf[r],
         \A r \in Runs : HasWaited(r)' => HasWaited(r) \/ IsReady(r)
  PROVE  VersionsAreInOrder' /\ ProposalsAreOwn' /\ Grows
<1>1. VersionsAreInOrder'
  <2>1. ASSUME NEW t \in Tasks
        PROVE  OfTask(t)' = OfTask(t) /\ TaskVersions(t)' = TaskVersions(t)
    BY DEF OfTask, TaskVersions
  <2> QED BY <2>1 DEF IInv, VersionsAreInOrder
<1>2. ProposalsAreOwn'
  BY DEF IInv, ProposalsAreOwn, IsReady, Recorded, RunsGrow
<1>3. \A t \in Tasks : /\ Cardinality(OfTask(t)) \in Nat
                       /\ Cardinality(OfTask(t))' = Cardinality(OfTask(t))
  BY FS_CardinalityType DEF IInv, VersionsAreInOrder, OfTask
<1>4. Grows
  BY <1>3 DEF Grows, IsReady, Recorded
<1> QED BY <1>1, <1>2, <1>4

(* A step of one worker that leaves the tables in order preserves the invariant when
   it keeps the types and leaves the worker coherent. *)
LEMMA QuietStep ==
  ASSUME IInv, StoreInv', NEW w \in Workers, OthersStay(w), WorkerIsCoherent(w)',
         RunsGrow, UNCHANGED <<proposal, evidence, match>>,
         provenance \subseteq provenance', provenance' \subseteq Runs,
         taskOf' \in [Runs -> Tasks \cup {NoTask}],
         \A r \in Runs : run[r] # Store!NoRow => taskOf'[r] = taskOf[r],
         \A r \in Runs : HasWaited(r)' => HasWaited(r) \/ IsReady(r),
         LocalTypes'
  PROVE  IInv'
<1>1. Store!TypeOK'
  BY SameStore DEF StoreInv, Lifecycle!IInv, Lifecycle!TypeOK, Store!TypeOK
<1>2. TypeOK'
  BY <1>1 DEF IInv, TypeOK, LocalTypes
<1>3. VersionsAreInOrder' /\ ProposalsAreOwn' /\ Grows
  BY TablesStay
<1>4. WorkersAreCoherent'
  BY <1>3, OthersAreCoherent
<1> QED BY <1>2, <1>3, <1>4 DEF IInv

(* As before, when the step does not touch the runs either: what a worker does with
   its own request. *)
LEMMA LocalStep ==
  ASSUME IInv, StoreInv', NEW w \in Workers, OthersStay(w), WorkerIsCoherent(w)',
         UNCHANGED <<run, audit, taskOf, proposal, evidence, match>>,
         provenance \subseteq provenance', provenance' \subseteq Runs, LocalTypes'
  PROVE  IInv'
<1>1. /\ RunsGrow
      /\ \A r \in Runs : HasWaited(r)' => HasWaited(r)
  BY DEF RunsGrow, HasWaited
<1>2. taskOf' \in [Runs -> Tasks \cup {NoTask}]
  BY DEF IInv, TypeOK
<1> QED BY <1>1, <1>2, QuietStep

(* A worker that is not idle holds a run that exists. *)
LEMMA HoldsRun ==
  ASSUME IInv, NEW w \in Workers, ~At(w, "idle")
  PROVE  held[w] # Store!NoRecord /\ runOf(w) \in Runs /\ run[runOf(w)] # Store!NoRow
BY StoreFacts DEF IInv, WorkersAreCoherent, WorkerIsCoherent, Store!Row, Store!NoRow

------------------------------------------------------------------------------
(* The invariant holds initially and every action preserves it. *)

(* No run has been created and no worker has a request. *)
LEMMA InitIInv == Init => IInv
<1> SUFFICES ASSUME Init PROVE IInv
  OBVIOUS
<1>1. StoreInv
  <2>1. Lifecycle!Init
    BY SameStore DEF Init, Store!Init, Lifecycle!Init
  <2> QED BY <2>1, StoreAssumption, Lifecycle!InitIInv DEF StoreInv
<1>2. TypeOK
  BY <1>1, StoreFacts DEF Init, TypeOK, Steps
<1>3. ASSUME NEW t \in Tasks PROVE OfTask(t) = {} /\ TaskVersions(t) = {}
  BY OrchestrationAssumption DEF Init, OfTask, TaskVersions, NoProposal
<1>4. VersionsAreInOrder
  <2>1. 1 .. 0 = {}
    OBVIOUS
  <2> QED BY <1>3, <2>1, FS_EmptySet DEF VersionsAreInOrder
<1>5. ProposalsAreOwn
  BY DEF Init, Store!Init, ProposalsAreOwn, Recorded, HasWaited, IsReady, NoProposal
<1>6. WorkersAreCoherent
  BY DEF Init, Store!Init, WorkersAreCoherent, WorkerIsCoherent, At, Working
<1> QED BY <1>1, <1>2, <1>4, <1>5, <1>6 DEF IInv

(* A new run is its worker's alone. *)
LEMMA CreateIInv ==
  ASSUME IInv, StoreInv', NEW w \in Workers, NEW t \in Tasks, NEW r \in Runs,
         Start(w, t, r) \/ SeedRun(w, t, r)
  PROVE  IInv'
<1>1. /\ Store!CreateRun(w, r) /\ taskOf' = [taskOf EXCEPT ![r] = t] /\ At(w, "idle")
      /\ UNCHANGED <<proposal, evidence, provenance, match, latest, seen>>
  BY DEF Start, SeedRun, Create
<1>2. /\ RunsGrow /\ run[r] = Store!NoRow
      /\ \A q \in Runs : HasWaited(q)' => HasWaited(q)
      /\ held'[w] # Store!NoRecord /\ runOf(w)' = r
      /\ call[w] = Store!Idle /\ UNCHANGED call
      /\ \A d \in Workers \ {w} : held'[d] = held[d]
  BY <1>1, CreateRunEffect DEF IInv
<1>3. /\ taskOf' \in [Runs -> Tasks \cup {NoTask}] /\ taskOf'[r] = t
      /\ \A q \in Runs : run[q] # Store!NoRow => taskOf'[q] = taskOf[q]
  BY <1>1, <1>2 DEF IInv, TypeOK
<1>4. seen[w] = NoProposal
  BY <1>1 DEF IInv, WorkersAreCoherent, WorkerIsCoherent
<1>5. OthersStay(w) /\ WorkerIsCoherent(w)' /\ LocalTypes'
  <2>1. CASE Start(w, t, r)
    <3>1. pc' = [pc EXCEPT ![w] = "created"] /\ task' = [task EXCEPT ![w] = t]
      BY <2>1 DEF Start, Goto
    <3>2. pc'[w] = "created" /\ task'[w] = t
      BY <3>1 DEF IInv, TypeOK
    <3>3. WorkerIsCoherent(w)'
      BY <1>2, <1>3, <3>2 DEF WorkerIsCoherent, At, Working
    <3> QED BY <1>1, <1>2, <3>1, <3>3 DEF IInv, TypeOK, OthersStay, LocalTypes, Steps
  <2>2. CASE SeedRun(w, t, r)
    <3>1. pc' = [pc EXCEPT ![w] = "reply"] /\ UNCHANGED task
      BY <2>2 DEF SeedRun, Goto
    <3>2. pc'[w] = "reply"
      BY <3>1 DEF IInv, TypeOK
    <3>3. WorkerIsCoherent(w)'
      BY <1>1, <1>2, <1>4, <3>2 DEF WorkerIsCoherent, At, Working
    <3> QED BY <1>1, <1>2, <3>1, <3>3 DEF IInv, TypeOK, OthersStay, LocalTypes, Steps
  <2> QED BY <2>1, <2>2
<1>6. provenance \subseteq provenance' /\ provenance' \subseteq Runs
  BY <1>1 DEF IInv, TypeOK
<1> QED BY <1>1, <1>2, <1>3, <1>5, <1>6, QuietStep

(* A run that is resumed is of the request's task. *)
LEMMA ResumeIInv ==
  ASSUME IInv, StoreInv', NEW w \in Workers, NEW t \in Tasks, NEW r \in Runs,
         Resume(w, t, r)
  PROVE  IInv'
<1>1. /\ Store!GetRun(w, r) /\ taskOf[r] = t
      /\ pc' = [pc EXCEPT ![w] = "check"] /\ task' = [task EXCEPT ![w] = t]
      /\ UNCHANGED <<taskOf, proposal, evidence, provenance, match, latest, seen>>
  BY DEF Resume, BelongsTo, Goto, tables
<1>2. /\ UNCHANGED <<run, audit, call>> /\ held'[w] # Store!NoRecord /\ runOf(w)' = r
      /\ call[w] = Store!Idle /\ \A d \in Workers \ {w} : held'[d] = held[d]
  BY <1>1, GetRunEffect DEF IInv
<1>3. /\ pc'[w] = "check" /\ task'[w] = t /\ OthersStay(w) /\ LocalTypes'
      /\ provenance' \subseteq Runs
  BY <1>1, <1>2 DEF IInv, TypeOK, OthersStay, LocalTypes, Steps
<1>4. WorkerIsCoherent(w)'
  BY <1>1, <1>2, <1>3 DEF WorkerIsCoherent, At, Working
<1> QED BY <1>1, <1>2, <1>3, <1>4, LocalStep

(* A transition a worker has begun is the one its place in the request calls for. *)
LEMMA BeginIInv ==
  ASSUME IInv, StoreInv', NEW w \in Workers, BeginRunning(w) \/ BeginWaiting(w)
  PROVE  IInv'
<1>1. /\ \/ At(w, "created") /\ Store!Validate(w, "running")
         \/ At(w, "bound") /\ Store!Validate(w, "waiting_approval")
      /\ UNCHANGED <<taskOf, proposal, evidence, provenance, match, pc, task, latest, seen>>
  BY DEF BeginRunning, BeginWaiting, tables, locals
<1>2. ASSUME NEW target, Store!Validate(w, target)
      PROVE  /\ UNCHANGED <<run, audit, held>> /\ call'[w].target = target
             /\ \A d \in Workers \ {w} : call'[d] = call[d]
  <2>1. call \in [Workers -> Store!Call]
    BY StoreFacts DEF IInv, Store!TypeOK
  <2> QED BY <1>2, <2>1 DEF Store!Validate
<1>3. /\ UNCHANGED <<run, audit, held>>
      /\ \/ At(w, "created") /\ call'[w].target = "running"
         \/ At(w, "bound") /\ call'[w].target = "waiting_approval"
      /\ \A d \in Workers \ {w} : call'[d] = call[d]
  BY <1>1, <1>2
<1>4. WorkerIsCoherent(w)'
  BY <1>1, <1>3 DEF IInv, WorkersAreCoherent, WorkerIsCoherent, At, Working, runOf, IsReady
<1>5. OthersStay(w) /\ LocalTypes' /\ provenance' \subseteq Runs
  BY <1>1, <1>3 DEF IInv, TypeOK, OthersStay, LocalTypes
<1> QED BY <1>1, <1>3, <1>4, <1>5, LocalStep

(* A run waits only when its worker has bound evidence to its proposal. *)
LEMMA SetIInv ==
  ASSUME IInv, StoreInv', NEW w \in Workers, SetRunning(w) \/ SetWaiting(w)
  PROVE  IInv'
<1>1. /\ Store!CompareAndSet(w)
      /\ \/ At(w, "created") /\ pc' = [pc EXCEPT ![w] = "check"]
         \/ At(w, "bound") /\ pc' = [pc EXCEPT ![w] = "reread"]
      /\ UNCHANGED <<taskOf, proposal, evidence, provenance, match, task, latest, seen>>
  BY DEF SetRunning, SetWaiting, tables, locals, Goto
<1>2. /\ RunsGrow
      /\ \A q \in Runs : HasWaited(q)' =>
           HasWaited(q) \/ (q = runOf(w) /\ call[w].target = "waiting_approval")
      /\ held[w] # Store!NoRecord /\ held'[w] # Store!NoRecord /\ runOf(w)' = runOf(w)
      /\ call[w] # Store!Idle /\ call'[w] = Store!Idle
      /\ \A d \in Workers \ {w} : held'[d] = held[d] /\ call'[d] = call[d]
  BY <1>1, CompareAndSetEffect DEF IInv
<1>3. WorkerIsCoherent(w)
  BY DEF IInv, WorkersAreCoherent
<1>4. \A r \in Runs : HasWaited(r)' => HasWaited(r) \/ IsReady(r)
  <2>1. call[w].target = "waiting_approval" => At(w, "bound")
    BY <1>2, <1>3 DEF WorkerIsCoherent
  <2>2. At(w, "bound") => IsReady(runOf(w))
    BY <1>3 DEF WorkerIsCoherent, At
  <2> QED BY <1>2, <2>1, <2>2
<1>5. /\ OthersStay(w) /\ LocalTypes' /\ provenance' \subseteq Runs
      /\ taskOf' \in [Runs -> Tasks \cup {NoTask}]
  BY <1>1, <1>2 DEF OthersStay, IInv, TypeOK, LocalTypes, Steps
<1>6. \/ At(w, "created") /\ pc'[w] = "check"
      \/ At(w, "bound") /\ pc'[w] = "reread"
  BY <1>1 DEF IInv, TypeOK
<1>7. WorkerIsCoherent(w)'
  BY <1>1, <1>2, <1>3, <1>6 DEF WorkerIsCoherent, At, Working, IsReady
<1> QED BY <1>1, <1>2, <1>4, <1>5, <1>7, QuietStep

(* A worker that only goes on keeps what it has. *)
LEMMA MovesIInv ==
  ASSUME IInv, StoreInv', NEW w \in Workers,
         \/ InvokeGraph(w) \/ ModelFails(w) \/ PersistMisses(w) \/ InsertCollides(w)
         \/ Abstain(w) \/ BindCollides(w) \/ RefuseWaiting(w)
  PROVE  IInv'
<1>1. /\ UNCHANGED <<storeVars, tables, locals>>
      /\ \/ pc[w] = "graph" /\ pc' = [pc EXCEPT ![w] = "persist"]
         \/ pc[w] = "persist" /\ pc' = [pc EXCEPT ![w] = "latest"]
         \/ pc[w] = "retrieve" /\ pc' = [pc EXCEPT ![w] = "reply"]
         \/ /\ ~At(w, "idle") /\ pc' = [pc EXCEPT ![w] = "failed"]
            /\ call[w] = Store!Idle \/ pc[w] \notin {"created", "bound"}
  BY DEF InvokeGraph, ModelFails, PersistMisses, InsertCollides, Abstain, BindCollides,
     RefuseWaiting, Goto, At
<1>2. UNCHANGED <<run, audit, held, call, taskOf, proposal, evidence, provenance, match,
                  task, latest, seen>>
  BY <1>1 DEF storeVars, tables, locals
<1>3. OthersStay(w) /\ LocalTypes' /\ provenance' \subseteq Runs
  BY <1>1, <1>2 DEF IInv, TypeOK, OthersStay, LocalTypes, Steps
<1>4. \/ pc[w] = "graph" /\ pc'[w] = "persist"
      \/ pc[w] = "persist" /\ pc'[w] = "latest"
      \/ pc[w] = "retrieve" /\ pc'[w] = "reply"
      \/ /\ ~At(w, "idle") /\ pc'[w] = "failed"
         /\ call[w] = Store!Idle \/ pc[w] \notin {"created", "bound"}
  BY <1>1 DEF IInv, TypeOK
<1>5. SawItsOwn(w)' <=> SawItsOwn(w)
  BY <1>2 DEF SawItsOwn, Recorded, runOf
<1>6. WorkerIsCoherent(w)
  BY DEF IInv, WorkersAreCoherent
<1>7. WorkerIsCoherent(w)'
  BY <1>2, <1>4, <1>5, <1>6 DEF WorkerIsCoherent, At, Working, runOf
<1> QED BY <1>2, <1>3, <1>7, LocalStep

(* The provenance is the run's before the graph is invoked. *)
LEMMA SetProvenanceIInv ==
  ASSUME IInv, StoreInv', NEW w \in Workers, SetProvenance(w)
  PROVE  IInv'
<1>1. /\ pc[w] = "check" /\ provenance' = provenance \cup {runOf(w)}
      /\ pc' = [pc EXCEPT ![w] = "graph"]
      /\ UNCHANGED <<run, audit, held, call, taskOf, proposal, evidence, match,
                     task, latest, seen>>
  BY DEF SetProvenance, Goto, At, storeVars, locals
<1>2. runOf(w) \in Runs
  BY <1>1, HoldsRun DEF At
<1>3. OthersStay(w) /\ LocalTypes' /\ provenance' \subseteq Runs /\ pc'[w] = "graph"
  BY <1>1, <1>2 DEF IInv, TypeOK, OthersStay, LocalTypes, Steps
<1>4. WorkerIsCoherent(w)'
  BY <1>1, <1>3 DEF IInv, WorkersAreCoherent, WorkerIsCoherent, At, Working, runOf
<1> QED BY <1>1, <1>3, <1>4, LocalStep

(* The highest version a worker reads is the number of the task's proposals. *)
LEMMA LatestIsCount ==
  ASSUME IInv, NEW t \in Tasks
  PROVE  /\ MaxOrZero(TaskVersions(t)) = Cardinality(OfTask(t))
         /\ Cardinality(OfTask(t)) \in Nat
<1> DEFINE n == Cardinality(OfTask(t))
<1>1. TaskVersions(t) = 1 .. n /\ n \in Nat
  BY FS_CardinalityType DEF IInv, VersionsAreInOrder
<1> HIDE DEF n
<1>2. CASE n = 0
  <2>1. 1 .. n = {}
    BY <1>2
  <2> QED BY <1>1, <1>2, <2>1 DEF MaxOrZero, n
<1>3. CASE n # 0
  <2>1. n \in 1 .. n /\ \A m \in 1 .. n : m <= n
    BY <1>1, <1>3
  <2>2. \A k \in 1 .. n : (\A m \in 1 .. n : m <= k) => k = n
    BY <1>1, <2>1
  <2>3. (CHOOSE k \in 1 .. n : \A m \in 1 .. n : m <= k) = n
    BY <2>1, <2>2
  <2> QED BY <1>1, <2>1, <2>3 DEF MaxOrZero, n
<1> QED BY <1>2, <1>3

(* So what the worker read is not above it. *)
LEMMA ReadLatestIInv ==
  ASSUME IInv, StoreInv', NEW w \in Workers, ReadLatest(w)
  PROVE  IInv'
<1> DEFINE n == Cardinality(OfTask(task[w]))
<1>1. /\ pc[w] = "latest" /\ pc' = [pc EXCEPT ![w] = "insert"]
      /\ UNCHANGED <<run, audit, held, call, taskOf, proposal, evidence, provenance, match,
                     task, seen>>
  BY DEF ReadLatest, Goto, At, storeVars, tables
<1>2. WorkerIsCoherent(w) /\ task[w] \in Tasks
  BY <1>1 DEF IInv, WorkersAreCoherent, WorkerIsCoherent, Working
<1>3. latest' = [latest EXCEPT ![w] = n] /\ n \in Nat
  BY <1>2, LatestIsCount DEF ReadLatest
<1>4. OfTask(task[w])' = OfTask(task[w])
  BY <1>1 DEF OfTask
<1> HIDE DEF n
<1>5. /\ OthersStay(w) /\ LocalTypes' /\ provenance' \subseteq Runs
      /\ pc'[w] = "insert" /\ latest'[w] = n
  BY <1>1, <1>3 DEF IInv, TypeOK, OthersStay, LocalTypes, Steps
<1>6. latest'[w] <= Cardinality(OfTask(task[w]))'
  BY <1>3, <1>4, <1>5 DEF n
<1>7. WorkerIsCoherent(w)'
  BY <1>1, <1>2, <1>5, <1>6 DEF WorkerIsCoherent, At, Working, runOf
<1> QED BY <1>1, <1>5, <1>7, LocalStep

(* A recorded proposal is its run's task's and has its type. *)
LEMMA RecordedIsOwn ==
  ASSUME IInv, NEW r \in Runs, Recorded(r)
  PROVE  /\ proposal[r] \in Proposal /\ proposal[r].task = taskOf[r] /\ r \in provenance
         /\ run[r] # Store!NoRow
BY DEF IInv, TypeOK, ProposalsAreOwn, Recorded

(* The proposal a request finds is its own task's and run's. *)
LEMMA FindsIInv ==
  ASSUME IInv, StoreInv', NEW w \in Workers, ReturnExisting(w) \/ PersistFinds(w) \/ Reread(w)
  PROVE  IInv'
<1> DEFINE r == runOf(w)
<1>1. /\ UNCHANGED <<run, audit, held, call, taskOf, proposal, evidence, provenance, match,
                     task, latest>>
      /\ \/ pc[w] = "check" /\ Recorded(r) /\ pc' = [pc EXCEPT ![w] = "reply"]
         \/ pc[w] = "persist" /\ Recorded(r) /\ pc' = [pc EXCEPT ![w] = "refresh"]
         \/ pc[w] = "reread" /\ pc' = [pc EXCEPT ![w] = "reply"]
      /\ seen' = [seen EXCEPT ![w] = proposal[r]]
  BY DEF ReturnExisting, PersistFinds, Reread, Goto, At, Holds, storeVars, tables
<1>2. WorkerIsCoherent(w) /\ pc[w] \in Working \ {"idle"} /\ call[w] = Store!Idle
  BY <1>1 DEF IInv, WorkersAreCoherent, WorkerIsCoherent, At, Working
<1>3. held[w] # Store!NoRecord /\ r \in Runs
  BY <1>2, HoldsRun DEF At
<1>4. Recorded(r)
  BY <1>1, <1>2, <1>3, ReadyIsRecorded DEF WorkerIsCoherent
<1>5. proposal[r] \in Proposal /\ proposal[r].task = task[w]
  BY <1>2, <1>3, <1>4, RecordedIsOwn DEF WorkerIsCoherent
<1>6. runOf(w)' = r
  BY <1>1 DEF runOf
<1> HIDE DEF r
<1>7. /\ OthersStay(w) /\ LocalTypes' /\ provenance' \subseteq Runs
      /\ pc'[w] \in {"reply", "refresh"} /\ seen'[w] = proposal[r]
  BY <1>1, <1>5 DEF IInv, TypeOK, OthersStay, LocalTypes, Steps
<1>8. SawItsOwn(w)'
  BY <1>1, <1>4, <1>5, <1>6, <1>7 DEF SawItsOwn, Recorded
<1>9. WorkerIsCoherent(w)'
  BY <1>1, <1>2, <1>3, <1>6, <1>7, <1>8 DEF WorkerIsCoherent, At, Working, r
<1> QED BY <1>1, <1>7, <1>9, LocalStep

(* The run is read again and is still the request's own. *)
LEMMA RefreshIInv ==
  ASSUME IInv, StoreInv', NEW w \in Workers, Refresh(w)
  PROVE  IInv'
<1> DEFINE r == runOf(w)
<1>1. /\ pc[w] = "refresh" /\ pc' = [pc EXCEPT ![w] = "retrieve"] /\ Store!GetRun(w, r)
      /\ UNCHANGED <<taskOf, proposal, evidence, provenance, match, task, latest, seen>>
  BY DEF Refresh, Goto, At, tables, locals
<1>2. WorkerIsCoherent(w)
  BY DEF IInv, WorkersAreCoherent
<1>3. r \in Runs
  BY <1>1, HoldsRun DEF At
<1>4. /\ UNCHANGED <<run, audit, call>> /\ held'[w] # Store!NoRecord /\ runOf(w)' = r
      /\ call[w] = Store!Idle /\ \A d \in Workers \ {w} : held'[d] = held[d]
  BY <1>1, <1>3, GetRunEffect DEF IInv
<1> HIDE DEF r
<1>5. /\ pc'[w] = "retrieve" /\ OthersStay(w) /\ LocalTypes' /\ provenance' \subseteq Runs
  BY <1>1, <1>4 DEF IInv, TypeOK, OthersStay, LocalTypes, Steps
<1>6. SawItsOwn(w)'
  BY <1>1, <1>2, <1>4 DEF WorkerIsCoherent, SawItsOwn, Recorded, r
<1>7. WorkerIsCoherent(w)'
  BY <1>1, <1>2, <1>4, <1>5, <1>6 DEF WorkerIsCoherent, At, Working, r
<1> QED BY <1>1, <1>4, <1>5, <1>7, LocalStep

(* A worker whose transition lost the race fails. *)
LEMMA LoseWaitingIInv ==
  ASSUME IInv, StoreInv', NEW w \in Workers, LoseWaiting(w)
  PROVE  IInv'
<1>1. /\ pc[w] = "bound" /\ pc' = [pc EXCEPT ![w] = "failed"]
      /\ call' = [call EXCEPT ![w] = Store!Idle]
      /\ UNCHANGED <<run, audit, held, taskOf, proposal, evidence, provenance, match,
                     task, latest, seen>>
  BY DEF LoseWaiting, Store!LoseRace, Goto, At, tables, locals
<1>2. call \in [Workers -> Store!Call]
  BY StoreFacts DEF IInv, Store!TypeOK
<1>3. /\ OthersStay(w) /\ LocalTypes' /\ provenance' \subseteq Runs
      /\ pc'[w] = "failed" /\ call'[w] = Store!Idle
  BY <1>1, <1>2 DEF IInv, TypeOK, OthersStay, LocalTypes, Steps
<1>4. WorkerIsCoherent(w)'
  BY <1>1, <1>3 DEF IInv, WorkersAreCoherent, WorkerIsCoherent, At, Working
<1> QED BY <1>1, <1>3, <1>4, LocalStep

(* A worker that has answered, failed or died has nothing left. *)
LEMMA ResetIInv ==
  ASSUME IInv, StoreInv', NEW w \in Workers, Respond(w) \/ Crash(w)
  PROVE  IInv'
<1>1. /\ pc' = [pc EXCEPT ![w] = "idle"] /\ task' = [task EXCEPT ![w] = NoTask]
      /\ latest' = [latest EXCEPT ![w] = 0] /\ seen' = [seen EXCEPT ![w] = NoProposal]
      /\ held' = [held EXCEPT ![w] = Store!NoRecord]
      /\ call' = [call EXCEPT ![w] = Store!Idle]
      /\ UNCHANGED <<run, audit, taskOf, proposal, evidence, provenance, match>>
  BY DEF Respond, Crash, Reset, Store!Drop, Goto, tables
<1>2. /\ held \in [Workers -> Store!Record \cup {Store!NoRecord}]
      /\ call \in [Workers -> Store!Call]
  BY StoreFacts DEF IInv, Store!TypeOK
<1>3. /\ OthersStay(w) /\ LocalTypes' /\ provenance' \subseteq Runs
      /\ pc'[w] = "idle" /\ held'[w] = Store!NoRecord /\ seen'[w] = NoProposal
      /\ call'[w] = Store!Idle
  BY <1>1, <1>2 DEF IInv, TypeOK, OthersStay, LocalTypes, Steps
<1>4. WorkerIsCoherent(w)'
  BY <1>3 DEF WorkerIsCoherent, At, Working
<1> QED BY <1>1, <1>3, <1>4, LocalStep

(* What retrieval would select says nothing of what is recorded. *)
LEMMA CorpusChangesIInv ==
  ASSUME IInv, StoreInv', CorpusChanges \/ UNCHANGED vars
  PROVE  IInv'
<1>1. UNCHANGED <<run, audit, held, call, taskOf, proposal, evidence, provenance, pc, task,
                  latest, seen>> /\ match' \in Chunks \cup {NoMatch}
  BY DEF CorpusChanges, vars, storeVars, tables, locals, IInv, TypeOK
<1>2. TypeOK'
  BY <1>1 DEF IInv, TypeOK, Store!TypeOK
<1>3. RunsGrow /\ \A r \in Runs : HasWaited(r)' => HasWaited(r)
  BY <1>1 DEF RunsGrow, HasWaited
<1>4. VersionsAreInOrder' /\ ProposalsAreOwn'
  BY <1>1, <1>3, TablesStay
<1>5. WorkersAreCoherent'
  BY <1>1 DEF IInv, WorkersAreCoherent, WorkerIsCoherent, SawItsOwn, Recorded,
              runOf, At, IsReady, OfTask
<1> QED BY <1>2, <1>4, <1>5 DEF IInv

(* The number a worker inserts is the next of its task, although it read the latest
   in an earlier statement: a lower one is refused, a higher one it cannot have. *)
LEMMA InsertsTheNext ==
  ASSUME IInv, NEW w \in Workers, Insert(w)
  PROVE  NextProposal(w) = Cardinality(OfTask(task[w])) + 1
<1>1. task[w] \in Tasks /\ latest[w] \in Nat /\ latest[w] <= Cardinality(OfTask(task[w]))
  BY DEF IInv, TypeOK, WorkersAreCoherent, WorkerIsCoherent, Insert, At, Working
<1>2. /\ Cardinality(OfTask(task[w])) \in Nat
      /\ TaskVersions(task[w]) = 1 .. Cardinality(OfTask(task[w]))
  BY <1>1, LatestIsCount DEF IInv, VersionsAreInOrder
<1>3. latest[w] + 1 \notin 1 .. Cardinality(OfTask(task[w]))
  BY <1>2 DEF Insert, Unique, NextProposal
<1> QED BY <1>1, <1>2, <1>3 DEF NextProposal

(* The tables after an insertion. *)
LEMMA InsertedVersions ==
  ASSUME IInv, NEW w \in Workers, Insert(w)
  PROVE  /\ VersionsAreInOrder'
         /\ \A t \in Tasks : /\ Cardinality(OfTask(t)) \in Nat /\ Cardinality(OfTask(t))' \in Nat
                             /\ Cardinality(OfTask(t)) <= Cardinality(OfTask(t))'
<1> DEFINE r == runOf(w)
           n == Cardinality(OfTask(task[w]))
           p == [task |-> task[w], version |-> n + 1, status |-> "draft_waiting_evidence"]
<1>1. /\ r \in Runs /\ task[w] \in Tasks /\ proposal[r] = NoProposal
      /\ proposal' = [proposal EXCEPT ![r] = p]
  BY HoldsRun, InsertsTheNext
    DEF IInv, WorkersAreCoherent, WorkerIsCoherent, Insert, At, Working, Unique, Recorded
<1>2. /\ proposal \in [Runs -> Proposal \cup {NoProposal}] /\ NoProposal.task \notin Tasks
      /\ n \in Nat
  BY <1>1, LatestIsCount, OrchestrationAssumption DEF IInv, TypeOK, NoProposal
<1>3. p.task = task[w] /\ p.version = n + 1
  OBVIOUS
<1> HIDE DEF r, n, p
<1>4. /\ proposal'[r] = p /\ \A q \in Runs \ {r} : proposal'[q] = proposal[q]
      /\ r \notin OfTask(task[w])
  BY <1>1, <1>2 DEF OfTask
<1>5. ASSUME NEW t \in Tasks
      PROVE  /\ IsFiniteSet(OfTask(t)') /\ TaskVersions(t)' = 1 .. Cardinality(OfTask(t)')
             /\ \A x, y \in OfTask(t)' : proposal'[x].version = proposal'[y].version => x = y
             /\ Cardinality(OfTask(t)) \in Nat /\ Cardinality(OfTask(t)') \in Nat
             /\ Cardinality(OfTask(t)) <= Cardinality(OfTask(t)')
  <2>1. /\ IsFiniteSet(OfTask(t)) /\ TaskVersions(t) = 1 .. Cardinality(OfTask(t))
        /\ \A x, y \in OfTask(t) : proposal[x].version = proposal[y].version => x = y
        /\ Cardinality(OfTask(t)) \in Nat
    BY LatestIsCount DEF IInv, VersionsAreInOrder
  <2>2. CASE t # task[w]
    <3>1. OfTask(t)' = OfTask(t)
      BY <1>1, <1>2, <1>3, <1>4, <2>2 DEF OfTask
    <3>2. \A x \in OfTask(t) : proposal'[x] = proposal[x]
      BY <1>1, <1>2, <1>4 DEF OfTask
    <3>3. TaskVersions(t)' = TaskVersions(t)
      BY <3>1, <3>2 DEF TaskVersions, OfTask
    <3> QED BY <2>1, <3>1, <3>2, <3>3
  <2>3. CASE t = task[w]
    <3>1. OfTask(t)' = OfTask(t) \cup {r}
      BY <1>1, <1>3, <1>4, <2>3 DEF OfTask
    <3>2. /\ IsFiniteSet(OfTask(t)') /\ Cardinality(OfTask(t)') = n + 1
      BY <1>4, <2>1, <2>3, <3>1, FS_AddElement DEF n
    <3>3. TaskVersions(t) = {proposal[x].version : x \in OfTask(t)}
      BY DEF TaskVersions, OfTask
    <3>4. TaskVersions(t)' = {proposal'[x].version : x \in OfTask(t)'}
      BY DEF TaskVersions, OfTask
    <3>5. \A x \in OfTask(t) : x # r /\ proposal'[x] = proposal[x]
      BY <1>4, <2>3 DEF OfTask
    <3>6. TaskVersions(t)' = TaskVersions(t) \cup {n + 1}
      BY <1>3, <1>4, <3>1, <3>3, <3>4, <3>5
    <3>7. TaskVersions(t)' = 1 .. n + 1
      BY <1>2, <2>1, <2>3, <3>6 DEF n
    <3>8. \A x \in OfTask(t) : proposal'[x].version # n + 1
      <4>1. n + 1 \notin 1 .. n
        BY <1>2
      <4>2. \A x \in OfTask(t) : proposal[x].version \in 1 .. n
        BY <2>1, <2>3, <3>3 DEF n
      <4> QED BY <3>5, <4>1, <4>2
    <3>9. \A x, y \in OfTask(t)' : proposal'[x].version = proposal'[y].version => x = y
      BY <1>3, <1>4, <2>1, <3>1, <3>5, <3>8
    <3> QED BY <1>2, <2>1, <2>3, <3>2, <3>7, <3>9 DEF n
  <2> QED BY <2>2, <2>3
<1>6. VersionsAreInOrder'
  BY <1>5 DEF VersionsAreInOrder
<1> QED BY <1>5, <1>6

(* A recorded proposal is a draft without evidence of a run that has not waited. *)
LEMMA InsertIInv ==
  ASSUME IInv, StoreInv', NEW w \in Workers, Insert(w)
  PROVE  IInv'
<1> DEFINE r == runOf(w)
           p == [task |-> task[w], version |-> NextProposal(w),
                 status |-> "draft_waiting_evidence"]
<1>1. /\ pc[w] = "insert" /\ ~Recorded(r) /\ proposal' = [proposal EXCEPT ![r] = p]
      /\ Store!GetRun(w, r) /\ pc' = [pc EXCEPT ![w] = "retrieve"]
      /\ seen' = [seen EXCEPT ![w] = proposal'[r]]
      /\ UNCHANGED <<taskOf, evidence, provenance, match, task, latest>>
  BY DEF Insert, At, Unique, Goto, Holds
<1>2. /\ WorkerIsCoherent(w) /\ task[w] \in Tasks /\ task[w] = taskOf[r]
      /\ r \in provenance /\ r \in Runs
  BY <1>1, HoldsRun DEF IInv, WorkersAreCoherent, WorkerIsCoherent, Working, At
<1>3. p \in Proposal /\ p # NoProposal /\ p.task = task[w] /\ p.status # "waiting_approval"
  BY <1>2 DEF IInv, TypeOK, NextProposal, Proposal, NoProposal
<1>4. /\ UNCHANGED <<run, audit, call>> /\ run[r] # Store!NoRow
      /\ held'[w] # Store!NoRecord /\ runOf(w)' = r /\ call[w] = Store!Idle
      /\ HeldStatus(w)' = "waiting_approval" => HasWaited(r)
      /\ \A d \in Workers \ {w} : held'[d] = held[d]
  BY <1>1, <1>2, GetRunEffect DEF IInv
<1> HIDE DEF r, p
<1>5. /\ proposal'[r] = p /\ \A q \in Runs \ {r} : proposal'[q] = proposal[q]
      /\ proposal' \in [Runs -> Proposal \cup {NoProposal}]
  BY <1>1, <1>2, <1>3 DEF IInv, TypeOK
<1>6. /\ OthersStay(w) /\ LocalTypes' /\ pc'[w] = "retrieve" /\ seen'[w] = p
  BY <1>1, <1>3, <1>4, <1>5 DEF IInv, TypeOK, OthersStay, LocalTypes, Steps
<1>7. ~IsReady(r) /\ ~HasWaited(r) /\ evidence[r] = {}
  BY <1>1, <1>2, ReadyIsRecorded DEF IInv, ProposalsAreOwn
<1>8. /\ VersionsAreInOrder'
      /\ \A t \in Tasks : /\ Cardinality(OfTask(t)) \in Nat /\ Cardinality(OfTask(t))' \in Nat
                          /\ Cardinality(OfTask(t)) <= Cardinality(OfTask(t))'
  BY InsertedVersions
<1>9. \A q \in Runs : HasWaited(q)' <=> HasWaited(q)
  BY <1>4 DEF HasWaited
<1>10. ProposalsAreOwn'
  <2> SUFFICES ASSUME NEW q \in Runs
               PROVE  /\ Recorded(q)' => /\ proposal'[q].task = taskOf'[q]
                                         /\ q \in provenance' /\ run'[q] # Store!NoRow
                      /\ HasWaited(q)' => IsReady(q)'
                      /\ IsReady(q)' <=> evidence'[q] # {}
    BY DEF ProposalsAreOwn
  <2>1. CASE q = r
    BY <1>1, <1>2, <1>3, <1>4, <1>5, <1>7, <1>9, <2>1 DEF IsReady
  <2>2. CASE q # r
    BY <1>1, <1>4, <1>5, <1>9, <2>2 DEF IInv, ProposalsAreOwn, IsReady, Recorded
  <2> QED BY <2>1, <2>2
<1>11. Grows
  <2>1. RunsGrow
    BY <1>4 DEF RunsGrow
  <2>2. \A q \in Runs : Recorded(q) => /\ Recorded(q)' /\ proposal'[q] = proposal[q]
    BY <1>1, <1>5 DEF Recorded
  <2> QED BY <1>1, <1>8, <2>1, <2>2 DEF Grows, IsReady
<1>12. SawItsOwn(w)'
  BY <1>1, <1>3, <1>4, <1>5, <1>6, <1>7 DEF SawItsOwn, Recorded
<1>13. WorkerIsCoherent(w)'
  BY <1>1, <1>2, <1>4, <1>6, <1>12 DEF WorkerIsCoherent, At, Working, r
<1>14. WorkersAreCoherent'
  BY <1>6, <1>11, <1>13, OthersAreCoherent
<1>15. TypeOK'
  <2>1. Store!TypeOK'
    BY SameStore DEF StoreInv, Lifecycle!IInv, Lifecycle!TypeOK, Store!TypeOK
  <2> QED BY <1>1, <1>5, <1>6, <2>1 DEF IInv, TypeOK, LocalTypes
<1> QED BY <1>8, <1>10, <1>14, <1>15 DEF IInv

(* Binding a clause makes the proposal ready in the same step. *)
LEMMA BindIInv ==
  ASSUME IInv, StoreInv', NEW w \in Workers, Bind(w)
  PROVE  IInv'
<1> DEFINE r == runOf(w)
           p == [proposal[r] EXCEPT !.status = "waiting_approval"]
<1>1. /\ pc[w] = "retrieve" /\ proposal' = [proposal EXCEPT ![r] = p]
      /\ evidence' = [evidence EXCEPT ![r] = @ \cup {match}] /\ match # NoMatch
      /\ pc' = [pc EXCEPT ![w] = "bound"]
      /\ UNCHANGED <<run, audit, held, call, taskOf, provenance, match, task, latest, seen>>
  BY DEF Bind, At, Advanced, Goto, storeVars, locals
<1>2. WorkerIsCoherent(w) /\ r \in Runs /\ Recorded(r)
  BY <1>1, HoldsRun DEF IInv, WorkersAreCoherent, WorkerIsCoherent, At, SawItsOwn
<1>3. proposal[r] \in Proposal /\ proposal[r].task = taskOf[r] /\ r \in provenance
      /\ run[r] # Store!NoRow
  BY <1>2, RecordedIsOwn
<1>4. /\ p \in Proposal /\ p # NoProposal /\ p.status = "waiting_approval"
      /\ p.task = proposal[r].task /\ p.version = proposal[r].version
  BY <1>3 DEF Proposal, NoProposal
<1> HIDE DEF r, p
<1>5. /\ proposal'[r] = p /\ \A q \in Runs \ {r} : proposal'[q] = proposal[q]
      /\ proposal' \in [Runs -> Proposal \cup {NoProposal}]
      /\ evidence'[r] # {} /\ \A q \in Runs \ {r} : evidence'[q] = evidence[q]
      /\ evidence' \in [Runs -> SUBSET Chunks]
  BY <1>1, <1>2, <1>4 DEF IInv, TypeOK
<1>6. OthersStay(w) /\ LocalTypes' /\ pc'[w] = "bound"
  BY <1>1 DEF IInv, TypeOK, OthersStay, LocalTypes, Steps
<1>7. \A q \in Runs : /\ proposal'[q].task = proposal[q].task
                      /\ proposal'[q].version = proposal[q].version
                      /\ Recorded(q)' <=> Recorded(q)
                      /\ IsReady(q) => IsReady(q)'
  BY <1>2, <1>4, <1>5 DEF Recorded, IsReady
<1>8. \A t \in Tasks : OfTask(t)' = OfTask(t) /\ TaskVersions(t)' = TaskVersions(t)
  BY <1>7 DEF OfTask, TaskVersions
<1>9. VersionsAreInOrder'
  BY <1>7, <1>8 DEF IInv, VersionsAreInOrder, OfTask
<1>10. \A q \in Runs : HasWaited(q)' <=> HasWaited(q)
  BY <1>1 DEF HasWaited
<1>11. ProposalsAreOwn'
  <2> SUFFICES ASSUME NEW q \in Runs
               PROVE  /\ Recorded(q)' => /\ proposal'[q].task = taskOf'[q]
                                         /\ q \in provenance' /\ run'[q] # Store!NoRow
                      /\ HasWaited(q)' => IsReady(q)'
                      /\ IsReady(q)' <=> evidence'[q] # {}
    BY DEF ProposalsAreOwn
  <2>1. CASE q = r
    BY <1>1, <1>3, <1>4, <1>5, <2>1 DEF IsReady
  <2>2. CASE q # r
    BY <1>1, <1>5, <1>7, <1>10, <2>2 DEF IInv, ProposalsAreOwn, IsReady, Recorded
  <2> QED BY <2>1, <2>2
<1>12. Grows
  <2>1. RunsGrow
    BY <1>1 DEF RunsGrow
  <2>2. \A t \in Tasks : /\ Cardinality(OfTask(t)) \in Nat
                         /\ Cardinality(OfTask(t))' = Cardinality(OfTask(t))
    BY <1>8, LatestIsCount
  <2> QED BY <1>1, <1>7, <2>1, <2>2 DEF Grows
<1>13. WorkerIsCoherent(w)'
  BY <1>1, <1>2, <1>4, <1>5, <1>6 DEF WorkerIsCoherent, At, Working, IsReady, r, runOf
<1>14. WorkersAreCoherent'
  BY <1>6, <1>12, <1>13, OthersAreCoherent
<1>15. TypeOK'
  BY <1>1, <1>5, <1>6 DEF IInv, TypeOK, LocalTypes, Store!TypeOK
<1> QED BY <1>9, <1>11, <1>14, <1>15 DEF IInv

(* Every step of the requests preserves the invariant. *)
LEMMA StepIInv ==
  ASSUME IInv, [Next]_vars
  PROVE  IInv'
<1>1. StoreInv'
  BY StepsKeepStore
<1>2. ASSUME NEW w \in Workers, Request(w) PROVE IInv'
  BY <1>1, <1>2, CreateIInv, ResumeIInv DEF Request
<1>3. ASSUME NEW w \in Workers, Step(w) PROVE IInv'
  BY <1>1, <1>3, BeginIInv, SetIInv, FindsIInv, RefreshIInv, SetProvenanceIInv, MovesIInv,
     ReadLatestIInv, InsertIInv, BindIInv, LoseWaitingIInv, ResetIInv DEF Step
<1>4. ASSUME NEW w \in Workers, Crash(w) PROVE IInv'
  BY <1>1, <1>4, ResetIInv
<1> QED BY <1>1, <1>2, <1>3, <1>4, CorpusChangesIInv DEF Next, NextUncrashed

(* The inductive invariant holds of every reachable state of the requests. *)
THEOREM Invariance == Spec => []IInv
BY InitIInv, StepIInv, PTL DEF Spec

------------------------------------------------------------------------------
(* What follows from the invariant. *)

(* Every variable keeps its type in every run of the requests. *)
THEOREM TypeCorrectness == Spec => []TypeOK
BY Invariance, PTL DEF IInv

(* The requests use the run store only through its operations: whatever is proved
   of the store holds while requests run. *)
THEOREM StoreUse == Spec => UsesRunStore
<1>1. Init => Store!Init
  BY DEF Init
<1> QED BY <1>1, Invariance, StepsUseStore, PTL DEF Spec, UsesRunStore, Store!Spec

(* The proposals of a task are numbered 1, 2, ..., one number each, whichever
   requests recorded them, and each is its own run's. *)
THEOREM Numbering == Spec => []ProposalsAreInOrder
<1>1. ASSUME IInv PROVE ProposalsAreInOrder
  <2>1. ASSUME NEW t \in Tasks
        PROVE  /\ TaskVersions(t) = 1 .. Cardinality(OfTask(t))
               /\ Cardinality(TaskVersions(t)) = Cardinality(OfTask(t))
    <3>1. /\ Cardinality(OfTask(t)) \in Nat
          /\ TaskVersions(t) = 1 .. Cardinality(OfTask(t))
      BY <1>1, LatestIsCount DEF IInv, VersionsAreInOrder
    <3>2. Cardinality(1 .. Cardinality(OfTask(t))) = Cardinality(OfTask(t))
      BY <3>1, FS_Interval
    <3> QED BY <3>1, <3>2
  <2> QED BY <1>1, <2>1 DEF ProposalsAreInOrder, OfTask, IInv, ProposalsAreOwn
<1> QED BY <1>1, Invariance, PTL

(* A run waits for approval only on a proposal that is ready, and a proposal is ready
   exactly when evidence is bound to it. *)
THEOREM Evidence == Spec => []WaitingRunsHaveEvidence
<1>1. ASSUME IInv, NEW r \in Runs, run[r].status = "waiting_approval" PROVE HasWaited(r)
  <2>1. run[r] # Store!NoRow
    BY <1>1 DEF Store!NoRow
  <2> QED BY <1>1, <2>1, StoreFacts DEF IInv, HasWaited
<1>2. IInv => WaitingRunsHaveEvidence
  BY <1>1 DEF WaitingRunsHaveEvidence, IInv, ProposalsAreOwn, IsReady
<1> QED BY <1>2, Invariance, PTL

(* A worker whose reply shows a waiting run has a proposal that is ready by then; and
   saw it ready, unless its search abstained. *)
LEMMA RepliesShowReady ==
  ASSUME IInv, NEW w \in Workers, ReturnExisting(w) \/ Abstain(w) \/ Reread(w),
         HeldStatus(w) = "waiting_approval"
  PROVE  /\ seen'[w].status = "waiting_approval" \/ At(w, "retrieve")
         /\ proposal'[runOf(w)].status = "waiting_approval" /\ evidence'[runOf(w)] # {}
<1> DEFINE r == runOf(w)
<1>1. ~At(w, "idle") /\ UNCHANGED <<proposal, evidence>>
  BY DEF ReturnExisting, Abstain, Reread, At, tables
<1>2. /\ r \in Runs /\ held[w].version \in DOMAIN audit[r]
  BY <1>1, HoldsRun, StoreFacts DEF IInv
<1>3. HasWaited(r)
  BY <1>2 DEF HeldStatus, HasWaited
<1>4. IsReady(r) /\ evidence[r] # {}
  BY <1>2, <1>3 DEF IInv, ProposalsAreOwn
<1>5. At(w, "retrieve") \/ seen' = [seen EXCEPT ![w] = proposal[r]]
  BY <1>1 DEF ReturnExisting, Abstain, Reread, Holds
<1>6. At(w, "retrieve") \/ seen'[w] = proposal[r]
  BY <1>5 DEF IInv, TypeOK
<1> QED BY <1>1, <1>4, <1>6 DEF IsReady

(* Only these steps answer with a proposal. *)
LEMMA AnsweringSteps ==
  ASSUME IInv, [Next]_vars, NEW w \in Workers, At(w, "reply")', ~At(w, "reply"),
         seen'[w] # NoProposal
  PROVE  ReturnExisting(w) \/ Abstain(w) \/ Reread(w)
<1>1. pc'[w] = "reply" /\ pc[w] # "reply" /\ pc \in [Workers -> Steps]
  BY DEF At, IInv, TypeOK
<1>2. ASSUME NEW d \in Workers, Step(d) PROVE ReturnExisting(w) \/ Abstain(w) \/ Reread(w)
  <2>1. \/ ReturnExisting(d) \/ Abstain(d) \/ Reread(d)
        \/ UNCHANGED pc
        \/ \E s \in Steps \ {"reply"} : pc' = [pc EXCEPT ![d] = s]
    BY <1>2 DEF Step, BeginRunning, SetRunning, SetProvenance, InvokeGraph,
       ModelFails, PersistFinds, Refresh, PersistMisses, ReadLatest, Insert, InsertCollides,
       Bind, BindCollides, BeginWaiting, RefuseWaiting, SetWaiting, LoseWaiting,
       Respond, Reset, Goto, Steps
  <2>2. ASSUME ReturnExisting(d) \/ Abstain(d) \/ Reread(d) PROVE d = w
    BY <1>1, <2>2 DEF ReturnExisting, Abstain, Reread, Goto
  <2>3. ASSUME NEW s \in Steps \ {"reply"}, pc' = [pc EXCEPT ![d] = s] PROVE FALSE
    BY <1>1, <2>3
  <2> QED BY <1>1, <2>1, <2>2, <2>3
<1>3. ASSUME NEW d \in Workers, Request(d) PROVE FALSE
  <2>1. CASE \E t \in Tasks, r \in Runs : SeedRun(d, t, r)
    <3>1. /\ At(d, "idle") /\ UNCHANGED seen /\ pc' = [pc EXCEPT ![d] = "reply"]
      BY <2>1 DEF SeedRun, Create, Goto
    <3>2. d = w
      BY <1>1, <3>1
    <3> QED BY <3>1, <3>2 DEF IInv, WorkersAreCoherent, WorkerIsCoherent
  <2>2. CASE \E t \in Tasks, r \in Runs : Start(d, t, r) \/ Resume(d, t, r)
    <3>1. pc' = [pc EXCEPT ![d] = "created"] \/ pc' = [pc EXCEPT ![d] = "check"]
      BY <2>2 DEF Start, Resume, Goto
    <3> QED BY <1>1, <3>1
  <2> QED BY <1>3, <2>1, <2>2 DEF Request
<1>4. ASSUME NEW d \in Workers, Crash(d) PROVE FALSE
  BY <1>1, <1>4 DEF Crash, Reset, Goto
<1>5. ASSUME CorpusChanges \/ UNCHANGED vars PROVE FALSE
  BY <1>1, <1>5 DEF CorpusChanges, vars
<1> QED BY <1>2, <1>3, <1>4, <1>5 DEF Next, NextUncrashed

(* A response shows the proposal of the requested task and of its own run, and a run
   that waits only when its proposal is ready, although it joins reads of different
   transactions; the proposal shown beside it may still be a draft only when the
   request found another one's and its own search abstained. *)
THEOREM Replies == Spec => RepliesAreCoherent
<1>1. ASSUME IInv, IInv', [Next]_vars, NEW w \in Workers, At(w, "reply")', ~At(w, "reply"),
             seen'[w] # NoProposal
      PROVE  /\ seen'[w].task = task[w]
             /\ seen'[w].version = proposal'[runOf(w)].version
             /\ HeldStatus(w) = "waiting_approval" =>
                  /\ seen'[w].status = "waiting_approval" \/ At(w, "retrieve")
                  /\ proposal'[runOf(w)].status = "waiting_approval"
                  /\ evidence'[runOf(w)] # {}
  <2>1. ReturnExisting(w) \/ Abstain(w) \/ Reread(w)
    BY <1>1, AnsweringSteps
  <2>2. SawItsOwn(w)'
    BY <1>1 DEF IInv, WorkersAreCoherent, WorkerIsCoherent
  <2>3. task'[w] = task[w] /\ runOf(w)' = runOf(w)
    BY <2>1 DEF ReturnExisting, Abstain, Reread, storeVars, locals, runOf
  <2>4. seen'[w].task = task[w] /\ seen'[w].version = proposal'[runOf(w)].version
    BY <2>2, <2>3 DEF SawItsOwn
  <2> QED BY <1>1, <2>1, <2>4, RepliesShowReady
<1>2. IInv /\ IInv' /\ [Next]_vars =>
        [\A w \in Workers : At(w, "reply")' /\ ~At(w, "reply") /\ seen'[w] # NoProposal =>
           /\ seen'[w].task = task[w]
           /\ seen'[w].version = proposal'[runOf(w)].version
           /\ HeldStatus(w) = "waiting_approval" =>
                /\ seen'[w].status = "waiting_approval" \/ At(w, "retrieve")
                /\ proposal'[runOf(w)].status = "waiting_approval" /\ evidence'[runOf(w)] # {}
        ]_vars
  BY <1>1
<1> QED BY <1>2, Invariance, PTL DEF Spec, RepliesAreCoherent

------------------------------------------------------------------------------
(* The proposals keep the abstract ledger. *)

Count(t) == MaxOrZero(TaskVersions(t))
Entries == [t \in Tasks |-> [n \in 1 .. Count(t) |-> Entry(t, n)]]

(* The ledger of a task has an entry for each of its proposals and no other. *)
EntriesAreProposals ==
  \A t \in Tasks :
    /\ Count(t) \in Nat
    /\ \A r \in OfTask(t) : proposal[r].version \in 1 .. Count(t)
    /\ \A n \in 1 .. Count(t) : \E r \in OfTask(t) : proposal[r].version = n
    /\ \A r \in OfTask(t), n \in 1 .. Count(t) :
         proposal[r].version = n => Entry(t, n) = [run |-> r, status |-> proposal[r].status]

(* No two proposals of a task have one number, so the entry of a number is the
   proposal that has it. *)
LEMMA LedgerIsProposals == IInv => EntriesAreProposals
<1> SUFFICES ASSUME IInv, NEW t \in Tasks
             PROVE  /\ Count(t) \in Nat
                    /\ \A r \in OfTask(t) : proposal[r].version \in 1 .. Count(t)
                    /\ \A n \in 1 .. Count(t) : \E r \in OfTask(t) : proposal[r].version = n
                    /\ \A r \in OfTask(t), n \in 1 .. Count(t) :
                         proposal[r].version = n =>
                           Entry(t, n) = [run |-> r, status |-> proposal[r].status]
  BY DEF EntriesAreProposals
<1>1. /\ Count(t) \in Nat /\ TaskVersions(t) = 1 .. Count(t)
      /\ \A q, r \in OfTask(t) : proposal[q].version = proposal[r].version => q = r
  BY LatestIsCount DEF IInv, VersionsAreInOrder, Count
<1>2. TaskVersions(t) = {proposal[r].version : r \in OfTask(t)}
  BY DEF TaskVersions, OfTask
<1>3. ASSUME NEW r \in OfTask(t)
      PROVE  Entry(t, proposal[r].version) = [run |-> r, status |-> proposal[r].status]
  <2>1. {q \in Runs : proposal[q].task = t /\ proposal[q].version = proposal[r].version} = {r}
    BY <1>1 DEF OfTask
  <2>2. (CHOOSE q \in {r} : TRUE) = r
    OBVIOUS
  <2> QED BY <2>1, <2>2 DEF Entry
<1> QED BY <1>1, <1>2, <1>3

(* A ledger is a sequence of entries. *)
LEMMA LedgerIsSequence ==
  ASSUME EntriesAreProposals, NEW t \in Tasks
  PROVE  /\ Entries[t] \in Seq([run : Runs, status : {proposal[r].status : r \in Runs}])
         /\ Len(Entries[t]) = Count(t) /\ DOMAIN Entries[t] = 1 .. Count(t)
         /\ \A n \in 1 .. Count(t) : Entries[t][n] = Entry(t, n)
<1> DEFINE S == [run : Runs, status : {proposal[r].status : r \in Runs}]
<1>1. Count(t) \in Nat /\ Entries[t] = [n \in 1 .. Count(t) |-> Entry(t, n)]
  BY DEF EntriesAreProposals, Entries
<1>2. ASSUME NEW n \in 1 .. Count(t) PROVE Entry(t, n) \in S
  <2>1. PICK r \in OfTask(t) : proposal[r].version = n
    BY DEF EntriesAreProposals
  <2>2. Entry(t, n) = [run |-> r, status |-> proposal[r].status]
    BY <2>1 DEF EntriesAreProposals
  <2> QED BY <2>2 DEF OfTask
<1> HIDE DEF S
<1> DEFINE e(n) == Entry(t, n)
<1> HIDE DEF e
<1>3. [n \in 1 .. Count(t) |-> e(n)] \in Seq(S)
  BY <1>1, <1>2 DEF e
<1>4. Entries[t] = [n \in 1 .. Count(t) |-> e(n)]
  BY <1>1 DEF e
<1> QED BY <1>1, <1>3, <1>4 DEF S, e

(* The values of a sequence with one more element. *)
LEMMA AppendIsFunction ==
  ASSUME NEW S, NEW q \in Seq(S), NEW e
  PROVE  Append(q, e) = [n \in 1 .. Len(q) + 1 |-> IF n = Len(q) + 1 THEN e ELSE q[n]]
<1>1. q \in Seq(S \cup {e}) /\ e \in S \cup {e}
  OBVIOUS
<1>2. /\ Append(q, e) \in Seq(S \cup {e}) /\ Len(Append(q, e)) = Len(q) + 1
      /\ \A i \in 1 .. Len(q) : Append(q, e)[i] = q[i]
      /\ Append(q, e)[Len(q) + 1] = e
  BY <1>1
<1> DEFINE a == Append(q, e)
<1>3. Len(q) \in Nat
  OBVIOUS
<1> HIDE DEF a
<1>4. a \in [1 .. Len(a) -> S \cup {e}]
  BY <1>2, LenProperties DEF a
<1>5. \A n \in 1 .. Len(q) + 1 : a[n] = IF n = Len(q) + 1 THEN e ELSE q[n]
  BY <1>2, <1>3 DEF a
<1>6. a = [n \in 1 .. Len(q) + 1 |-> a[n]]
  BY <1>2, <1>4 DEF a
<1> QED BY <1>5, <1>6 DEF a

(* A proposal that is recorded becomes the last entry of its task's ledger. *)
LEMMA InsertDrafts ==
  ASSUME EntriesAreProposals, EntriesAreProposals', IInv, NEW w \in Workers, Insert(w),
         NEW r, r = runOf(w), NEW t, t = task[w]
  PROVE  Ledger!Draft(t, r) /\ t \in Tasks /\ r \in Runs
<1> DEFINE p == [task |-> t, version |-> Count(t) + 1, status |-> "draft_waiting_evidence"]
           e == [run |-> r, status |-> "draft_waiting_evidence"]
<1>1. /\ r \in Runs /\ t \in Tasks /\ proposal[r] = NoProposal
      /\ proposal' = [proposal EXCEPT ![r] = p]
  BY HoldsRun, InsertsTheNext, LatestIsCount
    DEF IInv, WorkersAreCoherent, WorkerIsCoherent, Insert, At, Working, Unique, Recorded, Count
<1>2. proposal \in [Runs -> Proposal \cup {NoProposal}] /\ NoProposal.task \notin Tasks
  BY OrchestrationAssumption DEF IInv, TypeOK, NoProposal
<1>3. /\ proposal'[r] = p /\ p.task = t /\ p.version = Count(t) + 1
      /\ p.status = "draft_waiting_evidence"
      /\ \A q \in Runs \ {r} : proposal'[q] = proposal[q]
  BY <1>1, <1>2
<1> HIDE DEF p
<1>4. \A s \in Tasks : /\ r \notin OfTask(s)
                       /\ OfTask(s)' = IF s = t THEN OfTask(s) \cup {r} ELSE OfTask(s)
                       /\ \A q \in OfTask(s) : q \in OfTask(s)' /\ proposal'[q] = proposal[q]
  BY <1>1, <1>2, <1>3 DEF OfTask
<1>5. \A s \in Tasks : /\ Count(s) \in Nat
                       /\ \A q \in OfTask(s) : proposal[q].version \in 1 .. Count(s)
                       /\ \A n \in 1 .. Count(s) : \E q \in OfTask(s) : proposal[q].version = n
  BY DEF EntriesAreProposals
<1>6. \A s \in Tasks : /\ Count(s)' \in Nat
                       /\ \A q \in OfTask(s)' : proposal'[q].version \in 1 .. Count(s)'
                       /\ \A n \in 1 .. Count(s)' : \E q \in OfTask(s)' : proposal'[q].version = n
  BY DEF EntriesAreProposals
<1>7. ASSUME NEW s \in Tasks
      PROVE  Count(s)' = IF s = t THEN Count(s) + 1 ELSE Count(s)
  <2>1. ASSUME Count(s) # 0 PROVE Count(s) <= Count(s)'
    <3>1. PICK q \in OfTask(s) : proposal[q].version = Count(s)
      BY <1>5, <2>1
    <3> QED BY <1>4, <1>5, <1>6, <3>1
  <2>2. \A q \in OfTask(s)' : q # r => proposal'[q].version <= Count(s)
    BY <1>4, <1>5
  <2>3. ASSUME Count(s)' # 0
        PROVE  Count(s)' <= Count(s) \/ (s = t /\ Count(s)' = Count(s) + 1)
    <3>1. PICK q \in OfTask(s)' : proposal'[q].version = Count(s)'
      BY <1>6, <2>3
    <3>2. q = r => s = t
      BY <1>4
    <3> QED BY <1>3, <2>2, <3>1, <3>2
  <2>4. s = t => Count(s) + 1 <= Count(s)'
    BY <1>3, <1>4, <1>6
  <2>5. Count(s) \in Nat /\ Count(s)' \in Nat
    BY <1>5, <1>6
  <2> HIDE DEF Count
  <2> QED BY <2>1, <2>3, <2>4, <2>5
<1>8. ASSUME NEW s \in Tasks, NEW n \in 1 .. Count(s) PROVE Entry(s, n)' = Entry(s, n)
  <2>1. PICK q \in OfTask(s) : proposal[q].version = n
    BY <1>5
  <2>2. q \in OfTask(s)' /\ proposal'[q] = proposal[q] /\ n \in 1 .. Count(s)'
    BY <1>4, <1>6, <2>1
  <2>3. Entry(s, n) = [run |-> q, status |-> proposal[q].status]
    BY <2>1 DEF EntriesAreProposals
  <2>4. Entry(s, n)' = [run |-> q, status |-> proposal'[q].status]
    BY <2>1, <2>2 DEF EntriesAreProposals
  <2> QED BY <2>2, <2>3, <2>4
<1>9. ASSUME NEW n, n = Count(t) + 1 PROVE Entry(t, n)' = e
  <2>1. r \in OfTask(t)' /\ proposal'[r].version = n /\ n \in 1 .. Count(t)'
    BY <1>1, <1>3, <1>4, <1>6, <1>9
  <2>2. Entry(t, n)' = [run |-> r, status |-> proposal'[r].status]
    BY <1>1, <2>1 DEF EntriesAreProposals
  <2> QED BY <1>3, <2>2
<1> HIDE DEF e
<1>10. ASSUME NEW s \in Tasks
       PROVE  Entries'[s] = IF s = t THEN Append(Entries[s], e) ELSE Entries[s]
  <2>1. /\ Entries[s] \in Seq([run : Runs, status : {proposal[q].status : q \in Runs}])
        /\ Len(Entries[s]) = Count(s)
        /\ Entries[s] = [n \in 1 .. Count(s) |-> Entry(s, n)]
        /\ \A n \in 1 .. Count(s) : Entries[s][n] = Entry(s, n)
    BY LedgerIsSequence DEF Entries
  <2>2. Entries'[s] = [n \in 1 .. Count(s)' |-> Entry(s, n)']
    BY DEF Entries
  <2>3. CASE s # t
    BY <1>7, <1>8, <2>1, <2>2, <2>3
  <2>4. CASE s = t
    <3>1. Append(Entries[s], e) = [n \in 1 .. Len(Entries[s]) + 1 |->
                                     IF n = Len(Entries[s]) + 1 THEN e ELSE Entries[s][n]]
      <4> DEFINE S == [run : Runs, status : {proposal[q].status : q \in Runs}]
      <4>1. Entries[s] \in Seq(S)
        BY <2>1
      <4> HIDE DEF S
      <4> QED BY <4>1, AppendIsFunction, Zenon
    <3>2. \A n \in 1 .. Count(s) + 1 :
            Entry(s, n)' = IF n = Count(s) + 1 THEN e ELSE Entries[s][n]
      <4> TAKE n \in 1 .. Count(s) + 1
      <4>1. CASE n = Count(s) + 1
        BY <1>9, <2>4, <4>1
      <4>2. CASE n # Count(s) + 1
        <5>1. n \in 1 .. Count(s)
          BY <1>5, <4>2
        <5> QED BY <1>8, <2>1, <4>2, <5>1
      <4> QED BY <4>1, <4>2
    <3>3. Append(Entries[s], e) = [n \in 1 .. Count(s) + 1 |->
                                     IF n = Count(s) + 1 THEN e ELSE Entries[s][n]]
      BY <2>1, <3>1
    <3>4. Entries'[s] = [n \in 1 .. Count(s) + 1 |-> Entry(s, n)']
      BY <1>7, <2>2, <2>4
    <3> QED BY <2>4, <3>2, <3>3, <3>4
  <2> QED BY <2>3, <2>4
<1>11. Entries' = [Entries EXCEPT ![t] = Append(@, e)]
  <2>1. Entries = [s \in Tasks |-> Entries[s]] /\ Entries' = [s \in Tasks |-> Entries'[s]]
    BY DEF Entries
  <2> QED BY <1>10, <2>1
<1>12. ASSUME NEW s \in Tasks, NEW i \in DOMAIN Entries[s] PROVE Entries[s][i].run # r
  <2>1. i \in 1 .. Count(s) /\ Entries[s][i] = Entry(s, i)
    BY LedgerIsSequence
  <2>2. PICK q \in OfTask(s) : proposal[q].version = i
    BY <1>5, <2>1
  <2>3. Entry(s, i) = [run |-> q, status |-> proposal[q].status]
    BY <2>1, <2>2 DEF EntriesAreProposals
  <2> QED BY <1>4, <2>1, <2>2, <2>3
<1> QED BY <1>1, <1>11, <1>12 DEF Ledger!Draft, Ledger!Proposed, Entries, Count, e

(* A proposal that is advanced is an entry that becomes ready, or was ready. *)
LEMMA BindMakesReady ==
  ASSUME EntriesAreProposals, EntriesAreProposals', IInv, NEW w \in Workers, Bind(w)
  PROVE  [Ledger!LedgerNext]_Entries
<1> DEFINE r == runOf(w)
           p == [proposal[r] EXCEPT !.status = "waiting_approval"]
<1>1. proposal' = [proposal EXCEPT ![r] = p] /\ r \in Runs /\ Recorded(r)
  BY HoldsRun DEF Bind, At, Advanced, IInv, WorkersAreCoherent, WorkerIsCoherent, SawItsOwn
<1>2. /\ proposal[r] \in Proposal /\ proposal \in [Runs -> Proposal \cup {NoProposal}]
  BY <1>1, RecordedIsOwn DEF IInv, TypeOK
<1>3. /\ p.status = "waiting_approval" /\ p.task = proposal[r].task
      /\ p.version = proposal[r].version /\ proposal[r].task \in Tasks
      /\ proposal[r].status = "waiting_approval" => p = proposal[r]
  BY <1>2 DEF Proposal
<1> HIDE DEF r, p
<1>4. proposal'[r] = p /\ \A q \in Runs \ {r} : proposal'[q] = proposal[q]
  BY <1>1, <1>2
<1>5. CASE proposal[r].status = "waiting_approval"
  <2>1. proposal' = proposal
    BY <1>1, <1>2, <1>3, <1>5
  <2> QED BY <2>1 DEF Entries, Count, TaskVersions, Entry
<1>6. CASE proposal[r].status # "waiting_approval"
  <2>1. PICK t \in Tasks : t = proposal[r].task /\ r \in OfTask(t)
    BY <1>1, <1>3 DEF OfTask, r
  <2>2. PICK n \in 1 .. Count(t) : n = proposal[r].version
    BY <2>1 DEF EntriesAreProposals
  <2>3. t = proposal[r].task /\ n = proposal[r].version /\ r \in OfTask(t)
    BY <2>1, <2>2
  <2>4. proposal[r].status = "draft_waiting_evidence"
    BY <1>2, <1>6 DEF Proposal
  <2>5. \A q \in Runs : /\ proposal'[q].task = proposal[q].task
                        /\ proposal'[q].version = proposal[q].version
    BY <1>3, <1>4
  <2>6. \A s \in Tasks : OfTask(s)' = OfTask(s) /\ TaskVersions(s)' = TaskVersions(s)
    BY <2>5 DEF OfTask, TaskVersions
  <2>7. \A s \in Tasks : Count(s)' = Count(s)
    BY <2>6 DEF Count
  <2>8. ASSUME NEW s \in Tasks, NEW i \in 1 .. Count(s)
        PROVE  Entry(s, i)' = IF s = t /\ i = n THEN [Entry(s, i) EXCEPT !.status = "waiting_approval"]
                                                ELSE Entry(s, i)
    <3>1. PICK q \in OfTask(s) : proposal[q].version = i
      BY DEF EntriesAreProposals
    <3>2. q \in OfTask(s)' /\ proposal'[q].version = i /\ i \in 1 .. Count(s)'
      BY <2>5, <2>6, <2>7, <3>1 DEF OfTask
    <3>3. /\ Entry(s, i) = [run |-> q, status |-> proposal[q].status]
          /\ Entry(s, i)' = [run |-> q, status |-> proposal'[q].status]
      BY <3>1, <3>2 DEF EntriesAreProposals
    <3>4. s = t /\ i = n <=> q = r
      BY <2>3, <3>1, LedgerIsProposals DEF OfTask, IInv, VersionsAreInOrder
    <3> QED BY <1>3, <1>4, <3>1, <3>3, <3>4 DEF OfTask
  <2>9. ASSUME NEW s \in Tasks
        PROVE  Entries'[s] = IF s = t THEN [Entries[s] EXCEPT ![n].status = "waiting_approval"]
                                      ELSE Entries[s]
    <3>1. /\ Entries[s] = [i \in 1 .. Count(s) |-> Entry(s, i)]
          /\ Entries'[s] = [i \in 1 .. Count(s) |-> Entry(s, i)']
      BY <2>7 DEF Entries
    <3>2. CASE s # t
      BY <2>8, <3>1, <3>2
    <3>3. CASE s = t
      <4> DEFINE f == Entries[s]
      <4>1. f = [i \in 1 .. Count(s) |-> f[i]] /\ \A i \in 1 .. Count(s) : f[i] = Entry(s, i)
        BY <3>1
      <4> HIDE DEF f
      <4>2. [f EXCEPT ![n].status = "waiting_approval"] =
              [i \in 1 .. Count(s) |->
                 IF i = n THEN [f[i] EXCEPT !.status = "waiting_approval"] ELSE f[i]]
        BY <3>3, <4>1
      <4>3. \A i \in 1 .. Count(s) : Entry(s, i)' =
              IF i = n THEN [f[i] EXCEPT !.status = "waiting_approval"] ELSE f[i]
        BY <2>8, <3>3, <4>1
      <4>4. Entries'[s] = [i \in 1 .. Count(s) |->
                 IF i = n THEN [f[i] EXCEPT !.status = "waiting_approval"] ELSE f[i]]
        BY <3>1, <4>3
      <4>5. Entries'[s] = [f EXCEPT ![n].status = "waiting_approval"]
        BY <4>2, <4>4
      <4> QED BY <3>3, <4>5 DEF f
    <3> QED BY <3>2, <3>3
  <2>10. Entries' = [Entries EXCEPT ![t][n].status = "waiting_approval"]
    <3>1. /\ Entries = [s \in Tasks |-> Entries[s]] /\ Entries' = [s \in Tasks |-> Entries'[s]]
      BY DEF Entries
    <3> QED BY <2>9, <3>1
  <2>11. /\ n \in DOMAIN Entries[t] /\ Entries[t][n].status = "draft_waiting_evidence"
    <3>1. Entry(t, n) = [run |-> r, status |-> proposal[r].status]
      BY <2>3 DEF EntriesAreProposals
    <3>2. DOMAIN Entries[t] = 1 .. Count(t) /\ Entries[t][n] = Entry(t, n)
      BY LedgerIsSequence
    <3> QED BY <2>3, <2>4, <3>1, <3>2
  <2>12. Ledger!Ready(t, n)
    BY <2>10, <2>11 DEF Ledger!Ready, Entries, Count
  <2> QED BY <2>11, <2>12 DEF Ledger!LedgerNext, Entries, Count
<1> QED BY <1>5, <1>6

(* No step does anything else to the proposals. *)
LEMMA StepsKeepLedger ==
  ASSUME IInv, EntriesAreProposals, EntriesAreProposals', [Next]_vars
  PROVE  [Ledger!LedgerNext]_Entries
<1>1. CASE UNCHANGED proposal
  BY <1>1 DEF Entries, Count, TaskVersions, Entry
<1>2. ASSUME NEW w \in Workers, Insert(w) PROVE Ledger!LedgerNext
  <2>1. PICK t \in Tasks, r \in Runs : Ledger!Draft(t, r)
    BY <1>2, InsertDrafts
  <2> QED BY <2>1 DEF Ledger!LedgerNext
<1>3. ASSUME NEW w \in Workers, Bind(w) PROVE [Ledger!LedgerNext]_Entries
  BY <1>3, BindMakesReady
<1>4. ASSUME NEW w \in Workers, Step(w) PROVE UNCHANGED proposal \/ Insert(w) \/ Bind(w)
  BY <1>4 DEF Step, BeginRunning, SetRunning, ReturnExisting, SetProvenance, InvokeGraph,
     ModelFails, PersistFinds, Refresh, PersistMisses, ReadLatest, InsertCollides, Abstain,
     BindCollides, BeginWaiting, RefuseWaiting, SetWaiting, LoseWaiting, Reread,
     Respond, Reset, tables
<1>5. ASSUME NEW w \in Workers, Request(w) \/ Crash(w) PROVE UNCHANGED proposal
  BY <1>5 DEF Request, Start, SeedRun, Create, Resume, Crash, Reset, tables
<1> QED BY <1>1, <1>2, <1>3, <1>4, <1>5 DEF Next, NextUncrashed, CorpusChanges, vars, tables

(* The proposals are an append-only ledger: numbered in order, one of a run, never
   rewritten and never set back to draft (ProposalLedger). *)
THEOREM LedgerKept == Spec => KeepsLedger
<1>1. Init => Ledger!LedgerInit
  <2> SUFFICES ASSUME Init PROVE Ledger!LedgerInit
    OBVIOUS
  <2>1. ASSUME NEW t \in Tasks PROVE Count(t) = 0
    <3>1. TaskVersions(t) = {}
      BY OrchestrationAssumption DEF Init, TaskVersions, NoProposal
    <3> QED BY <3>1 DEF Count, MaxOrZero
  <2>2. Entries = [t \in Tasks |-> << >>]
    <3>1. \A t \in Tasks : [n \in 1 .. 0 |-> Entry(t, n)] = << >>
      OBVIOUS
    <3> QED BY <2>1, <3>1 DEF Entries
  <2> QED BY <2>2 DEF Ledger!LedgerInit, Entries, Count
<1>2. IInv /\ EntriesAreProposals /\ EntriesAreProposals' /\ [Next]_vars => [Ledger!LedgerNext]_Entries
  BY StepsKeepLedger
<1>3. [Ledger!LedgerNext]_Entries =>
        [Ledger!LedgerNext]_[t \in Tasks |-> [n \in 1 .. MaxOrZero(TaskVersions(t)) |-> Entry(t, n)]]
  BY DEF Entries, Count
<1> QED BY <1>1, <1>2, <1>3, LedgerIsProposals, Invariance, PTL DEF Spec, KeepsLedger, Ledger!LedgerSpec
==============================================================================
