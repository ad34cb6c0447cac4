# TravelOps AI Worker: TLA+ specification

This directory specifies TravelOps AI Worker in TLA+: the store
of agent runs, the orchestration of a refund request, the refund graph, tool
execution against the provider, the policy corpus with the evidence drawn from
it, the task queue, the database schema with its migrations under servers that boot,
serve and die, and a tab of the operator console. TLC checks every module on
small instances; their safety is proved with TLAPS for any values of
their constants: any number of runs, requests, callers, documents, tasks,
readers, containers and faults. `PROJECT.json` maps each definition to the lines it translates.

## The system and its components

| Component | State it keeps | Operations | What makes it hard |
|---|---|---|---|
| Run lifecycle (`domain/runs.py`, `services/run_service.py`, `persistence/repositories.py`) | `agent_runs` (status, version), `audit_events` | `create_run`, `transition`, read | The status is validated by one statement, the row is overwritten by another that checks only the caller's version; callers race and die between them |
| Refund orchestration (`services/orchestration_service.py`, `persistence/orchestration_repositories.py`, `api/routes/orchestration.py`) | `proposal_versions`, `risk_decisions`, provenance of runs | `start_or_resume` | Seven transactions and a graph invocation per request, on a thread pool; runs are resumed in any state; nothing cleans up after a death |
| Refund graph (`orchestration/`, `models/`) | the LangGraph checkpoint of a run's thread | five nodes | Earlier and concurrent invocations of the run leave channels behind |
| Tool execution (`services/tool_service.py`, `tools/`, `integrations/provider_simulator/`, `persistence/tool_repositories.py`) | the provider's refunds, `tool_attempts`, `external_receipts` | `invoke` of create, lookup and read tools | The provider is called outside any transaction, may act and not answer; retries with one key |
| Policy corpus (`retrieval/`) | `policy_documents`, `policy_chunks`, `retrieval_evidence` | `ingest_policy`, `retrieve_and_bind` | Checks and inserts are separate statements; documents begin, expire and conflict |
| Task queue (`services/task_service.py`, `services/task_read_service.py`, `scripts/seed_demo.py`) | `tasks`, `requests`, the snapshots | seed, `list_tasks`, `get_task` | Three transactions of the seed; offset cursors over a table that changes |
| Operator console (`frontend/src`) | URL, browser history, React state of one page | filters, selection, links, approval and recovery (mock) | URL and component state have different owners |
| Schema and sessions (`migrations/`, `persistence/models.py`, `persistence/database.py`) | the tables, their constraints, `alembic_version` | upgrade, downgrade, session | Containers migrate at boot, beside each other and under requests; a downgrade drops rows, or is refused by them |
| API and containers (`main.py`, `api/`, `container-entrypoint.sh`) | a request's correlation ID, `app.state` | boot, the GET and POST routes, readiness, error handlers | An exception may surface anywhere in a request of seven transactions; readiness knows nothing of the schema |
| Tool registry, redaction, embeddings, benchmark, settings | none | pure functions, input and output | |

They interact through PostgreSQL and by calls. A request to the orchestration
creates a run in the run store, reads the task's snapshots, invokes the graph
(which calls the model gateway), records a proposal, asks the corpus for
evidence, and moves the run. Every container of the API migrates, ingests and
seeds the one database before it serves. The console reads the task queue. Tool execution
is an internal contract: nothing in the repository calls it from a run yet.

What should hold of each, and is stated in its module:

- the audit trail is the run's exact history, terminal states are final, an
  update that passes its version check overwrites the status it validated;
- proposals of a task are numbered densely and kept, one per run; a run waits
  for approval only on a proposal that is ready and has evidence; a reply that
  shows a run waiting shows that proposal, but where a search that abstains ends it;
- results of the graph owe nothing to what earlier invocations left behind;
- a recorded attempt never misstates a side effect, no refund is forgotten but by a
  death, a key that is used again is answered with the refund it made, a receipt is
  earned, unique and kept, a hidden refund is seen once it is looked up;
- evidence cites the one published document it came from, which was in force and
  nearest when it was selected, and unopposed as far as retrieval reads;
- seeds do not fail on each other; a walk of the queue misses no task;
- the schema is the one its revision stands for, whoever migrates it, and no
  migration leaves a run waiting on a proposal that is not ready or a proposal
  that is ready without its evidence; a request fails only for a reason one can
  name; every container serves in the end and no run is stranded;
- nothing but a sidebar link takes the inbox away from its URL, each selection is
  a step of the history, and decisions and recoveries are for what the URL shows.

## Modules

| Module | Models | Notes |
|---|---|---|
| `RunStates` | the states and the transition table | shared by all modules about runs |
| `RunContract` | what the run store promises | abstract: one atomic move per step |
| `RunLifecycle` | `RunService`, `RunRepository`, `AuditRepository` | implements `RunContract` |
| `RunLifecycleProofs` | theorems about `RunLifecycle` | TLAPS |
| `ProposalLedger` | what the recorded proposals promise | abstract: append or make ready |
| `Orchestration` | `start_or_resume` | composes `RunLifecycle` (as `Store`), implements `ProposalLedger` |
| `OrchestrationProofs` | theorems about `Orchestration` | TLAPS; instantiates `RunLifecycleProofs` |
| `OrchestrationClaims` | a statement of the documents | the code does not meet it |
| `RefundGraph` | the nodes of `refund_graph.py` over a checkpointed thread | |
| `RefundGraphProofs` | theorems about `RefundGraph` | TLAPS |
| `ToolExecution` | `ToolService.invoke` and the provider simulator | |
| `ToolExecutionProofs` | theorems about `ToolExecution` | TLAPS |
| `WriteOnce` | cells written once | abstract |
| `PolicyCorpus` | `ingest_policy`, `PolicyRetriever` | implements `WriteOnce` |
| `PolicyCorpusProofs` | theorems about `PolicyCorpus` | TLAPS |
| `TaskQueue` | `seed_demo.py`, `list_tasks` | |
| `TaskQueueProofs` | theorems about `TaskQueue` | TLAPS |
| `Schema` | the alembic revisions and the ORM models' declarations | no state: what scripts of statements do |
| `Deployment` | containers, migrations, requests and their answers over one database | EXTENDS `Schema` |
| `DeploymentProofs` | theorems about `Schema` and `Deployment` | TLAPS |
| `OperatorConsole` | the inbox, its URL and history, the approval review, the run timeline | one browser tab |
| `OperatorConsoleProofs` | theorems about `OperatorConsole` | TLAPS |
| `MC*` | instances of the above for TLC | |

### How state and actions correspond to the code

**RunLifecycle.** `run[r]` is the row of a run, `audit[r]` its audit events,
`held[c]` the `AgentRunRecord` a caller last obtained (whose version it will
pass as `expected_version`), `call[c]` a `transition` in flight. `Validate` is
the SELECT with `validate_run_transition`; `CompareAndSet` is everything from
the versioned UPDATE to the commit, which is one step because the UPDATE locks
the row; `LoseRace` is `ConcurrencyConflict`; `Drop` is a caller that dies or
forgets its record. Transactions run at READ COMMITTED, so others may commit
between any two statements.

**Orchestration.** `pc[w]` says where in `start_or_resume` a worker is; each
action is one transaction, or one statement of the one around `persist_result`: the
proposal that is found (`PersistFinds`) and the run beside it (`Refresh`) are read by two,
between which another worker may bind and park. Workers are the
callers of the run store. `Start`, `SeedRun` and `Resume` are the three ways a
request gets its run; `Crash` may happen anywhere; `ModelFails`,
`InsertCollides`, `BindCollides`, `RefuseWaiting` and `LoseWaiting` are the
exceptions that answer 500. `match` is the clause retrieval would select now:
`PolicyCorpus` models how it is selected. The graph is one step here:
`RefundGraph` opens it.

**RefundGraph.** `thread` is the last checkpoint of the run's thread,
`state[w]` the channels an invocation works on. Several invocations of one run
may overlap, since nothing prevents two requests from resuming it.

**ToolExecution.** `refunds` is the simulator's dictionary, `attempts` and
`receipts` the tables. `Accept` and `Store` are two steps because threads share
the dictionary; `ReceiptMissing` and `InsertReceipt` are the SELECT and the
INSERT of the receipt. `stored` and `lost` are ghosts that remember what the
provider really did on behalf of a call.

**PolicyCorpus.** Files are what ingestion reads, with a distance to the query
for each clause; retrieval orders by distance, reads three rows, abstains beyond
the maximum distance or when documents conflict. Days pass between its steps.

**TaskQueue.** A seeder goes through the check, the two creating transactions
and the refresh, whose UPDATE (sent by autoflush before the lookups) takes the
row lock. A reader walks page by page; `Orders` is the set of results the
ORDER BY admits, one where it breaks all ties and several where it does not.
`Escalated` are the tasks with that status, which no seed gives and a walk may filter by.

**Schema.** A revision's `upgrade` or `downgrade` is a sequence of statements;
`Possible` says when PostgreSQL executes one (a table can be dropped when nothing
refers to it, a column or a check added when the rows accept it), `SchemaAfter`
and `RowsAfter` what is left. `Models` is what the ORM classes declare, written
down apart from the revisions so that the two can be compared.

**Deployment.** `pc[s]` is where a container is in `container-entrypoint.sh` or
in a request; each action is one transaction, or a part of one where another's commit
matters between two statements: `Ingest` and `Publish`, `Persist` and `Insert`. `flags`
are `TRAVELOPS_DEV_MIGRATE` and `TRAVELOPS_DEV_SEED`; they are set only beside a
database's URL, as compose sets them, and without them the schema, the checkpoints and
the rows are the operator's to provide. `FindTask` and `SeedTask` are the seed's check and
its create, two transactions. `ReadRevision` and `Migrate` are
alembic's SELECT of `alembic_version` and the commit of everything it ran after
it; `Administer` is the operator's alembic. A migration waits for the transactions that
have read a table (`MigrationWaits`), whose locks its DDL needs. `rows` says of each table what is in
it: one task with one run, whose status (or the proposal's) it tells where
something depends on it. `UsedBy` gives the tables a transaction names, all
columns of which its models select, so that `Works` says when it raises
`ProgrammingError`. `lost` are the requests that hold a row a downgrade has
dropped since, and the transactions under way when the database went away. `Park`
compares the run with the one the request read (`MayWait`); `Reread` is the last
transaction, which reads the proposal for the reply. `BootFails` is `set -e`, `Stop` followed by `Start` the restart of
the container; `Fails`, `FindsItGone` and `NotConfigured` are the ways from an
exception through the handlers of `errors.py` to an `answer`. How two requests
number their proposals is in `Orchestration`, how two seeds refresh one task in
`TaskQueue`; this module has what of them decides an answer or a start, and adds what
migrations, deaths and outages do to them.

**OperatorConsole.** `history` and `at` are the tab's history, `inbox` the React
state of the inbox, `review` that of an open approval, `recovery` the request
recorded on a run timeline. `Replace` and `Select`
are `updateState` with `replaceState` and `pushState`, `Arrive` a page that
mounts or hears of a popstate, `Visit` a link that leads to it. `FollowSidebar` is a `next/link` navigation: on
the inbox's own route it leaves the component mounted and fires no popstate, so
the inbox goes on showing what the URL before said. `source` is a ghost that
remembers which URL the page last read.

## Runs

| Run | Question | Instance |
|---|---|---|
| `run_lifecycle` | Is the trail exact, are terminal states final, is the contract implemented, does contention make progress? | 1 run, 3 callers, versions up to 4 |
| `orchestration` | Do racing, crashing, resumed requests keep the ledger, the run store and the replies consistent? | 2 workers, 2 runs, 2 tasks, 2 clauses |
| `refund_graph` | Are results functions of the request alone, and waivers earned? | 2 invocations, amounts around the threshold |
| `tool_execution` | Do attempts tell the truth, are refunds known and receipts kept, are repeated keys answered and do lookups reveal a refund? | 2 callers, 1 key, all tools and scenarios |
| `policy_corpus` | Do citations resolve, to what applied and was nearest? | 5 files, 2 ingesters, 1 retriever, 3 days |
| `task_queue` | Do seeds get along and walks miss nothing? | 3 tasks, 2 seeders, 1 reader |
| `operator_console` | Do only sidebar links part the inbox from its URL, is each selection a step, are decisions bound to versions and recoveries to scenarios? | 2 tasks, 3 history entries, any first URL |
| `deployment` | Do migrations, deaths and outages under running servers keep schema, rows and answers coherent, and does everything go on? | 2 containers, 5 revisions, 1 fault, any flags |
| `claim_recoverable`, `claim_auditable`, `claim_conflicts`, `claim_url` | Statements of the documents the code contradicts | one or two actors |

**Why the bounds are enough.** Every race in this code is between two actors:
a statement that reads and a later one that writes, with one commit in between.
Three callers on a run also give a competitor of a competitor. Runs do not
interact except through a task's proposal numbers, for which two runs on one
task and a second task suffice. Versions to 4 let a run go from creation through
running and waiting to a terminal state; `MaxVersion` 3 in `orchestration`
covers both of the transitions it makes. Idempotency keys do not interact, so
one is enough. The corpus has a file for every reason a clause is refused
(another edition of the same version, not yet begun, expired, another carrier,
too far) and one document with more clauses than retrieval reads. Bounded
counters: `MaxVersion`, `Horizon` (days or minutes), `MaxHistory`, `MaxFaults`;
lookups of a refund are not told apart beyond the third. In `deployment` two
containers give every race of two upgraders and of an upgrader with a request;
`MaxFaults` 1 places a death, an outage or a downgrade to any revision at any of
their steps, and upgrades are not bounded. Its one task stands for each: rows of
different tasks meet only in the constraints, which are about one row or a
parent and its child.

**Fairness.** Safety properties rest on none, whatever the specification of their run
adds. `run_lifecycle` assumes that a statement
handed to the database completes (weak fairness of each caller's pending
update): its liveness is only that a validated transition or a competitor moves
the run. `claim_recoverable` assumes the most favourable conditions, so that its
counterexample counts: no process dies, workers go on, clients ask again for ever
(strong fairness of resuming). `tool_execution` assumes that a call
goes on, and that each refund is looked up again and again, with lookups that go through
now and then although callers may die at any point: the reconciliation by lookup that
`docs/backend/DELIVERY_CONTRACT.md` asks for instead of a blind retry. Nobody is assumed to
call create again; what a call that does meets is a safety property (`RetriesAreAnswered`).
`deployment` assumes that containers
are restarted and take their steps (weak fairness of `Step`: `compose.dev.yaml` has
`restart: unless-stopped`, a thread that waits for the database gets its answer or
an exception), that the database comes back, that a rollback is followed by an
upgrade to head some time, and that the client asks for its run again (strong
fairness of `Post`, for a container may stop in between).

## Findings

- `claim_recoverable`: evidence is bound and the run is moved in two
  transactions; when the second fails, every later resume returns early and the
  run is never parked for approval.
- `claim_auditable`: of two confirmed calls of one key the second to insert its
  receipt is rolled back with its attempt.
- `claim_conflicts`: a conflict of documents is looked for among the three
  nearest clauses only, which may all be of one document.
- `claim_url`: a sidebar link to a saved view followed within the inbox changes the URL
  and not what is shown. `OnlySidebarLinksDiverge` says that nothing else does.

Divergences met while modelling that have no run of their own:

- `BACKEND_PLATFORM_DELIVERY_ROADMAP.md:651` says that a restart resumes without
  duplicating completed nodes; `graph.invoke` is given an input
  (`orchestration_service.py:96`), so a resumed run starts again at `classify`.
  `RefundGraph` restarts so, and `ResultsAreFresh` shows that the repetition does
  no harm.
- `docs/api/CONVENTIONS.md` gives conflicts 409 and an unavailable dependency
  503; outside of readiness and of an application without a database both are
  unexpected exceptions, answered with 500 (`Fails`, `EndUnbound`, `Park`).
- Rolling back past revision 0005 is refused, as a whole, while a proposal waits
  for approval: `alembic downgrade -1` is no rollback once a run has got there.
- After a rollback past 0002 and an upgrade the task is there without its
  snapshots, and answers 404 until a container that seeds starts again.
- Readiness says ready at any revision, and without the checkpointer's tables, which
  only a container with `TRAVELOPS_DEV_MIGRATE` makes: then every new run ends in 500.
- A reply may show a run that waits for approval beside a proposal that is still a
  draft: the request found another's proposal, read the run after that other had
  bound and parked it, and its own search abstained (`orchestration_repositories.py:111`,
  `orchestration_service.py:119`). No document says it may not; `RepliesAreCoherent`
  excepts it, and says what holds beside it.
- Two requests on one run may both find no proposal; the second is answered 500 by the
  unique constraint. `AnswersAreHonest` has it among its reasons.

## Proofs

Each module of proofs has the same layout: an inductive invariant `IInv`, a lemma
for the initial states, one for each action (or group of actions that end alike), a
theorem `Invariance == Spec => []IInv`, and the properties of the runs as its
consequences. TLC checks each `IInv` on the instance of the module's run; TLAPS proves it
from the module's one assumption about its constants, which TLC evaluates.

| Module | Proved properties of the runs | Assumption |
|---|---|---|
| `RunLifecycleProofs` | `TypeOK`, `AuditIsHistory`, `HeldIsHistory`, `ValidationHolds`, `TerminalIsFinal`, `ImplementsContract` | `MaxVersion` above zero, `NoRun` no run |
| `OrchestrationProofs` | `TypeOK`, `UsesRunStore`, `ProposalsAreInOrder`, `WaitingRunsHaveEvidence`, `RepliesAreCoherent`, `KeepsLedger` | the null values are apart from the real ones, `MaxVersion` at least 3 |
| `ToolExecutionProofs` | `TypeOK`, `RecordsAreTruthful`, `RefundsAreKnown`, `ReceiptsAreKept`, `RetriesAreAnswered` | none |
| `PolicyCorpusProofs` | `TypeOK`, `CitationsResolve`, `EvidenceIsSound`, `PublishesOnce` | what a file is: numbers for its days and distances, finitely many clauses and at least one |
| `RefundGraphProofs` | `TypeOK`, `ResultsAreFresh`, `WaiversAreEarned` | amounts are numbers, `Unset` no value of a channel |
| `TaskQueueProofs` | `TypeOK`, `DemoHasContext`, `RefreshSucceeds`, `WalksAreFaithful` | finitely many tasks, numbers for what orders them |
| `OperatorConsoleProofs` | `TypeOK`, `OnlySidebarLinksDiverge`, `SelectionsAreSteps`, `ActionsAreSound` | the list is finite, parsing twice is parsing once, `NoState` no state of a page |
| `DeploymentProofs` | `TypeOK`, `SchemaIsItsRevision`, `RowsAreCoherent`, `AnswersAreHonest` | `MaxFaults` is a number |

**The run store.** The trail is not inductive by itself: the update writes into its audit event the
status of an earlier SELECT and the version of a still earlier read. The
strengthening is `ValidationHolds`: the expected version is no later than the
version seen at validation, which is no later than the row's; so if the row is
still at the expected version, all three are equal, the row is the one that was
validated (`UpdateOverwritesValidated`), and the event describes what really
happened. That a terminal run is final follows, since no validated move starts
from a terminal state (`TransitionTable`), and so does the refinement.

**The orchestration.** A request uses the run store only through its operations
(`StoreUse`, a refinement), so the run store's theorems, instantiated, hold of the
whole and their lemmas serve its steps. What is added: the versions of a task's
proposals are an initial segment of the numbers with none given twice (`VersionsAreInOrder`),
proposals belong to the task of their run, and each worker's place in
`start_or_resume` says what it holds and what is recorded. `InsertedVersions` is
the heart of it: of two requests that read the same latest version the second is
refused by the unique constraint, so the count never skips. `Evidence` needs the
run's whole history and not only its row, because a worker that wakes up late holds an
old record. A reply joins a run record and a proposal of two statements; what it says is so
because a worker's sight of the run was true at its version and proposals only go forward
(`SightLasts`). Of a worker about to search the invariant does not say that its run and its
proposal fit, for they need not; `Replies` has the exception that follows. `LedgerKept` is the refinement of `ProposalLedger`: the ledger's
sequence of a task is a function of the rows, which an insert extends and a binding
marks ready.

**Tool execution.** `CallIsCoherent` says for each place of a call what its
answer says of the provider: that what it confirms was stored, that a receipt it
is about to insert was not there. Truth of the records is then kept by the two
statements that record, `RetriesAreAnswered` by the lookup of the key that comes before any
scenario, and `RefundsAreKnown` by every step that changes where a
refund is known from: the call itself, its row, or, at a death, the ghost `lost`.

**The corpus.** Selection is a function of what was published at the SELECT;
`SelectionIsSound` shows that what it returns is nearest and, when retrieval reads
all clauses, unopposed. It stays sound because editions are unique and never
change. The proof found a gap in the model's assumption: with a document without a
clause, its rivals are not told apart by the rows. `ingest.py:35` refuses such a
document (`Field(min_length=1)`), so `CorpusAssumption` says that each file has one.

**The graph.** The channels of an invocation are its own once it has written
them (`ChannelsAreOwn`): whatever the thread's checkpoint held, each node reads only
channels that an earlier node of the same invocation has overwritten.

**The queue.** Of a seeder: it holds the row lock exactly from its first lookup
to its commit, and what it noted is still so. Of a walk: `Position` shows that a
task's row number is the number of tasks ahead of it plus one, whichever order the
ORDER BY picks among ties; so a task not returned yet, with at least `offset`
tasks ahead of it, is still to come, and an arrival can only increase that number.
That is why a walk by exposure misses nothing under any changes, one by due time
only as long as none is rescheduled, and one by priority promises only its rank order.

**The console.** The page that is mounted is the URL's, the inbox's state is what
the URL it last read says, and a review belongs to the URL that opened it. `Push`
drops the entries after the current one, for which `PushKeepsSteps` shows that a
selection still differs from the step before. Keys move by row number, which the
module defines as the number of rows before, plus one.

**The deployment.** The revisions of the repository are data here, so the first half
of the proofs is about them: what each statement makes of a table's objects, that
the upgrade of a revision leads from the schema before to its own and the downgrade
back (`SchemaAt`), which tables it drops, and so the same of the script between any two
revisions (`Migrates`). This holds of whatever a container or the operator runs, in
any order, since a migration that commits read the revision it found. The second half is
about the rows. `RowsFit`: only tables that the revision has have rows.
`ParentsAreThere`: the rows a foreign key refers to are there; it is closed under
the migrations because a downgrade drops a table together with all that refer to it.
`ApprovalsRest`: evidence is there exactly while the proposal waits, and a run
waits only while its proposal does; no script leaves head then, because the check it
would restore refuses the row (`Possible`), so a downgrade cannot tear them apart.
`ServerIsCoherent` says what a container relies on between two of its transactions:
that what its request holds is there unless the request is in `lost`, that a proposal it is
about to park waits, that a page that saw a waiting run will find its evidence. One
container's step cannot break another's (`Moves`) as it takes no row away
(`Keeps`). The migrations do, and put who held one into `lost`. `AnswersAreHonest`
follows from the same invariant: a statement finds its tables as the models
declare them at every revision from the one that brought them (`Needs`), and when it
fails, one of the reasons is at hand. The invariant says nothing of the checkpoints, which a
server may be without.

**Induction.** The provers cannot instantiate the library's induction theorems, which
take an operator as a parameter. Where a sequence grows, the invariant speaks of all
its elements, and where rows are ordered, of how many are before which
(`Position`, `VIPsAreFirst`, by cardinality). Only the scripts of
`DeploymentProofs` need induction, and there it is by least counterexample
(`LeastNumber`, from the library's theorem about well-founded relations, whose
parameters are sets): `SchemaAfter` and the community modules' `FlattenSeq` are
recursive functions, for which the lemmas show first that a function that satisfies the
recursion exists, then that any two agree (`FollowsOnce`), and then how it grows.

**Only model-checked.** Liveness, because it needs fairness and ENABLED: the
progress of contending callers (`run_lifecycle`), the discovery of
refunds (`tool_execution`), the starts and resumed runs of `deployment`.

## What is not modelled

- Pure functions without state: redaction, hash embeddings (their distances are
  constants of `PolicyCorpus`), the retrieval benchmark, the console's
  scores of two static files, formatting of responses.
- The validation of a request's fields (422), liveness, the static parts of a
  task's workspace, logging and the settings but the database's URL: they keep no
  state and depend on none.
- Indexes, the columns no property tells apart, and alembic's offline mode.
- The downgrade of the checkpointer's tables: nothing in the repository drops
  them, so threads outlive a rollback to base.
- Of the console: open panels and what pages render; traversals of more than one
  entry, where Next may keep the state of a page across two of its URLs; pages restored from the browser's back/forward cache; a list
  of tasks that changes while the inbox is open.

## Plan

Done, in this order: the run store and its contract; the orchestration over it;
tool execution; the corpus; the graph; the task queue; the console; the schema and
the deployment over it; the proofs of the run store, the graph, tool execution, the
orchestration, the corpus, the queue, the console and the deployment: every safety
property of the passing runs, action properties and refinements included, is a theorem.

Next:

1. Of liveness, the part that needs neither fairness nor ENABLED: that a worker,
   a call or a container between two of its steps always has one whose guard holds,
   stated with the guards themselves.
2. Evidence as an immutable record, and what the console shows of a queue
   longer than its one page of a hundred tasks.
