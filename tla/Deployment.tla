------------------------------ MODULE Deployment ------------------------------
(***************************************************************************)
(* Servers over one database: containers that migrate, ingest, seed and    *)
(* then serve (container-entrypoint.sh), an operator who downgrades and     *)
(* upgrades the schema under them, and the requests they answer meanwhile, *)
(* every exception turned into a status by the handlers of api/errors.py.  *)
(*                                                                         *)
(* The data is one task with one run: of requests to start another, whose  *)
(* rows are apart, none is followed while it is there.  A step is a        *)
(* transaction, or a part of one when another's step can come between two  *)
(* statements and change what the later one does: a SELECT and the INSERT   *)
(* it leads to.                                                            *)
(***************************************************************************)
EXTENDS Schema

CONSTANTS Servers,    \* API containers
          MaxFaults   \* bound on deaths, outages and downgrades together

ASSUME DeploymentAssumption == MaxFaults \in Nat

VARIABLES
  configured,   \* TRAVELOPS_DATABASE_URL is set
  flags,        \* what TRAVELOPS_DEV_MIGRATE and TRAVELOPS_DEV_SEED ask for
  up,           \* the database is reachable
  rev,          \* alembic_version
  schema, rows, \* the objects of the database and what its tables hold
  checkpoints,  \* the checkpointer's own tables exist
  pc,           \* pc[s]: what server s does next
  read,         \* read[s]: the revision its alembic read
  saw,          \* saw[s]: the status of the run its request has read
  lost,         \* servers whose row a downgrade dropped, or transaction an outage
  id,           \* id[s]: the correlation ID of its request, in request.state
  answer,       \* answer[s]: its response
  faults

database == <<rev, schema, rows, checkpoints>>
request == <<saw, lost, id, answer>>
outside == <<configured, flags, up, faults>>
vars == <<outside, database, pc, read, request>>

Boot == {"down", "upgrade", "migrate", "checkpoints", "ingest", "publish",
         "seed", "seed_task", "seed_run", "context"}
Reads == {"task", "agent_run", "proposal", "policy"}
Pages == {"page_run", "page_proposal", "page_evidence"}
Handling == {"load", "run", "begin", "check", "graph", "persist", "insert", "bind", "park",
             "reread"} \cup Reads \cup Pages
Steps == Boot \cup Handling \cup {"serving", "ready", "reply"}

NoAnswer == [status |-> 0, id |-> "none", run |-> "none", items |-> FALSE]

(* The tables a step reads or writes; the models name all their columns. *)
context == {"tasks", "requests", "customer_snapshots", "booking_snapshots"}
policies == {"policy_document_versions", "policy_chunks"}
UsedBy == [step \in Steps |->
  CASE step \in {"ingest", "publish", "policy"} -> policies
    [] step \in {"seed", "seed_task"} -> {"tasks", "requests", "audit_events"}
    [] step \in {"context", "load", "task"} -> context
    [] step \in {"seed_run", "run", "begin"} -> {"agent_runs", "audit_events"}
    [] step = "check" -> {"agent_runs", "proposal_versions"}
    [] step \in {"persist", "insert"} -> {"agent_runs", "proposal_versions", "risk_decisions"}
    [] step = "bind" -> policies \cup {"retrieval_evidence", "proposal_versions"}
    [] step = "park" -> {"agent_runs", "audit_events"}
    [] step \in {"agent_run", "page_run"} -> {"agent_runs"}
    [] step \in {"reread", "proposal", "page_proposal"} -> {"proposal_versions"}
    [] step = "page_evidence" -> {"retrieval_evidence"}
    [] OTHER -> {}]
Declared == [t \in Tables |-> {o \in Models[t] : o[1] = "column"}]
Works(s) == /\ up
            /\ \A t \in UsedBy[pc[s]] : Declared[t] \subseteq schema[t]
            /\ pc[s] = "graph" => checkpoints

(* The rows a step goes on with: those its request found before. *)
HeldBy(step) == CASE step \in {"seed_run", "context", "run"} -> {"tasks"}
                  [] step \in {"begin", "check", "graph", "persist", "insert"} ->
                       {"tasks", "agent_runs"}
                  [] step \in {"bind", "park", "reread"} ->
                       {"tasks", "agent_runs", "proposal_versions"}
                  [] step = "page_proposal" -> {"agent_runs"}
                  [] step = "page_evidence" -> {"proposal_versions"}
                  [] OTHER -> {}

At(s, step) == pc[s] = step
Goto(s, step) == pc' = [pc EXCEPT ![s] = step]
Ready(s, step) == At(s, step) /\ Works(s) /\ s \notin lost
Holds(ts, content) == rows' = [t \in Tables |-> IF t \in ts THEN content ELSE rows[t]]

(* A transaction that has read a table keeps it from being altered. *)
InTransaction == {"publish", "insert"}
MigrationWaits == \E s \in Servers : pc[s] \in InTransaction /\ s \notin lost

(* With the event that says so; the events of the task alone are left out. *)
RunIs(status) == rows' = [rows EXCEPT !["agent_runs"] = status, !["audit_events"] = "some"]
Found(ts) == \A t \in ts : rows[t] # "none"
HasContext == Found(context)

------------------------------------------------------------------------------
Init == /\ configured \in BOOLEAN /\ up = TRUE
        /\ flags \in SUBSET {"migrate", "seed"} /\ (flags # {} => configured)
        /\ rev = 0 /\ schema = Nothing /\ rows = Empty /\ checkpoints = FALSE
        /\ pc = [s \in Servers |-> "down"]
        /\ read = [s \in Servers |-> 0]
        /\ saw = [s \in Servers |-> "none"]
        /\ lost = {}
        /\ id = [s \in Servers |-> "none"]
        /\ answer = [s \in Servers |-> NoAnswer]
        /\ faults = 0

(* A migration commits as a whole, or not at all: a statement fails, or the
   UPDATE of alembic_version does not find the revision that was read.
   Fault: it is not looked at. *)
AnyRevision(from) == TRUE
StillAt(from) == rev = from

Commits(from, to) == /\ up /\ StillAt(from)
                     /\ \E script \in {Script[from][to]} : GoesThrough(schema, rows, script)

Commit(from, to) ==
  /\ Commits(from, to) /\ ~MigrationWaits
  /\ rev' = to
  /\ \E script \in {Script[from][to]} :
       /\ schema' = SchemaAfter(schema, script, Len(script))
       /\ rows' = RowsAfter(rows, script, Len(script))
  /\ lost' = lost \cup {s \in Servers :
                          \E t \in HeldBy(pc[s]) : rows[t] # "none" /\ rows'[t] = "none"}
  /\ UNCHANGED checkpoints

------------------------------------------------------------------------------
(* A container starts: container-entrypoint.sh under set -e.  Compose sets the
   database's URL and both flags; with the URL alone the schema and the rows are
   the operator's. *)
Seeding == IF "seed" \in flags THEN "seed" ELSE "serving"

Start(s) == /\ At(s, "down")
            /\ Goto(s, IF "migrate" \in flags THEN "upgrade" ELSE Seeding)
            /\ UNCHANGED <<outside, database, read, request>>

ReadRevision(s) == /\ Ready(s, "upgrade")
                   /\ read' = [read EXCEPT ![s] = rev]
                   /\ Goto(s, "migrate")
                   /\ UNCHANGED <<outside, database, request>>

(* At head there is nothing to do, whatever has become of it meanwhile. *)
Succeeds(s) == IF read[s] = HeadRevision THEN up ELSE Commits(read[s], HeadRevision)

Migrate(s) == /\ At(s, "migrate") /\ Succeeds(s)
              /\ IF read[s] = HeadRevision THEN UNCHANGED <<database, lost>>
                                           ELSE Commit(read[s], HeadRevision)
              /\ read' = [read EXCEPT ![s] = 0]
              /\ Goto(s, "checkpoints")
              /\ UNCHANGED <<outside, saw, id, answer>>

SetUpCheckpoints(s) == /\ Ready(s, "checkpoints")
                       /\ checkpoints' = TRUE
                       /\ Goto(s, "ingest")
                       /\ UNCHANGED <<outside, rev, schema, rows, read, request>>

(* The policies, unless they are there; two containers may both miss them. *)
Ingest(s) == /\ Ready(s, "ingest")
             /\ Goto(s, IF Found(policies) THEN Seeding ELSE "publish")
             /\ UNCHANGED <<outside, database, read, request>>

Publish(s) == /\ Ready(s, "publish") /\ ~Found(policies)
              /\ Holds(policies, "some")
              /\ Goto(s, Seeding)
              /\ UNCHANGED <<outside, rev, schema, checkpoints, read, request>>

(* The demo task, its run, its context: a transaction each, after one that looks
   for the task; a task that is there is taken to have its run. *)
FindTask(s) == /\ Ready(s, "seed")
               /\ Goto(s, IF rows["tasks"] = "none" THEN "seed_task" ELSE "context")
               /\ UNCHANGED <<outside, database, read, request>>

SeedTask(s) == /\ Ready(s, "seed_task") /\ rows["tasks"] = "none"
               /\ Holds({"tasks", "requests"}, "some")
               /\ Goto(s, "seed_run")
               /\ UNCHANGED <<outside, rev, schema, checkpoints, read, request>>

SeedRun(s) == /\ Ready(s, "seed_run")
              /\ IF rows["agent_runs"] = "none" THEN RunIs("queued")
                                                ELSE UNCHANGED rows
              /\ Goto(s, "context")
              /\ UNCHANGED <<outside, rev, schema, checkpoints, read, request>>

SeedContext(s) == /\ Ready(s, "context")
                  /\ Holds({"customer_snapshots", "booking_snapshots"}, "some")
                  /\ Goto(s, "serving")
                  /\ UNCHANGED <<outside, rev, schema, checkpoints, read, request>>

(* The container exits, whatever it was about, and is started again. *)
Stop(s) == /\ Goto(s, "down")
           /\ saw' = [saw EXCEPT ![s] = "none"] /\ lost' = lost \ {s}
           /\ id' = [id EXCEPT ![s] = "none"] /\ answer' = [answer EXCEPT ![s] = NoAnswer]
           /\ read' = [read EXCEPT ![s] = 0]
           /\ UNCHANGED database

(* The INSERT of what another has inserted since it was looked for. *)
SeedCollides(s) == \/ At(s, "publish") /\ Found(policies)
                   \/ At(s, "seed_task") /\ rows["tasks"] # "none"

BootFails(s) == /\ pc[s] \in Boot \ {"down"}
                /\ IF At(s, "migrate") THEN ~Succeeds(s)
                                       ELSE ~Works(s) \/ s \in lost \/ SeedCollides(s)
                /\ Stop(s)
                /\ UNCHANGED outside

------------------------------------------------------------------------------
(* Requests. *)

(* The correlation ID that came with a request, or the one made up for it, is
   on every response.  Fault: not on that of an unexpected error, which the
   middleware never sees. *)
HeaderUnlessFailed(s, status) == IF status = 500 THEN "none" ELSE id[s]
Header(s, status) == id[s]

Answers(s, response) ==
  /\ answer' = [answer EXCEPT ![s] = [response EXCEPT !.id = Header(s, response.status)]]
  /\ saw' = [saw EXCEPT ![s] = "none"] /\ lost' = lost \ {s}
  /\ id' = [id EXCEPT ![s] = "none"]
  /\ Goto(s, "reply")
Status(code) == [NoAnswer EXCEPT !.status = code]

Ask(s, route) ==
  /\ At(s, "serving")
  /\ id' = [id EXCEPT ![s] = "own"]
  /\ Goto(s, route)
  /\ UNCHANGED <<outside, database, read, saw, lost, answer>>

Deliver(s) == /\ At(s, "reply")
              /\ Goto(s, "serving")
              /\ answer' = [answer EXCEPT ![s] = NoAnswer]
              /\ UNCHANGED <<outside, database, read, saw, lost, id>>

(* Readiness asks the database for SELECT 1. *)
TellReadiness(s) == /\ At(s, "ready")
                    /\ Answers(s, Status(IF configured /\ up THEN 200 ELSE 503))
                    /\ UNCHANGED <<outside, database, read>>

NotConfigured(s) == /\ pc[s] \in Handling /\ ~configured
                    /\ Answers(s, Status(503))
                    /\ UNCHANGED <<outside, database, read>>

(* A table or column is missing, or the database is away: an exception nobody
   expects.  Readiness told none of it. *)
Fails(s) == /\ pc[s] \in Handling /\ configured /\ ~Works(s)
            /\ Answers(s, Status(500))
            /\ UNCHANGED <<outside, database, read>>

(* A row found before is gone: LookupError, a foreign key or an assertion; a search
   that finds no clause never asks for the proposal.  Or the transaction is. *)
Outcomes(s) == CASE At(s, "bind") /\ rows["policy_chunks"] = "none" -> {201}
                 [] pc[s] \in {"persist", "insert", "reread"} -> {500}
                 [] OTHER -> {404, 500}

FindsItGone(s) ==
  /\ pc[s] \in Handling \ (Pages \cup {"graph"}) /\ Works(s) /\ s \in lost
  /\ \E code \in Outcomes(s) : Answers(s, Status(code))
  /\ UNCHANGED <<outside, database, read>>

(* GET of a task, a run, a proposal, a policy's version: a transaction each. *)
Look(s, route) == /\ Ready(s, route)
                  /\ Answers(s, Status(IF Found(UsedBy[route]) THEN 200 ELSE 404))
                  /\ UNCHANGED <<outside, database, read>>
GetTask(s) == Look(s, "task")
GetRun(s) == Look(s, "agent_run")
GetProposal(s) == Look(s, "proposal")
GetPolicy(s) == Look(s, "policy")

(* POST: start_or_resume. *)
LoadContext(s) == /\ Ready(s, "load")
                  /\ IF HasContext THEN Goto(s, "run") /\ UNCHANGED request
                                   ELSE Answers(s, Status(404))
                  /\ UNCHANGED <<outside, database, read>>

CreateRun(s) == /\ Ready(s, "run") /\ rows["agent_runs"] = "none"
                /\ RunIs("queued")
                /\ Goto(s, "begin")
                /\ UNCHANGED <<outside, rev, schema, checkpoints, read, request>>

(* Fault: a run that is running is left to the request that set it running. *)
LeaveRunning(s) == /\ Ready(s, "run") /\ rows["agent_runs"] # "none"
                   /\ IF rows["agent_runs"] = "running"
                      THEN Answers(s, Status(201))
                      ELSE Goto(s, "check") /\ UNCHANGED request
                   /\ UNCHANGED <<outside, database, read>>
ResumeRun(s) == /\ Ready(s, "run") /\ rows["agent_runs"] # "none"
                /\ Goto(s, "check")
                /\ UNCHANGED <<outside, database, read, request>>

(* Fault: a status no row of the table may have. *)
BeginUnlisted(s) == /\ Ready(s, "begin")
                    /\ RunIs("in_progress")
                    /\ Goto(s, "check")
                    /\ UNCHANGED <<outside, rev, schema, checkpoints, read, request>>
BeginRunning(s) == /\ Ready(s, "begin")
                   /\ RunIs("running")
                   /\ Goto(s, "check")
                   /\ UNCHANGED <<outside, rev, schema, checkpoints, read, request>>

(* The early return, or the provenance. *)
CheckProposal(s) == /\ Ready(s, "check")
                    /\ IF rows["proposal_versions"] # "none"
                       THEN Answers(s, Status(201))
                       ELSE Goto(s, "graph") /\ UNCHANGED request
                    /\ UNCHANGED <<outside, database, read>>

InvokeGraph(s) == /\ At(s, "graph") /\ Works(s)
                  /\ Goto(s, "persist")
                  /\ UNCHANGED <<outside, database, read, request>>

(* persist_result: the proposal is looked for, then inserted.  The run is read again
   in the same transaction, beside which no other changes what is found. *)
SeesRun(s) == saw' = [saw EXCEPT ![s] = rows["agent_runs"]]

Persist(s) == /\ Ready(s, "persist")
              /\ IF rows["proposal_versions"] = "none"
                 THEN Goto(s, "insert") /\ UNCHANGED saw
                 ELSE Goto(s, "bind") /\ SeesRun(s)
              /\ UNCHANGED <<outside, database, read, lost, id, answer>>

Insert(s) == /\ Ready(s, "insert") /\ rows["proposal_versions"] = "none"
             /\ rows' = [rows EXCEPT !["risk_decisions"] = "some",
                                     !["proposal_versions"] = "draft_waiting_evidence"]
             /\ SeesRun(s)
             /\ Goto(s, "bind")
             /\ UNCHANGED <<outside, rev, schema, checkpoints, read, lost, id, answer>>

(* Another request on the run inserted its proposal meanwhile: IntegrityError. *)
InsertCollides(s) == /\ Ready(s, "insert") /\ rows["proposal_versions"] # "none"
                     /\ Answers(s, Status(500))
                     /\ UNCHANGED <<outside, database, read>>

(* Evidence is bound and the proposal readied; evidence that is there already
   makes the INSERT fail. *)
AlreadyBound == rows["policy_chunks"] # "none" /\ rows["retrieval_evidence"] # "none"

Bind(s) ==
  /\ Ready(s, "bind") /\ rows["policy_chunks"] # "none" /\ ~AlreadyBound
  /\ rows' = [rows EXCEPT !["retrieval_evidence"] = "some",
                          !["proposal_versions"] = "waiting_approval"]
  /\ Goto(s, "park")
  /\ UNCHANGED <<outside, rev, schema, checkpoints, read, request>>

EndUnbound(s) == /\ Ready(s, "bind")
                 /\ rows["policy_chunks"] = "none" \/ AlreadyBound
                 /\ Answers(s, Status(IF AlreadyBound THEN 500 ELSE 201))
                 /\ UNCHANGED <<outside, database, read>>

(* A run that was never set running cannot wait (InvalidRunTransition), nor one set
   running since it was read (ConcurrencyConflict). *)
MayWait(s) == rows["agent_runs"] = "running" /\ saw[s] = "running"

Park(s) == /\ Ready(s, "park") /\ MayWait(s)
           /\ RunIs("waiting_approval")
           /\ Goto(s, "reread")
           /\ UNCHANGED <<outside, rev, schema, checkpoints, read, request>>

ParkRefused(s) == /\ Ready(s, "park") /\ ~MayWait(s)
                  /\ Answers(s, Status(500))
                  /\ UNCHANGED <<outside, database, read>>

Reread(s) == /\ Ready(s, "reread")
             /\ Answers(s, Status(201))
             /\ UNCHANGED <<outside, database, read>>

(* GET of a run's evidence: the run, its proposal and the evidence are read in
   three transactions. *)
PageRun(s) ==
  /\ At(s, "page_run") /\ Works(s)
  /\ IF rows["agent_runs"] = "none"
     THEN Answers(s, Status(404))
     ELSE /\ SeesRun(s)
          /\ Goto(s, "page_proposal")
          /\ UNCHANGED <<lost, id, answer>>
  /\ UNCHANGED <<outside, database, read>>

Page(s, items) == [status |-> 200, id |-> "none", run |-> saw[s], items |-> items]

PageProposal(s) ==
  /\ At(s, "page_proposal") /\ Works(s)
  /\ IF rows["proposal_versions"] = "none" \/ s \in lost
     THEN Answers(s, Page(s, FALSE))
     ELSE Goto(s, "page_evidence") /\ UNCHANGED request
  /\ UNCHANGED <<outside, database, read>>

PageEvidence(s) ==
  /\ At(s, "page_evidence") /\ Works(s)
  /\ Answers(s, Page(s, rows["retrieval_evidence"] # "none" /\ s \notin lost))
  /\ UNCHANGED <<outside, database, read>>

------------------------------------------------------------------------------
(* The operator: alembic downgrade, as a reviewed rollback, and upgrade head.
   A downgrade a row stands against changes nothing. *)

Administer(to) == /\ configured /\ to # rev
                  /\ Commit(rev, to)
                  /\ UNCHANGED <<configured, flags, up, pc, read, saw, id, answer>>

Downgrade(to) == to < rev /\ faults < MaxFaults /\ Administer(to) /\ faults' = faults + 1
Upgrade == Administer(HeadRevision) /\ UNCHANGED faults

(* Faults. *)
Die(s) == /\ ~At(s, "down") /\ faults < MaxFaults
          /\ Stop(s)
          /\ faults' = faults + 1
          /\ UNCHANGED <<configured, flags, up>>

(* What is written commits or is undone; a transaction under way is undone. *)
Outage == /\ up /\ configured /\ faults < MaxFaults
          /\ up' = FALSE /\ faults' = faults + 1
          /\ lost' = lost \cup {s \in Servers : pc[s] \in InTransaction}
          /\ UNCHANGED <<configured, flags, database, pc, read, saw, id, answer>>

Recover == /\ ~up /\ up' = TRUE
           /\ UNCHANGED <<configured, flags, faults, database, pc, read, request>>

Step(s) == \/ Start(s) \/ ReadRevision(s) \/ Migrate(s) \/ SetUpCheckpoints(s) \/ Ingest(s)
           \/ Publish(s) \/ FindTask(s) \/ SeedTask(s) \/ SeedRun(s) \/ SeedContext(s)
           \/ BootFails(s)
           \/ Deliver(s) \/ TellReadiness(s) \/ NotConfigured(s) \/ Fails(s) \/ FindsItGone(s)
           \/ GetTask(s) \/ GetRun(s) \/ GetProposal(s) \/ GetPolicy(s)
           \/ LoadContext(s) \/ CreateRun(s) \/ ResumeRun(s) \/ BeginRunning(s)
           \/ CheckProposal(s) \/ InvokeGraph(s) \/ Persist(s) \/ Insert(s)
           \/ InsertCollides(s) \/ Bind(s) \/ EndUnbound(s)
           \/ Park(s) \/ ParkRefused(s) \/ Reread(s)
           \/ PageRun(s) \/ PageProposal(s) \/ PageEvidence(s)

Post(s) == Ask(s, "load")

Next == \/ \E s \in Servers :
             \/ Step(s) \/ Die(s)
             \/ \E route \in {"load", "page_run", "ready"} \cup Reads : Ask(s, route)
        \/ Upgrade \/ \E to \in 0 .. HeadRevision : Downgrade(to)
        \/ Outage \/ Recover

(* Containers are restarted and go on, the database comes back, the operator
   finishes what the runbook says, and the task's run is asked for again. *)
Spec == /\ Init /\ [][Next]_vars
        /\ WF_vars(Upgrade) /\ WF_vars(Recover)
        /\ \A s \in Servers : WF_vars(Step(s)) /\ SF_vars(Post(s))

------------------------------------------------------------------------------
(* Properties. *)

(* Every variable has its type. *)
TypeOK == /\ configured \in BOOLEAN /\ up \in BOOLEAN /\ checkpoints \in BOOLEAN
          /\ flags \subseteq {"migrate", "seed"}
          /\ rev \in 0 .. HeadRevision
          /\ rows \in [Tables -> Contents]
          /\ pc \in [Servers -> Steps]
          /\ read \in [Servers -> 0 .. HeadRevision]
          /\ saw \in [Servers -> Contents] /\ lost \subseteq Servers
          /\ id \in [Servers -> {"none", "own"}]
          /\ answer \in [Servers -> [status : {0, 200, 201, 404, 500, 503}, run : Contents,
                                     id : {"none", "own"}, items : BOOLEAN]]
          /\ faults \in 0 .. MaxFaults

(* The schema is the one its revision stands for, whoever migrated it, how often,
   back and forth and beside whom; and at head it is what the models declare. *)
SchemaIsItsRevision ==
  /\ schema = SchemaAt[rev]
  /\ rev = HeadRevision => schema = Models

(* What the approval of a refund rests on survives every migration: a proposal is
   ready exactly when it has evidence, a run waits only on a ready proposal, and
   no row outlives one it refers to. *)
RowsAreCoherent ==
  /\ rows["proposal_versions"] = "waiting_approval" <=> rows["retrieval_evidence"] # "none"
  /\ rows["agent_runs"] = "waiting_approval" => rows["proposal_versions"] = "waiting_approval"
  /\ \A t \in Tables, u \in Tables :
       Reference(u) \in schema[t] /\ rows[t] # "none" => rows[u] # "none"

(* The revision that brings what a step of a request reads or writes. *)
Needs(step) == CASE step \in {"load", "task"} -> 2
                 [] step \in {"bind", "page_evidence", "policy"} -> 5
                 [] step = "graph" -> 0
                 [] OTHER -> 4

(* With the database reachable, at head or at any revision that has what a request
   asks for, it fails only if a downgrade took its rows or an outage its transaction,
   if nobody set up the checkpoints, if another request on the run inserted the
   proposal or bound the evidence first, or if the run was not running when it was
   read; an evidence page that has read a waiting run is not empty; and every
   response has its request's correlation ID. *)
AnswersAreHonest ==
  [][\A s \in Servers : At(s, "reply")' /\ ~At(s, "reply") =>
       LET response == answer'[s] IN
       /\ response.status = 500 =>
            \/ ~up \/ s \in lost
            \/ rev < Needs(pc[s])
            \/ At(s, "graph") /\ ~checkpoints
            \/ At(s, "insert") /\ rows["proposal_versions"] # "none"
            \/ At(s, "bind") /\ AlreadyBound
            \/ At(s, "park") /\ ~(rows["agent_runs"] = "running" /\ saw[s] = "running")
       /\ response.run = "waiting_approval" => response.items
       /\ response.id = id[s] /\ id[s] # "none"]_vars

(* Every container serves in the end, however its start collides with another's
   migration or with a downgrade. *)
ServersStart == \A s \in Servers : pc[s] \in Boot ~> At(s, "serving")

(* A run whose creator died is not stranded: once there are checkpoints, asking for it
   again leads to a proposal, unless a downgrade takes the run or its task's context. *)
RunsAreNotStranded ==
  checkpoints /\ rows["agent_runs"] # "none" /\ HasContext ~>
    rows["proposal_versions"] # "none" \/ rows["agent_runs"] = "none" \/ ~HasContext
==============================================================================
