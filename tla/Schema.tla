-------------------------------- MODULE Schema --------------------------------
(***************************************************************************)
(* The database schema and its alembic history: what each revision's       *)
(* upgrade and downgrade do, statement by statement, and the schema the     *)
(* ORM models take for granted.                                            *)
(*                                                                         *)
(* A schema gives each table its objects, none when it does not exist: its  *)
(* key, the columns a later revision adds, foreign keys, unique and check    *)
(* constraints.  Indexes, which change no answer, and the other columns a   *)
(* table is born with are left out.                                        *)
(***************************************************************************)
EXTENDS Naturals, Sequences, SequencesExt

Column(c) == <<"column", c>>
Reference(u) == <<"foreign key", u>>
Unique(key) == <<"unique", key>>
Check(condition) == <<"check", condition>>

(* What can be in a table: "none" when it is empty. *)
Contents == {"none", "some", "queued", "running", "draft_waiting_evidence",
             "waiting_approval"}

(* Statements.  A column or a check can be added when the rows that are there
   accept it. *)
Whole(parents, keys, checks) ==
  {Column("id")} \cup {Reference(u) : u \in parents} \cup {Unique(k) : k \in keys}
                \cup {Check(c) : c \in checks}
Statement(kind, t, objects, accepted) ==
  [kind |-> kind, table |-> t, objects |-> objects, accepted |-> accepted]
CreateTable(t, parents, keys, checks) ==
  Statement("create", t, Whole(parents, keys, checks), Contents)
DropTable(t) == Statement("drop", t, {}, Contents)
Add(t, object, accepted) == Statement("add", t, {object}, accepted)
DropObject(t, object) == Statement("remove", t, {object}, Contents)

------------------------------------------------------------------------------
(* The revisions. *)

CorePersistence ==
  << CreateTable("tasks", {}, {"public_id"}, {"type", "status", "version"}),
     CreateTable("requests", {"tasks"}, {"task_id"}, {"channel"}),
     CreateTable("agent_runs", {"tasks"}, {"public_id"}, {"status", "version"}),
     CreateTable("audit_events", {"agent_runs", "tasks"}, {}, {}) >>
UndoCorePersistence ==
  << DropTable("audit_events"), DropTable("agent_runs"),
     DropTable("requests"), DropTable("tasks") >>

TaskColumns == <<Column("summary"), Column("due_at"), Column("exposure_amount"),
                 Column("exposure_currency")>>

(* NOT NULL columns come with a server default, for the tasks there are.
   Fault: due_at has none. *)
DueAtByHand == [i \in DOMAIN TaskColumns |->
                  Add("tasks", TaskColumns[i], IF i = 2 THEN {"none"} ELSE Contents)]
AddTaskColumns == [i \in DOMAIN TaskColumns |-> Add("tasks", TaskColumns[i], Contents)]

TaskContext ==
  AddTaskColumns \o
  << CreateTable("customer_snapshots", {"tasks"}, {"task_id"}, {}),
     CreateTable("booking_snapshots", {"tasks"}, {"task_id"}, {}) >>
UndoTaskContext ==
  << DropTable("booking_snapshots"), DropTable("customer_snapshots"),
     DropObject("tasks", TaskColumns[4]), DropObject("tasks", TaskColumns[3]),
     DropObject("tasks", TaskColumns[2]), DropObject("tasks", TaskColumns[1]) >>

ToolAttempts ==
  << CreateTable("tool_attempts", {"agent_runs"}, {}, {"outcome", "side_effect_state"}),
     CreateTable("external_receipts", {"tool_attempts"},
            {"provider_tool_idempotency", "external_reference", "tool_attempt_id"}, {}) >>
UndoToolAttempts == << DropTable("external_receipts"), DropTable("tool_attempts") >>

RunColumns == <<Column("model_provider"), Column("model_version"), Column("prompt_version"),
                Column("graph_version")>>
DraftOnly == Check("status is draft_waiting_evidence")
DraftOrWaiting == Check("status is either")

OrchestrationTables ==
  [i \in 1 .. 4 |-> Add("agent_runs", RunColumns[i], Contents)] \o
  << CreateTable("risk_decisions", {"agent_runs"}, {"run_id"}, {}),
     CreateTable("proposal_versions", {"agent_runs", "tasks"}, {"run_id", "task_version"},
            {"version", DraftOnly[2]}) >>

(* Fault: the columns stay. *)
KeepColumns == << DropTable("proposal_versions"), DropTable("risk_decisions") >>
UndoOrchestrationTables ==
  << DropTable("proposal_versions"), DropTable("risk_decisions") >> \o
  [i \in 1 .. 4 |-> DropObject("agent_runs", RunColumns[5 - i])]

PolicyTables ==
  << DropObject("proposal_versions", DraftOnly),
     Add("proposal_versions", DraftOrWaiting, Contents),
     CreateTable("policy_document_versions", {}, {"source_version"}, {"lifecycle_status"}),
     CreateTable("policy_chunks", {"policy_document_versions"}, {"clause"}, {}),
     CreateTable("retrieval_evidence",
            {"policy_chunks", "policy_document_versions", "proposal_versions"},
            {"proposal_chunk"}, {}) >>

(* The narrower check comes back: it is refused while a proposal waits.
   Fault: it comes back unvalidated. *)
NotValid == Add("proposal_versions", DraftOnly, Contents)
RestoreDraftOnly ==
  Add("proposal_versions", DraftOnly, {"none", "draft_waiting_evidence"})
UndoPolicyTables ==
  << DropTable("retrieval_evidence"), DropTable("policy_chunks"),
     DropTable("policy_document_versions"),
     DropObject("proposal_versions", DraftOrWaiting), RestoreDraftOnly >>

Upgrades == <<CorePersistence, TaskContext, ToolAttempts, OrchestrationTables, PolicyTables>>
Downgrades == <<UndoCorePersistence, UndoTaskContext, UndoToolAttempts,
                UndoOrchestrationTables, UndoPolicyTables>>
HeadRevision == Len(Upgrades)

------------------------------------------------------------------------------
(* What the ORM models declare. *)
Models ==
  [tasks |-> Whole({}, {"public_id"}, {"type", "status", "version"}) \cup ToSet(TaskColumns),
   requests |-> Whole({"tasks"}, {"task_id"}, {"channel"}),
   agent_runs |-> Whole({"tasks"}, {"public_id"}, {"status", "version"}) \cup ToSet(RunColumns),
   audit_events |-> Whole({"tasks", "agent_runs"}, {}, {}),
   customer_snapshots |-> Whole({"tasks"}, {"task_id"}, {}),
   booking_snapshots |-> Whole({"tasks"}, {"task_id"}, {}),
   tool_attempts |-> Whole({"agent_runs"}, {}, {"outcome", "side_effect_state"}),
   external_receipts |-> Whole({"tool_attempts"}, {"tool_attempt_id",
                                 "provider_tool_idempotency", "external_reference"}, {}),
   risk_decisions |-> Whole({"agent_runs"}, {"run_id"}, {}),
   proposal_versions |-> Whole({"tasks", "agent_runs"}, {"task_version", "run_id"},
                               {"version", DraftOrWaiting[2]}),
   policy_document_versions |-> Whole({}, {"source_version"}, {"lifecycle_status"}),
   policy_chunks |-> Whole({"policy_document_versions"}, {"clause"}, {}),
   retrieval_evidence |-> Whole({"proposal_versions", "policy_document_versions",
                                 "policy_chunks"}, {"proposal_chunk"}, {})]

Tables == DOMAIN Models
Nothing == [t \in Tables |-> {}]

------------------------------------------------------------------------------
(* A script runs in one transaction: it commits when every statement goes
   through, on what those before it have left. *)

Change(schema, s) ==
  [schema EXCEPT ![s.table] = CASE s.kind \in {"create", "add"} -> @ \cup s.objects
                                [] s.kind = "drop" -> {}
                                [] s.kind = "remove" -> @ \ s.objects]

SchemaAfter(schema, script, n) ==
  LET after[i \in 0 .. n] == IF i = 0 THEN schema ELSE Change(after[i - 1], script[i])
  IN after[n]
RowsAfter(rows, script, n) ==
  [t \in Tables |-> IF \E i \in 1 .. n : script[i].kind = "drop" /\ script[i].table = t
                    THEN "none" ELSE rows[t]]

Exists(schema, t) == schema[t] # {}
Children(schema, t) == {u \in Tables : Reference(t) \in schema[u]}

Possible(schema, content, s) ==
  \/ /\ s.kind = "create" /\ ~Exists(schema, s.table)
     /\ \A t \in Tables : Reference(t) \in s.objects => Exists(schema, t)
  \/ s.kind = "drop" /\ Exists(schema, s.table) /\ Children(schema, s.table) = {}
  \/ /\ s.kind = "add" /\ Exists(schema, s.table)
     /\ s.objects \cap schema[s.table] = {} /\ content \in s.accepted
  \/ s.kind = "remove" /\ s.objects \subseteq schema[s.table]

(* Each statement with the schema and the rows it finds. *)
Finds(schema, rows, script) ==
  {<<script[i], SchemaAfter(schema, script, i - 1),
     RowsAfter(rows, script, i - 1)[script[i].table]>> : i \in DOMAIN script}

GoesThrough(schema, rows, script) ==
  \A found \in Finds(schema, rows, script) : Possible(found[2], found[3], found[1])

Empty == [t \in Tables |-> "none"]

(* Script[from][to]: the statements that lead from one revision to another. *)
Script == [from \in 0 .. HeadRevision |-> [to \in 0 .. HeadRevision |->
             FlattenSeq(IF from <= to
                        THEN [i \in 1 .. to - from |-> Upgrades[from + i]]
                        ELSE [i \in 1 .. from - to |-> Downgrades[from + 1 - i]])]]

SchemaAt == [n \in 0 .. HeadRevision |-> SchemaAfter(Nothing, Script[0][n], Len(Script[0][n]))]
==============================================================================
