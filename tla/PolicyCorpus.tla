----------------------------- MODULE PolicyCorpus -----------------------------
(***************************************************************************)
(* Policy ingestion, retrieval and the evidence retrieval binds, for the   *)
(* one query the orchestration asks.  ingest_policy is a transaction that  *)
(* SELECTs a published version and INSERTs it when there is none;          *)
(* retrieve_and_bind is one that SELECTs the nearest applicable clauses    *)
(* and INSERTs evidence.  Each is two steps here: other transactions       *)
(* commit between them (READ COMMITTED).  The status of the proposal,      *)
(* which changes with its evidence, is kept by Orchestration.              *)
(*                                                                         *)
(* A file stands for its content: two files of one source and version are  *)
(* different contents.  A clause has its cosine distance to the query, a   *)
(* number on the scale of MaxDistance; days are numbers.                   *)
(***************************************************************************)
EXTENDS Naturals, FiniteSets

CONSTANTS Files,        \* policy files that can be ingested
          Ingesters,    \* processes that run ingest_policies.py
          Retrievers,   \* threads that retrieve for a proposal
          Proposals,
          Endless,      \* effective_to of a policy with no end
          NoFile, NoClause,
          MaxDistance,  \* the distance at which the score is 0.15
          Limit,        \* how many rows retrieval reads: 3
          Horizon       \* the last day explored

ASSUME CorpusAssumption ==
  /\ \A f \in Files :
       /\ f.from \in Nat /\ f.to \in Nat \cup {Endless}
       /\ f.matches \in BOOLEAN
       /\ f.clauses # {} /\ IsFiniteSet(f.clauses)
       /\ \A c \in f.clauses : c.distance \in Nat
  /\ NoFile \notin Files
  /\ MaxDistance \in Nat /\ Limit \in Nat \ {0} /\ Horizon \in Nat

VARIABLES
  published,  \* the documents in policy_document_versions, with their clauses
  today,
  ingest,     \* ingest[i]: the phase of ingester i and its file
  search,     \* search[r]: the phase of retriever r and what it holds
  evidence    \* rows of retrieval_evidence

vars == <<published, today, ingest, search, evidence>>

Rows(files) == UNION {{[file |-> f, clause |-> c] : c \in f.clauses} : f \in files}
NoRow == [file |-> NoFile, clause |-> NoClause]

NoIngest == [phase |-> "idle", file |-> NoFile]
NoSearch == [phase |-> "idle", proposal |-> "none", day |-> 0, row |-> NoRow, rivals |-> {}]

(* rivals is a ghost: the documents applicable when the clause was selected. *)
Evidence == [proposal : Proposals, row : Rows(Files), day : 0 .. Horizon,
             rivals : SUBSET Files]

Init == /\ published = {}
        /\ today = 0
        /\ ingest = [i \in Ingesters |-> NoIngest]
        /\ search = [r \in Retrievers |-> NoSearch]
        /\ evidence = {}

NextDay == /\ today < Horizon
           /\ today' = today + 1
           /\ UNCHANGED <<published, ingest, search, evidence>>

------------------------------------------------------------------------------
(* Ingestion. *)

Editions(source, version) == {f \in published : f.source = source /\ f.version = version}

Move(i, phase, f) == ingest' = [ingest EXCEPT ![i] = [phase |-> phase, file |-> f]]

(* The SELECT finds the version: a no-op when the content is the same, else a
   ValueError. *)
Reingest(i, f) == /\ ingest[i].phase = "idle"
                  /\ f \in Editions(f.source, f.version)
                  /\ Move(i, "done", f)
                  /\ UNCHANGED <<published, today, search, evidence>>

RefuseChange(i, f) == /\ ingest[i].phase = "idle"
                      /\ Editions(f.source, f.version) \notin {{}, {f}}
                      /\ Move(i, "refused", f)
                      /\ UNCHANGED <<published, today, search, evidence>>

FindNew(i, f) == /\ ingest[i].phase = "idle"
                 /\ Editions(f.source, f.version) = {}
                 /\ Move(i, "insert", f)
                 /\ UNCHANGED <<published, today, search, evidence>>

(* uq_policy_source_version.  Fault: there is no such constraint. *)
AnyEdition(f) == f \notin published
FirstEdition(f) == Editions(f.source, f.version) = {}

Publish(i) == LET f == ingest[i].file IN
              /\ ingest[i].phase = "insert"
              /\ FirstEdition(f)
              /\ published' = published \cup {f}
              /\ Move(i, "done", f)
              /\ UNCHANGED <<today, search, evidence>>

(* IntegrityError: another ingester published the version first. *)
PublishCollides(i) == LET f == ingest[i].file IN
                      /\ ingest[i].phase = "insert"
                      /\ ~FirstEdition(f)
                      /\ Move(i, "failed", f)
                      /\ UNCHANGED <<published, today, search, evidence>>

(* The script ends, or dies: an open transaction rolls back. *)
EndIngest(i) == /\ ingest[i] # NoIngest
                /\ ingest' = [ingest EXCEPT ![i] = NoIngest]
                /\ UNCHANGED <<published, today, search, evidence>>

------------------------------------------------------------------------------
(* Retrieval. *)

(* effective_from <= as_of, and effective_to IS NULL or >= as_of.
   Fault: the end is not looked at. *)
Begun(f, day) == f.from <= day
InForce(f, day) == f.from <= day /\ (f.to = Endless \/ f.to >= day)

Applicable(day) == {f \in published : f.matches /\ InForce(f, day)}

(* ORDER BY distance LIMIT 3: rows at equal distances come in any order.
   Fault: the rows come in any order. *)
AnyRows(rows) ==
  {T \in SUBSET rows : \/ Cardinality(T) = Limit
                       \/ Cardinality(T) < Limit /\ T = rows}
Nearest(rows) ==
  {T \in SUBSET rows :
     /\ \/ Cardinality(T) = Limit
        \/ Cardinality(T) < Limit /\ T = rows
     /\ \A t \in T, u \in rows \ T : t.clause.distance <= u.clause.distance}

(* The row to bind, among the first rows: none if there are none, if they come
   from several documents, or if the nearest scores too low.  Fault: several
   documents are not a conflict. *)
First(rows) == {t \in rows : \A u \in rows : t.clause.distance <= u.clause.distance}
TooFar(rows) == \E t \in First(rows) : t.clause.distance > MaxDistance
Unopposed(rows) == IF rows = {} \/ TooFar(rows) THEN {NoRow} ELSE First(rows)
Selected(rows) ==
  IF Cardinality({t.file : t \in rows}) # 1 \/ TooFar(rows) THEN {NoRow} ELSE First(rows)

(* Abstention returns before anything is bound.  Fault: it does not. *)
GoOn(row) == "bind"
AfterSelect(row) == IF row = NoRow THEN "abstained" ELSE "bind"

(* The day is taken before the transaction begins. *)
Ask(r, p) == /\ search[r] = NoSearch
             /\ search' = [search EXCEPT ![r].phase = "select",
                                         ![r].proposal = p, ![r].day = today]
             /\ UNCHANGED <<published, today, ingest, evidence>>

Select(r) ==
  LET day == search[r].day IN
  /\ search[r].phase = "select"
  /\ \E rows \in Nearest(Rows(Applicable(day))) : \E row \in Selected(rows) :
       search' = [search EXCEPT ![r].phase = AfterSelect(row),
                                ![r].row = row, ![r].rivals = Applicable(day)]
  /\ UNCHANGED <<published, today, ingest, evidence>>

Bound(p, row) == \E e \in evidence : e.proposal = p /\ e.row = row

Bind(r) == LET s == search[r] IN
           /\ s.phase = "bind"
           /\ ~Bound(s.proposal, s.row)
           /\ evidence' = evidence \cup {[proposal |-> s.proposal, row |-> s.row,
                                          day |-> s.day, rivals |-> s.rivals]}
           /\ search' = [search EXCEPT ![r] = NoSearch]
           /\ UNCHANGED <<published, today, ingest>>

(* Abstention, the unique constraint on a proposal and a clause, or the death of
   the caller: nothing is bound. *)
EndSearch(r) == /\ search[r] # NoSearch
                /\ search' = [search EXCEPT ![r] = NoSearch]
                /\ UNCHANGED <<published, today, ingest, evidence>>

Next == \/ NextDay
        \/ \E i \in Ingesters :
             \/ \E f \in Files : Reingest(i, f) \/ RefuseChange(i, f) \/ FindNew(i, f)
             \/ Publish(i) \/ PublishCollides(i) \/ EndIngest(i)
        \/ \E r \in Retrievers :
             (\E p \in Proposals : Ask(r, p)) \/ Select(r) \/ Bind(r) \/ EndSearch(r)

Spec == Init /\ [][Next]_vars

------------------------------------------------------------------------------
(* Properties. *)

(* Every variable has its type. *)
TypeOK ==
  /\ published \subseteq Files
  /\ today \in 0 .. Horizon
  /\ ingest \in [Ingesters -> [phase : {"idle", "insert", "done", "refused", "failed"},
                               file : Files \cup {NoFile}]]
  /\ search \in [Retrievers ->
                   [phase : {"idle", "select", "bind", "abstained"},
                    proposal : Proposals \cup {"none"}, day : 0 .. Horizon,
                    row : Rows(Files) \cup {NoRow}, rivals : SUBSET Files]]
  /\ evidence \subseteq Evidence

(* A citation resolves for ever: the source and version recorded in a piece of
   evidence lead (get_policy) to exactly the document the excerpt came from,
   however many ingesters race on that version. *)
CitationsResolve ==
  \A e \in evidence : Editions(e.row.file.source, e.row.file.version) = {e.row.file}

(* Evidence is what the definition of retrieval says, whatever is published while it
   is looked for: from a policy that applies to the request and was in force on the
   day asked about ("similarity cannot bypass applicability", backend-sprint-07),
   no farther than any clause applicable at the SELECT, and unopposed by another
   document as long as retrieval reads all their clauses. *)
EvidenceIsSound ==
  \A e \in evidence :
    /\ e.row.file.matches
    /\ e.row.file.from <= e.day /\ (e.row.file.to = Endless \/ e.row.file.to >= e.day)
    /\ e.row.clause.distance <= MaxDistance
    /\ \A row \in Rows(e.rivals) : e.row.clause.distance <= row.clause.distance
    /\ Cardinality(Rows(e.rivals)) <= Limit => e.rivals = {e.row.file}

(* Published versions are written once: what "immutable source version" means to
   those who cite one. *)
Cell(f) == [source |-> f.source, version |-> f.version]
Versions == {Cell(f) : f \in Files}
Content(v) == IF Editions(v.source, v.version) = {} THEN NoFile
              ELSE CHOOSE f \in Editions(v.source, v.version) : TRUE

Registry == INSTANCE WriteOnce WITH
  Cells <- Versions, Contents <- Files, Empty <- NoFile,
  store <- [v \in Versions |-> Content(v)]

PublishesOnce == Registry!WriteOnceSpec

(* backend-sprint-07: "Multiple simultaneously applicable policy documents are
   treated as a conflict and cause abstention." *)
ConflictsAbstain == \A e \in evidence : e.rivals = {e.row.file}
==============================================================================
