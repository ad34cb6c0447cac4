--------------------------- MODULE PolicyCorpusProofs ---------------------------
(***************************************************************************)
(* Proofs about PolicyCorpus for any policies, ingesters, retrievers and   *)
(* proposals, any limit of rows and any threshold of distance.  The        *)
(* inductive invariant adds to the properties that a version has one       *)
(* published document, that a document that was cited stays published, and *)
(* that a retriever about to bind a clause holds one as sound as the       *)
(* evidence it will become.                                                *)
(***************************************************************************)
EXTENDS PolicyCorpus, FiniteSetTheorems, TLAPS

(* No two published documents are of one source and version. *)
EditionsAreUnique ==
  /\ IsFiniteSet(published)
  /\ \A f, g \in published : Cell(f) = Cell(g) => f = g

(* What makes a clause that was selected on a day, among the documents that were
   applicable then, worth citing. *)
IsSound(row, day, rivals) ==
  /\ row.file.matches /\ InForce(row.file, day)
  /\ row.clause.distance <= MaxDistance
  /\ \A other \in Rows(rivals) : row.clause.distance <= other.clause.distance
  /\ Cardinality(Rows(rivals)) <= Limit => rivals = {row.file}

IngestersHaveFiles == \A i \in Ingesters : ingest[i].phase = "insert" => ingest[i].file \in Files

FoundIsSound ==
  \A r \in Retrievers :
    /\ search[r].phase = "select" => search[r].proposal \in Proposals
    /\ search[r].phase = "bind" =>
         /\ search[r].proposal \in Proposals /\ search[r].row \in Rows(Files)
         /\ search[r].row.file \in published
         /\ IsSound(search[r].row, search[r].day, search[r].rivals)

CitedIsSound ==
  \A e \in evidence : e.row.file \in published /\ IsSound(e.row, e.day, e.rivals)

IInv == /\ TypeOK
        /\ EditionsAreUnique
        /\ IngestersHaveFiles
        /\ FoundIsSound
        /\ CitedIsSound

------------------------------------------------------------------------------
(* The rows of a set of documents. *)

(* A row is a document and one of its clauses. *)
LEMMA RowsAreClauses ==
  ASSUME NEW F, NEW row
  PROVE  row \in Rows(F) <=> \E f \in F : \E c \in f.clauses : row = [file |-> f, clause |-> c]
BY DEF Rows

(* More documents have more rows. *)
LEMMA RowsGrow ==
  ASSUME NEW F, NEW G, F \subseteq G
  PROVE  Rows(F) \subseteq Rows(G)
BY RowsAreClauses

(* Finitely many documents, of finitely many clauses each, have finitely many rows. *)
LEMMA RowsAreFinite ==
  ASSUME NEW F \in SUBSET Files, IsFiniteSet(F)
  PROVE  IsFiniteSet(Rows(F))
<1> DEFINE rowsOf(f) == {[file |-> f, clause |-> c] : c \in f.clauses}
           all == {rowsOf(f) : f \in F}
<1>1. ASSUME NEW f \in F PROVE IsFiniteSet(rowsOf(f))
  <2> DEFINE m == [c \in f.clauses |-> [file |-> f, clause |-> c]]
  <2>1. m \in Surjection(f.clauses, rowsOf(f))
    BY DEF Surjection
  <2>2. IsFiniteSet(f.clauses)
    BY CorpusAssumption
  <2> HIDE DEF m, rowsOf
  <2> QED BY <2>1, <2>2, FS_Surjection
<1>2. IsFiniteSet(all)
  <2> HIDE DEF rowsOf
  <2> DEFINE m == [f \in F |-> rowsOf(f)]
  <2>1. m \in Surjection(F, all)
    BY DEF Surjection
  <2> HIDE DEF m, all
  <2> QED BY <2>1, FS_Surjection
<1>3. \A T \in all : IsFiniteSet(T)
  BY <1>1
<1>4. Rows(F) = UNION all
  BY DEF Rows
<1> HIDE DEF all
<1> QED BY <1>2, <1>3, <1>4, FS_UNION

(* What is selected among the nearest rows of the applicable documents is sound, in
   whatever order the rows at equal distances came. *)
LEMMA SelectionIsSound ==
  ASSUME NEW F \in SUBSET Files, IsFiniteSet(F), NEW day \in Nat,
         \A f \in F : f.matches /\ InForce(f, day),
         NEW rows \in Nearest(Rows(F)), NEW row \in Selected(rows), row # NoRow
  PROVE  row \in Rows(F) /\ row.file \in F /\ IsSound(row, day, F)
<1>1. /\ rows \subseteq Rows(F) /\ IsFiniteSet(Rows(F)) /\ IsFiniteSet(rows)
      /\ \A t \in rows, u \in Rows(F) \ rows : t.clause.distance <= u.clause.distance
  BY RowsAreFinite, FS_Subset DEF Nearest
<1>2. /\ row \in rows /\ \A u \in rows : row.clause.distance <= u.clause.distance
      /\ ~TooFar(rows) /\ row \in First(rows)
      /\ Cardinality({t.file : t \in rows}) = 1
  BY DEF Selected, First
<1>3. PICK f \in F : \E c \in f.clauses : row = [file |-> f, clause |-> c]
  BY <1>1, <1>2, RowsAreClauses
<1>4. row \in Rows(F) /\ row.file \in F /\ row.clause.distance \in Nat
  BY <1>1, <1>2, <1>3, CorpusAssumption
<1>5. row.clause.distance <= MaxDistance
  BY <1>2, <1>4, CorpusAssumption DEF TooFar
<1>6. \A other \in Rows(F) : row.clause.distance <= other.clause.distance
  BY <1>1, <1>2
<1>7. ASSUME Cardinality(Rows(F)) <= Limit PROVE F = {row.file}
  <2>1. rows = Rows(F)
    <3>1. CASE Cardinality(rows) = Limit
      <4>1. /\ Cardinality(rows) <= Cardinality(Rows(F))
            /\ Cardinality(Rows(F)) = Cardinality(rows) => Rows(F) = rows
            /\ Cardinality(Rows(F)) \in Nat
        BY <1>1, FS_Subset, FS_CardinalityType
      <4> QED BY <1>7, <3>1, <4>1, CorpusAssumption
    <3>2. CASE rows = Rows(F)
      BY <3>2
    <3> QED BY <3>1, <3>2 DEF Nearest
  <2>2. PICK x : {t.file : t \in rows} = {x}
    <3> DEFINE fs == {t.file : t \in rows}
               m == [t \in rows |-> t.file]
    <3>1. m \in Surjection(rows, fs)
      BY DEF Surjection
    <3>2. Cardinality(fs) = 1
      BY <1>2
    <3> HIDE DEF m, fs
    <3>3. IsFiniteSet(fs)
      BY <1>1, <3>1, FS_Surjection
    <3>4. \E x : fs = {x}
      BY <3>2, <3>3, FS_Singleton
    <3> QED BY <3>4 DEF fs
  <2>3. ASSUME NEW g \in F PROVE g = row.file
    <3>1. PICK c \in g.clauses : TRUE
      BY CorpusAssumption
    <3>2. [file |-> g, clause |-> c] \in rows
      BY <2>1, RowsAreClauses
    <3>3. g \in {t.file : t \in rows}
      BY <3>2
    <3> QED BY <1>2, <2>2, <3>3
  <2> QED BY <1>4, <2>3
<1> QED BY <1>4, <1>5, <1>6, <1>7 DEF IsSound

------------------------------------------------------------------------------
(* The invariant holds initially and every action preserves it. *)

(* Nothing is published, looked for or cited. *)
LEMMA InitIInv == Init => IInv
<1> SUFFICES ASSUME Init PROVE IInv
  OBVIOUS
<1>1. TypeOK
  BY CorpusAssumption DEF Init, TypeOK, NoIngest, NoSearch
<1>2. EditionsAreUnique
  BY FS_EmptySet DEF Init, EditionsAreUnique
<1> QED BY <1>1, <1>2
        DEF Init, IInv, IngestersHaveFiles, FoundIsSound, CitedIsSound, NoIngest, NoSearch

(* What is sound depends on the documents that were applicable when it was selected, so
   what is published afterwards does not make it less so. *)
LEMMA SoundLasts ==
  ASSUME IInv, published \subseteq published', UNCHANGED <<search, evidence>>
  PROVE  FoundIsSound' /\ CitedIsSound'
<1>1. FoundIsSound'
  BY DEF IInv, FoundIsSound, IsSound, InForce, Rows
<1>2. CitedIsSound'
  BY DEF IInv, CitedIsSound, IsSound, InForce, Rows
<1> QED BY <1>1, <1>2

(* An ingester that changes only its phase. *)
LEMMA MoveIInv ==
  ASSUME IInv, NEW i \in Ingesters, NEW f \in Files \cup {NoFile},
         NEW phase \in {"idle", "insert", "done", "refused", "failed"},
         phase = "insert" => f \in Files, Move(i, phase, f),
         UNCHANGED <<published, today, search, evidence>>
  PROVE  IInv'
<1>1. TypeOK'
  BY DEF IInv, TypeOK, Move
<1>2. IngestersHaveFiles'
  <2>1. /\ ingest'[i] = [phase |-> phase, file |-> f]
        /\ \A j \in Ingesters \ {i} : ingest'[j] = ingest[j]
    BY DEF IInv, TypeOK, Move
  <2> QED BY <2>1 DEF IInv, IngestersHaveFiles
<1> QED BY <1>1, <1>2, SoundLasts DEF IInv, EditionsAreUnique

(* Publication: the unique constraint keeps a version to one document. *)
LEMMA PublishIInv ==
  ASSUME IInv, NEW i \in Ingesters, Publish(i)
  PROVE  IInv'
<1> DEFINE f == ingest[i].file
<1>1. /\ f \in Files /\ Editions(f.source, f.version) = {}
      /\ published' = published \cup {f}
      /\ Move(i, "done", f) /\ UNCHANGED <<today, search, evidence>>
  BY DEF IInv, IngestersHaveFiles, Publish, FirstEdition
<1> HIDE DEF f
<1>2. TypeOK'
  BY <1>1 DEF IInv, TypeOK, Move
<1>3. EditionsAreUnique'
  <2>1. \A g \in published : Cell(g) # Cell(f)
    BY <1>1 DEF Editions, Cell
  <2>2. IsFiniteSet(published')
    BY <1>1, FS_AddElement DEF IInv, EditionsAreUnique
  <2>3. ASSUME NEW g \in published', NEW h \in published', Cell(g) = Cell(h) PROVE g = h
    BY <1>1, <2>1, <2>3 DEF IInv, EditionsAreUnique
  <2> QED BY <2>2, <2>3 DEF EditionsAreUnique, Cell
<1>4. IngestersHaveFiles'
  <2>1. /\ ingest'[i] = [phase |-> "done", file |-> f]
        /\ \A j \in Ingesters \ {i} : ingest'[j] = ingest[j]
    BY <1>1 DEF IInv, TypeOK, Move
  <2> QED BY <2>1 DEF IInv, IngestersHaveFiles
<1> QED BY <1>1, <1>2, <1>3, <1>4, SoundLasts DEF IInv

(* What a retriever holds. *)
Searches == [phase : {"idle", "select", "bind", "abstained"},
             proposal : Proposals \cup {"none"}, day : 0 .. Horizon,
             row : Rows(Files) \cup {NoRow}, rivals : SUBSET Files]

(* A step of one retriever, given what it leaves it with. *)
LEMMA SearchIInv ==
  ASSUME IInv, NEW r \in Retrievers, search' \in [Retrievers -> Searches],
         \A d \in Retrievers \ {r} : search'[d] = search[d],
         search'[r].phase = "select" => search'[r].proposal \in Proposals,
         search'[r].phase = "bind" =>
           /\ search'[r].proposal \in Proposals /\ search'[r].row \in Rows(Files)
           /\ search'[r].row.file \in published
           /\ IsSound(search'[r].row, search'[r].day, search'[r].rivals),
         UNCHANGED <<published, today, ingest>>,
         evidence' \subseteq Evidence, CitedIsSound'
  PROVE  IInv'
<1>1. TypeOK'
  BY DEF IInv, TypeOK, Searches
<1>2. FoundIsSound'
  <2> SUFFICES ASSUME NEW d \in Retrievers
               PROVE  /\ search'[d].phase = "select" => search'[d].proposal \in Proposals
                      /\ search'[d].phase = "bind" =>
                           /\ search'[d].proposal \in Proposals /\ search'[d].row \in Rows(Files)
                           /\ search'[d].row.file \in published
                           /\ IsSound(search'[d].row, search'[d].day, search'[d].rivals)
    BY DEF FoundIsSound, IsSound, InForce, Rows
  <2>1. CASE d = r
    BY <2>1
  <2>2. CASE d # r
    BY <2>2 DEF IInv, FoundIsSound
  <2> QED BY <2>1, <2>2
<1> QED BY <1>1, <1>2 DEF IInv, EditionsAreUnique, IngestersHaveFiles

(* A search that cites nothing leaves the evidence as sound as it was. *)
LEMMA CitationsStay ==
  ASSUME IInv, UNCHANGED <<published, evidence>>
  PROVE  evidence' \subseteq Evidence /\ CitedIsSound'
BY DEF IInv, TypeOK, CitedIsSound, IsSound, InForce, Rows

(* A search ends. *)
LEMMA EndIsTyped ==
  ASSUME IInv, NEW r \in Retrievers, search' = [search EXCEPT ![r] = NoSearch]
  PROVE  /\ search' \in [Retrievers -> Searches] /\ search'[r].phase = "idle"
         /\ \A d \in Retrievers \ {r} : search'[d] = search[d]
<1>1. NoSearch \in Searches /\ NoSearch.phase = "idle"
  BY CorpusAssumption DEF NoSearch, Searches
<1>2. search \in [Retrievers -> Searches]
  BY DEF IInv, TypeOK, Searches
<1> QED BY <1>1, <1>2

(* It leaves the evidence as it is. *)
LEMMA EndIInv ==
  ASSUME IInv, NEW r \in Retrievers, EndSearch(r)
  PROVE  IInv'
<1>1. /\ search' = [search EXCEPT ![r] = NoSearch]
      /\ UNCHANGED <<published, today, ingest, evidence>>
  BY DEF EndSearch
<1> QED BY <1>1, EndIsTyped, CitationsStay, SearchIInv

(* A search begins, on the day it is asked. *)
LEMMA AskIInv ==
  ASSUME IInv, NEW r \in Retrievers, NEW p \in Proposals, Ask(r, p)
  PROVE  IInv'
<1>1. /\ search' = [search EXCEPT ![r].phase = "select", ![r].proposal = p, ![r].day = today]
      /\ UNCHANGED <<published, today, ingest, evidence>>
  BY DEF Ask
<1>2. search \in [Retrievers -> Searches] /\ today \in 0 .. Horizon
  BY DEF IInv, TypeOK, Searches
<1>3. /\ search' \in [Retrievers -> Searches] /\ search'[r].phase = "select"
      /\ search'[r].proposal = p
      /\ \A d \in Retrievers \ {r} : search'[d] = search[d]
  <2> DEFINE Days == 0 .. Horizon
             Named == Proposals \cup {"none"}
             Found == Rows(Files) \cup {NoRow}
  <2>1. /\ search \in [Retrievers -> [phase : {"idle", "select", "bind", "abstained"},
                                     proposal : Named, day : Days, row : Found,
                                     rivals : SUBSET Files]]
        /\ today \in Days /\ p \in Named
    BY <1>2 DEF Searches
  <2> HIDE DEF Days, Named, Found
  <2>2. /\ search' \in [Retrievers -> [phase : {"idle", "select", "bind", "abstained"},
                                      proposal : Named, day : Days, row : Found,
                                      rivals : SUBSET Files]]
        /\ search'[r].phase = "select" /\ search'[r].proposal = p
        /\ \A d \in Retrievers \ {r} : search'[d] = search[d]
    BY <1>1, <2>1
  <2> QED BY <2>2 DEF Searches, Days, Named, Found
<1> QED BY <1>1, <1>3, CitationsStay, SearchIInv

(* What is selected is sound, or it is nothing. *)
LEMMA SelectIInv ==
  ASSUME IInv, NEW r \in Retrievers, Select(r)
  PROVE  IInv'
<1> DEFINE day == search[r].day
           F == Applicable(day)
<1>1. PICK rows \in Nearest(Rows(F)) : \E row \in Selected(rows) :
        search' = [search EXCEPT ![r].phase = AfterSelect(row), ![r].row = row, ![r].rivals = F]
  BY DEF Select
<1>2. PICK row \in Selected(rows) :
        search' = [search EXCEPT ![r].phase = AfterSelect(row), ![r].row = row, ![r].rivals = F]
  BY <1>1
<1>3. /\ search[r].phase = "select" /\ UNCHANGED <<published, today, ingest, evidence>>
  BY DEF Select
<1>4. search \in [Retrievers -> Searches]
  BY DEF IInv, TypeOK, Searches
<1>5. search[r].proposal \in Proposals
  BY <1>3 DEF IInv, FoundIsSound
<1>6. /\ F \in SUBSET published /\ F \in SUBSET Files /\ day \in Nat
      /\ \A f \in F : f.matches /\ InForce(f, day)
  BY <1>4, CorpusAssumption DEF IInv, TypeOK, Applicable, Searches
<1>7. IsFiniteSet(F)
  BY <1>6, FS_Subset DEF IInv, EditionsAreUnique
<1> HIDE DEF F
<1>8. row # NoRow => row \in Rows(Files) /\ row.file \in published /\ IsSound(row, day, F)
  BY <1>1, <1>6, <1>7, SelectionIsSound, RowsGrow
<1>9. AfterSelect(row) \in {"bind", "abstained"} /\ (AfterSelect(row) = "bind" => row # NoRow)
  BY DEF AfterSelect
<1>10. row \in Rows(Files) \cup {NoRow} /\ F \in SUBSET Files
  BY <1>6, <1>8
<1>11. /\ search' \in [Retrievers -> Searches] /\ search'[r].phase = AfterSelect(row)
       /\ search'[r].proposal = search[r].proposal /\ search'[r].day = day
       /\ search'[r].row = row /\ search'[r].rivals = F
       /\ \A d \in Retrievers \ {r} : search'[d] = search[d]
  BY <1>2, <1>4, <1>9, <1>10 DEF Searches
<1> HIDE DEF day
<1>12. search'[r].phase # "select"
  BY <1>9, <1>11
<1>13. search'[r].phase = "bind" =>
         /\ search'[r].proposal \in Proposals /\ search'[r].row \in Rows(Files)
         /\ search'[r].row.file \in published
         /\ IsSound(search'[r].row, search'[r].day, search'[r].rivals)
  BY <1>5, <1>8, <1>9, <1>11
<1> QED BY <1>3, <1>11, <1>12, <1>13, CitationsStay, SearchIInv

(* What is bound was held, so it is as sound as it was. *)
LEMMA BindIInv ==
  ASSUME IInv, NEW r \in Retrievers, Bind(r)
  PROVE  IInv'
<1> DEFINE s == search[r]
           e == [proposal |-> s.proposal, row |-> s.row, day |-> s.day, rivals |-> s.rivals]
<1>1. /\ s.phase = "bind" /\ evidence' = evidence \cup {e}
      /\ search' = [search EXCEPT ![r] = NoSearch]
      /\ UNCHANGED <<published, today, ingest>>
  BY DEF Bind
<1>2. /\ s \in Searches
      /\ s.proposal \in Proposals /\ s.row \in Rows(Files)
      /\ s.row.file \in published /\ IsSound(s.row, s.day, s.rivals)
  BY <1>1 DEF IInv, TypeOK, FoundIsSound, Searches
<1>3. e \in Evidence /\ e.row = s.row /\ e.day = s.day /\ e.rivals = s.rivals
  BY <1>2 DEF Evidence, Searches
<1> HIDE DEF e, s
<1>4. evidence' \subseteq Evidence
  BY <1>1, <1>3 DEF IInv, TypeOK
<1>5. CitedIsSound'
  <2>1. \A x \in evidence' : x.row.file \in published /\ IsSound(x.row, x.day, x.rivals)
    BY <1>1, <1>2, <1>3 DEF IInv, CitedIsSound
  <2> QED BY <1>1, <2>1 DEF CitedIsSound, IsSound, InForce, Rows
<1> QED BY <1>1, <1>4, <1>5, EndIsTyped, SearchIInv

(* Every step preserves the invariant. *)
LEMMA StepIInv ==
  ASSUME IInv, [Next]_vars
  PROVE  IInv'
<1>1. CASE NextDay
  <2>1. TypeOK'
    BY <1>1, CorpusAssumption DEF NextDay, IInv, TypeOK
  <2>2. EditionsAreUnique' /\ IngestersHaveFiles' /\ published \subseteq published'
        /\ UNCHANGED <<search, evidence>>
    BY <1>1 DEF NextDay, IInv, EditionsAreUnique, IngestersHaveFiles
  <2> QED BY <2>1, <2>2, SoundLasts DEF IInv
<1>2. CASE UNCHANGED vars
  BY <1>2 DEF vars, IInv, TypeOK, EditionsAreUnique, IngestersHaveFiles, FoundIsSound,
              CitedIsSound, IsSound, InForce, Rows
<1>3. ASSUME NEW i \in Ingesters,
             (\E f \in Files : Reingest(i, f) \/ RefuseChange(i, f) \/ FindNew(i, f))
               \/ PublishCollides(i) \/ EndIngest(i)
      PROVE  IInv'
  <2>1. PICK f \in Files \cup {NoFile}, phase \in {"idle", "insert", "done", "refused", "failed"} :
          Move(i, phase, f) /\ (phase = "insert" => f \in Files)
    BY <1>3 DEF Reingest, RefuseChange, FindNew, PublishCollides, EndIngest, IInv, TypeOK,
                IngestersHaveFiles, NoIngest, Move
  <2>2. UNCHANGED <<published, today, search, evidence>>
    BY <1>3 DEF Reingest, RefuseChange, FindNew, PublishCollides, EndIngest
  <2> QED BY <2>1, <2>2, MoveIInv
<1> QED BY <1>1, <1>2, <1>3, PublishIInv, AskIInv, SelectIInv, BindIInv, EndIInv
        DEF Next

(* The inductive invariant holds of every reachable state of the corpus. *)
THEOREM Invariance == Spec => []IInv
BY InitIInv, StepIInv, PTL DEF Spec

------------------------------------------------------------------------------
(* What follows from the invariant. *)

(* Every variable keeps its type. *)
THEOREM TypeCorrectness == Spec => []TypeOK
BY Invariance, PTL DEF IInv

(* A citation resolves for ever to the one document the excerpt came from, however
   many ingesters race to publish its version. *)
THEOREM Resolution == Spec => []CitationsResolve
<1>1. IInv => CitationsResolve
  BY DEF IInv, CitationsResolve, CitedIsSound, EditionsAreUnique, Editions, Cell
<1> QED BY <1>1, Invariance, PTL

(* Evidence is applicable, in force on the day asked about, near enough, and no farther
   than any clause it competed with, whatever is published while it is looked for. *)
THEOREM Soundness == Spec => []EvidenceIsSound
<1>1. IInv => EvidenceIsSound
  BY DEF IInv, EvidenceIsSound, CitedIsSound, IsSound, InForce
<1> QED BY <1>1, Invariance, PTL

------------------------------------------------------------------------------
(* The published versions are a registry that is written once. *)

Registered == [v \in Versions |-> Content(v)]

(* Publishing fills the one cell of the version, which was empty. *)
LEMMA PublishWrites ==
  ASSUME IInv, NEW i \in Ingesters, Publish(i)
  PROVE  Registry!WriteOnceNext
<1>1. PICK f \in Files : /\ Editions(f.source, f.version) = {}
                         /\ published' = published \cup {f}
  BY DEF IInv, IngestersHaveFiles, Publish, FirstEdition
<1> DEFINE c == Cell(f)
<1>2. c \in Versions /\ c.source = f.source /\ c.version = f.version
  BY DEF Versions, Cell
<1>3. Content(c) = NoFile
  BY <1>1, <1>2 DEF Content
<1>4. ASSUME NEW v \in Versions
      PROVE  Content(v)' = IF v = c THEN f ELSE Content(v)
  <2>1. CASE v = c
    <3>1. Editions(v.source, v.version)' = {f}
      BY <1>1, <1>2, <2>1 DEF Editions
    <3>2. {f} # {} /\ (CHOOSE x \in {f} : TRUE) = f
      OBVIOUS
    <3> QED BY <2>1, <3>1, <3>2 DEF Content
  <2>2. CASE v # c
    <3>1. PICK g \in Files : v = Cell(g)
      BY DEF Versions
    <3>2. ~(f.source = v.source /\ f.version = v.version)
      BY <2>2, <3>1 DEF Cell
    <3>3. Editions(v.source, v.version)' = Editions(v.source, v.version)
      BY <1>1, <3>2 DEF Editions
    <3> QED BY <2>2, <3>3 DEF Content
  <2> QED BY <2>1, <2>2
<1> HIDE DEF c
<1>5. Registered[c] = NoFile /\ Registered' = [Registered EXCEPT ![c] = f]
  BY <1>2, <1>3, <1>4 DEF Registered
<1>6. Registry!Write(c, f)
  BY <1>5 DEF Registry!Write, Registered
<1> QED BY <1>2, <1>6 DEF Registry!WriteOnceNext

(* Nothing else changes what is published. *)
LEMMA StepsWriteOnce ==
  ASSUME IInv, [Next]_vars
  PROVE  [Registry!WriteOnceNext]_Registered
<1>1. CASE UNCHANGED published
  BY <1>1 DEF Registered, Content, Editions
<1>2. UNCHANGED published \/ \E i \in Ingesters : Publish(i)
  BY DEF Next, vars, NextDay, Reingest, RefuseChange, FindNew, PublishCollides, EndIngest,
         Ask, Select, Bind, EndSearch
<1> QED BY <1>1, <1>2, PublishWrites

(* A version is published once: its document is never replaced or withdrawn, however
   many ingesters race on it (WriteOnce). *)
THEOREM WrittenOnce == Spec => PublishesOnce
<1>1. Init => Registry!WriteOnceInit
  <2> SUFFICES ASSUME Init PROVE Registry!WriteOnceInit
    OBVIOUS
  <2>1. \A v \in Versions : Content(v) = NoFile
    BY DEF Init, Content, Editions
  <2> QED BY <2>1 DEF Registry!WriteOnceInit
<1>2. IInv /\ [Next]_vars =>
        [Registry!WriteOnceNext]_[v \in Versions |-> Content(v)]
  BY StepsWriteOnce DEF Registered
<1> QED BY <1>1, <1>2, Invariance, PTL DEF Spec, PublishesOnce, Registry!WriteOnceSpec
==============================================================================
