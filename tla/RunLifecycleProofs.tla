-------------------------- MODULE RunLifecycleProofs --------------------------
(***************************************************************************)
(* Proofs about RunLifecycle for any set of runs, any number of callers    *)
(* and any bound on versions.  The inductive invariant joins the type, the *)
(* audit trail, the records callers hold and the validated calls: the      *)
(* trail alone is not inductive, because CompareAndSet audits the status   *)
(* of an earlier SELECT.                                                   *)
(***************************************************************************)
EXTENDS RunLifecycle, SequenceTheorems, TLAPS

IInv == TypeOK /\ AuditIsHistory /\ HeldIsHistory /\ ValidationHolds

------------------------------------------------------------------------------
(* Lemmas on the state table and on trails. *)

(* A terminal state allows nothing, and what a state allows is a state. *)
LEMMA TransitionTable ==
  /\ \A s \in RunStatus : AllowedTransitions[s] \subseteq RunStatus
  /\ \A s \in TERMINAL_RUN_STATES : s \in RunStatus /\ AllowedTransitions[s] = {}
  /\ "absent" \notin RunStatus
  /\ "queued" \in RunStatus
BY DEF RunStatus, TERMINAL_RUN_STATES, AllowedTransitions

(* Appending the next version's event to a path gives a path. *)
LEMMA PathExtends ==
  ASSUME NEW trail \in Seq(Event), TrailIsPath(trail), trail # << >>,
         NEW e \in Event,
         e.fromVersion = Len(trail), e.toVersion = Len(trail) + 1,
         e.from = trail[Len(trail)].to, ValidRunTransition(e.from, e.to)
  PROVE  TrailIsPath(Append(trail, e))
<1> DEFINE longer == Append(trail, e)
<1>1. /\ Len(trail) \in Nat \ {0}
      /\ Len(longer) = Len(trail) + 1
      /\ DOMAIN trail = 1 .. Len(trail)
      /\ DOMAIN longer = 1 .. Len(longer)
  BY EmptySeq, SMT
<1>2. \A i \in 1 .. Len(trail) : longer[i] = trail[i]
  BY <1>1
<1>3. longer[Len(trail) + 1] = e
  BY <1>1
<1>4. \A i \in DOMAIN longer : longer[i].toVersion = i
  BY <1>1, <1>2, <1>3 DEF TrailIsPath
<1>5. longer[1].from = "absent" /\ longer[1].to = "queued"
  BY <1>1, <1>2 DEF TrailIsPath
<1>6. ASSUME NEW i \in 2 .. Len(longer) PROVE Linked(longer, i)
  <2>1. CASE i = Len(trail) + 1
    <3>1. i - 1 = Len(trail) /\ Len(trail) \in 1 .. Len(trail)
      BY <2>1, <1>1
    <3>3. longer[i] = e /\ longer[i - 1] = trail[Len(trail)]
      BY <2>1, <3>1, <1>2, <1>3, Zenon
    <3>2. trail[Len(trail)].toVersion = Len(trail)
      BY <1>1 DEF TrailIsPath
    <3> QED BY <3>1, <3>2, <3>3 DEF Linked
  <2>2. CASE i \in 2 .. Len(trail)
    <3>1. longer[i] = trail[i] /\ longer[i - 1] = trail[i - 1]
      BY <2>2, <1>1, <1>2
    <3> QED BY <2>2, <3>1 DEF TrailIsPath, Linked
  <2> QED BY <2>1, <2>2, <1>1
<1> QED BY <1>4, <1>5, <1>6 DEF TrailIsPath

(* The trail of a run just created is a path. *)
LEMMA PathBegins ==
  ASSUME NEW e \in Event, e.from = "absent", e.to = "queued", e.toVersion = 1
  PROVE  TrailIsPath(Append(<< >>, e))
<1>1. /\ Len(Append(<< >>, e)) = 1
      /\ DOMAIN Append(<< >>, e) = {1}
      /\ Append(<< >>, e)[1] = e
  OBVIOUS
<1> QED BY <1>1 DEF TrailIsPath

(* In a reachable state the rows that exist are those with a trail. *)
LEMMA RowsAndTrails ==
  ASSUME IInv, NEW r \in Runs
  PROVE  /\ audit[r] \in Seq(Event)
         /\ run[r].version = Len(audit[r])
         /\ run[r].version \in Nat
         /\ DOMAIN audit[r] = 1 .. Len(audit[r])
         /\ run[r] = NoRow <=> audit[r] = << >>
         /\ run[r] # NoRow => run[r] \in Row
<1>1. run[r] \in Row \cup {NoRow} /\ audit[r] \in Seq(Event)
  BY DEF IInv, TypeOK
<1>2. run[r].version = Len(audit[r])
  BY DEF IInv, AuditIsHistory
<1> QED BY <1>1, <1>2, EmptySeq DEF Row, NoRow

(* Appending to the trail of one run leaves the others as they are. *)
LEMMA AppendToTrail ==
  ASSUME TypeOK, NEW r \in Runs, NEW e \in Event,
         audit' = [audit EXCEPT ![r] = Append(@, e)]
  PROVE  /\ audit'[r] = Append(audit[r], e)
         /\ audit'[r] # << >>
         /\ Len(audit'[r]) = Len(audit[r]) + 1
         /\ audit'[r][Len(audit'[r])] = e
         /\ \A s \in Runs \ {r} : audit'[s] = audit[s]
         /\ audit' \in [Runs -> Seq(Event)]
<1>1. audit \in [Runs -> Seq(Event)] /\ audit[r] \in Seq(Event)
  BY DEF TypeOK
<1>2. /\ audit'[r] = Append(audit[r], e)
      /\ \A s \in Runs \ {r} : audit'[s] = audit[s]
  BY <1>1
<1>3. /\ Append(audit[r], e) \in Seq(Event)
      /\ Append(audit[r], e) # << >>
      /\ Len(Append(audit[r], e)) = Len(audit[r]) + 1
      /\ Append(audit[r], e)[Len(audit[r]) + 1] = e
  BY <1>1
<1>4. audit' \in [Runs -> Seq(Event)]
  BY <1>1, <1>2, <1>3
<1> QED BY <1>2, <1>3, <1>4

------------------------------------------------------------------------------
(* The invariant holds initially and each action preserves it. *)

(* An empty store: no run, no trail, nobody holds or calls. *)
LEMMA InitIInv == Init => IInv
<1> SUFFICES ASSUME Init PROVE IInv
  OBVIOUS
<1>1. TypeOK
  BY DEF Init, TypeOK, Call, Idle
<1>2. \A r \in Runs : run[r] = NoRow /\ audit[r] = << >>
  BY DEF Init
<1>3. AuditIsHistory
  BY <1>2 DEF AuditIsHistory, TrailIsPath, NoRow
<1>4. HeldIsHistory /\ ValidationHolds
  BY DEF Init, HeldIsHistory, ValidationHolds
<1> QED BY <1>1, <1>3, <1>4 DEF IInv

(* Creation writes the first event of the trail, which its creator then holds. *)
LEMMA CreateRunIInv ==
  ASSUME IInv, NEW c \in Callers, NEW r \in Runs, CreateRun(c, r)
  PROVE  IInv'
<1> DEFINE e == [from |-> "absent", to |-> "queued",
                 fromVersion |-> 0, toVersion |-> 1]
           row == [status |-> "queued", version |-> 1]
<1>1. TypeOK /\ e \in Event /\ row \in Row /\ audit[r] = << >>
  BY TransitionTable, RowsAndTrails DEF IInv, CreateRun, NewRow, RecordCreation, Event, Row
<1>2. /\ run' = [run EXCEPT ![r] = row]
      /\ run'[r] = row
      /\ \A s \in Runs \ {r} : run'[s] = run[s]
  BY <1>1 DEF CreateRun, NewRow, RecordCreation, TypeOK
<1>3. audit' = [audit EXCEPT ![r] = Append(@, e)]
  BY DEF CreateRun, NewRow, RecordCreation
<1>4. /\ audit'[r] = Append(<< >>, e)
      /\ audit'[r] # << >>
      /\ Len(audit'[r]) = 1
      /\ audit'[r][Len(audit'[r])] = e
      /\ \A s \in Runs \ {r} : audit'[s] = audit[s]
      /\ audit' \in [Runs -> Seq(Event)]
  <2>1. TypeOK /\ e \in Event /\ Len(audit[r]) = 0
    BY <1>1
  <2> HIDE DEF e
  <2>2. /\ audit'[r] = Append(audit[r], e)
        /\ audit'[r] # << >>
        /\ Len(audit'[r]) = Len(audit[r]) + 1
        /\ audit'[r][Len(audit'[r])] = e
        /\ \A s \in Runs \ {r} : audit'[s] = audit[s]
        /\ audit' \in [Runs -> Seq(Event)]
    BY <1>3, <2>1, AppendToTrail
  <2>3. audit[r] = << >>
    BY <1>1
  <2> QED BY <2>1, <2>2, <2>3
<1>5. /\ held' = [held EXCEPT ![c] = [run |-> r, version |-> 1]]
      /\ [run |-> r, version |-> 1] \in Record
  BY DEF CreateRun, NewRow, RecordCreation, Record
<1>6. TypeOK'
  <2>1. run' \in [Runs -> Row \cup {NoRow}]
    BY <1>1, <1>2 DEF TypeOK
  <2>2. held' \in [Callers -> Record \cup {NoRecord}]
    BY <1>1, <1>5 DEF TypeOK
  <2>3. call' \in [Callers -> Call]
    BY <1>1 DEF CreateRun, NewRow, RecordCreation, TypeOK
  <2> QED BY <1>4, <2>1, <2>2, <2>3 DEF TypeOK
<1>7. AuditIsHistory'
  <2> SUFFICES ASSUME NEW s \in Runs
               PROVE  /\ TrailIsPath(audit'[s])
                      /\ run'[s].version = Len(audit'[s])
                      /\ audit'[s] # << >> =>
                           run'[s].status = audit'[s][Len(audit'[s])].to
    BY DEF AuditIsHistory
  <2>1. CASE s = r
    <3>1. TrailIsPath(audit'[r])
      BY <1>1, <1>4, PathBegins
    <3> QED BY <2>1, <3>1, <1>2, <1>4
  <2>2. CASE s # r
    BY <2>2, <1>2, <1>4 DEF IInv, AuditIsHistory
  <2> QED BY <2>1, <2>2
<1>8. HeldIsHistory'
  <2> SUFFICES ASSUME NEW d \in Callers, held'[d] # NoRecord
               PROVE  held'[d].version \in DOMAIN audit'[held'[d].run]
    BY DEF HeldIsHistory
  <2>1. CASE d = c
    <3>1. held'[d] = [run |-> r, version |-> 1]
      BY <2>1, <1>1, <1>5 DEF TypeOK
    <3>2. DOMAIN audit'[r] = 1 .. Len(audit'[r])
      BY <1>4
    <3> QED BY <3>1, <3>2, <1>4
  <2>2. CASE d # c
    <3>1. held'[d] = held[d] /\ held[d] \in Record
      BY <2>2, <1>1, <1>5 DEF TypeOK
    <3>2. held[d].run \in Runs /\ held[d].version \in DOMAIN audit[held[d].run]
      BY <3>1 DEF IInv, HeldIsHistory, Record
    <3>3. held[d].run # r
      BY <3>2, <1>1
    <3> QED BY <3>1, <3>2, <3>3, <1>4
  <2> QED BY <2>1, <2>2
<1>9. ValidationHolds'
  <2> SUFFICES ASSUME NEW d \in Callers, call'[d] # Idle
               PROVE  /\ held'[d] = held[d]
                      /\ run'[held[d].run] = run[held[d].run]
                      /\ call'[d] = call[d]
    BY <1>1 DEF IInv, ValidationHolds
  <2>1. call'[d] = call[d] /\ d # c
    BY DEF CreateRun, NewRow, RecordCreation
  <2>2. held'[d] = held[d] /\ held[d] \in Record
    BY <2>1, <1>1, <1>5 DEF TypeOK, IInv, ValidationHolds
  <2>3. held[d].version \in DOMAIN audit[held[d].run] /\ held[d].run \in Runs
    BY <2>2 DEF IInv, HeldIsHistory, Record, NoRecord
  <2>4. held[d].run # r
    BY <2>3, <1>1
  <2> QED BY <2>1, <2>2, <2>3, <2>4, <1>2
<1> QED BY <1>6, <1>7, <1>8, <1>9 DEF IInv

(* Reading gives the caller the latest point of the run's history. *)
LEMMA GetRunIInv ==
  ASSUME IInv, NEW c \in Callers, NEW r \in Runs, GetRun(c, r)
  PROVE  IInv'
<1>1. /\ TypeOK
      /\ run' = run /\ audit' = audit /\ call' = call
      /\ \A s \in Runs : run'[s] = run[s] /\ audit'[s] = audit[s]
      /\ held' = [held EXCEPT ![c] = [run |-> r, version |-> run[r].version]]
  BY DEF IInv, GetRun
<1>2. /\ [run |-> r, version |-> run[r].version] \in Record
      /\ run[r].version \in DOMAIN audit[r]
  BY RowsAndTrails DEF GetRun, Record, Row
<1>3. \A d \in Callers : held'[d] = IF d = c
                                     THEN [run |-> r, version |-> run[r].version]
                                     ELSE held[d]
  BY <1>1 DEF TypeOK
<1>4. TypeOK'
  BY <1>1, <1>2 DEF TypeOK
<1>5. AuditIsHistory'
  BY <1>1 DEF IInv, AuditIsHistory
<1>6. HeldIsHistory'
  BY <1>1, <1>2, <1>3 DEF IInv, HeldIsHistory
<1>7. ValidationHolds'
  <2>1. \A d \in Callers : call'[d] # Idle => call'[d] = call[d] /\ held'[d] = held[d]
    BY <1>1, <1>3 DEF GetRun
  <2> QED BY <1>1, <2>1 DEF IInv, ValidationHolds
<1> QED BY <1>4, <1>5, <1>6, <1>7 DEF IInv

(* The SELECT of transition sees a version no earlier than the one the caller holds. *)
LEMMA ValidateIInv ==
  ASSUME IInv, NEW c \in Callers, NEW target \in RunStatus, Validate(c, target)
  PROVE  IInv'
<1> DEFINE r == held[c].run
           begun == [phase |-> "checked", target |-> target, current |-> run[r]]
<1>1. /\ TypeOK
      /\ run' = run /\ audit' = audit /\ held' = held
      /\ call' = [call EXCEPT ![c] = begun]
  BY DEF IInv, Validate
<1>2. held[c] \in Record /\ held[c] # NoRecord /\ r \in Runs
  BY <1>1 DEF TypeOK, Validate, Record, NoRecord
<1>3. /\ held[c].version \in DOMAIN audit[r]
      /\ run[r].version = Len(audit[r])
      /\ DOMAIN audit[r] = 1 .. Len(audit[r])
      /\ run[r] \in Row
  <2>1. held[c].version \in DOMAIN audit[r]
    BY <1>2 DEF IInv, HeldIsHistory
  <2>2. audit[r] # << >>
    BY <2>1, <1>2, RowsAndTrails
  <2> QED BY <2>1, <2>2, <1>2, RowsAndTrails
<1>4. begun \in Call
  BY <1>3 DEF Call
<1>5. TypeOK'
  BY <1>1, <1>4 DEF TypeOK
<1>6. AuditIsHistory' /\ HeldIsHistory'
  BY <1>1 DEF IInv, AuditIsHistory, HeldIsHistory
<1>7. ValidationHolds'
  <2> SUFFICES ASSUME NEW d \in Callers, call'[d] # Idle
               PROVE  /\ held[d] # NoRecord
                      /\ held[d].version <= call'[d].current.version
                      /\ call'[d].current.version <= run[held[d].run].version
                      /\ call'[d].current.version = run[held[d].run].version
                           => call'[d].current = run[held[d].run]
                      /\ ValidRunTransition(call'[d].current.status, call'[d].target)
    BY <1>1 DEF ValidationHolds
  <2>1. CASE d = c
    <3>1. call'[d] = begun
      BY <2>1, <1>1 DEF TypeOK
    <3>2. /\ held[c].version <= run[r].version
          /\ run[r].version <= run[r].version
      BY <1>3
    <3> QED BY <2>1, <3>1, <3>2, <1>2 DEF Validate
  <2>2. CASE d # c
    <3>1. call'[d] = call[d]
      BY <2>2, <1>1 DEF TypeOK
    <3> QED BY <3>1 DEF IInv, ValidationHolds
  <2> QED BY <2>1, <2>2
<1> QED BY <1>5, <1>6, <1>7 DEF IInv

(* The heart of the argument: when the UPDATE finds the expected version, the
   status validated by the earlier SELECT is the status being overwritten. *)
LEMMA UpdateOverwritesValidated ==
  ASSUME IInv, NEW c \in Callers, CompareAndSet(c)
  PROVE  /\ held[c] \in Record
         /\ run[held[c].run] \in Row
         /\ call[c].current = run[held[c].run]
         /\ call[c].target \in RunStatus
         /\ ValidRunTransition(run[held[c].run].status, call[c].target)
<1> DEFINE r == held[c].run
<1>1. /\ held[c] \in Record
      /\ call[c].target \in RunStatus
      /\ call[c].current \in Row
  BY DEF IInv, TypeOK, CompareAndSet, AtExpectedVersion, NextVersion, ValidationHolds, Call
<1>2. /\ held[c].version <= call[c].current.version
      /\ call[c].current.version <= run[r].version
      /\ call[c].current.version = run[r].version => call[c].current = run[r]
      /\ ValidRunTransition(call[c].current.status, call[c].target)
  BY DEF IInv, CompareAndSet, AtExpectedVersion, NextVersion, ValidationHolds
<1>3. held[c].version = run[r].version
  BY DEF CompareAndSet, AtExpectedVersion, NextVersion
<1>4. call[c].current.version = run[r].version
  BY <1>1, <1>2, <1>3 DEF Record, Row
<1> QED BY <1>1, <1>2, <1>4

(* The versioned update and its event extend row and trail alike. *)
LEMMA CompareAndSetIInv ==
  ASSUME IInv, NEW c \in Callers, CompareAndSet(c)
  PROVE  IInv'
<1> DEFINE r == held[c].run
           target == call[c].target
           next == run[r].version + 1
           row == [status |-> target, version |-> next]
           e == [from |-> call[c].current.status, to |-> target,
                 fromVersion |-> held[c].version, toVersion |-> next]
           record == [run |-> r, version |-> next]
<1>1. /\ TypeOK
      /\ held[c] \in Record /\ r \in Runs
      /\ run[r] \in Row
      /\ call[c].current = run[r]
      /\ target \in RunStatus
      /\ ValidRunTransition(run[r].status, target)
  BY UpdateOverwritesValidated DEF IInv, Record
<1>2. /\ audit[r] \in Seq(Event)
      /\ audit[r] # << >>
      /\ run[r].version = Len(audit[r])
      /\ run[r].status = audit[r][Len(audit[r])].to
      /\ TrailIsPath(audit[r])
  <2>1. audit[r] # << >>
    BY <1>1, RowsAndTrails, TransitionTable DEF NoRow, Row
  <2> QED BY <2>1, <1>1, RowsAndTrails DEF IInv, AuditIsHistory
<1>3. next \in Nat \ {0} /\ row \in Row /\ record \in Record
  BY <1>1 DEF Row, Record
<1>4. /\ e \in Event
      /\ e.fromVersion = Len(audit[r]) /\ e.toVersion = Len(audit[r]) + 1
      /\ e.from = audit[r][Len(audit[r])].to
      /\ ValidRunTransition(e.from, e.to)
      /\ e.to = target
  BY <1>1, <1>2, <1>3 DEF CompareAndSet, AtExpectedVersion, NextVersion, Event, Row
<1>5. /\ run' = [run EXCEPT ![r] = row]
      /\ audit' = [audit EXCEPT ![r] = Append(@, e)]
      /\ held' = [held EXCEPT ![c] = record]
      /\ call' = [call EXCEPT ![c] = Idle]
  BY DEF CompareAndSet, AtExpectedVersion, NextVersion
<1> HIDE DEF e
<1>6. /\ audit'[r] = Append(audit[r], e)
      /\ audit'[r] # << >>
      /\ Len(audit'[r]) = Len(audit[r]) + 1
      /\ audit'[r][Len(audit'[r])] = e
      /\ \A s \in Runs \ {r} : audit'[s] = audit[s]
      /\ audit' \in [Runs -> Seq(Event)]
  BY <1>1, <1>4, <1>5, AppendToTrail
<1>7. /\ run'[r] = row
      /\ \A s \in Runs \ {r} : run'[s] = run[s]
      /\ held'[c] = record
      /\ \A d \in Callers \ {c} : held'[d] = held[d]
      /\ call'[c] = Idle
      /\ \A d \in Callers \ {c} : call'[d] = call[d]
  BY <1>1, <1>5 DEF TypeOK
<1>8. TypeOK'
  <2>1. run' \in [Runs -> Row \cup {NoRow}]
    BY <1>1, <1>3, <1>5 DEF TypeOK
  <2>2. held' \in [Callers -> Record \cup {NoRecord}]
    BY <1>1, <1>3, <1>5 DEF TypeOK
  <2>3. call' \in [Callers -> Call]
    BY <1>1, <1>5 DEF TypeOK, Call
  <2> QED BY <1>6, <2>1, <2>2, <2>3 DEF TypeOK
<1>9. AuditIsHistory'
  <2> SUFFICES ASSUME NEW s \in Runs
               PROVE  /\ TrailIsPath(audit'[s])
                      /\ run'[s].version = Len(audit'[s])
                      /\ audit'[s] # << >> =>
                           run'[s].status = audit'[s][Len(audit'[s])].to
    BY DEF AuditIsHistory
  <2>1. CASE s = r
    <3>1. TrailIsPath(audit'[r])
      BY <1>2, <1>4, <1>6, PathExtends
    <3>2. run'[r].version = Len(audit'[r])
      BY <1>2, <1>6, <1>7
    <3>3. run'[r].status = audit'[r][Len(audit'[r])].to
      BY <1>4, <1>6, <1>7
    <3> QED BY <2>1, <3>1, <3>2, <3>3
  <2>2. CASE s # r
    BY <2>2, <1>6, <1>7 DEF IInv, AuditIsHistory
  <2> QED BY <2>1, <2>2
<1>10. HeldIsHistory'
  <2> SUFFICES ASSUME NEW d \in Callers, held'[d] # NoRecord
               PROVE  held'[d].version \in DOMAIN audit'[held'[d].run]
    BY DEF HeldIsHistory
  <2>1. CASE d = c
    <3>1. DOMAIN audit'[r] = 1 .. Len(audit'[r]) /\ next \in 1 .. Len(audit'[r])
      BY <1>2, <1>3, <1>6
    <3> QED BY <2>1, <3>1, <1>7
  <2>2. CASE d # c
    <3>1. held'[d] = held[d] /\ held[d] \in Record /\ held[d].run \in Runs
      BY <2>2, <1>1, <1>7 DEF TypeOK, Record
    <3>2. held[d].version \in DOMAIN audit[held[d].run]
      BY <3>1 DEF IInv, HeldIsHistory
    <3>3. CASE held[d].run = r
      <4>1. held[d].version \in 1 .. Len(audit[r])
        BY <3>2, <3>3, <1>2
      <4>2. DOMAIN audit'[r] = 1 .. Len(audit[r]) + 1
        BY <1>2, <1>6
      <4>3. held[d].version \in DOMAIN audit'[r]
        BY <4>1, <4>2, <1>2
      <4> QED BY <4>3, <3>1, <3>3
    <3>4. CASE held[d].run # r
      BY <3>1, <3>2, <3>4, <1>6
    <3> QED BY <3>3, <3>4
  <2> QED BY <2>1, <2>2
<1>11. ValidationHolds'
  <2> SUFFICES ASSUME NEW d \in Callers, call'[d] # Idle
               PROVE  /\ held'[d] # NoRecord
                      /\ held'[d].version <= call'[d].current.version
                      /\ call'[d].current.version <= run'[held'[d].run].version
                      /\ call'[d].current.version = run'[held'[d].run].version
                           => call'[d].current = run'[held'[d].run]
                      /\ ValidRunTransition(call'[d].current.status, call'[d].target)
    BY DEF ValidationHolds
  <2>1. d # c /\ call'[d] = call[d] /\ held'[d] = held[d]
    BY <1>7
  <2>2. /\ held[d] # NoRecord
        /\ held[d].version <= call[d].current.version
        /\ call[d].current.version <= run[held[d].run].version
        /\ call[d].current.version = run[held[d].run].version
             => call[d].current = run[held[d].run]
        /\ ValidRunTransition(call[d].current.status, call[d].target)
    BY <2>1 DEF IInv, ValidationHolds
  <2>3. held[d] \in Record /\ held[d].run \in Runs /\ call[d].current \in Row
    BY <2>1, <2>2, <1>1 DEF TypeOK, Record, Call
  <2>4. CASE held[d].run = r
    <3>1. call[d].current.version < run'[r].version
      BY <2>2, <2>3, <2>4, <1>1, <1>7 DEF Row
    <3>2. call[d].current.version # run'[r].version
      BY <3>1, <2>3 DEF Row
    <3>3. call[d].current.version <= run'[r].version
      BY <2>2, <2>3, <2>4, <1>1, <1>7 DEF Row
    <3> QED BY <2>1, <2>2, <2>4, <3>2, <3>3
  <2>5. CASE held[d].run # r
    BY <2>1, <2>2, <2>3, <2>5, <1>7
  <2> QED BY <2>4, <2>5
<1> QED BY <1>8, <1>9, <1>10, <1>11 DEF IInv

(* ConcurrencyConflict leaves only the caller without its call. *)
LEMMA LoseRaceIInv ==
  ASSUME IInv, NEW c \in Callers, LoseRace(c)
  PROVE  IInv'
<1>1. /\ run' = run /\ audit' = audit /\ held' = held
      /\ call' = [call EXCEPT ![c] = Idle]
  BY DEF LoseRace
<1>2. \A d \in Callers : call'[d] = IF d = c THEN Idle ELSE call[d]
  BY <1>1 DEF IInv, TypeOK
<1>3. TypeOK'
  BY <1>1, <1>2 DEF IInv, TypeOK, Call
<1>4. AuditIsHistory' /\ HeldIsHistory'
  BY <1>1 DEF IInv, AuditIsHistory, HeldIsHistory
<1>5. ValidationHolds'
  BY <1>1, <1>2 DEF IInv, ValidationHolds
<1> QED BY <1>3, <1>4, <1>5 DEF IInv

(* A caller that dies leaves nothing behind. *)
LEMMA DropIInv ==
  ASSUME IInv, NEW c \in Callers, Drop(c)
  PROVE  IInv'
<1>1. /\ run' = run /\ audit' = audit
      /\ held' = [held EXCEPT ![c] = NoRecord]
      /\ call' = [call EXCEPT ![c] = Idle]
  BY DEF Drop
<1>2. \A d \in Callers : /\ call'[d] = IF d = c THEN Idle ELSE call[d]
                         /\ held'[d] = IF d = c THEN NoRecord ELSE held[d]
  BY <1>1 DEF IInv, TypeOK
<1>3. TypeOK'
  BY <1>1, <1>2 DEF IInv, TypeOK, Call
<1>4. AuditIsHistory' /\ HeldIsHistory'
  BY <1>1, <1>2 DEF IInv, AuditIsHistory, HeldIsHistory
<1>5. ValidationHolds'
  BY <1>1, <1>2 DEF IInv, ValidationHolds
<1> QED BY <1>3, <1>4, <1>5 DEF IInv

(* Nothing changes when nothing happens. *)
LEMMA StutterIInv ==
  ASSUME IInv, UNCHANGED lifecycleVars
  PROVE  IInv'
BY DEF IInv, lifecycleVars, TypeOK, AuditIsHistory, HeldIsHistory, ValidationHolds

------------------------------------------------------------------------------
(* Theorems. *)

(* Every step of the run store preserves the invariant. *)
LEMMA StepIInv ==
  ASSUME IInv, [Next]_lifecycleVars
  PROVE  IInv'
<1>1. ASSUME NEW c \in Callers, NEW r \in Runs, CreateRun(c, r) PROVE IInv'
  BY <1>1, CreateRunIInv
<1>2. ASSUME NEW c \in Callers, NEW r \in Runs, GetRun(c, r) PROVE IInv'
  BY <1>2, GetRunIInv
<1>3. ASSUME NEW c \in Callers, NEW target \in RunStatus, Validate(c, target)
      PROVE  IInv'
  BY <1>3, ValidateIInv
<1>4. ASSUME NEW c \in Callers, CompareAndSet(c) PROVE IInv'
  BY <1>4, CompareAndSetIInv
<1>5. ASSUME NEW c \in Callers, LoseRace(c) PROVE IInv'
  BY <1>5, LoseRaceIInv
<1>6. ASSUME NEW c \in Callers, Drop(c) PROVE IInv'
  BY <1>6, DropIInv
<1>7. CASE UNCHANGED lifecycleVars
  BY <1>7, StutterIInv
<1> QED BY <1>1, <1>2, <1>3, <1>4, <1>5, <1>6, <1>7 DEF Next

(* The inductive invariant holds of every reachable state of the run store. *)
THEOREM Invariance == Spec => []IInv
BY InitIInv, StepIInv, PTL DEF Spec

(* Every reachable state of agent_runs, its audit rows and its callers is well
   typed: RunService never stores a status outside RunStatus or a version below
   the column default of 1. *)
THEOREM TypeCorrectness == Spec => []TypeOK
<1>1. IInv => TypeOK
  BY DEF IInv
<1> QED BY <1>1, Invariance, PTL

(* RunService's audit events are exactly the life of each run, for any number of
   concurrent callers of transition. *)
THEOREM AuditTrailFaithful == Spec => []AuditIsHistory
<1>1. IInv => AuditIsHistory
  BY DEF IInv
<1> QED BY <1>1, Invariance, PTL

(* Whatever a caller holds as a run record was committed at some point, so no
   expected_version passed to transition can be ahead of the row. *)
THEOREM HeldRecordsAreHistory == Spec => []HeldIsHistory
<1>1. IInv => HeldIsHistory
  BY DEF IInv
<1> QED BY <1>1, Invariance, PTL

(* The status RunService validated is the row's status for as long as the row
   is at the caller's expected version: the SELECT needs no row lock. *)
THEOREM ValidationStaysGood == Spec => []ValidationHolds
<1>1. IInv => ValidationHolds
  BY DEF IInv
<1> QED BY <1>1, Invariance, PTL

------------------------------------------------------------------------------
(* Finality of terminal runs. *)

(* No step changes the row or the trail of a run in a terminal state. *)
LEMMA StepKeepsTerminal ==
  ASSUME IInv, [Next]_lifecycleVars,
         NEW r \in Runs, run[r].status \in TERMINAL_RUN_STATES
  PROVE  run'[r] = run[r] /\ audit'[r] = audit[r]
<1>1. ASSUME NEW c \in Callers, NEW s \in Runs, CreateRun(c, s)
      PROVE  run'[r] = run[r] /\ audit'[r] = audit[r]
  <2>1. s # r
    BY <1>1, TransitionTable DEF CreateRun, NewRow, RecordCreation, NoRow
  <2> QED BY <1>1, <2>1 DEF CreateRun, NewRow, RecordCreation, IInv, TypeOK
<1>2. ASSUME NEW c \in Callers, CompareAndSet(c)
      PROVE  run'[r] = run[r] /\ audit'[r] = audit[r]
  <2>1. ValidRunTransition(run[held[c].run].status, call[c].target)
    BY <1>2, UpdateOverwritesValidated
  <2>2. held[c].run # r
    BY <2>1, TransitionTable DEF ValidRunTransition
  <2> QED BY <1>2, <2>2 DEF CompareAndSet, AtExpectedVersion, NextVersion, IInv, TypeOK
<1>3. ASSUME NEW c \in Callers,
             \/ \E s \in Runs : GetRun(c, s)
             \/ \E target \in RunStatus : Validate(c, target)
             \/ LoseRace(c)
             \/ Drop(c)
      PROVE  run'[r] = run[r] /\ audit'[r] = audit[r]
  BY <1>3 DEF GetRun, Validate, LoseRace, Drop
<1>4. CASE UNCHANGED lifecycleVars
  BY <1>4 DEF lifecycleVars
<1> QED BY <1>1, <1>2, <1>3, <1>4 DEF Next

(* No transition call, however long ago it was validated, moves a run out of
   completed_verified or escalated or adds to its audit trail. *)
THEOREM TerminalFinality == Spec => TerminalIsFinal
<1>1. IInv /\ [Next]_lifecycleVars =>
        [\A r \in Runs : run[r].status \in TERMINAL_RUN_STATES =>
           run'[r] = run[r] /\ audit'[r] = audit[r]]_lifecycleVars
  BY StepKeepsTerminal
<1> QED BY <1>1, Invariance, PTL DEF Spec, TerminalIsFinal

------------------------------------------------------------------------------
(* The run store implements its contract. *)

(* The empty store is the empty store of the contract. *)
LEMMA InitImplements == Init => Contract!ContractInit
BY DEF Init, Contract!ContractInit, NoRow

(* Appending to a trail appends to the history it maps to. *)
LEMMA HistoryExtends ==
  ASSUME TypeOK, NEW r \in Runs, NEW e \in Event,
         audit' = [audit EXCEPT ![r] = Append(@, e)]
  PROVE  [s \in Runs |-> [i \in DOMAIN audit'[s] |-> audit'[s][i].to]]
           = [[s \in Runs |-> [i \in DOMAIN audit[s] |-> audit[s][i].to]]
                EXCEPT ![r] = Append(@, e.to)]
<1> DEFINE past(s) == [i \in DOMAIN audit[s] |-> audit[s][i].to]
           future(s) == [i \in DOMAIN audit'[s] |-> audit'[s][i].to]
<1>1. /\ audit[r] \in Seq(Event)
      /\ audit'[r] = Append(audit[r], e)
      /\ \A s \in Runs \ {r} : audit'[s] = audit[s]
  BY AppendToTrail DEF TypeOK
<1>2. /\ Len(audit[r]) \in Nat
      /\ DOMAIN audit[r] = 1 .. Len(audit[r])
      /\ DOMAIN audit'[r] = 1 .. Len(audit[r]) + 1
      /\ \A i \in 1 .. Len(audit[r]) : audit'[r][i] = audit[r][i]
      /\ audit'[r][Len(audit[r]) + 1] = e
  BY <1>1
<1>3. \A i \in 1 .. Len(audit[r]) : audit[r][i] \in Event
  BY <1>1, <1>2
<1>4. past(r) \in Seq(RunStatus \cup {"absent"}) /\ Len(past(r)) = Len(audit[r])
  BY <1>2, <1>3 DEF Event
<1>5. e.to \in RunStatus \cup {"absent"}
  BY DEF Event
<1>6. future(r) = Append(past(r), e.to)
  <2>1. /\ DOMAIN Append(past(r), e.to) = 1 .. Len(audit[r]) + 1
        /\ \A i \in 1 .. Len(audit[r]) : Append(past(r), e.to)[i] = past(r)[i]
        /\ Append(past(r), e.to)[Len(audit[r]) + 1] = e.to
    BY <1>2, <1>4, <1>5, AppendProperties
  <2>2. \A i \in 1 .. Len(audit[r]) + 1 : future(r)[i] = Append(past(r), e.to)[i]
    BY <1>2, <2>1
  <2> QED BY <1>2, <1>4, <1>5, <2>1, <2>2
<1>7. \A s \in Runs \ {r} : future(s) = past(s)
  BY <1>1
<1>8. [s \in Runs |-> future(s)]
        = [[s \in Runs |-> past(s)] EXCEPT ![r] = Append(@, e.to)]
  <2> HIDE DEF past, future
  <2> QED BY <1>6, <1>7
<1> QED BY <1>8

(* The contract's copy of the state table is the run store's. *)
LEMMA SameTable ==
  /\ Contract!RunStatus = RunStatus
  /\ Contract!AllowedTransitions = AllowedTransitions
BY DEF RunStatus, Contract!RunStatus, TERMINAL_RUN_STATES,
       Contract!TERMINAL_RUN_STATES, AllowedTransitions, Contract!AllowedTransitions

(* A step of the store is a step of the contract or leaves the contract's state alone. *)
LEMMA StepImplements ==
  ASSUME IInv, [Next]_lifecycleVars
  PROVE  [Contract!ContractNext]_(Contract!contractVars)
<1> USE DEF Contract!contractVars
<1>1. ASSUME NEW c \in Callers, NEW r \in Runs, CreateRun(c, r)
      PROVE  Contract!ContractNext
  <2> DEFINE e == [from |-> "absent", to |-> "queued",
                   fromVersion |-> 0, toVersion |-> 1]
  <2>1. TypeOK /\ e \in Event /\ audit' = [audit EXCEPT ![r] = Append(@, e)]
    BY <1>1, TransitionTable DEF IInv, CreateRun, NewRow, RecordCreation, Event
  <2>2. [s \in Runs |-> [i \in DOMAIN audit'[s] |-> audit'[s][i].to]]
          = [[s \in Runs |-> [i \in DOMAIN audit[s] |-> audit[s][i].to]]
               EXCEPT ![r] = Append(@, "queued")]
    <3>1. e.to = "queued"
      OBVIOUS
    <3> HIDE DEF e
    <3> QED BY <2>1, <3>1, HistoryExtends
  <2>3. [s \in Runs |-> run'[s].status]
          = [[s \in Runs |-> run[s].status] EXCEPT ![r] = "queued"]
    BY <1>1 DEF CreateRun, NewRow, RecordCreation, IInv, TypeOK
  <2>4. run[r].status = "absent"
    BY <1>1 DEF CreateRun, NewRow, RecordCreation, NoRow
  <2> QED BY <2>2, <2>3, <2>4 DEF Contract!ContractNext, Contract!Born, Contract!Move
<1>2. ASSUME NEW c \in Callers, CompareAndSet(c)
      PROVE  Contract!ContractNext
  <2> DEFINE r == held[c].run
             target == call[c].target
             e == [from |-> call[c].current.status, to |-> target,
                   fromVersion |-> held[c].version,
                   toVersion |-> run[r].version + 1]
  <2>1. /\ r \in Runs
        /\ run[r] \in Row
        /\ run[r].status \in RunStatus
        /\ call[c].current = run[r]
        /\ target \in RunStatus
        /\ ValidRunTransition(run[r].status, target)
    BY <1>2, UpdateOverwritesValidated DEF Record, Row
  <2>2. TypeOK /\ e \in Event /\ audit' = [audit EXCEPT ![r] = Append(@, e)]
    BY <1>2, <2>1 DEF IInv, CompareAndSet, AtExpectedVersion, NextVersion, Event, Row
  <2>3. [s \in Runs |-> [i \in DOMAIN audit'[s] |-> audit'[s][i].to]]
          = [[s \in Runs |-> [i \in DOMAIN audit[s] |-> audit[s][i].to]]
               EXCEPT ![r] = Append(@, target)]
    <3>1. e.to = target
      OBVIOUS
    <3> HIDE DEF e
    <3> QED BY <2>1, <2>2, <3>1, HistoryExtends
  <2>4. [s \in Runs |-> run'[s].status]
          = [[s \in Runs |-> run[s].status] EXCEPT ![r] = target]
    BY <1>2, <2>1 DEF CompareAndSet, AtExpectedVersion, NextVersion, IInv, TypeOK
  <2> HIDE DEF target, r
  <2>5. Contract!ValidRunTransition(run[r].status, target)
    BY <2>1, SameTable DEF ValidRunTransition, Contract!ValidRunTransition
  <2>6. PICK q \in Runs, t \in RunStatus : q = r /\ t = target
    BY <2>1
  <2>7. Contract!Advance(q, t)
    BY <2>1, <2>3, <2>4, <2>5, <2>6, SameTable DEF Contract!Advance, Contract!Move
  <2>8. t \in Contract!RunStatus
    BY SameTable
  <2> QED BY <2>7, <2>8 DEF Contract!ContractNext
<1>3. ASSUME NEW c \in Callers,
             \/ \E s \in Runs : GetRun(c, s)
             \/ \E target \in RunStatus : Validate(c, target)
             \/ LoseRace(c)
             \/ Drop(c)
      PROVE  UNCHANGED Contract!contractVars
  BY <1>3 DEF GetRun, Validate, LoseRace, Drop
<1>4. CASE UNCHANGED lifecycleVars
  BY <1>4 DEF lifecycleVars
<1> QED BY <1>1, <1>2, <1>3, <1>4 DEF Next

(* Concurrent callers, crashes and lost races included, each step of the run
   store is a step of its contract or none. *)
THEOREM LifecycleImplementsContract == Spec => ImplementsContract
<1>1. Init => Contract!ContractInit
  BY InitImplements
<1>2. IInv /\ [Next]_lifecycleVars => [Contract!ContractNext]_(Contract!contractVars)
  BY StepImplements
<1> QED BY <1>1, <1>2, Invariance, PTL
     DEF Spec, ImplementsContract, Contract!ContractSpec
==============================================================================
