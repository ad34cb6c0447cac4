----------------------------- MODULE RunLifecycle -----------------------------
(***************************************************************************)
(* The agent_runs table, its audit trail, and the callers of RunService    *)
(* that create, read and move runs concurrently.                           *)
(*                                                                         *)
(* RunService.transition is one database transaction at READ COMMITTED:    *)
(* a SELECT of the current row, whose status is validated, then an UPDATE  *)
(* guarded by the version the CALLER expects, then the audit row, then the *)
(* commit.  Other transactions may commit between the SELECT and the       *)
(* UPDATE, so they are two steps here; the UPDATE holds the row lock until *)
(* the commit, so everything from it on is one step.  The expected version *)
(* comes from a record the caller read earlier, at any time before.        *)
(***************************************************************************)
EXTENDS RunStates, Naturals, Sequences

CONSTANTS Runs,        \* public identifiers of runs
          Callers,     \* threads and processes that use RunService
          NoRun,       \* the value of a caller's record when it holds none
          MaxVersion   \* bound on the versions explored

ASSUME LifecycleAssumption == NoRun \notin Runs /\ MaxVersion \in Nat \ {0}

VARIABLES
  run,     \* run[r]: the committed row, NoRow before it is inserted
  audit,   \* audit[r]: the committed audit events of run r, oldest first
  held,    \* held[c]: the AgentRunRecord caller c last obtained
  call     \* call[c]: the transition call in flight

lifecycleVars == <<run, audit, held, call>>

------------------------------------------------------------------------------
(* Rows, records and events. *)

NoRow == [status |-> "absent", version |-> 0]
Row == [status : RunStatus, version : Nat \ {0}]

NoRecord == [run |-> NoRun, version |-> 0]
Record == [run : Runs, version : Nat \ {0}]

(* A created event is written as a step from "absent" at version 0. *)
Event == [from : RunStatus \cup {"absent"}, to : RunStatus,
          fromVersion : Nat, toVersion : Nat \ {0}]

Idle == [phase |-> "idle", target |-> "absent", current |-> NoRow]
Call == {Idle} \cup [phase : {"checked"}, target : RunStatus, current : Row]

------------------------------------------------------------------------------

Init == /\ run = [r \in Runs |-> NoRow]
        /\ audit = [r \in Runs |-> << >>]
        /\ held = [c \in Callers |-> NoRecord]
        /\ call = [c \in Callers |-> Idle]

(* The column defaults of a new row.  Fault: the version has no default. *)
UnversionedRow == [status |-> "queued", version |-> 0]
NewRow == [status |-> "queued", version |-> 1]

(* AuditRepository.add of "agent_run.created".  Fault: it is left out. *)
CreationUnaudited(trail) == trail
RecordCreation(trail) ==
  Append(trail, [from |-> "absent", to |-> "queued",
                 fromVersion |-> 0, toVersion |-> 1])

(* RunService.create_run: the row and its audit event in one transaction.
   public_id is unique: a second insertion rolls back and changes nothing. *)
CreateRun(c, r) ==
  /\ call[c] = Idle
  /\ run[r] = NoRow
  /\ run' = [run EXCEPT ![r] = NewRow]
  /\ audit' = [audit EXCEPT ![r] = RecordCreation(@)]
  /\ held' = [held EXCEPT ![c] = [run |-> r, version |-> NewRow.version]]
  /\ UNCHANGED call

(* RunRepository.get_by_public_id, in a transaction of its own. *)
GetRun(c, r) ==
  /\ call[c] = Idle
  /\ run[r] # NoRow
  /\ held' = [held EXCEPT ![c] = [run |-> r, version |-> run[r].version]]
  /\ UNCHANGED <<run, audit, call>>

(* RunService.transition up to validate_run_transition: the SELECT.  When the
   move is not allowed it raises InvalidRunTransition and changes nothing. *)
Validate(c, target) ==
  LET r == held[c].run IN
  /\ call[c] = Idle
  /\ r # NoRun
  /\ run[r].version < MaxVersion
  /\ ValidRunTransition(run[r].status, target)
  /\ call' = [call EXCEPT ![c] = [phase |-> "checked", target |-> target,
                                  current |-> run[r]]]
  /\ UNCHANGED <<run, audit, held>>

(* WHERE id = run_id AND version = expected_version.
   Fault: the UPDATE is keyed by the id alone. *)
AnyVersion(c) == TRUE
AtExpectedVersion(c) == run[held[c].run].version = held[c].version

(* SET version = version + 1.  Fault: the version stays. *)
SameVersion(c) == run[held[c].run].version
NextVersion(c) == run[held[c].run].version + 1

(* RunRepository.transition finds the row at the expected version; the audit
   event takes its from_status from the SELECT and its from_version from the
   caller. *)
CompareAndSet(c) ==
  LET r == held[c].run IN
  /\ call[c] # Idle
  /\ AtExpectedVersion(c)
  /\ run' = [run EXCEPT ![r] = [status |-> call[c].target,
                                version |-> NextVersion(c)]]
  /\ audit' = [audit EXCEPT ![r] =
                 Append(@, [from |-> call[c].current.status,
                            to |-> call[c].target,
                            fromVersion |-> held[c].version,
                            toVersion |-> NextVersion(c)])]
  /\ held' = [held EXCEPT ![c] = [run |-> r, version |-> NextVersion(c)]]
  /\ call' = [call EXCEPT ![c] = Idle]

(* No row at the expected version: ConcurrencyConflict. *)
LoseRace(c) ==
  /\ call[c] # Idle
  /\ ~AtExpectedVersion(c)
  /\ call' = [call EXCEPT ![c] = Idle]
  /\ UNCHANGED <<run, audit, held>>

(* The caller dies, or has no more use for its record: an open transaction
   rolls back and the record is gone. *)
Drop(c) ==
  /\ held[c] # NoRecord
  /\ held' = [held EXCEPT ![c] = NoRecord]
  /\ call' = [call EXCEPT ![c] = Idle]
  /\ UNCHANGED <<run, audit>>

Finish(c) == CompareAndSet(c) \/ LoseRace(c)

Next == \E c \in Callers :
          \/ \E r \in Runs : CreateRun(c, r) \/ GetRun(c, r)
          \/ \E target \in RunStatus : Validate(c, target)
          \/ CompareAndSet(c)
          \/ LoseRace(c)
          \/ Drop(c)

Spec == Init /\ [][Next]_lifecycleVars

(* A statement handed to the database completes. *)
FairSpec == Spec /\ \A c \in Callers : WF_lifecycleVars(Finish(c))

------------------------------------------------------------------------------
(* Properties. *)

(* Every variable has its type: a row exists only at version 1 or later. *)
TypeOK == /\ run \in [Runs -> Row \cup {NoRow}]
          /\ audit \in [Runs -> Seq(Event)]
          /\ held \in [Callers -> Record \cup {NoRecord}]
          /\ call \in [Callers -> Call]

(* Transition i of a trail starts in the state and version the event before
   it ended in, and is allowed. *)
Linked(trail, i) ==
  /\ trail[i].fromVersion = trail[i - 1].toVersion
  /\ trail[i].from = trail[i - 1].to
  /\ ValidRunTransition(trail[i].from, trail[i].to)

(* Event i records version i; the first is the creation. *)
TrailIsPath(trail) ==
  /\ \A i \in DOMAIN trail : trail[i].toVersion = i
  /\ trail # << >> => trail[1].from = "absent" /\ trail[1].to = "queued"
  /\ \A i \in 2 .. Len(trail) : Linked(trail, i)

(* The audit trail of RunService is exactly the life of the run: one event
   per version, each starting from the status that was really overwritten
   (not merely from the status read before the UPDATE), each an allowed
   transition, ending in the row's present status. *)
AuditIsHistory ==
  \A r \in Runs : /\ TrailIsPath(audit[r])
                  /\ run[r].version = Len(audit[r])
                  /\ audit[r] # << >> => run[r].status = audit[r][Len(audit[r])].to

(* A record a caller holds is a point of its run's history, never a version
   that was rolled back or is still to come: what an expected_version is. *)
HeldIsHistory ==
  \A c \in Callers : held[c] # NoRecord =>
    held[c].version \in DOMAIN audit[held[c].run]

(* What makes the unguarded SELECT safe: a validated call read its row no
   earlier than its expected version, so if that version is still the row's when
   the UPDATE runs, the status it validated is still the row's too. *)
ValidationHolds ==
  \A c \in Callers : call[c] # Idle =>
    LET row == run[held[c].run]
        seen == call[c].current IN
    /\ held[c] # NoRecord
    /\ held[c].version <= seen.version
    /\ seen.version <= row.version
    /\ seen.version = row.version => seen = row
    /\ ValidRunTransition(seen.status, call[c].target)

(* A run in a terminal state never changes again, whatever calls were already
   past their validation when it got there (DELIVERY_CONTRACT rule 6). *)
TerminalIsFinal ==
  [][\A r \in Runs : run[r].status \in TERMINAL_RUN_STATES =>
       run'[r] = run[r] /\ audit'[r] = audit[r]]_lifecycleVars

(* The callers' version checks implement the contract of the run store. *)
Contract == INSTANCE RunContract WITH
  status <- [r \in Runs |-> run[r].status],
  history <- [r \in Runs |-> [i \in DOMAIN audit[r] |-> audit[r][i].to]]

ImplementsContract == Contract!ContractSpec

(* Optimistic concurrency makes progress: once a transition has been
   validated, the run leaves the version its caller expected, moved by it or by
   a competitor, unless the caller gives up. *)
ContentionProgresses ==
  \A c \in Callers, r \in Runs : \A v \in 1 .. MaxVersion :
    (call[c] # Idle /\ held[c] = [run |-> r, version |-> v])
      ~> (run[r].version > v \/ held[c] = NoRecord)
==============================================================================
