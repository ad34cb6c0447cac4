------------------------------ MODULE TaskQueue ------------------------------
(***************************************************************************)
(* The tasks table between those who write it and those who page through   *)
(* it.  The writer the repository has is scripts/seed_demo.py, which       *)
(* creates the demo task, its run and its snapshots in three transactions  *)
(* and reschedules the task whenever it is run again; other tasks come     *)
(* from outside, with their snapshots.  The readers walk GET /api/tasks    *)
(* from cursor to cursor: every page is a fresh query, and a cursor is an  *)
(* offset into whatever that query returns.                                *)
(*                                                                         *)
(* The refresh of the seed assigns the task before it looks for the        *)
(* snapshots; autoflush sends that UPDATE with the first lookup, and it    *)
(* holds the row lock until the commit.                                    *)
(*                                                                         *)
(* Tasks are numbers, which order them as their public identifiers do.     *)
(* Money is in cents, a missing amount -1; times are minutes.              *)
(***************************************************************************)
EXTENDS Integers, Sequences, FiniteSets

CONSTANTS Tasks,     \* tasks there may be
          Demo,      \* the demo task, RF-1042
          VIPs,      \* tasks of VIP customers
          Escalated, \* tasks whose rows are escalated
          Exposure,  \* Exposure[t]: the exposure of task t
          Due,       \* Due[t]: when task t is due, if it is not the demo task
          Seeders,   \* processes that run seed_demo.py
          Readers,   \* clients that walk the task list
          Nobody,
          Span,      \* the demo task is due so long after it is seeded
          Horizon    \* the last minute explored

ASSUME QueueAssumption ==
  /\ Tasks \subseteq Nat /\ IsFiniteSet(Tasks) /\ Demo \in Tasks /\ VIPs \subseteq Tasks
  /\ Escalated \subseteq Tasks \ {Demo}
  /\ Exposure \in [Tasks -> Nat \cup {-1}] /\ Due \in [Tasks -> Nat]
  /\ Nobody \notin Seeders /\ Span \in Nat /\ Horizon \in Nat

VARIABLES
  tasks,     \* rows of tasks, each with its request
  shown,     \* tasks that have their customer and booking snapshots
  due,       \* due[t]: tasks.due_at
  demoRun,   \* whether AR-8821 is in agent_runs
  now,
  lock,      \* the seeder that holds the demo task's row lock
  seed,      \* seed[s]: the step of seeder s, the time and the need it noted
  walk       \* walk[r]: the walk of reader r

vars == <<tasks, shown, due, demoRun, now, lock, seed, walk>>
queue == <<tasks, shown, due, demoRun>>

Statuses == {"needs_approval", "needs_information", "gathering_policy"}
Sorts == {"priority", "sla_asc", "exposure_desc"}

NoSeed == [step |-> "idle", due |-> 0, missing |-> FALSE]
NoWalk == [phase |-> "idle", sort |-> "priority", status |-> "all", limit |-> 1,
           offset |-> 0, got |-> << >>, start |-> {}, quiet |-> TRUE, still |-> TRUE]

Init == /\ tasks = {} /\ shown = {} /\ due = Due /\ demoRun = FALSE
        /\ now = 0
        /\ lock = Nobody
        /\ seed = [s \in Seeders |-> NoSeed]
        /\ walk = [r \in Readers |-> NoWalk]

Tick == /\ now < Horizon
        /\ now' = now + 1
        /\ UNCHANGED <<queue, lock, seed, walk>>

(* start, quiet and still are ghosts: the tasks a walk began with, and whether
   nothing changed since, and whether no task was rescheduled. *)
Disturb(rescheduled) ==
  walk' = [r \in Readers |-> [walk[r] EXCEPT !.quiet = FALSE,
                                             !.still = @ /\ ~rescheduled]]

(* A task with its request and snapshots, not created by the seed. *)
AddTask(t) == /\ t \in Tasks \ (tasks \cup {Demo})
              /\ tasks' = tasks \cup {t}
              /\ shown' = shown \cup {t}
              /\ Disturb(FALSE)
              /\ UNCHANGED <<due, demoRun, now, lock, seed>>

------------------------------------------------------------------------------
(* scripts/seed_demo.py. *)

On(s, step) == seed[s].step = step
Advance(s, step) == seed' = [seed EXCEPT ![s].step = step]

(* Fault: a task that exists is taken to be complete. *)
SkipExisting(exists) == IF exists THEN "done" ELSE "create"
AfterCheck(exists) == IF exists THEN "refresh" ELSE "create"

SeedCheck(s) == /\ On(s, "idle")
                /\ Advance(s, AfterCheck(Demo \in tasks))
                /\ UNCHANGED <<queue, now, lock, walk>>

SeedTask(s) == /\ On(s, "create")
               /\ Demo \notin tasks
               /\ tasks' = tasks \cup {Demo}
               /\ due' = [due EXCEPT ![Demo] = now + Span]
               /\ Advance(s, "run")
               /\ UNCHANGED <<shown, demoRun, now, lock, walk>>

(* public_id is unique: another seeder created the task. *)
SeedCollides(s) == /\ On(s, "create")
                   /\ Demo \in tasks
                   /\ Advance(s, "failed")
                   /\ UNCHANGED <<queue, now, lock, walk>>

SeedRun(s) == /\ On(s, "run")
              /\ demoRun' = TRUE
              /\ Advance(s, "refresh")
              /\ UNCHANGED <<tasks, shown, due, now, lock, walk>>

RefreshTask(s) == /\ On(s, "refresh")
                  /\ seed' = [seed EXCEPT ![s] = [@ EXCEPT !.step = "flush",
                                                           !.due = now + Span]]
                  /\ UNCHANGED <<queue, now, lock, walk>>

(* The UPDATE waits for the row.  Fault: nothing is flushed before the lookups. *)
NeverLocked == TRUE
RowFree == lock = Nobody

Flush(s) == /\ On(s, "flush")
            /\ RowFree
            /\ lock' = s
            /\ Advance(s, "look")
            /\ UNCHANGED <<queue, now, walk>>

LookForContext(s) == /\ On(s, "look")
                     /\ seed' = [seed EXCEPT ![s] = [@ EXCEPT !.step = "commit",
                                                   !.missing = Demo \notin shown]]
                     /\ UNCHANGED <<queue, now, lock, walk>>

(* A task has one snapshot of each kind: they are missing no longer. *)
ContextCollides(s) == seed[s].missing /\ Demo \in shown

(* The INSERT of the snapshots that were missing, and the commit, or the rollback
   of everything. *)
AddContext(s) ==
  LET collides == ContextCollides(s) IN
  /\ On(s, "commit")
  /\ shown' = shown \cup {Demo}
  /\ due' = [due EXCEPT ![Demo] = IF collides THEN @ ELSE seed[s].due]
  /\ lock' = Nobody
  /\ Advance(s, IF collides THEN "failed" ELSE "done")
  /\ Disturb(Demo \in shown)
  /\ UNCHANGED <<tasks, demoRun, now>>

(* The script ends, or dies: an open transaction rolls back. *)
EndSeed(s) == /\ ~On(s, "idle")
              /\ seed' = [seed EXCEPT ![s] = NoSeed]
              /\ lock' = IF lock = s THEN Nobody ELSE lock
              /\ UNCHANGED <<queue, now, walk>>

------------------------------------------------------------------------------
(* TaskReadService.list_tasks. *)

(* The demo task is created queued, and no code changes a row's status: one that is
   escalated comes from outside. *)
PresentationStatus(t) == CASE Exposure[t] > 10000 -> "needs_approval"
                           [] Exposure[t] <= 10000 /\ t \in Escalated -> "needs_information"
                           [] OTHER -> "gathering_policy"

Matching(status) == {t \in shown : status \in {"all", PresentationStatus(t)}}

(* Whether t may come before u.  The default order ends with the due time.
   Fault: no order ends with the public identifier. *)
Untied(sort, t, u) ==
  CASE sort = "exposure_desc" -> Exposure[t] >= Exposure[u]
    [] sort = "sla_asc" -> due[t] <= due[u]
    [] sort = "priority" -> t \in VIPs \/ u \notin VIPs
Precedes(sort, t, u) ==
  CASE sort = "exposure_desc" ->
         Exposure[t] > Exposure[u] \/ (Exposure[t] = Exposure[u] /\ t <= u)
    [] sort = "sla_asc" -> due[t] < due[u] \/ (due[t] = due[u] /\ t <= u)
    [] sort = "priority" -> IF t \in VIPs <=> u \in VIPs THEN due[t] <= due[u]
                            ELSE t \in VIPs

Orders(sort, S) ==
  {rows \in [1 .. Cardinality(S) -> S] :
     \A i, j \in 1 .. Cardinality(S) :
       i < j => rows[i] # rows[j] /\ Precedes(sort, rows[i], rows[j])}

(* next_cursor is not None.  Faults: one row less is taken to be more; there is
   always more. *)
MoreThanOne(offset, limit, total) == offset + limit < total - 1
AlwaysMore(offset, limit, total) == TRUE
More(offset, limit, total) == offset + limit < total

Begin(r, sort, status, limit) ==
  /\ walk[r].phase = "idle"
  /\ walk' = [walk EXCEPT ![r] = [NoWalk EXCEPT !.phase = "walking", !.sort = sort,
                                    !.status = status, !.limit = limit,
                                    !.start = Matching(status)]]
  /\ UNCHANGED <<queue, now, lock, seed>>

NextPage(r) ==
  LET w == walk[r]
      total == Cardinality(Matching(w.status))
      end == IF w.offset + w.limit < total THEN w.offset + w.limit ELSE total
      more == More(w.offset, w.limit, total)
  IN /\ w.phase = "walking"
     /\ \E rows \in Orders(w.sort, Matching(w.status)) :
          walk' = [walk EXCEPT ![r] =
                     [w EXCEPT !.got = @ \o SubSeq(rows, w.offset + 1, end),
                               !.offset = IF more THEN @ + w.limit ELSE @,
                               !.phase = IF more THEN "walking" ELSE "walked"]]
     /\ UNCHANGED <<queue, now, lock, seed>>

EndWalk(r) == /\ walk[r].phase # "idle"
              /\ walk' = [walk EXCEPT ![r] = NoWalk]
              /\ UNCHANGED <<queue, now, lock, seed>>

Next == \/ Tick
        \/ \E t \in Tasks : AddTask(t)
        \/ \E s \in Seeders :
             \/ SeedCheck(s) \/ SeedTask(s) \/ SeedCollides(s) \/ SeedRun(s)
             \/ RefreshTask(s) \/ Flush(s) \/ LookForContext(s)
             \/ AddContext(s) \/ EndSeed(s)
        \/ \E r \in Readers :
             \/ \E sort \in Sorts, status \in Statuses \cup {"all"}, limit \in 1 .. 2 :
                  Begin(r, sort, status, limit)
             \/ NextPage(r) \/ EndWalk(r)

Spec == Init /\ [][Next]_vars

------------------------------------------------------------------------------
(* Properties. *)

(* Every variable has its type; a walk goes on only while there are rows left. *)
TypeOK ==
  /\ tasks \subseteq Tasks /\ shown \subseteq tasks
  /\ due \in [Tasks -> Nat] /\ demoRun \in BOOLEAN /\ now \in 0 .. Horizon
  /\ lock \in Seeders \cup {Nobody}
  /\ seed \in [Seeders -> [step : {"idle", "create", "run", "refresh", "flush", "look",
                                   "commit", "done", "failed"},
                           due : Nat, missing : BOOLEAN]]
  /\ \A r \in Readers :
       /\ walk[r].got \in Seq(Tasks) /\ walk[r].start \subseteq Tasks
       /\ walk[r].offset \in 0 .. Cardinality(shown)

(* "Demo task RF-1042 context is present": when a seed has ended well the lists and
   the orchestration find the task, whatever seeds died before it or run beside it,
   and while one holds the row no other has noted a need it no longer has. *)
DemoHasContext ==
  \A s \in Seeders :
    /\ On(s, "done") => Demo \in shown
    /\ On(s, "commit") => (seed[s].missing <=> Demo \notin shown)

(* Seeds that found the task never fail: two that see no snapshot at the same time
   would, were they not serialised by the row lock of a statement autoflush sends. *)
RefreshSucceeds ==
  [][\A s \in Seeders : seed[s].step \in {"refresh", "flush", "look", "commit"} =>
       seed'[s].step # "failed"]_vars

(* Paging through a queue that nobody changes returns as many rows as there are,
   each of them once in the orders that end with the public identifier, and in
   every order the rows that rank higher first.  Tasks that arrive between two pages
   push others back, never out: a walk misses none of those it began with, by
   exposure whatever happens, by due time unless a task is rescheduled. *)
Got(w) == {w.got[i] : i \in DOMAIN w.got}

WalksAreFaithful ==
  \A r \in Readers : LET w == walk[r] IN w.phase = "walked" =>
    /\ w.quiet =>
         /\ Len(w.got) = Cardinality(w.start)
         /\ w.sort # "priority" => Got(w) = w.start
         /\ \A i, j \in DOMAIN w.got : i < j =>
              CASE w.sort = "exposure_desc" -> Exposure[w.got[i]] >= Exposure[w.got[j]]
                [] w.sort = "sla_asc" -> due[w.got[i]] <= due[w.got[j]]
                [] w.sort = "priority" -> w.got[j] \in VIPs => w.got[i] \in VIPs
    /\ w.sort = "exposure_desc" \/ (w.sort = "sla_asc" /\ w.still) => w.start \subseteq Got(w)
==============================================================================
