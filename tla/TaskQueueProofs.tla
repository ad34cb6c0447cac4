---------------------------- MODULE TaskQueueProofs ----------------------------
(***************************************************************************)
(* Proofs about TaskQueue for any tasks, due times, exposures, seeders and *)
(* readers.  The inductive invariant has two parts.  Of a seeder: it holds *)
(* the row lock exactly between its first lookup and its commit, and what  *)
(* it noted in between is still true.  Of a walk: the rows it has are, by  *)
(* position, those of an order of the queue as long as nothing changes;    *)
(* and whatever changes, a task it began with and does not have yet is at  *)
(* a position it has still to come to.                                     *)
(***************************************************************************)
EXTENDS TaskQueue, FiniteSetTheorems, SequenceTheorems, TLAPS

Walks == [phase : {"idle", "walking", "walked"}, sort : Sorts,
          status : Statuses \cup {"all"}, limit : 1 .. 2, offset : Nat,
          got : Seq(Tasks), start : SUBSET Tasks, quiet : BOOLEAN, still : BOOLEAN]

SeedSteps == {"idle", "create", "run", "refresh", "flush", "look", "commit", "done", "failed"}
Seeds == [step : SeedSteps, due : Nat, missing : BOOLEAN]

QueueTypes == /\ tasks \subseteq Tasks /\ shown \subseteq tasks
              /\ due \in [Tasks -> Nat] /\ demoRun \in BOOLEAN /\ now \in 0 .. Horizon
              /\ lock \in Seeders \cup {Nobody}
              /\ seed \in [Seeders -> Seeds]
              /\ walk \in [Readers -> Walks]

(* A seeder holds the row lock from its first lookup to its commit; the demo task is
   there once it was found or created, and what the lookup found is still so. *)
SeedIsCoherent(s) ==
  /\ seed[s].step \in {"run", "refresh", "flush", "look", "commit", "done"} => Demo \in tasks
  /\ lock = s <=> seed[s].step \in {"look", "commit"}
  /\ On(s, "commit") => (seed[s].missing <=> Demo \notin shown)
  /\ On(s, "done") => Demo \in shown

(* The tasks before t in an order of S. *)
Ahead(sort, S, t) == {u \in S : u # t /\ Precedes(sort, u, t)}

(* While nothing changes, the rows of a walk are, position by position, rows of an order
   of the tasks it began with: by priority not always of the same order. *)
IsPrefix(w) ==
  /\ Matching(w.status) = w.start
  /\ Len(w.got) = IF w.phase = "walking" THEN w.offset ELSE Cardinality(w.start)
  /\ \A i \in 1 .. Len(w.got) : \E rows \in Orders(w.sort, w.start) : w.got[i] = rows[i]

(* Whatever changes, a task the walk began with and has not returned is still ahead,
   in the orders whose keys do not change. *)
Steady(w) == w.sort = "exposure_desc" \/ (w.sort = "sla_asc" /\ w.still)
MissesNothing(w) ==
  \A t \in w.start : \/ t \in Got(w)
                     \/ /\ w.phase = "walking"
                        /\ Cardinality(Ahead(w.sort, Matching(w.status), t)) >= w.offset

WalkIsCoherent(w) ==
  /\ w.offset <= Cardinality(Matching(w.status))
  /\ w.phase # "idle" => /\ w.start \subseteq Matching(w.status)
                         /\ w.quiet => IsPrefix(w)
                         /\ Steady(w) => MissesNothing(w)

SeedsAreCoherent == \A s \in Seeders : SeedIsCoherent(s)
WalksAreCoherent == \A r \in Readers : \A w \in {walk[r]} : WalkIsCoherent(w)

IInv == QueueTypes /\ SeedsAreCoherent /\ WalksAreCoherent

------------------------------------------------------------------------------
(* The orders of the queue. *)

(* How an order compares two tasks. *)
LEMMA HowPrecedes ==
  ASSUME NEW t, NEW u
  PROVE  /\ Precedes("exposure_desc", t, u) <=>
              (Exposure[t] > Exposure[u] \/ (Exposure[t] = Exposure[u] /\ t <= u))
         /\ Precedes("sla_asc", t, u) <=>
              (due[t] < due[u] \/ (due[t] = due[u] /\ t <= u))
         /\ Precedes("priority", t, u) <=>
              IF t \in VIPs <=> u \in VIPs THEN due[t] <= due[u] ELSE t \in VIPs
BY DEF Precedes

(* What the orders compare are numbers. *)
LEMMA KeysAreNumbers ==
  ASSUME due \in [Tasks -> Nat], NEW t \in Tasks
  PROVE  t \in Nat /\ due[t] \in Nat /\ Exposure[t] \in Int
BY QueueAssumption

(* The orders that end with the public identifier put two tasks one way only. *)
LEMMA Antisymmetry ==
  ASSUME due \in [Tasks -> Nat], NEW t \in Tasks, NEW u \in Tasks,
         NEW sort \in {"exposure_desc", "sla_asc"},
         Precedes(sort, t, u), Precedes(sort, u, t)
  PROVE  t = u
<1>1. /\ t \in Nat /\ u \in Nat /\ due[t] \in Nat /\ due[u] \in Nat
      /\ Exposure[t] \in Int /\ Exposure[u] \in Int
  BY KeysAreNumbers
<1>2. CASE sort = "exposure_desc"
  BY <1>1, <1>2, HowPrecedes
<1>3. CASE sort = "sla_asc"
  BY <1>1, <1>3, HowPrecedes
<1> QED BY <1>2, <1>3

Distinct(rows, n) == \A i, j \in 1 .. n : rows[i] = rows[j] => i = j
FirstOf(rows, k) == {rows[i] : i \in 1 .. k}

(* Ordered rows are all of the set, each once. *)
LEMMA RowsAreAll ==
  ASSUME NEW sort, NEW S, IsFiniteSet(S), NEW rows \in Orders(sort, S)
  PROVE  /\ Cardinality(S) \in Nat /\ rows \in [1 .. Cardinality(S) -> S]
         /\ Distinct(rows, Cardinality(S))
         /\ \A t \in S : \E i \in 1 .. Cardinality(S) : rows[i] = t
<1> DEFINE n == Cardinality(S)
<1>1. n \in Nat
  BY FS_CardinalityType
<1>2. rows \in [1 .. n -> S] /\ \A i, j \in 1 .. n : i < j => rows[i] # rows[j]
  BY DEF Orders
<1> HIDE DEF n
<1>3. \A i, j \in 1 .. n : rows[i] = rows[j] => i = j
  BY <1>1, <1>2
<1>4. rows \in Injection(1 .. n, S)
  BY <1>2, <1>3 DEF Injection, IsInjective
<1>5. Cardinality(1 .. n) = n
  BY <1>1, FS_Interval
<1>6. rows \in Surjection(1 .. n, S)
  BY <1>4, <1>5, FS_Injection DEF n
<1> QED BY <1>1, <1>2, <1>3, <1>6 DEF Surjection, Distinct, n

(* The first so many rows of an order are as many tasks. *)
LEMMA FirstRows ==
  ASSUME NEW n \in Nat, NEW S, NEW rows \in [1 .. n -> S],
         Distinct(rows, n), NEW k \in 0 .. n
  PROVE  IsFiniteSet(FirstOf(rows, k)) /\ Cardinality(FirstOf(rows, k)) = k
<1> DEFINE T == {rows[i] : i \in 1 .. k}
           f == [i \in 1 .. k |-> rows[i]]
<1>1. \A i \in 1 .. k : i \in 1 .. n
  OBVIOUS
<1>2. f \in Bijection(1 .. k, T)
  <2>1. f \in [1 .. k -> T] /\ \A i \in 1 .. k : f[i] = rows[i]
    OBVIOUS
  <2>2. \A i, j \in 1 .. k : f[i] = f[j] => i = j
    BY <1>1, <2>1 DEF Distinct
  <2>3. \A t \in T : \E i \in 1 .. k : f[i] = t
    BY <2>1
  <2> HIDE DEF f, T
  <2> QED BY <2>1, <2>2, <2>3 DEF Bijection, Injection, Surjection, IsInjective
<1>3. IsFiniteSet(1 .. k) /\ Cardinality(1 .. k) = k
  BY FS_Interval
<1> HIDE DEF T, f
<1>4. IsFiniteSet(T) /\ Cardinality(T) = k
  BY <1>2, <1>3, FS_Bijection DEF ExistsBijection
<1> QED BY <1>4 DEF T, FirstOf

(* In such an order a task has as many before it as come before it in the set: its
   position does not depend on which ordered rows are taken. *)
LEMMA Position ==
  ASSUME due \in [Tasks -> Nat], NEW S \in SUBSET Tasks, IsFiniteSet(S),
         NEW sort \in {"exposure_desc", "sla_asc"}, NEW rows \in Orders(sort, S), NEW t \in S
  PROVE  /\ Cardinality(Ahead(sort, S, t)) \in Nat
         /\ Cardinality(Ahead(sort, S, t)) + 1 \in 1 .. Cardinality(S)
         /\ rows[Cardinality(Ahead(sort, S, t)) + 1] = t
<1> DEFINE n == Cardinality(S)
<1>1. /\ n \in Nat /\ rows \in [1 .. n -> S]
      /\ Distinct(rows, n)
      /\ \A u \in S : \E i \in 1 .. n : rows[i] = u
  BY RowsAreAll
<1>2. \A i, j \in 1 .. n : i < j => Precedes(sort, rows[i], rows[j])
  BY DEF Orders
<1> HIDE DEF n
<1>3. PICK i \in 1 .. n : rows[i] = t
  BY <1>1
<1>4. Ahead(sort, S, t) = {rows[k] : k \in 1 .. i - 1}
  <2>1. ASSUME NEW u \in Ahead(sort, S, t) PROVE u \in {rows[k] : k \in 1 .. i - 1}
    <3>1. u \in S /\ u # t /\ Precedes(sort, u, t)
      BY DEF Ahead
    <3>2. PICK k \in 1 .. n : rows[k] = u
      BY <1>1, <3>1
    <3>3. ~(i < k)
      BY <1>2, <1>3, <3>1, <3>2, Antisymmetry
    <3>4. k # i
      BY <1>3, <3>1, <3>2
    <3>5. k \in 1 .. i - 1
      BY <1>1, <3>3, <3>4
    <3> QED BY <3>2, <3>5
  <2>2. ASSUME NEW k \in 1 .. i - 1 PROVE rows[k] \in Ahead(sort, S, t)
    <3>1. k \in 1 .. n /\ k < i
      BY <1>1
    <3>2. rows[k] \in S /\ Precedes(sort, rows[k], t)
      BY <1>1, <1>2, <1>3, <3>1
    <3>3. rows[k] # t
      BY <1>1, <1>3, <3>1 DEF Distinct
    <3> QED BY <3>2, <3>3 DEF Ahead
  <2> QED BY <2>1, <2>2
<1>5. Cardinality(Ahead(sort, S, t)) = i - 1
  <2> DEFINE k == i - 1
  <2>1. k \in 0 .. n
    BY <1>1
  <2> HIDE DEF k
  <2>2. Cardinality(FirstOf(rows, k)) = k
    BY <1>1, <2>1, FirstRows
  <2> QED BY <1>4, <2>2 DEF k, FirstOf
<1> QED BY <1>1, <1>3, <1>5 DEF n

(* By priority all orders have the same number of VIPs in front: what is a VIP in one
   has only VIPs before its position in another. *)
LEMMA VIPsAreFirst ==
  ASSUME NEW S, IsFiniteSet(S), NEW p \in Orders("priority", S), NEW q \in Orders("priority", S),
         NEW i \in 1 .. Cardinality(S), NEW j \in 1 .. Cardinality(S), i < j, q[j] \in VIPs
  PROVE  p[i] \in VIPs
<1> DEFINE n == Cardinality(S)
<1>1. /\ n \in Nat /\ p \in [1 .. n -> S] /\ q \in [1 .. n -> S]
      /\ Distinct(p, n) /\ Distinct(q, n)
      /\ \A u \in S : \E x \in 1 .. n : p[x] = u
  BY RowsAreAll
<1>2. \A x, y \in 1 .. n : x < y => /\ p[y] \in VIPs => p[x] \in VIPs
                                    /\ q[y] \in VIPs => q[x] \in VIPs
  <2>1. \A x, y \in 1 .. n : x < y => /\ Precedes("priority", p[x], p[y])
                                      /\ Precedes("priority", q[x], q[y])
    BY DEF Orders
  <2> QED BY <2>1, HowPrecedes
<1> HIDE DEF n
<1>3. SUFFICES ASSUME p[i] \notin VIPs PROVE FALSE
  OBVIOUS
<1> DEFINE k == i - 1
           A == FirstOf(q, j)
           B == FirstOf(p, k)
<1>4. i \in 1 .. n /\ j \in 1 .. n
  BY DEF n
<1>5. A \subseteq B
  <2> SUFFICES ASSUME NEW x \in 1 .. j PROVE q[x] \in {p[y] : y \in 1 .. i - 1}
    BY DEF FirstOf
  <2> HIDE DEF k, A, B
  <2>1. x \in 1 .. n /\ (x < j \/ x = j)
    <3>1. n \in Nat
      BY <1>1
    <3> QED BY <1>4, <3>1
  <2>2. q[x] \in VIPs
    <3>1. CASE x < j
      BY <1>2, <1>4, <2>1, <3>1
    <3>2. CASE x = j
      BY <3>2
    <3> QED BY <2>1, <3>1, <3>2
  <2>3. q[x] \in S
    BY <1>1, <2>1
  <2>4. x \in 1 .. n /\ q[x] \in VIPs /\ q[x] \in S
    BY <2>1, <2>2, <2>3
  <2>5. PICK y \in 1 .. n : p[y] = q[x]
    BY <1>1, <2>4
  <2>6. y < i
    BY <1>2, <1>3, <1>4, <2>4, <2>5
  <2> QED BY <1>4, <2>5, <2>6
<1>6. IsFiniteSet(A) /\ Cardinality(A) = j
  <2>1. j \in 0 .. n
    BY <1>1, <1>4
  <2> QED BY <1>1, <2>1, FirstRows
<1>7. IsFiniteSet(B) /\ Cardinality(B) = k
  <2>1. k \in 0 .. n
    BY <1>1, <1>4
  <2> HIDE DEF k
  <2> QED BY <1>1, <2>1, FirstRows
<1> HIDE DEF A, B
<1>8. j <= i - 1
  BY <1>5, <1>6, <1>7, FS_Subset
<1> QED BY <1>1, <1>4, <1>8

------------------------------------------------------------------------------
(* The seeders. *)

(* Nothing is wrong in the empty queue. *)
LEMMA InitIInv == Init => IInv
<1> SUFFICES ASSUME Init PROVE IInv
  OBVIOUS
<1>1. NoSeed \in Seeds /\ NoWalk \in Walks
  <2>1. << >> \in Seq(Tasks)
    OBVIOUS
  <2> QED BY <2>1 DEF NoSeed, NoWalk, Seeds, SeedSteps, Walks, Sorts, Statuses
<1>2. QueueTypes
  <2>1. seed \in [Seeders -> Seeds] /\ walk \in [Readers -> Walks]
    BY <1>1 DEF Init
  <2>2. due \in [Tasks -> Nat] /\ now \in 0 .. Horizon
    BY QueueAssumption DEF Init
  <2> QED BY <2>1, <2>2 DEF Init, QueueTypes
<1>3. SeedsAreCoherent
  BY QueueAssumption DEF Init, SeedsAreCoherent, SeedIsCoherent, NoSeed, On
<1>4. WalksAreCoherent
  <2> SUFFICES ASSUME NEW r \in Readers, NEW w \in {walk[r]} PROVE WalkIsCoherent(w)
    BY DEF WalksAreCoherent
  <2>1. w.phase = "idle" /\ w.offset = 0 /\ w.status = "all"
    BY DEF Init, NoWalk
  <2>2. Matching("all") = {}
    BY DEF Init, Matching
  <2>3. Cardinality({}) = 0
    BY FS_EmptySet
  <2> QED BY <2>1, <2>2, <2>3 DEF WalkIsCoherent
<1> QED BY <1>2, <1>3, <1>4 DEF IInv

(* A seeder that does not move keeps its rules while the tasks only grow, its lock stays
   its own, and nobody adds the snapshots it has found missing. *)
LEMMA SeedStays ==
  ASSUME NEW s \in Seeders, SeedIsCoherent(s), seed'[s] = seed[s],
         Demo \in tasks => Demo \in tasks', lock' = s <=> lock = s,
         Demo \in shown => Demo \in shown',
         On(s, "commit") /\ Demo \in shown' => Demo \in shown
  PROVE  SeedIsCoherent(s)'
BY DEF SeedIsCoherent, On

(* A step of one seeder changes nothing the others have noted. *)
LEMMA SeederSteps ==
  ASSUME QueueTypes, SeedsAreCoherent, NEW s \in Seeders,
         \/ SeedCheck(s) \/ SeedTask(s) \/ SeedCollides(s) \/ SeedRun(s)
         \/ RefreshTask(s) \/ Flush(s) \/ LookForContext(s)
         \/ AddContext(s) \/ EndSeed(s)
  PROVE  SeedsAreCoherent'
<1> USE QueueAssumption
<1> SUFFICES ASSUME NEW u \in Seeders PROVE SeedIsCoherent(u)'
  BY DEF SeedsAreCoherent
<1>1. SeedIsCoherent(u) /\ SeedIsCoherent(s)
  BY DEF SeedsAreCoherent
<1>2. seed \in [Seeders -> Seeds] /\ lock \in Seeders \cup {Nobody} /\ shown \subseteq tasks
  BY DEF QueueTypes
<1>3. CASE SeedCheck(s)
  BY <1>1, <1>2, <1>3 DEF SeedIsCoherent, SeedCheck, On, Advance, AfterCheck, queue, Seeds
<1>4. CASE SeedTask(s)
  BY <1>1, <1>2, <1>4 DEF SeedIsCoherent, SeedTask, On, Advance, Seeds
<1>5. CASE SeedCollides(s)
  BY <1>1, <1>2, <1>5 DEF SeedIsCoherent, SeedCollides, On, Advance, queue, Seeds
<1>6. CASE SeedRun(s)
  BY <1>1, <1>2, <1>6 DEF SeedIsCoherent, SeedRun, On, Advance, Seeds
<1>7. CASE RefreshTask(s)
  BY <1>1, <1>2, <1>7 DEF SeedIsCoherent, RefreshTask, On, queue, Seeds
<1>8. CASE Flush(s)
  BY <1>1, <1>2, <1>8 DEF SeedIsCoherent, Flush, RowFree, On, Advance, queue, Seeds
<1>9. CASE LookForContext(s)
  BY <1>1, <1>2, <1>9 DEF SeedIsCoherent, LookForContext, On, queue, Seeds
<1>10. CASE AddContext(s)
  <2>1. lock = s /\ lock' = Nobody /\ tasks' = tasks /\ shown' = shown \cup {Demo}
    BY <1>1, <1>10 DEF AddContext, SeedIsCoherent, On
  <2>2. CASE u = s
    <3>1. seed'[s].step \in {"failed", "done"}
      BY <1>2, <1>10 DEF AddContext, Advance, Seeds
    <3> QED BY <1>1, <1>10, <2>1, <2>2, <3>1 DEF SeedIsCoherent, On, AddContext
  <2>3. CASE u # s
    <3>1. seed'[u] = seed[u]
      BY <1>2, <1>10, <2>3 DEF AddContext, Advance
    <3>2. ~On(u, "commit")
      BY <1>1, <2>1, <2>3 DEF SeedIsCoherent, On
    <3> QED BY <1>1, <2>1, <2>3, <3>1, <3>2, SeedStays
  <2> QED BY <2>2, <2>3
<1>11. CASE EndSeed(s)
  BY <1>1, <1>2, <1>11 DEF SeedIsCoherent, EndSeed, NoSeed, On, queue
<1> QED BY <1>3, <1>4, <1>5, <1>6, <1>7, <1>8, <1>9, <1>10, <1>11

------------------------------------------------------------------------------
(* The types. *)

(* The tasks of a walk are finitely many, and shown. *)
LEMMA MatchingIsFinite ==
  ASSUME QueueTypes, NEW status
  PROVE  /\ Matching(status) \subseteq shown /\ Matching(status) \in SUBSET Tasks
         /\ IsFiniteSet(Matching(status)) /\ Cardinality(Matching(status)) \in Nat
         /\ Cardinality(Matching(status)) <= Cardinality(shown)
<1>1. Matching(status) \subseteq shown /\ shown \in SUBSET Tasks
  BY DEF Matching, QueueTypes
<1>2. IsFiniteSet(shown)
  BY <1>1, QueueAssumption, FS_Subset
<1>3. /\ IsFiniteSet(Matching(status))
      /\ Cardinality(Matching(status)) <= Cardinality(shown)
  BY <1>1, <1>2, FS_Subset
<1> QED BY <1>1, <1>3, FS_CardinalityType

(* What is left of the walks when the queue changes under them. *)
LEMMA DisturbedTypes ==
  ASSUME walk \in [Readers -> Walks], NEW rescheduled \in BOOLEAN, Disturb(rescheduled)
  PROVE  walk' \in [Readers -> Walks]
<1>1. ASSUME NEW r \in Readers
      PROVE  [walk[r] EXCEPT !.quiet = FALSE, !.still = @ /\ ~rescheduled] \in Walks
  <2> DEFINE still == walk[r].still /\ ~rescheduled
  <2>1. still \in BOOLEAN
    OBVIOUS
  <2> HIDE DEF still
  <2>2. walk[r] \in Walks
    OBVIOUS
  <2>3. [walk[r] EXCEPT !.quiet = FALSE, !.still = still] \in Walks
    BY <2>1, <2>2 DEF Walks
  <2> QED BY <2>3 DEF still
<1> QED BY <1>1 DEF Disturb

(* A seeder's step. *)
LEMMA SeederTypes ==
  ASSUME QueueTypes, SeedsAreCoherent, NEW s \in Seeders,
         \/ SeedCheck(s) \/ SeedTask(s) \/ SeedCollides(s) \/ SeedRun(s)
         \/ RefreshTask(s) \/ Flush(s) \/ LookForContext(s)
         \/ AddContext(s) \/ EndSeed(s)
  PROVE  QueueTypes'
<1>1. /\ tasks \subseteq Tasks /\ shown \subseteq tasks /\ Demo \in Tasks
      /\ due \in [Tasks -> Nat] /\ demoRun \in BOOLEAN /\ now \in Nat /\ Span \in Nat
      /\ now \in 0 .. Horizon
      /\ lock \in Seeders \cup {Nobody} /\ seed \in [Seeders -> Seeds]
      /\ walk \in [Readers -> Walks]
  BY QueueAssumption DEF QueueTypes
<1>2. now + Span \in Nat
  BY <1>1
<1>3. \A step \in SeedSteps : [seed EXCEPT ![s].step = step] \in [Seeders -> Seeds]
  BY <1>1 DEF Seeds
<1>4. CASE SeedCheck(s)
  BY <1>1, <1>3, <1>4 DEF SeedCheck, Advance, AfterCheck, queue, QueueTypes, SeedSteps
<1>5. CASE SeedTask(s)
  BY <1>1, <1>2, <1>3, <1>5 DEF SeedTask, Advance, QueueTypes, SeedSteps
<1>6. CASE SeedCollides(s)
  BY <1>1, <1>3, <1>6 DEF SeedCollides, Advance, queue, QueueTypes, SeedSteps
<1>7. CASE SeedRun(s)
  BY <1>1, <1>3, <1>7 DEF SeedRun, Advance, QueueTypes, SeedSteps
<1>8. CASE RefreshTask(s)
  <2>1. seed' \in [Seeders -> Seeds]
    BY <1>1, <1>2, <1>8 DEF RefreshTask, Seeds, SeedSteps
  <2> QED BY <1>1, <1>8, <2>1 DEF RefreshTask, queue, QueueTypes
<1>9. CASE Flush(s)
  BY <1>1, <1>3, <1>9 DEF Flush, Advance, queue, QueueTypes, SeedSteps
<1>10. CASE LookForContext(s)
  <2>1. seed' \in [Seeders -> Seeds]
    BY <1>1, <1>10 DEF LookForContext, Seeds, SeedSteps
  <2> QED BY <1>1, <1>10, <2>1 DEF LookForContext, queue, QueueTypes
<1>11. CASE AddContext(s)
  <2>1. seed' \in [Seeders -> Seeds]
    BY <1>3, <1>11 DEF AddContext, Advance, SeedSteps
  <2>2. due' \in [Tasks -> Nat]
    BY <1>1, <1>11 DEF AddContext, Seeds
  <2>3. walk' \in [Readers -> Walks]
    <3>1. (Demo \in shown) \in BOOLEAN
      OBVIOUS
    <3> QED BY <1>1, <1>11, <3>1, DisturbedTypes DEF AddContext
  <2>4. shown' \subseteq tasks'
    BY <1>1, <1>11 DEF AddContext, SeedsAreCoherent, SeedIsCoherent, On
  <2> QED BY <1>1, <1>11, <2>1, <2>2, <2>3, <2>4 DEF AddContext, QueueTypes
<1>12. CASE EndSeed(s)
  <2>1. NoSeed \in Seeds
    BY DEF NoSeed, Seeds, SeedSteps
  <2> QED BY <1>1, <1>12, <2>1 DEF EndSeed, queue, QueueTypes
<1> QED BY <1>4, <1>5, <1>6, <1>7, <1>8, <1>9, <1>10, <1>11, <1>12

------------------------------------------------------------------------------
(* The walks. *)

(* Rows that are not rescheduled keep their order. *)
LEMMA SameOrder ==
  ASSUME NEW t, NEW u, due'[t] = due[t], due'[u] = due[u], NEW sort \in Sorts
  PROVE  Precedes(sort, t, u)' <=> Precedes(sort, t, u)
<1>1. CASE sort = "exposure_desc"
  BY <1>1 DEF Precedes
<1>2. CASE sort = "sla_asc"
  BY <1>2 DEF Precedes
<1>3. CASE sort = "priority"
  BY <1>3 DEF Precedes
<1> QED BY <1>1, <1>2, <1>3 DEF Sorts

(* By exposure the due times do not matter. *)
LEMMA SameExposureOrder ==
  ASSUME NEW t, NEW u, NEW sort, sort = "exposure_desc"
  PROVE  Precedes(sort, t, u)' <=> Precedes(sort, t, u)
BY DEF Precedes

(* A walk over rows that do not change is as coherent as before. *)
LEMMA WalkStays ==
  ASSUME NEW w \in Walks, WalkIsCoherent(w), shown' = shown, \A t \in shown : due'[t] = due[t]
  PROVE  WalkIsCoherent(w)'
<1>1. Matching(w.status)' = Matching(w.status) /\ Matching(w.status) \subseteq shown
  BY DEF Matching
<1>2. w.sort \in Sorts
  BY DEF Walks
<1>3. \A t, u \in shown : Precedes(w.sort, t, u)' <=> Precedes(w.sort, t, u)
  BY <1>2, SameOrder
<1>4. CASE w.phase = "idle"
  BY <1>1, <1>4 DEF WalkIsCoherent
<1>5. CASE w.phase # "idle"
  <2>1. w.start \subseteq shown
    BY <1>1, <1>5 DEF WalkIsCoherent
  <2>2. Orders(w.sort, w.start)' = Orders(w.sort, w.start)
    BY <1>3, <2>1 DEF Orders
  <2>3. IsPrefix(w)' <=> IsPrefix(w)
    BY <1>1, <2>2 DEF IsPrefix
  <2>4. \A t \in shown : Ahead(w.sort, Matching(w.status), t)' = Ahead(w.sort, Matching(w.status), t)
    BY <1>1, <1>3 DEF Ahead
  <2>5. MissesNothing(w)' <=> MissesNothing(w)
    BY <1>1, <2>1, <2>4 DEF MissesNothing, Got
  <2>6. Steady(w)' <=> Steady(w)
    BY DEF Steady
  <2> QED BY <1>1, <2>3, <2>5, <2>6 DEF WalkIsCoherent
<1> QED BY <1>4, <1>5

(* Tasks that are added push others back: who is still to come stays ahead. *)
LEMMA WalkIsDisturbed ==
  ASSUME QueueTypes, QueueTypes', NEW w \in Walks, WalkIsCoherent(w), shown \subseteq shown',
         NEW v \in Walks, v.phase = w.phase, v.sort = w.sort, v.status = w.status,
         v.offset = w.offset, v.got = w.got, v.start = w.start, v.quiet = FALSE,
         v.still => w.still /\ \A t \in shown : due'[t] = due[t]
  PROVE  WalkIsCoherent(v)'
<1> DEFINE M == Matching(v.status)
           N == Matching(v.status)'
<1>1. M \subseteq N /\ M \subseteq shown
  BY DEF Matching
<1>2. IsFiniteSet(M) /\ Cardinality(M) \in Nat /\ IsFiniteSet(N) /\ Cardinality(N) \in Nat
  <2>1. IsFiniteSet(M) /\ Cardinality(M) \in Nat
    BY MatchingIsFinite
  <2>2. N \subseteq Tasks
    BY DEF Matching, QueueTypes
  <2>3. IsFiniteSet(N)
    BY <2>2, QueueAssumption, FS_Subset
  <2> QED BY <2>1, <2>3, FS_CardinalityType
<1>3. Cardinality(M) <= Cardinality(N)
  BY <1>1, <1>2, FS_Subset
<1>4. /\ v.offset \in Nat /\ v.offset <= Cardinality(M)
      /\ v.phase # "idle" => v.start \subseteq M
      /\ v.phase # "idle" /\ Steady(v) => MissesNothing(v)
  BY DEF WalkIsCoherent, Walks, Steady, MissesNothing, Got
<1>5. v.offset <= Cardinality(N)
  BY <1>2, <1>3, <1>4
<1>6. ASSUME v.phase # "idle", Steady(v) PROVE MissesNothing(v)'
  <2>1. v.start \subseteq M /\ MissesNothing(v)
    BY <1>4, <1>6
  <2> DEFINE A(t) == Ahead(v.sort, M, t)
             B(t) == {u \in N : u # t /\ Precedes(v.sort, u, t)'}
  <2>2. ASSUME NEW t \in M PROVE A(t) \subseteq B(t)
    <3>1. CASE v.sort = "exposure_desc"
      <4>1. \A u \in M : Precedes(v.sort, u, t)' <=> Precedes(v.sort, u, t)
        BY <3>1, SameExposureOrder
      <4> QED BY <1>1, <4>1 DEF Ahead
    <3>2. CASE v.sort = "sla_asc" /\ v.still
      <4>1. \A u \in M : Precedes(v.sort, u, t)' <=> Precedes(v.sort, u, t)
        BY <1>1, <3>2, SameOrder DEF Sorts
      <4> QED BY <1>1, <4>1 DEF Ahead
    <3> QED BY <1>6, <3>1, <3>2 DEF Steady
  <2>3. ASSUME NEW t \in v.start, t \notin Got(v)
        PROVE  v.phase = "walking" /\ Cardinality(B(t)) >= v.offset
    <3>1. v.phase = "walking" /\ Cardinality(A(t)) >= v.offset
      BY <2>1, <2>3 DEF MissesNothing
    <3>2. A(t) \subseteq B(t)
      BY <2>1, <2>2, <2>3
    <3>3. IsFiniteSet(A(t)) /\ IsFiniteSet(B(t))
      <4>1. A(t) \subseteq M /\ B(t) \subseteq N
        BY DEF Ahead
      <4> QED BY <1>2, <4>1, FS_Subset
    <3>4. Cardinality(A(t)) <= Cardinality(B(t))
      BY <3>2, <3>3, FS_Subset
    <3>5. Cardinality(A(t)) \in Nat /\ Cardinality(B(t)) \in Nat
      BY <3>3, FS_CardinalityType
    <3> HIDE DEF A, B
    <3>6. Cardinality(B(t)) >= v.offset
      BY <1>4, <3>1, <3>4, <3>5
    <3> QED BY <3>1, <3>6
  <2>4. \A t : Ahead(v.sort, Matching(v.status), t)' = B(t)
    BY DEF Ahead
  <2> HIDE DEF A, B
  <2> QED BY <2>3, <2>4 DEF MissesNothing, Got
<1> QED BY <1>1, <1>4, <1>5, <1>6 DEF WalkIsCoherent, Steady

(* A walk that begins has everything ahead. *)
LEMMA BeginIsCoherent ==
  ASSUME QueueTypes, NEW sort \in Sorts, NEW status \in Statuses \cup {"all"}, NEW limit \in 1 .. 2,
         NEW w, w = [NoWalk EXCEPT !.phase = "walking", !.sort = sort, !.status = status,
                                   !.limit = limit, !.start = Matching(status)]
  PROVE  w \in Walks /\ WalkIsCoherent(w)
<1>1. /\ w.phase = "walking" /\ w.sort = sort /\ w.status = status /\ w.limit = limit
      /\ w.offset = 0 /\ w.got = << >> /\ w.start = Matching(status)
  BY DEF NoWalk
<1>2. /\ IsFiniteSet(Matching(status)) /\ Cardinality(Matching(status)) \in Nat
      /\ Matching(status) \in SUBSET Tasks
  BY MatchingIsFinite
<1>3. w \in Walks
  <2>1. << >> \in Seq(Tasks)
    OBVIOUS
  <2> QED BY <1>2, <2>1 DEF NoWalk, Walks
<1>4. IsPrefix(w)
  BY <1>1 DEF IsPrefix
<1>5. ASSUME NEW t PROVE Cardinality(Ahead(sort, Matching(status), t)) >= 0
  <2>1. Ahead(sort, Matching(status), t) \subseteq Matching(status)
    BY DEF Ahead
  <2>2. Cardinality(Ahead(sort, Matching(status), t)) \in Nat
    BY <1>2, <2>1, FS_Subset, FS_CardinalityType
  <2> QED BY <2>2
<1>6. MissesNothing(w)
  BY <1>1, <1>5 DEF MissesNothing
<1> QED BY <1>1, <1>2, <1>3, <1>4, <1>6 DEF WalkIsCoherent

(* What a page adds to the rows a walk has: those from its offset on. *)
Adds(all, got, rows, from, to) ==
  /\ Len(all) = Len(got) + (to - from)
  /\ \A i \in 1 .. Len(got) : all[i] = got[i]
  /\ \A i \in 1 .. to - from : all[Len(got) + i] = rows[from + i]

(* The rows a page is concatenated to stay where they are, and its own follow. *)
LEMMA PageAdds ==
  ASSUME NEW S, NEW n \in Nat, NEW rows \in [1 .. n -> S], NEW got \in Seq(S),
         NEW from \in 0 .. n, NEW to \in from .. n,
         NEW all, all = got \o SubSeq(rows, from + 1, to)
  PROVE  all \in Seq(S) /\ Adds(all, got, rows, from, to)
<1> DEFINE page == SubSeq(rows, from + 1, to)
<1>1. rows \in Seq(S) /\ Len(rows) = n
  <2>1. rows \in Seq(S)
    BY SeqDef
  <2> QED BY <2>1, LenProperties
<1>2. page \in Seq(S) /\ Len(page) = to - from /\ \A i \in 1 .. to - from : page[i] = rows[from + i]
  <2>1. from + 1 \in 1 .. Len(rows) + 1 /\ to \in from + 1 - 1 .. Len(rows)
    BY <1>1
  <2>2. /\ page \in Seq(S)
        /\ Len(page) = IF from + 1 <= to THEN to - (from + 1) + 1 ELSE 0
        /\ \A i \in 1 .. to - (from + 1) + 1 : page[i] = rows[from + 1 + i - 1]
    BY <1>1, <2>1, SubSeqProperties
  <2> HIDE DEF page
  <2>3. Len(page) = to - from
    BY <2>2
  <2>4. \A i \in 1 .. to - from : page[i] = rows[from + i]
    BY <2>2
  <2> QED BY <2>2, <2>3, <2>4
<1> HIDE DEF page
<1>3. /\ got \o page \in Seq(S) /\ Len(got \o page) = Len(got) + Len(page)
      /\ \A i \in 1 .. Len(got) + Len(page) :
           (got \o page)[i] = IF i <= Len(got) THEN got[i] ELSE page[i - Len(got)]
  BY <1>2, ConcatProperties
<1>4. Len(got) \in Nat
  BY LenProperties
<1>5. \A i \in 1 .. Len(got) : (got \o page)[i] = got[i]
  BY <1>2, <1>3, <1>4
<1>6. \A i \in 1 .. to - from : (got \o page)[Len(got) + i] = rows[from + i]
  <2> SUFFICES ASSUME NEW i \in 1 .. to - from
               PROVE  (got \o page)[Len(got) + i] = rows[from + i]
    OBVIOUS
  <2>1. Len(got) + i \in 1 .. Len(got) + Len(page) /\ ~(Len(got) + i <= Len(got))
    BY <1>2, <1>4
  <2>2. Len(got) + i - Len(got) = i
    BY <1>4
  <2> QED BY <1>2, <1>3, <2>1, <2>2
<1>7. all = got \o page
  BY DEF page
<1> QED BY <1>2, <1>3, <1>5, <1>6, <1>7 DEF Adds

(* What a page makes of a walk: it takes the rows from the offset on, and goes on if
   there are more. *)
IsPage(w, v, rows, total, to) ==
  /\ v.sort = w.sort /\ v.status = w.status /\ v.start = w.start
  /\ v.quiet = w.quiet /\ v.still = w.still
  /\ Adds(v.got, w.got, rows, w.offset, to)
  /\ to \in w.offset .. total
  /\ \/ v.phase = "walking" /\ v.offset = to
     \/ v.phase = "walked" /\ v.offset = w.offset /\ to = total

(* Where a page ends. *)
LEMMA PageBounds ==
  ASSUME NEW offset \in Nat, NEW limit \in 1 .. 2, NEW total \in Nat, offset <= total
  PROVE  LET to == IF offset + limit < total THEN offset + limit ELSE total IN
         /\ to \in offset .. total
         /\ More(offset, limit, total) => to = offset + limit
         /\ ~More(offset, limit, total) => to = total
BY DEF More

(* What NextPage does is to take a page. *)
LEMMA NextPageIsPage ==
  ASSUME QueueTypes, WalksAreCoherent, NEW r \in Readers, NextPage(r)
  PROVE  \E w \in Walks, v \in Walks :
           \E rows \in Orders(w.sort, Matching(w.status)),
              to \in w.offset .. Cardinality(Matching(w.status)) :
           /\ w = walk[r] /\ w.phase = "walking" /\ WalkIsCoherent(w)
           /\ walk' = [walk EXCEPT ![r] = v]
           /\ IsPage(w, v, rows, Cardinality(Matching(w.status)), to)
<1>1. PICK w \in Walks : w = walk[r]
  BY DEF QueueTypes
<1> DEFINE S == Matching(w.status)
           total == Cardinality(S)
           to == IF w.offset + w.limit < total THEN w.offset + w.limit ELSE total
           more == More(w.offset, w.limit, total)
<1>2. WalkIsCoherent(w) /\ w.phase = "walking" /\ w.offset <= total
  BY <1>1 DEF WalksAreCoherent, NextPage, WalkIsCoherent
<1>3. PICK rows \in Orders(w.sort, S) :
        walk' = [walk EXCEPT ![r] =
                  [w EXCEPT !.got = w.got \o SubSeq(rows, w.offset + 1, to),
                            !.offset = IF more THEN w.offset + w.limit ELSE w.offset,
                            !.phase = IF more THEN "walking" ELSE "walked"]]
  BY <1>1 DEF NextPage
<1>4. /\ S \in SUBSET Tasks /\ IsFiniteSet(S) /\ total \in Nat
      /\ rows \in [1 .. total -> S] /\ rows \in [1 .. total -> Tasks]
  <2>1. S \in SUBSET Tasks /\ IsFiniteSet(S)
    BY MatchingIsFinite
  <2>2. total \in Nat /\ rows \in [1 .. total -> S]
    BY <2>1, RowsAreAll
  <2> QED BY <2>1, <2>2
<1>5. /\ w.offset \in Nat /\ w.limit \in 1 .. 2 /\ w.got \in Seq(Tasks)
      /\ w.offset + w.limit \in Nat
  BY DEF Walks
<1> HIDE DEF S, total
<1>6. to \in w.offset .. total /\ (more => to = w.offset + w.limit) /\ (~more => to = total)
  BY <1>2, <1>4, <1>5, PageBounds
<1>7. w.offset \in 0 .. total
  BY <1>2, <1>4, <1>5
<1> HIDE DEF to, more
<1> DEFINE got == w.got \o SubSeq(rows, w.offset + 1, to)
           offset == IF more THEN w.offset + w.limit ELSE w.offset
           phase == IF more THEN "walking" ELSE "walked"
           v == [w EXCEPT !.got = got, !.offset = offset, !.phase = phase]
<1>8. walk' = [walk EXCEPT ![r] = v]
  BY <1>3 DEF to, more
<1> HIDE DEF got
<1>9. got \in Seq(Tasks) /\ Adds(got, w.got, rows, w.offset, to)
  <2>1. got = w.got \o SubSeq(rows, w.offset + 1, to)
    BY DEF got
  <2>2. rows \in [1 .. total -> Tasks] /\ total \in Nat /\ w.got \in Seq(Tasks)
    BY <1>4, <1>5
  <2> QED BY <1>6, <1>7, <2>1, <2>2, PageAdds, Zenon
<1>10. offset \in Nat /\ phase \in {"idle", "walking", "walked"}
  BY <1>5
<1>11. \/ phase = "walking" /\ offset = to
       \/ phase = "walked" /\ offset = w.offset /\ to = total
  BY <1>6
<1> HIDE DEF offset, phase
<1>12. /\ v \in Walks /\ v.got = got /\ v.offset = offset /\ v.phase = phase
       /\ v.sort = w.sort /\ v.status = w.status /\ v.start = w.start
       /\ v.quiet = w.quiet /\ v.still = w.still
  BY <1>9, <1>10 DEF Walks
<1> HIDE DEF v
<1>13. IsPage(w, v, rows, total, to)
  BY <1>6, <1>9, <1>11, <1>12 DEF IsPage
<1> QED BY <1>1, <1>2, <1>6, <1>8, <1>12, <1>13 DEF S, total

(* Where on a page a row is, that comes after the rows of the pages before it. *)
LEMMA PageIndex ==
  ASSUME NEW offset \in Nat, NEW to \in Nat, NEW k \in Nat, NEW got \in Nat, NEW all,
         k >= offset, k + 1 <= to, all = got + (to - offset)
  PROVE  /\ k + 1 - offset \in 1 .. to - offset /\ offset + (k + 1 - offset) = k + 1
         /\ got + (k + 1 - offset) \in 1 .. all
OBVIOUS

(* A page keeps the rules: its rows are at their positions, and what it leaves is ahead. *)
LEMMA PageIsCoherent ==
  ASSUME QueueTypes, NEW w \in Walks, WalkIsCoherent(w), w.phase = "walking",
         NEW v \in Walks, NEW S, S = Matching(w.status),
         NEW rows \in Orders(w.sort, S), NEW to \in w.offset .. Cardinality(S),
         IsPage(w, v, rows, Cardinality(S), to)
  PROVE  WalkIsCoherent(v)
<1> DEFINE total == Cardinality(S)
<1>1. /\ S \in SUBSET Tasks /\ IsFiniteSet(S) /\ total \in Nat
      /\ w.start \subseteq S /\ due \in [Tasks -> Nat]
  <2>1. S \in SUBSET Tasks /\ IsFiniteSet(S) /\ total \in Nat
    BY MatchingIsFinite
  <2> QED BY <2>1 DEF WalkIsCoherent, QueueTypes
<1>2. /\ w.offset \in Nat /\ w.got \in Seq(Tasks) /\ v.got \in Seq(Tasks)
      /\ Len(w.got) \in Nat /\ Len(v.got) \in Nat
      /\ DOMAIN w.got = 1 .. Len(w.got) /\ DOMAIN v.got = 1 .. Len(v.got)
  <2>1. w.offset \in Nat /\ w.got \in Seq(Tasks) /\ v.got \in Seq(Tasks)
    BY DEF Walks
  <2> QED BY <2>1, LenProperties
<1> HIDE DEF total
<1>3. to \in w.offset .. total /\ to \in Nat
  BY <1>1, <1>2 DEF total
<1>4. /\ v.sort = w.sort /\ v.status = w.status /\ v.start = w.start
      /\ v.quiet = w.quiet /\ v.still = w.still
  BY DEF IsPage
<1>5. \/ v.phase = "walking" /\ v.offset = to
      \/ v.phase = "walked" /\ v.offset = w.offset /\ to = total
  BY DEF IsPage, total
<1>6. /\ Len(v.got) = Len(w.got) + (to - w.offset)
      /\ \A i \in 1 .. Len(w.got) : v.got[i] = w.got[i]
      /\ \A i \in 1 .. to - w.offset : v.got[Len(w.got) + i] = rows[w.offset + i]
  BY DEF IsPage, Adds
<1>7. v.offset <= total
  BY <1>1, <1>2, <1>3, <1>5
<1>8. ASSUME v.quiet PROVE IsPrefix(v)
  <2>1. IsPrefix(w) /\ S = w.start /\ Len(w.got) = w.offset
    BY <1>4, <1>8 DEF WalkIsCoherent, IsPrefix
  <2>2. Len(v.got) = to
    BY <1>2, <1>3, <1>6, <2>1
  <2>3. Len(v.got) = IF v.phase = "walking" THEN v.offset ELSE total
    BY <1>5, <2>2
  <2>4. ASSUME NEW i \in 1 .. Len(v.got) PROVE \E p \in Orders(w.sort, w.start) : v.got[i] = p[i]
    <3>1. CASE i <= w.offset
      <4>1. i \in 1 .. Len(w.got)
        BY <1>2, <2>1, <3>1
      <4>2. \E p \in Orders(w.sort, w.start) : w.got[i] = p[i]
        BY <2>1, <4>1 DEF IsPrefix
      <4> QED BY <1>6, <4>1, <4>2
    <3>2. CASE ~(i <= w.offset)
      <4>1. i - w.offset \in 1 .. to - w.offset
        BY <1>2, <1>3, <2>2, <3>2
      <4>2. v.got[w.offset + (i - w.offset)] = rows[w.offset + (i - w.offset)]
        BY <1>6, <2>1, <4>1
      <4>3. w.offset + (i - w.offset) = i
        BY <1>2, <2>2
      <4>4. v.got[i] = rows[i]
        BY <4>2, <4>3
      <4> QED BY <2>1, <4>4
    <3> QED BY <3>1, <3>2
  <2>5. Matching(v.status) = v.start /\ total = Cardinality(v.start)
    BY <1>4, <2>1 DEF total
  <2>6. \A i \in 1 .. Len(v.got) : \E p \in Orders(v.sort, v.start) : v.got[i] = p[i]
    BY <1>4, <2>4
  <2> QED BY <2>3, <2>5, <2>6 DEF IsPrefix
<1>9. ASSUME Steady(v), NEW t \in w.start, t \notin Got(v)
      PROVE  v.phase = "walking" /\ Cardinality(Ahead(w.sort, S, t)) >= v.offset
  <2>1. Steady(w) /\ w.sort \in {"exposure_desc", "sla_asc"}
    BY <1>4, <1>9 DEF Steady
  <2>2. \A i \in 1 .. Len(v.got) : v.got[i] # t
    BY <1>2, <1>9 DEF Got
  <2>3. t \notin Got(w)
    <3>1. \A i \in 1 .. Len(w.got) : i \in 1 .. Len(v.got)
      BY <1>2, <1>3, <1>6
    <3> QED BY <1>2, <1>6, <2>2, <3>1 DEF Got
  <2> DEFINE k == Cardinality(Ahead(w.sort, S, t))
  <2>4. k >= w.offset
    BY <2>1, <2>3, <1>9 DEF WalkIsCoherent, MissesNothing
  <2>5. k \in Nat /\ k + 1 \in 1 .. total /\ rows[k + 1] = t
    <3>1. t \in S
      BY <1>1, <1>9
    <3> QED BY <1>1, <2>1, <3>1, Position DEF total
  <2> HIDE DEF k
  <2>6. ~(k + 1 <= to)
    <3> SUFFICES ASSUME k + 1 <= to PROVE FALSE
      OBVIOUS
    <3>1. /\ k + 1 - w.offset \in 1 .. to - w.offset
          /\ w.offset + (k + 1 - w.offset) = k + 1
          /\ Len(w.got) + (k + 1 - w.offset) \in 1 .. Len(v.got)
      <4>1. /\ w.offset \in Nat /\ to \in Nat /\ k \in Nat /\ Len(w.got) \in Nat
            /\ k >= w.offset /\ k + 1 <= to /\ Len(v.got) = Len(w.got) + (to - w.offset)
        BY <1>2, <1>3, <1>6, <2>4, <2>5
      <4> QED BY <4>1, PageIndex
    <3>2. v.got[Len(w.got) + (k + 1 - w.offset)] = rows[w.offset + (k + 1 - w.offset)]
      BY <1>6, <3>1
    <3> QED BY <2>2, <2>5, <3>1, <3>2
  <2>7. to # total
    BY <1>1, <1>3, <2>5, <2>6
  <2>8. v.phase = "walking" /\ k >= v.offset
    BY <1>3, <1>5, <2>5, <2>6, <2>7
  <2> QED BY <2>8 DEF k
<1>10. Steady(v) => MissesNothing(v)
  BY <1>4, <1>9 DEF MissesNothing
<1> QED BY <1>1, <1>4, <1>7, <1>8, <1>10 DEF WalkIsCoherent, total

(* Walks over rows that do not change. *)
LEMMA WalksStay ==
  ASSUME QueueTypes, WalksAreCoherent, walk' = walk, shown' = shown,
         \A t \in shown : due'[t] = due[t]
  PROVE  WalksAreCoherent'
<1> SUFFICES ASSUME NEW r \in Readers, NEW w \in {walk'[r]} PROVE WalkIsCoherent(w)'
  BY DEF WalksAreCoherent
<1>1. w \in Walks /\ WalkIsCoherent(w)
  BY DEF WalksAreCoherent, QueueTypes
<1> QED BY <1>1, WalkStays

(* A step of one reader. *)
LEMMA OneWalk ==
  ASSUME QueueTypes, WalksAreCoherent, shown' = shown, due' = due,
         NEW r \in Readers, NEW v \in Walks, WalkIsCoherent(v), walk' = [walk EXCEPT ![r] = v]
  PROVE  walk' \in [Readers -> Walks] /\ WalksAreCoherent'
<1>1. walk \in [Readers -> Walks]
  BY DEF QueueTypes
<1>2. walk' \in [Readers -> Walks]
  BY <1>1
<1>3. ASSUME NEW q \in Readers, NEW w \in {walk'[q]} PROVE WalkIsCoherent(w)'
  <2>1. w \in Walks /\ WalkIsCoherent(w)
    <3>1. CASE q = r
      BY <1>1, <1>3, <3>1
    <3>2. CASE q # r
      <4>1. w = walk[q]
        BY <1>1, <1>3, <3>2
      <4> QED BY <1>1, <4>1 DEF WalksAreCoherent
    <3> QED BY <3>1, <3>2
  <2> QED BY <2>1, WalkStays
<1>4. WalksAreCoherent'
  BY <1>3 DEF WalksAreCoherent
<1> QED BY <1>2, <1>4

(* A change of the queue under the walks. *)
LEMMA WalksAreDisturbed ==
  ASSUME QueueTypes, QueueTypes', WalksAreCoherent, NEW rescheduled \in BOOLEAN,
         Disturb(rescheduled), shown \subseteq shown',
         ~rescheduled => \A t \in shown : due'[t] = due[t]
  PROVE  WalksAreCoherent'
<1> SUFFICES ASSUME NEW r \in Readers, NEW v \in {walk'[r]} PROVE WalkIsCoherent(v)'
  BY DEF WalksAreCoherent
<1>1. PICK w \in Walks : w = walk[r] /\ WalkIsCoherent(w)
  BY DEF QueueTypes, WalksAreCoherent
<1>2. v \in Walks
  BY DEF QueueTypes
<1> DEFINE still == w.still /\ ~rescheduled
<1>3. still \in BOOLEAN
  OBVIOUS
<1> HIDE DEF still
<1>4. v = [w EXCEPT !.quiet = FALSE, !.still = still]
  BY <1>1 DEF Disturb, still
<1>5. /\ v.phase = w.phase /\ v.sort = w.sort /\ v.status = w.status /\ v.offset = w.offset
      /\ v.got = w.got /\ v.start = w.start /\ v.quiet = FALSE /\ v.still = still
  BY <1>4 DEF Walks
<1>6. v.still => w.still /\ \A t \in shown : due'[t] = due[t]
  BY <1>3, <1>5 DEF still
<1> QED BY <1>1, <1>2, <1>5, <1>6, WalkIsDisturbed

------------------------------------------------------------------------------
(* Every step. *)

(* The invariant is inductive. *)
LEMMA StepIInv == IInv /\ [Next]_vars => IInv'
<1> SUFFICES ASSUME IInv, [Next]_vars PROVE IInv'
  OBVIOUS
<1>1. QueueTypes /\ SeedsAreCoherent /\ WalksAreCoherent
  BY DEF IInv
<1>2. /\ tasks \subseteq Tasks /\ shown \subseteq tasks /\ Demo \in Tasks
      /\ due \in [Tasks -> Nat] /\ demoRun \in BOOLEAN /\ now \in 0 .. Horizon
      /\ lock \in Seeders \cup {Nobody} /\ seed \in [Seeders -> Seeds]
      /\ walk \in [Readers -> Walks] /\ Horizon \in Nat
  BY <1>1, QueueAssumption DEF QueueTypes
<1>3. ASSUME UNCHANGED seed, UNCHANGED lock, tasks \subseteq tasks', Demo \in tasks' => Demo \in tasks,
             shown \subseteq shown', Demo \in shown' => Demo \in shown
      PROVE  SeedsAreCoherent'
  <2> SUFFICES ASSUME NEW s \in Seeders PROVE SeedIsCoherent(s)'
    BY DEF SeedsAreCoherent
  <2> QED BY <1>1, <1>3, SeedStays DEF SeedsAreCoherent
<1>4. CASE UNCHANGED vars
  <2>1. QueueTypes'
    BY <1>1, <1>4 DEF QueueTypes, vars
  <2>2. SeedsAreCoherent'
    BY <1>3, <1>4 DEF vars
  <2>3. WalksAreCoherent'
    BY <1>1, <1>4, WalksStay DEF vars
  <2> QED BY <2>1, <2>2, <2>3 DEF IInv
<1>5. CASE Tick
  <2>1. now' \in 0 .. Horizon
    BY <1>2, <1>5 DEF Tick
  <2>2. QueueTypes'
    BY <1>2, <1>5, <2>1 DEF Tick, queue, QueueTypes
  <2>3. SeedsAreCoherent'
    BY <1>3, <1>5 DEF Tick, queue
  <2>4. WalksAreCoherent'
    BY <1>1, <1>5, WalksStay DEF Tick, queue
  <2> QED BY <2>2, <2>3, <2>4 DEF IInv
<1>6. ASSUME NEW t \in Tasks, AddTask(t) PROVE IInv'
  <2>1. walk' \in [Readers -> Walks]
    BY <1>2, <1>6, DisturbedTypes DEF AddTask
  <2>2. QueueTypes'
    BY <1>2, <1>6, <2>1 DEF AddTask, QueueTypes
  <2>3. SeedsAreCoherent'
    BY <1>3, <1>6 DEF AddTask
  <2>4. WalksAreCoherent'
    BY <1>1, <1>6, <2>2, WalksAreDisturbed DEF AddTask
  <2> QED BY <2>2, <2>3, <2>4 DEF IInv
<1>7. ASSUME NEW s \in Seeders,
             \/ SeedCheck(s) \/ SeedTask(s) \/ SeedCollides(s) \/ SeedRun(s)
             \/ RefreshTask(s) \/ Flush(s) \/ LookForContext(s)
             \/ AddContext(s) \/ EndSeed(s)
      PROVE  IInv'
  <2>1. QueueTypes'
    BY <1>1, <1>7, SeederTypes
  <2>2. SeedsAreCoherent'
    BY <1>1, <1>7, SeederSteps
  <2>3. CASE AddContext(s)
    <3> DEFINE rescheduled == Demo \in shown
    <3>1. rescheduled \in BOOLEAN /\ Disturb(rescheduled) /\ shown \subseteq shown'
      BY <2>3 DEF AddContext
    <3>2. ~rescheduled => \A t \in shown : due'[t] = due[t]
      BY <1>2, <2>3 DEF AddContext
    <3>3. WalksAreCoherent'
      BY <1>1, <2>1, <3>1, <3>2, WalksAreDisturbed
    <3> QED BY <2>1, <2>2, <3>3 DEF IInv
  <2>4. CASE SeedTask(s)
    <3>1. walk' = walk /\ shown' = shown /\ \A t \in shown : due'[t] = due[t]
      BY <1>2, <2>4 DEF SeedTask
    <3>2. WalksAreCoherent'
      BY <1>1, <3>1, WalksStay
    <3> QED BY <2>1, <2>2, <3>2 DEF IInv
  <2>5. CASE ~AddContext(s) /\ ~SeedTask(s)
    <3>1. walk' = walk /\ shown' = shown /\ due' = due
      BY <1>7, <2>5 DEF SeedCheck, SeedCollides, SeedRun, RefreshTask, Flush,
                        LookForContext, EndSeed, queue
    <3>2. WalksAreCoherent'
      BY <1>1, <3>1, WalksStay
    <3> QED BY <2>1, <2>2, <3>2 DEF IInv
  <2> QED BY <2>3, <2>4, <2>5
<1>8. ASSUME NEW r \in Readers, NEW v \in Walks, WalkIsCoherent(v),
             walk' = [walk EXCEPT ![r] = v], UNCHANGED <<queue, now, lock, seed>>
      PROVE  IInv'
  <2>1. walk' \in [Readers -> Walks] /\ WalksAreCoherent'
    BY <1>1, <1>8, OneWalk DEF queue
  <2>2. QueueTypes'
    BY <1>2, <1>8, <2>1 DEF queue, QueueTypes
  <2>3. SeedsAreCoherent'
    BY <1>3, <1>8 DEF queue
  <2> QED BY <2>1, <2>2, <2>3 DEF IInv
<1>9. ASSUME NEW r \in Readers, NEW sort \in Sorts, NEW status \in Statuses \cup {"all"},
             NEW limit \in 1 .. 2, Begin(r, sort, status, limit)
      PROVE  IInv'
  <2>1. PICK v : v = [NoWalk EXCEPT !.phase = "walking", !.sort = sort, !.status = status,
                                    !.limit = limit, !.start = Matching(status)]
    OBVIOUS
  <2>2. v \in Walks /\ WalkIsCoherent(v)
    BY <1>1, <2>1, BeginIsCoherent
  <2>3. walk' = [walk EXCEPT ![r] = v] /\ UNCHANGED <<queue, now, lock, seed>>
    BY <1>9, <2>1 DEF Begin
  <2> QED BY <1>8, <2>2, <2>3
<1>10. ASSUME NEW r \in Readers, NextPage(r) PROVE IInv'
  <2>1. PICK w \in Walks, v \in Walks :
          \E rows \in Orders(w.sort, Matching(w.status)),
             to \in w.offset .. Cardinality(Matching(w.status)) :
          /\ w = walk[r] /\ w.phase = "walking" /\ WalkIsCoherent(w)
          /\ walk' = [walk EXCEPT ![r] = v]
          /\ IsPage(w, v, rows, Cardinality(Matching(w.status)), to)
    BY <1>1, <1>10, NextPageIsPage
  <2>2. WalkIsCoherent(v)
    BY <1>1, <2>1, PageIsCoherent
  <2> QED BY <1>8, <1>10, <2>1, <2>2 DEF NextPage
<1>11. ASSUME NEW r \in Readers, EndWalk(r) PROVE IInv'
  <2>1. PICK v : v = NoWalk
    OBVIOUS
  <2>2. v \in Walks
    <3>1. << >> \in Seq(Tasks)
      OBVIOUS
    <3> QED BY <2>1, <3>1 DEF NoWalk, Walks, Sorts, Statuses
  <2>3. WalkIsCoherent(v)
    <3>1. Cardinality(Matching("all")) \in Nat
      BY <1>1, MatchingIsFinite
    <3> QED BY <2>1, <3>1 DEF NoWalk, WalkIsCoherent
  <2> QED BY <1>8, <1>11, <2>1, <2>2, <2>3 DEF EndWalk
<1> QED BY <1>4, <1>5, <1>6, <1>7, <1>9, <1>10, <1>11 DEF Next

(* The invariant holds in every reachable state. *)
THEOREM Invariance == Spec => []IInv
BY InitIInv, StepIInv, PTL DEF Spec

(* Every variable has its type, and a walk's offset is never beyond the rows shown. *)
THEOREM TypeCorrectness == Spec => []TypeOK
<1>1. IInv => TypeOK
  <2> SUFFICES ASSUME IInv PROVE TypeOK
    OBVIOUS
  <2>1. QueueTypes
    BY DEF IInv
  <2>2. ASSUME NEW r \in Readers
        PROVE  /\ walk[r].got \in Seq(Tasks) /\ walk[r].start \subseteq Tasks
               /\ walk[r].offset \in 0 .. Cardinality(shown)
    <3>1. PICK w \in Walks : w = walk[r] /\ WalkIsCoherent(w)
      BY <2>1 DEF IInv, WalksAreCoherent, QueueTypes
    <3>2. w.offset \in Nat /\ w.offset <= Cardinality(Matching(w.status))
      BY <3>1 DEF Walks, WalkIsCoherent
    <3>3. /\ Cardinality(Matching(w.status)) \in Nat
          /\ Cardinality(Matching(w.status)) <= Cardinality(shown)
      BY <2>1, MatchingIsFinite
    <3>4. Cardinality(shown) \in Nat
      BY <2>1, QueueAssumption, FS_Subset, FS_CardinalityType DEF QueueTypes
    <3>5. w.offset \in 0 .. Cardinality(shown)
      BY <3>2, <3>3, <3>4
    <3>6. w.got \in Seq(Tasks) /\ w.start \subseteq Tasks
      BY DEF Walks
    <3> QED BY <3>1, <3>5, <3>6
  <2> QED BY <2>1, <2>2 DEF TypeOK, QueueTypes, Seeds, SeedSteps
<1> QED BY <1>1, Invariance, PTL

(* A seed that ends well leaves the demo task with its context, and one that holds the row
   has not noted a need that is there no longer. *)
THEOREM SeedContext == Spec => []DemoHasContext
<1>1. IInv => DemoHasContext
  BY DEF IInv, SeedsAreCoherent, SeedIsCoherent, DemoHasContext
<1> QED BY <1>1, Invariance, PTL

(* A seed that has found the task does not fail. *)
THEOREM NoRefreshFails == Spec => RefreshSucceeds
<1> DEFINE Safe == \A s \in Seeders : seed[s].step \in {"refresh", "flush", "look", "commit"} =>
                     seed'[s].step # "failed"
<1>1. IInv /\ [Next]_vars => Safe
  <2> SUFFICES ASSUME IInv, [Next]_vars, NEW s \in Seeders,
                      seed[s].step \in {"refresh", "flush", "look", "commit"}
               PROVE  seed'[s].step # "failed"
    OBVIOUS
  <2>1. seed \in [Seeders -> Seeds] /\ SeedIsCoherent(s)
    BY DEF IInv, QueueTypes, SeedsAreCoherent
  <2>2. seed[s].step # "failed" /\ seed[s].step # "create"
    OBVIOUS
  <2>3. ASSUME NEW u \in Seeders,
               \/ SeedCheck(u) \/ SeedTask(u) \/ SeedCollides(u) \/ SeedRun(u)
               \/ RefreshTask(u) \/ Flush(u) \/ LookForContext(u)
               \/ AddContext(u) \/ EndSeed(u)
        PROVE  seed'[s].step # "failed"
    <3>1. CASE u # s
      <4>1. seed'[s] = seed[s]
        BY <2>1, <2>3, <3>1 DEF SeedCheck, SeedTask, SeedCollides, SeedRun, RefreshTask, Flush,
                                LookForContext, AddContext, EndSeed, Advance
      <4> QED BY <2>2, <4>1
    <3>2. CASE u = s /\ AddContext(s)
      <4>1. ~ContextCollides(s)
        BY <2>1, <3>2 DEF AddContext, SeedIsCoherent, ContextCollides
      <4> QED BY <2>1, <3>2, <4>1 DEF AddContext, Advance, Seeds
    <3>3. CASE u = s /\ (RefreshTask(s) \/ LookForContext(s))
      BY <2>1, <3>3 DEF RefreshTask, LookForContext, Seeds
    <3>4. CASE u = s /\ ~AddContext(s) /\ ~RefreshTask(s) /\ ~LookForContext(s)
      <4>1. ~SeedCheck(s) /\ ~SeedTask(s) /\ ~SeedCollides(s) /\ ~SeedRun(s)
        BY DEF SeedCheck, SeedTask, SeedCollides, SeedRun, On
      <4>2. CASE Flush(s)
        BY <2>1, <4>2 DEF Flush, Advance, Seeds
      <4>3. CASE EndSeed(s)
        BY <2>1, <4>3 DEF EndSeed, NoSeed
      <4> QED BY <2>3, <3>4, <4>1, <4>2, <4>3
    <3> QED BY <3>1, <3>2, <3>3, <3>4
  <2>4. CASE seed' = seed
    BY <2>2, <2>4
  <2> QED BY <2>3, <2>4 DEF Next, Tick, AddTask, Begin, NextPage, EndWalk, vars
<1> HIDE DEF Safe
<1>2. Spec => [][Safe]_vars
  BY <1>1, Invariance, PTL DEF Spec
<1> QED BY <1>2 DEF RefreshSucceeds, Safe

(* A walk over rows nobody changes has all of them, each once and those that rank higher
   first; and a walk misses none of its tasks in an order whose keys have not changed. *)
THEOREM Faithfulness == Spec => []WalksAreFaithful
<1>1. ASSUME QueueTypes, NEW w \in Walks, WalkIsCoherent(w), w.phase = "walked", w.quiet
      PROVE  /\ Len(w.got) = Cardinality(w.start)
             /\ w.sort # "priority" => Got(w) = w.start
             /\ \A i, j \in DOMAIN w.got : i < j =>
                  /\ w.sort = "exposure_desc" => Exposure[w.got[i]] >= Exposure[w.got[j]]
                  /\ w.sort = "sla_asc" => due[w.got[i]] <= due[w.got[j]]
                  /\ w.sort = "priority" => (w.got[j] \in VIPs => w.got[i] \in VIPs)
  <2> DEFINE S == w.start
             n == Cardinality(S)
  <2>1. IsPrefix(w) /\ S = Matching(w.status) /\ Len(w.got) = n
    BY <1>1 DEF WalkIsCoherent, IsPrefix
  <2>2. /\ S \in SUBSET Tasks /\ IsFiniteSet(S) /\ n \in Nat /\ due \in [Tasks -> Nat]
        /\ DOMAIN w.got = 1 .. n /\ w.sort \in Sorts
    <3>1. S \in SUBSET Tasks /\ IsFiniteSet(S) /\ n \in Nat
      BY <1>1, <2>1, MatchingIsFinite
    <3>2. w.got \in Seq(Tasks) /\ w.sort \in Sorts
      BY DEF Walks
    <3> QED BY <1>1, <2>1, <3>1, <3>2, LenProperties DEF QueueTypes
  <2>3. \A i \in 1 .. n : \E rows \in Orders(w.sort, S) : w.got[i] = rows[i]
    BY <2>1 DEF IsPrefix
  <2> HIDE DEF S
  <2>4. ASSUME w.sort # "priority", NEW rows \in Orders(w.sort, S)
        PROVE  \A i \in 1 .. n : w.got[i] = rows[i]
    <3> SUFFICES ASSUME NEW i \in 1 .. n PROVE w.got[i] = rows[i]
      OBVIOUS
    <3>1. w.sort \in {"exposure_desc", "sla_asc"}
      BY <2>2, <2>4 DEF Sorts
    <3>2. PICK p \in Orders(w.sort, S) : w.got[i] = p[i]
      BY <2>3
    <3>3. PICK t \in S : t = p[i]
      BY <2>2, RowsAreAll
    <3> DEFINE k == Cardinality(Ahead(w.sort, S, t)) + 1
    <3>4. k \in 1 .. n /\ p[k] = t /\ rows[k] = t
      BY <2>2, <2>4, <3>1, Position
    <3>5. Distinct(p, n)
      BY <2>2, RowsAreAll
    <3> HIDE DEF k
    <3>6. k = i
      BY <3>3, <3>4, <3>5 DEF Distinct
    <3> QED BY <3>2, <3>3, <3>4, <3>6
  <2>5. ASSUME w.sort # "priority" PROVE Got(w) = S
    <3>1. CASE n = 0
      BY <2>2, <3>1, FS_EmptySet DEF Got
    <3>2. CASE n # 0
      <4>1. PICK rows \in Orders(w.sort, S) : TRUE
        BY <2>2, <2>3, <3>2
      <4>2. rows \in [1 .. n -> S] /\ \A t \in S : \E i \in 1 .. n : rows[i] = t
        BY <2>2, RowsAreAll
      <4>3. \A i \in 1 .. n : w.got[i] = rows[i]
        BY <2>4, <2>5
      <4> HIDE DEF n
      <4>4. Got(w) = {w.got[i] : i \in 1 .. n}
        BY <2>2 DEF Got
      <4>5. \A t \in S : \E i \in 1 .. n : w.got[i] = t
        BY <4>2, <4>3
      <4>6. \A i \in 1 .. n : w.got[i] \in S
        BY <4>2, <4>3
      <4> QED BY <4>4, <4>5, <4>6
    <3> QED BY <3>1, <3>2
  <2>6. ASSUME NEW i \in 1 .. n, NEW j \in 1 .. n, i < j
        PROVE  /\ w.sort = "exposure_desc" => Exposure[w.got[i]] >= Exposure[w.got[j]]
               /\ w.sort = "sla_asc" => due[w.got[i]] <= due[w.got[j]]
               /\ w.sort = "priority" => (w.got[j] \in VIPs => w.got[i] \in VIPs)
    <3>1. PICK p \in Orders(w.sort, S) : w.got[i] = p[i]
      BY <2>3
    <3>2. PICK q \in Orders(w.sort, S) : w.got[j] = q[j]
      BY <2>3
    <3>3. CASE w.sort = "priority"
      BY <2>2, <2>6, <3>1, <3>2, <3>3, VIPsAreFirst
    <3>4. CASE w.sort # "priority"
      <4>1. w.got[j] = p[j] /\ Precedes(w.sort, p[i], p[j])
        BY <2>4, <2>6, <3>4 DEF Orders
      <4>2. p[i] \in Tasks /\ p[j] \in Tasks
        BY <2>2, RowsAreAll
      <4>3. /\ Exposure[p[i]] \in Int /\ Exposure[p[j]] \in Int
            /\ due[p[i]] \in Nat /\ due[p[j]] \in Nat
        BY <2>2, <4>2, KeysAreNumbers
      <4> QED BY <3>1, <3>4, <4>1, <4>3, HowPrecedes
    <3> QED BY <3>3, <3>4
  <2> QED BY <2>1, <2>2, <2>5, <2>6 DEF S
<1>2. ASSUME NEW w \in Walks, WalkIsCoherent(w), w.phase = "walked", Steady(w)
      PROVE  w.start \subseteq Got(w)
  BY <1>2 DEF WalkIsCoherent, MissesNothing
<1>3. IInv => WalksAreFaithful
  <2> SUFFICES ASSUME IInv PROVE WalksAreFaithful
    OBVIOUS
  <2>1. ASSUME NEW r \in Readers PROVE walk[r] \in Walks /\ WalkIsCoherent(walk[r])
    BY DEF IInv, QueueTypes, WalksAreCoherent
  <2>2. QueueTypes
    BY DEF IInv
  <2>3. \A r \in Readers : walk[r].sort \in Sorts
    BY <2>1 DEF Walks
  <2> QED BY <1>1, <1>2, <2>1, <2>2, <2>3 DEF WalksAreFaithful, Steady, Sorts
<1> QED BY <1>3, Invariance, PTL
==============================================================================
