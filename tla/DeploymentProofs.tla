--------------------------- MODULE DeploymentProofs ---------------------------
(***************************************************************************)
(* Proofs about Deployment, for any number of containers and of faults.    *)
(*                                                                         *)
(* The first half is about Schema alone: what a script makes of a schema,  *)
(* statement by statement; that each of the five upgrades and downgrades   *)
(* leads from its revision's schema to the next; and so, by induction on   *)
(* the revisions in between, that every Script[from][to] does.             *)
(*                                                                         *)
(* The inductive invariant says which tables can have rows at a revision,  *)
(* which rows refer to which, and what each container relies on between    *)
(* two of its transactions.  A migration cannot break it: no script leaves *)
(* head while a proposal waits, and a revision's tables go together.       *)
(***************************************************************************)
EXTENDS Deployment, NaturalsInduction, WellFoundedInduction, TLAPS

(* A set of numbers has a least one: the form in which induction is used here. *)
LEMMA LeastNumber ==
  ASSUME NEW S \in SUBSET Nat, S # {}
  PROVE  \E n \in S : \A m \in S : ~(m < n)
<1>1. IsWellFoundedOn(OpToRel(<, Nat), Nat)
  BY NatLessThanWellFounded, Zenon
<1>2. \E n \in S : \A m \in S : ~(<<m, n>> \in OpToRel(<, Nat))
  BY <1>1, WFMin, Zenon
<1> QED
  BY <1>2 DEF OpToRel

(* after[i]: the schema when the first i statements of a script are through. *)
Follows(after, given, script, n) ==
  after = [i \in 0 .. n |-> IF i = 0 THEN given ELSE Change(after[i - 1], script[i])]

(* Any two such functions agree where both are defined. *)
LEMMA FollowsOnce ==
  ASSUME NEW given, NEW script, NEW n \in Nat, NEW m \in Nat, NEW f, NEW g,
         Follows(f, given, script, n), Follows(g, given, script, m),
         NEW i \in 0 .. n, i <= m
  PROVE  f[i] = g[i]
<1> DEFINE Differ == {j \in 0 .. n : j <= m /\ f[j] # g[j]}
<1>1. SUFFICES ASSUME Differ # {} PROVE FALSE
  OBVIOUS
<1>2. PICK j \in Differ : \A k \in Differ : ~(k < j)
  <2>1. Differ \in SUBSET Nat
    OBVIOUS
  <2> QED
    BY <1>1, <2>1, LeastNumber
<1>3. j \in 0 .. n /\ j \in 0 .. m /\ f[j] # g[j]
  BY <1>2
<1>4. /\ f[j] = IF j = 0 THEN given ELSE Change(f[j - 1], script[j])
      /\ g[j] = IF j = 0 THEN given ELSE Change(g[j - 1], script[j])
  <2>1. /\ f = [l \in 0 .. n |-> IF l = 0 THEN given ELSE Change(f[l - 1], script[l])]
        /\ g = [l \in 0 .. m |-> IF l = 0 THEN given ELSE Change(g[l - 1], script[l])]
    BY DEF Follows
  <2>2. f[j] = [l \in 0 .. n |-> IF l = 0 THEN given ELSE Change(f[l - 1], script[l])][j]
    BY <2>1
  <2>3. g[j] = [l \in 0 .. m |-> IF l = 0 THEN given ELSE Change(g[l - 1], script[l])][j]
    BY <2>1
  <2> QED
    BY <1>3, <2>2, <2>3
<1>5. j # 0
  BY <1>3, <1>4
<1>6. j - 1 \in 0 .. n /\ j - 1 <= m /\ j - 1 < j
  BY <1>3, <1>5
<1>7. f[j - 1] = g[j - 1]
  BY <1>2, <1>6
<1> QED
  BY <1>3, <1>4, <1>5, <1>7

(* There is one for every length. *)
LEMMA FollowsSome ==
  ASSUME NEW given, NEW script, NEW n \in Nat
  PROVE  \E f : Follows(f, given, script, n)
<1> DEFINE Fail == {j \in Nat : ~ \E f : Follows(f, given, script, j)}
<1>1. SUFFICES ASSUME Fail # {} PROVE FALSE
  OBVIOUS
<1>2. PICK j \in Fail : \A k \in Fail : ~(k < j)
  <2>1. Fail \in SUBSET Nat
    OBVIOUS
  <2> QED
    BY <1>1, <2>1, LeastNumber
<1>3. CASE j = 0
  <2>1. Follows([i \in 0 .. 0 |-> given], given, script, 0)
    BY DEF Follows
  <2> QED
    BY <1>2, <1>3, <2>1
<1>4. CASE j # 0
  <2>1. j - 1 \in Nat /\ j - 1 < j /\ j \in Nat
    BY <1>2, <1>4
  <2>2. PICK f : Follows(f, given, script, j - 1)
    BY <1>2, <2>1
  <2> DEFINE g == [i \in 0 .. j |-> IF i = j THEN Change(f[j - 1], script[j]) ELSE f[i]]
  <2>3. ASSUME NEW i \in 0 .. j
        PROVE  g[i] = IF i = 0 THEN given ELSE Change(g[i - 1], script[i])
    <3>1. CASE i = j
      <4>1. g[i - 1] = f[i - 1]
        BY <2>1, <3>1
      <4> QED
        BY <1>4, <3>1, <4>1
    <3>2. CASE i # j
      <4>1. i \in 0 .. (j - 1)
        BY <2>1, <3>2
      <4>2. f[i] = IF i = 0 THEN given ELSE Change(f[i - 1], script[i])
        BY <2>2, <4>1 DEF Follows
      <4>3. g[i] = f[i] /\ (i # 0 => g[i - 1] = f[i - 1])
        BY <2>1, <3>2, <4>1
      <4> QED
        BY <4>2, <4>3
    <3> QED
      BY <3>1, <3>2
  <2>4. Follows(g, given, script, j)
    <3>1. g = [i \in 0 .. j |-> IF i = 0 THEN given ELSE Change(g[i - 1], script[i])]
      <4> HIDE DEF g
      <4> QED BY <2>3 DEF g
    <3> QED
      BY <3>1 DEF Follows
  <2> QED
    BY <1>2, <2>4
<1> QED
  BY <1>3, <1>4

(* What SchemaAfter is: the schema a script finds, then what each statement makes of it. *)
LEMMA Statements ==
  ASSUME NEW given, NEW script
  PROVE  /\ SchemaAfter(given, script, 0) = given
         /\ \A n \in Nat : SchemaAfter(given, script, n + 1) =
                             Change(SchemaAfter(given, script, n), script[n + 1])
<1> DEFINE The(n) == CHOOSE f : Follows(f, given, script, n)
<1>1. ASSUME NEW n \in Nat
      PROVE  Follows(The(n), given, script, n) /\ SchemaAfter(given, script, n) = The(n)[n]
  BY FollowsSome DEF SchemaAfter, Follows
<1> HIDE DEF The
<1>2. SchemaAfter(given, script, 0) = given
  <2>1. The(0)[0] = given
    BY <1>1 DEF Follows
  <2> QED
    BY <1>1, <2>1
<1>3. ASSUME NEW n \in Nat
      PROVE  SchemaAfter(given, script, n + 1) =
               Change(SchemaAfter(given, script, n), script[n + 1])
  <2>1. The(n + 1)[n + 1] = Change(The(n + 1)[n], script[n + 1])
    <3>1. Follows(The(n + 1), given, script, n + 1)
      BY <1>1
    <3>2. \A f : Follows(f, given, script, n + 1) => f[n + 1] = Change(f[n], script[n + 1])
      BY DEF Follows
    <3> QED
      BY <3>1, <3>2
  <2>2. The(n + 1)[n] = The(n)[n]
    BY <1>1, FollowsOnce
  <2> QED
    BY <1>1, <2>1, <2>2
<1> QED
  BY <1>2, <1>3

------------------------------------------------------------------------------
(* Scripts one after another. *)

(* A script and then another is the two in one. *)
LEMMA OneAfterAnother ==
  ASSUME NEW given, NEW S, NEW s \in Seq(S), NEW t \in Seq(S)
  PROVE  /\ \A i \in 0 .. Len(s) : SchemaAfter(given, s \o t, i) = SchemaAfter(given, s, i)
         /\ SchemaAfter(given, s \o t, Len(s \o t)) =
              SchemaAfter(SchemaAfter(given, s, Len(s)), t, Len(t))
<1> DEFINE both == s \o t
           middle == SchemaAfter(given, s, Len(s))
<1>0. /\ Len(s) \in Nat /\ Len(t) \in Nat /\ Len(both) = Len(s) + Len(t)
      /\ \A i \in 1 .. Len(s) : both[i] = s[i]
      /\ \A i \in 1 .. Len(t) : both[Len(s) + i] = t[i]
  OBVIOUS
<1> HIDE DEF both, middle
<1>9. /\ \A n \in Nat : SchemaAfter(given, both, n + 1) =
                        Change(SchemaAfter(given, both, n), both[n + 1])
      /\ \A n \in Nat : SchemaAfter(given, s, n + 1) =
                        Change(SchemaAfter(given, s, n), s[n + 1])
      /\ \A n \in Nat : SchemaAfter(middle, t, n + 1) =
                        Change(SchemaAfter(middle, t, n), t[n + 1])
  BY Statements
<1>1. \A i \in 0 .. Len(s) : SchemaAfter(given, both, i) = SchemaAfter(given, s, i)
  <2> DEFINE Differ == {i \in 0 .. Len(s) : SchemaAfter(given, both, i) # SchemaAfter(given, s, i)}
  <2>1. SUFFICES ASSUME Differ # {} PROVE FALSE
    OBVIOUS
  <2>2. PICK j \in Differ : \A k \in Differ : ~(k < j)
    <3>1. Differ \in SUBSET Nat
      BY <1>0
    <3> HIDE DEF Differ
    <3> QED
      BY <2>1, <3>1, LeastNumber
  <2>3. j # 0 /\ j \in 0 .. Len(s)
    BY <2>2, Statements
  <2>4. j - 1 \in Nat
        /\ j - 1 \in 0 .. Len(s) /\ j - 1 < j /\ (j - 1) + 1 = j /\ j \in 1 .. Len(s)
    BY <1>0, <2>3
  <2>5. SchemaAfter(given, both, j - 1) = SchemaAfter(given, s, j - 1)
    BY <2>2, <2>4
  <2>6. /\ SchemaAfter(given, both, (j - 1) + 1) =
             Change(SchemaAfter(given, both, j - 1), both[(j - 1) + 1])
        /\ SchemaAfter(given, s, (j - 1) + 1) =
             Change(SchemaAfter(given, s, j - 1), s[(j - 1) + 1])
    BY <1>9, <2>4, Zenon
  <2>7. both[j] = s[j]
    BY <1>0, <2>4
  <2>8. SchemaAfter(given, both, j) = SchemaAfter(given, s, j)
    BY <2>4, <2>5, <2>6, <2>7
  <2> QED
    BY <2>2, <2>8
<1>2. \A i \in 0 .. Len(t) : SchemaAfter(given, both, Len(s) + i) = SchemaAfter(middle, t, i)
  <2> DEFINE Differ == {i \in 0 .. Len(t) :
                          SchemaAfter(given, both, Len(s) + i) # SchemaAfter(middle, t, i)}
  <2>1. SUFFICES ASSUME Differ # {} PROVE FALSE
    OBVIOUS
  <2>2. PICK j \in Differ : \A k \in Differ : ~(k < j)
    <3>1. Differ \in SUBSET Nat
      BY <1>0
    <3> HIDE DEF Differ
    <3> QED
      BY <2>1, <3>1, LeastNumber
  <2>3. j # 0 /\ j \in 0 .. Len(t)
    <3>1. SchemaAfter(given, both, Len(s)) = middle
        BY <1>0, <1>1 DEF middle
    <3>2. Len(s) + 0 = Len(s)
      BY <1>0
    <3>3. SchemaAfter(middle, t, 0) = middle
      BY Statements, Zenon
    <3>4. 0 \notin Differ
      BY <3>1, <3>2, <3>3
    <3> QED
      BY <2>2, <3>4
  <2>4. /\ j - 1 \in Nat
        /\ j - 1 \in 0 .. Len(t) /\ j - 1 < j /\ (j - 1) + 1 = j /\ j \in 1 .. Len(t)
        /\ Len(s) + (j - 1) \in Nat /\ (Len(s) + (j - 1)) + 1 = Len(s) + j
    BY <1>0, <2>3
  <2>5. SchemaAfter(given, both, Len(s) + (j - 1)) = SchemaAfter(middle, t, j - 1)
    BY <2>2, <2>4
  <2>6. /\ SchemaAfter(given, both, (Len(s) + (j - 1)) + 1) =
             Change(SchemaAfter(given, both, Len(s) + (j - 1)), both[(Len(s) + (j - 1)) + 1])
        /\ SchemaAfter(middle, t, (j - 1) + 1) =
             Change(SchemaAfter(middle, t, j - 1), t[(j - 1) + 1])
    BY <1>9, <2>4, Zenon
  <2>7. both[Len(s) + j] = t[j]
    BY <1>0, <2>4
  <2>8. SchemaAfter(given, both, Len(s) + j) = SchemaAfter(middle, t, j)
    BY <2>4, <2>5, <2>6, <2>7
  <2> QED
    BY <2>2, <2>8
<1>3. SchemaAfter(given, both, Len(both)) = SchemaAfter(middle, t, Len(t))
  BY <1>0, <1>2
<1> QED
  BY <1>1, <1>3 DEF both, middle

(* flat[i]: the first i pieces joined. *)
Joins(flat, pieces, n) ==
  flat = [i \in 1 .. n |-> IF i = 1 THEN pieces[i] ELSE flat[i - 1] \o pieces[i]]

(* Any two such functions agree as far as their pieces do. *)
LEMMA JoinsOnce ==
  ASSUME NEW F, NEW G, NEW n \in Nat, NEW m \in Nat, NEW f, NEW g,
         Joins(f, F, n), Joins(g, G, m), NEW l \in 1 .. n, l <= m, \A i \in 1 .. l : F[i] = G[i]
  PROVE  f[l] = g[l]
<1> DEFINE Differ == {j \in 1 .. l : f[j] # g[j]}
<1>1. SUFFICES ASSUME Differ # {} PROVE FALSE
  OBVIOUS
<1>2. PICK j \in Differ : \A k \in Differ : ~(k < j)
  <2>1. Differ \in SUBSET Nat
    OBVIOUS
  <2> HIDE DEF Differ
  <2> QED
    BY <1>1, <2>1, LeastNumber
<1>3. j \in 1 .. l /\ j \in 1 .. n /\ j \in 1 .. m /\ f[j] # g[j] /\ F[j] = G[j]
  BY <1>2
<1>4. /\ f[j] = IF j = 1 THEN F[j] ELSE f[j - 1] \o F[j]
      /\ g[j] = IF j = 1 THEN G[j] ELSE g[j - 1] \o G[j]
  <2>1. \A i \in 1 .. n : f[i] = IF i = 1 THEN F[i] ELSE f[i - 1] \o F[i]
    <3> DEFINE h == [i \in 1 .. n |-> IF i = 1 THEN F[i] ELSE f[i - 1] \o F[i]]
    <3>1. f = h
      BY Zenon DEF Joins
    <3>2. \A i \in 1 .. n : h[i] = IF i = 1 THEN F[i] ELSE f[i - 1] \o F[i]
      BY Zenon
    <3> QED
      BY <3>1, <3>2
  <2>2. \A i \in 1 .. m : g[i] = IF i = 1 THEN G[i] ELSE g[i - 1] \o G[i]
    <3> DEFINE h == [i \in 1 .. m |-> IF i = 1 THEN G[i] ELSE g[i - 1] \o G[i]]
    <3>1. g = h
      BY Zenon DEF Joins
    <3>2. \A i \in 1 .. m : h[i] = IF i = 1 THEN G[i] ELSE g[i - 1] \o G[i]
      BY Zenon
    <3> QED
      BY <3>1, <3>2
  <2> QED
    BY <1>3, <2>1, <2>2, Zenon
<1>5. j # 1
  BY <1>3, <1>4
<1>6. j - 1 \in 1 .. l /\ j - 1 < j
  BY <1>3, <1>5
<1>7. f[j - 1] = g[j - 1]
  BY <1>2, <1>6
<1> QED
  BY <1>3, <1>4, <1>5, <1>7

(* The one for one piece more begins with the one for the pieces before. *)
LEMMA JoinsBefore ==
  ASSUME NEW n \in Nat, n # 0, NEW F, NEW G, NEW f, NEW g,
         Joins(f, F, n + 1), Joins(g, G, n), \A i \in 1 .. n : F[i] = G[i]
  PROVE  f[n] = g[n]
<1>1. n + 1 \in Nat /\ n \in 1 .. n + 1 /\ n <= n
  OBVIOUS
<1> QED
  BY <1>1, JoinsOnce

(* There is one for every number of pieces. *)
LEMMA JoinsSome ==
  ASSUME NEW F, NEW n \in Nat
  PROVE  \E f : Joins(f, F, n)
<1> DEFINE Fail == {j \in Nat : ~ \E f : Joins(f, F, j)}
<1>1. SUFFICES ASSUME Fail # {} PROVE FALSE
  OBVIOUS
<1>2. PICK j \in Fail : \A k \in Fail : ~(k < j)
  <2>1. Fail \in SUBSET Nat
    OBVIOUS
  <2> HIDE DEF Fail
  <2> QED
    BY <1>1, <2>1, LeastNumber
<1>3. CASE j = 0
  <2> DEFINE e == [i \in 1 .. 0 |-> F[i]]
  <2>1. e = [i \in 1 .. 0 |-> IF i = 1 THEN F[i] ELSE e[i - 1] \o F[i]]
    OBVIOUS
  <2>2. Joins(e, F, 0)
    BY <2>1 DEF Joins
  <2> QED
    BY <1>2, <1>3, <2>2
<1>4. CASE j # 0
  <2>1. j - 1 \in Nat /\ j - 1 < j /\ j \in Nat
    BY <1>2, <1>4
  <2>2. PICK f : Joins(f, F, j - 1)
    BY <1>2, <2>1
  <2> DEFINE g == [i \in 1 .. j |-> IF i = j THEN IF j = 1 THEN F[j] ELSE f[j - 1] \o F[j]
                                              ELSE f[i]]
  <2>3. ASSUME NEW i \in 1 .. j
        PROVE  g[i] = IF i = 1 THEN F[i] ELSE g[i - 1] \o F[i]
    <3>1. CASE i = j
      <4>1. j # 1 => g[i - 1] = f[i - 1]
        BY <2>1, <3>1
      <4> QED
        BY <1>4, <3>1, <4>1
    <3>2. CASE i # j
      <4>1. i \in 1 .. (j - 1)
        BY <2>1, <3>2
      <4>2. f[i] = IF i = 1 THEN F[i] ELSE f[i - 1] \o F[i]
        BY <2>2, <4>1 DEF Joins
      <4>3. g[i] = f[i] /\ (i # 1 => g[i - 1] = f[i - 1])
        BY <2>1, <3>2, <4>1
      <4> QED
        BY <4>2, <4>3
    <3> QED
      BY <3>1, <3>2
  <2>4. Joins(g, F, j)
    <3>1. g = [i \in 1 .. j |-> IF i = 1 THEN F[i] ELSE g[i - 1] \o F[i]]
      <4> HIDE DEF g
      <4> QED BY <2>3 DEF g
    <3> QED
      BY <3>1 DEF Joins
  <2> QED
    BY <1>2, <2>4
<1> QED
  BY <1>3, <1>4

(* FlattenSeq of one piece more is what it was and that piece. *)
LEMMA Flattened ==
  ASSUME NEW n \in Nat, NEW F, NEW G, Len(F) = n + 1, Len(G) = n, \A i \in 1 .. n : F[i] = G[i]
  PROVE  FlattenSeq(F) = IF n = 0 THEN F[1] ELSE FlattenSeq(G) \o F[n + 1]
<1> DEFINE The(P, k) == CHOOSE f : Joins(f, P, k)
<1>2. \A P : FlattenSeq(P) = IF Len(P) = 0 THEN P ELSE The(P, Len(P))[Len(P)]
  BY DEF FlattenSeq, Joins
<1>3. Joins(The(F, n + 1), F, n + 1) /\ Joins(The(G, n), G, n)
  <2>1. n + 1 \in Nat
    OBVIOUS
  <2>2. (\E f : Joins(f, F, n + 1)) /\ (\E f : Joins(f, G, n))
    BY <2>1, JoinsSome, Zenon
  <2> QED
    BY <2>2, Zenon
<1> HIDE DEF The
<1>4. FlattenSeq(F) = The(F, n + 1)[n + 1]
  BY <1>2
<1>5. The(F, n + 1)[n + 1] = IF n + 1 = 1 THEN F[n + 1] ELSE The(F, n + 1)[(n + 1) - 1] \o F[n + 1]
  <2> DEFINE f == The(F, n + 1)
             h == [i \in 1 .. n + 1 |-> IF i = 1 THEN F[i] ELSE f[i - 1] \o F[i]]
  <2>1. f = h
    BY <1>3, Zenon DEF Joins
  <2>2. n + 1 \in 1 .. n + 1
    OBVIOUS
  <2>3. h[n + 1] = IF n + 1 = 1 THEN F[n + 1] ELSE f[(n + 1) - 1] \o F[n + 1]
    BY <2>2, Zenon
  <2> QED
    BY <2>1, <2>3
<1>6. CASE n = 0
  BY <1>4, <1>5, <1>6
<1>7. CASE n # 0
  <2>1. FlattenSeq(G) = The(G, n)[n]
    BY <1>2, <1>7
  <2>2. n \in 1 .. n + 1 /\ n <= n /\ n + 1 \in Nat /\ (n + 1) - 1 = n /\ n + 1 # 1
    BY <1>7
  <2>3. \A i \in 1 .. n : F[i] = G[i]
    OBVIOUS
  <2> DEFINE f == The(F, n + 1)  g == The(G, n)
  <2>4. Joins(f, F, n + 1) /\ Joins(g, G, n)
    BY <1>3
  <2> HIDE DEF f, g
  <2>5. f[n] = g[n]
    BY <1>7, <2>3, <2>4, JoinsBefore
  <2> QED
    BY <1>4, <1>5, <1>7, <2>1, <2>2, <2>5 DEF f, g
<1> QED
  BY <1>6, <1>7

------------------------------------------------------------------------------
(* Tables and their objects. *)

(* A schema gives each table its objects. *)
IsSchema(given) == given = [t \in Tables |-> given[t]]

(* Two schemas with the same objects for every table are the same. *)
LEMMA SameSchema ==
  ASSUME NEW f, NEW g, IsSchema(f), IsSchema(g), \A t \in Tables : f[t] = g[t]
  PROVE  f = g
<1>1. [t \in Tables |-> f[t]] = [t \in Tables |-> g[t]]
  OBVIOUS
<1> QED
  BY <1>1, Zenon DEF IsSchema

(* The tables of the models, by name. *)
LEMMA TablesAre ==
  Tables = {"tasks", "requests", "agent_runs", "audit_events", "customer_snapshots",
            "booking_snapshots", "tool_attempts", "external_receipts", "risk_decisions",
            "proposal_versions", "policy_document_versions", "policy_chunks",
            "retrieval_evidence"}
BY DEF Tables, Models

(* Objects of different kinds or names differ. *)
LEMMA ObjectsDiffer ==
  \A a, b : /\ Column(a) = Column(b) <=> a = b
            /\ Reference(a) = Reference(b) <=> a = b
            /\ Unique(a) = Unique(b) <=> a = b
            /\ Check(a) = Check(b) <=> a = b
            /\ Column(a) # Reference(b) /\ Column(a) # Unique(b) /\ Column(a) # Check(b)
            /\ Reference(a) # Unique(b) /\ Reference(a) # Check(b) /\ Unique(a) # Check(b)
BY DEF Column, Reference, Unique, Check

(* What a table is created with. *)
LEMMA WholeHas ==
  ASSUME NEW parents, NEW keys, NEW checks, NEW o
  PROVE  o \in Whole(parents, keys, checks) <=>
           \/ o = Column("id") \/ (\E u \in parents : o = Reference(u))
           \/ (\E k \in keys : o = Unique(k)) \/ (\E c \in checks : o = Check(c))
BY DEF Whole

(* Its columns, foreign keys and checks, and no others. *)
LEMMA WholeIs ==
  ASSUME NEW parents, NEW keys, NEW checks, NEW a
  PROVE  /\ Column(a) \in Whole(parents, keys, checks) <=> a = "id"
         /\ Reference(a) \in Whole(parents, keys, checks) <=> a \in parents
         /\ Check(a) \in Whole(parents, keys, checks) <=> a \in checks
<1>1. Column(a) \in Whole(parents, keys, checks) <=> a = "id"
  <2> DEFINE o == Column(a)
  <2>1. o \in Whole(parents, keys, checks) <=>
           \/ o = Column("id") \/ (\E u \in parents : o = Reference(u))
           \/ (\E k \in keys : o = Unique(k)) \/ (\E c \in checks : o = Check(c))
    BY WholeHas
  <2> QED BY <2>1, ObjectsDiffer
<1>2. Reference(a) \in Whole(parents, keys, checks) <=> a \in parents
  <2> DEFINE o == Reference(a)
  <2>1. o \in Whole(parents, keys, checks) <=>
           \/ o = Column("id") \/ (\E u \in parents : o = Reference(u))
           \/ (\E k \in keys : o = Unique(k)) \/ (\E c \in checks : o = Check(c))
    BY WholeHas
  <2> QED BY <2>1, ObjectsDiffer
<1>3. Check(a) \in Whole(parents, keys, checks) <=> a \in checks
  <2> DEFINE o == Check(a)
  <2>1. o \in Whole(parents, keys, checks) <=>
           \/ o = Column("id") \/ (\E u \in parents : o = Reference(u))
           \/ (\E k \in keys : o = Unique(k)) \/ (\E c \in checks : o = Check(c))
    BY WholeHas
  <2> QED BY <2>1, ObjectsDiffer
<1> QED
  BY <1>1, <1>2, <1>3

(* The columns later revisions add, one by one. *)
LEMMA ColumnsAre ==
  /\ ToSet(TaskColumns) = {TaskColumns[1], TaskColumns[2], TaskColumns[3], TaskColumns[4]}
  /\ ToSet(RunColumns) = {RunColumns[1], RunColumns[2], RunColumns[3], RunColumns[4]}
<1>1. \A a, b, c, d : ToSet(<<a, b, c, d>>) = {a, b, c, d}
  <2> SUFFICES ASSUME NEW a, NEW b, NEW c, NEW d PROVE ToSet(<<a, b, c, d>>) = {a, b, c, d}
    OBVIOUS
  <2> DEFINE q == <<a, b, c, d>>
  <2>1. DOMAIN q = {1, 2, 3, 4} /\ q[1] = a /\ q[2] = b /\ q[3] = c /\ q[4] = d
    OBVIOUS
  <2> HIDE DEF q
  <2>2. ToSet(q) = {a, b, c, d}
    BY <2>1 DEF ToSet
  <2> QED BY <2>2 DEF q
<1>2. ToSet(TaskColumns) = {TaskColumns[1], TaskColumns[2], TaskColumns[3], TaskColumns[4]}
  BY <1>1 DEF TaskColumns
<1>3. ToSet(RunColumns) = {RunColumns[1], RunColumns[2], RunColumns[3], RunColumns[4]}
  BY <1>1 DEF RunColumns
<1> QED
  BY <1>2, <1>3

(* The two checks on a proposal's status, by the conditions they hold. *)
LEMMA ConditionsAre == DraftOnly[2] = "status is draft_waiting_evidence"
                       /\ DraftOrWaiting[2] = "status is either"
                       /\ DraftOnly = Check(DraftOnly[2])
                       /\ DraftOrWaiting = Check(DraftOrWaiting[2])
BY DEF DraftOnly, DraftOrWaiting, Check

(* A statement changes its own table only, as its kind says. *)
LEMMA OneStatement ==
  ASSUME NEW given, IsSchema(given), NEW s, s.table \in Tables
  PROVE  /\ IsSchema(Change(given, s))
         /\ \A t \in Tables : t # s.table => Change(given, s)[t] = given[t]
         /\ s.kind \in {"create", "add"} => Change(given, s)[s.table] = given[s.table] \cup s.objects
         /\ s.kind = "drop" => Change(given, s)[s.table] = {}
         /\ s.kind = "remove" => Change(given, s)[s.table] = given[s.table] \ s.objects
<1> DEFINE changed == CASE s.kind \in {"create", "add"} -> given[s.table] \cup s.objects
                        [] s.kind = "drop" -> {}
                        [] s.kind = "remove" -> given[s.table] \ s.objects
           after == [t \in Tables |-> IF t = s.table THEN changed ELSE given[t]]
<1>1. DOMAIN given = Tables
  <2>1. DOMAIN [t \in Tables |-> given[t]] = Tables
    OBVIOUS
  <2> QED BY <2>1, Zenon DEF IsSchema
<1>2. Change(given, s) = after
  <2>1. Change(given, s) = [given EXCEPT ![s.table] = changed]
    BY DEF Change
  <2> HIDE DEF changed
  <2> QED
    BY <1>1, <2>1
<1> HIDE DEF changed
<1>3. IsSchema(after) /\ \A t \in Tables : after[t] = IF t = s.table THEN changed ELSE given[t]
  BY DEF IsSchema
<1> HIDE DEF after
<1> QED
  BY <1>2, <1>3 DEF changed

RunsAtFirst == Whole({"tasks"}, {"public_id"}, {"status", "version"})
TasksAtFirst == Whole({}, {"public_id"}, {"type", "status", "version"})
Drafts == Whole({"agent_runs", "tasks"}, {"run_id", "task_version"}, {"version", DraftOnly[2]})

(* The revision that creates a table, and the one that makes it what the models declare. *)
Born ==
  [tasks |-> 1, requests |-> 1, agent_runs |-> 1, audit_events |-> 1,
   customer_snapshots |-> 2, booking_snapshots |-> 2,
   tool_attempts |-> 3, external_receipts |-> 3,
   risk_decisions |-> 4, proposal_versions |-> 4,
   policy_document_versions |-> 5, policy_chunks |-> 5, retrieval_evidence |-> 5]
Grown == [t \in Tables |-> CASE t = "tasks" -> 2
                             [] t = "agent_runs" -> 4
                             [] t = "proposal_versions" -> 5
                             [] OTHER -> Born[t]]
AtFirst(t) == CASE t = "tasks" -> TasksAtFirst
                [] t = "agent_runs" -> RunsAtFirst
                [] OTHER -> Drafts

(* The schema of each revision, in terms of what the models declare. *)
Revised(n) ==
  [t \in Tables |-> IF n < Born[t] THEN {} ELSE IF n < Grown[t] THEN AtFirst(t) ELSE Models[t]]

(* The same, table by table. *)
LEMMA BornAre ==
  /\ Born["tasks"] = 1 /\ Grown["tasks"] = 2
  /\ Born["requests"] = 1 /\ Grown["requests"] = 1
  /\ Born["agent_runs"] = 1 /\ Grown["agent_runs"] = 4
  /\ Born["audit_events"] = 1 /\ Grown["audit_events"] = 1
  /\ Born["customer_snapshots"] = 2 /\ Grown["customer_snapshots"] = 2
  /\ Born["booking_snapshots"] = 2 /\ Grown["booking_snapshots"] = 2
  /\ Born["tool_attempts"] = 3 /\ Grown["tool_attempts"] = 3
  /\ Born["external_receipts"] = 3 /\ Grown["external_receipts"] = 3
  /\ Born["risk_decisions"] = 4 /\ Grown["risk_decisions"] = 4
  /\ Born["proposal_versions"] = 4 /\ Grown["proposal_versions"] = 5
  /\ Born["policy_document_versions"] = 5 /\ Grown["policy_document_versions"] = 5
  /\ Born["policy_chunks"] = 5 /\ Grown["policy_chunks"] = 5
  /\ Born["retrieval_evidence"] = 5 /\ Grown["retrieval_evidence"] = 5
BY TablesAre DEF Born, Grown

(* The same, case by case. *)
LEMMA RevisedAre ==
  ASSUME NEW n \in Nat
  PROVE  /\ IsSchema(Revised(n))
         /\ \A t \in Tables :
              /\ n < Born[t] => Revised(n)[t] = {}
              /\ ~(n < Born[t]) /\ n < Grown[t] => Revised(n)[t] = AtFirst(t)
              /\ ~(n < Born[t]) /\ ~(n < Grown[t]) => Revised(n)[t] = Models[t]
BY DEF Revised, IsSchema

(* The same, for the three tables that later revisions change. *)
LEMMA AtFirstAre ==
  /\ AtFirst("tasks") = TasksAtFirst /\ AtFirst("agent_runs") = RunsAtFirst
  /\ AtFirst("proposal_versions") = Drafts
BY DEF AtFirst

ProposalsBare == {Column("id"), Reference("tasks"), Reference("agent_runs"),
                  Unique("task_version"), Unique("run_id"), Check("version")}

(* What later revisions add to a table is not there before. *)
LEMMA Additions ==
  /\ Models["tasks"] = TasksAtFirst \cup ToSet(TaskColumns)
  /\ Models["agent_runs"] = RunsAtFirst \cup ToSet(RunColumns)
  /\ Models["proposal_versions"] = ProposalsBare \cup {DraftOrWaiting}
  /\ Drafts = ProposalsBare \cup {DraftOnly}
  /\ \A i \in 1 .. 4 : TaskColumns[i] \notin TasksAtFirst /\ RunColumns[i] \notin RunsAtFirst
  /\ DraftOnly \notin ProposalsBare /\ DraftOrWaiting \notin ProposalsBare
  /\ DraftOnly # DraftOrWaiting
<1>1. Models["tasks"] = TasksAtFirst \cup ToSet(TaskColumns)
  BY DEF Models, TasksAtFirst
<1>2. Models["agent_runs"] = RunsAtFirst \cup ToSet(RunColumns)
  BY DEF Models, RunsAtFirst
<1>3. Models["proposal_versions"] = ProposalsBare \cup {DraftOrWaiting}
  <2>1. Models["proposal_versions"] = Whole({"tasks", "agent_runs"}, {"task_version", "run_id"},
                                            {"version", DraftOrWaiting[2]})
    BY DEF Models
  <2> QED
    BY <2>1, ConditionsAre DEF ProposalsBare, Whole
<1>4. Drafts = ProposalsBare \cup {DraftOnly}
  BY ConditionsAre DEF Drafts, ProposalsBare, Whole
<1>5. ASSUME NEW k \in 1 .. 4 PROVE TaskColumns[k] \notin TasksAtFirst
  <2>1. \E c : c # "id" /\ TaskColumns[k] = Column(c)
    BY DEF TaskColumns
  <2> QED BY <2>1, WholeIs DEF TasksAtFirst
<1>6. ASSUME NEW k \in 1 .. 4 PROVE RunColumns[k] \notin RunsAtFirst
  <2>1. \E c : c # "id" /\ RunColumns[k] = Column(c)
    BY DEF RunColumns
  <2> QED BY <2>1, WholeIs DEF RunsAtFirst
<1>7. DraftOnly \notin ProposalsBare /\ DraftOrWaiting \notin ProposalsBare
      /\ DraftOnly # DraftOrWaiting
  BY ObjectsDiffer, ConditionsAre DEF ProposalsBare
<1> QED
  BY <1>1, <1>2, <1>3, <1>4, <1>5, <1>6, <1>7

(* Taken away again, they leave what was there. *)
LEMMA Removals ==
  /\ (((Models["tasks"] \ {TaskColumns[4]}) \ {TaskColumns[3]}) \ {TaskColumns[2]})
       \ {TaskColumns[1]} = TasksAtFirst
  /\ (((Models["agent_runs"] \ {RunColumns[4]}) \ {RunColumns[3]}) \ {RunColumns[2]})
       \ {RunColumns[1]} = RunsAtFirst
  /\ (Models["proposal_versions"] \ {DraftOrWaiting}) \cup {DraftOnly} = Drafts
<1>1. /\ Models["tasks"] = TasksAtFirst
             \cup {TaskColumns[1], TaskColumns[2], TaskColumns[3], TaskColumns[4]}
      /\ TaskColumns[1] \notin TasksAtFirst /\ TaskColumns[2] \notin TasksAtFirst
      /\ TaskColumns[3] \notin TasksAtFirst /\ TaskColumns[4] \notin TasksAtFirst
  BY Additions, ColumnsAre
<1>2. /\ Models["agent_runs"] = RunsAtFirst
             \cup {RunColumns[1], RunColumns[2], RunColumns[3], RunColumns[4]}
      /\ RunColumns[1] \notin RunsAtFirst /\ RunColumns[2] \notin RunsAtFirst
      /\ RunColumns[3] \notin RunsAtFirst /\ RunColumns[4] \notin RunsAtFirst
  BY Additions, ColumnsAre
<1>3. (Models["proposal_versions"] \ {DraftOrWaiting}) \cup {DraftOnly} = Drafts
  BY Additions
<1>4. (((Models["tasks"] \ {TaskColumns[4]}) \ {TaskColumns[3]}) \ {TaskColumns[2]})
        \ {TaskColumns[1]} = TasksAtFirst
  BY <1>1
<1>5. (((Models["agent_runs"] \ {RunColumns[4]}) \ {RunColumns[3]}) \ {RunColumns[2]})
        \ {RunColumns[1]} = RunsAtFirst
  BY <1>2
<1> QED
  BY <1>3, <1>4, <1>5, Zenon

------------------------------------------------------------------------------
(* The scripts of each revision. *)

(* What a statement makes of the objects of a table. *)
Made(s, t, objects) == IF s.table # t THEN objects
                       ELSE IF s.kind \in {"create", "add"} THEN objects \cup s.objects
                       ELSE IF s.kind = "drop" THEN {} ELSE objects \ s.objects

(* A statement of a kind there is, on a table there is. *)
Proper(s) == s.table \in Tables /\ s.kind \in {"create", "add", "drop", "remove"}

(* One statement, table by table. *)
LEMMA MadeByOne ==
  ASSUME NEW given, IsSchema(given), NEW s, Proper(s), NEW t \in Tables
  PROVE  IsSchema(Change(given, s)) /\ Change(given, s)[t] = Made(s, t, given[t])
<1>1. IsSchema(Change(given, s)) /\ s.table \in Tables
      /\ s.kind \in {"create", "add", "drop", "remove"}
  BY OneStatement DEF Proper
<1>2. CASE t # s.table
  BY <1>1, <1>2, OneStatement DEF Made
<1>3. CASE t = s.table /\ s.kind \in {"create", "add"}
  <2>1. Change(given, s)[t] = given[t] \cup s.objects
    BY <1>1, <1>3, OneStatement
  <2>2. Made(s, t, given[t]) = given[t] \cup s.objects
    BY <1>3 DEF Made
  <2> QED
    BY <1>1, <2>1, <2>2
<1>4. CASE t = s.table /\ s.kind = "drop"
  <2>1. Change(given, s)[t] = {}
    BY <1>1, <1>4, OneStatement
  <2>2. Made(s, t, given[t]) = {}
    BY <1>4 DEF Made
  <2> QED
    BY <1>1, <2>1, <2>2
<1>5. CASE t = s.table /\ s.kind = "remove"
  <2>1. Change(given, s)[t] = given[t] \ s.objects
    BY <1>1, <1>5, OneStatement
  <2>2. Made(s, t, given[t]) = given[t] \ s.objects
    BY <1>5 DEF Made
  <2> QED
    BY <1>1, <2>1, <2>2
<1> QED
  BY <1>1, <1>2, <1>3, <1>4, <1>5

(* A script of proper statements, step by step and table by table. *)
LEMMA Walk ==
  ASSUME NEW given, IsSchema(given), NEW script, NEW n \in Nat,
         \A i \in 1 .. n : Proper(script[i])
  PROVE  /\ IsSchema(SchemaAfter(given, script, n))
         /\ \A i \in 1 .. n, t \in Tables :
              SchemaAfter(given, script, i)[t] =
                Made(script[i], t, SchemaAfter(given, script, i - 1)[t])
<1> DEFINE S(i) == SchemaAfter(given, script, i)
<1>1. S(0) = given /\ \A i \in Nat : S(i + 1) = Change(S(i), script[i + 1])
  BY Statements
<1> HIDE DEF S
<1>2. ASSUME NEW i \in 1 .. n PROVE i - 1 \in 0 .. n /\ S(i) = Change(S(i - 1), script[i])
  <2>1. i - 1 \in Nat /\ (i - 1) + 1 = i
    BY <1>2
  <2> QED
    BY <1>1, <1>2, <2>1
<1>3. ASSUME NEW i \in 0 .. n PROVE IsSchema(S(i))
  <2> DEFINE Fail == {j \in 0 .. n : ~IsSchema(S(j))}
  <2>1. SUFFICES ASSUME Fail # {} PROVE FALSE
    OBVIOUS
  <2>2. PICK j \in Fail : \A k \in Fail : ~(k < j)
    <3>1. Fail \in SUBSET Nat
      OBVIOUS
    <3> HIDE DEF Fail
    <3> QED
      BY <2>1, <3>1, LeastNumber
  <2>3. j \in 1 .. n /\ j - 1 < j
    BY <1>1, <2>2
  <2>4. IsSchema(S(j - 1))
    BY <1>2, <2>2, <2>3
  <2>5. Proper(script[j]) /\ S(j) = Change(S(j - 1), script[j])
    BY <1>2, <2>3
  <2>6. IsSchema(Change(S(j - 1), script[j]))
    BY <2>4, <2>5, OneStatement DEF Proper
  <2> QED
    BY <2>2, <2>5, <2>6
<1>4. ASSUME NEW i \in 1 .. n, NEW t \in Tables
      PROVE  S(i)[t] = Made(script[i], t, S(i - 1)[t])
  <2>1. /\ IsSchema(S(i - 1)) /\ Proper(script[i])
        /\ S(i) = Change(S(i - 1), script[i])
    BY <1>2, <1>3
  <2>2. Change(S(i - 1), script[i])[t] = Made(script[i], t, S(i - 1)[t])
    BY <2>1, MadeByOne, Zenon
  <2> QED
    BY <2>1, <2>2
<1>5. n \in 0 .. n
  OBVIOUS
<1> QED
  BY <1>3, <1>4, <1>5 DEF S

(* What revision 1 changes, table by table. *)
LEMMA Revision1 ==
  /\ \A t \in Tables \ {"tasks", "requests", "agent_runs", "audit_events"} :
       Revised(1)[t] = Revised(0)[t]
  /\ Revised(0)["tasks"] = {} /\ Revised(1)["tasks"] = TasksAtFirst
  /\ Revised(0)["requests"] = {} /\ Revised(1)["requests"] = Models["requests"]
  /\ Revised(0)["agent_runs"] = {} /\ Revised(1)["agent_runs"] = RunsAtFirst
  /\ Revised(0)["audit_events"] = {} /\ Revised(1)["audit_events"] = Models["audit_events"]
<1>1. ASSUME NEW t \in Tables \ {"tasks", "requests", "agent_runs", "audit_events"}
      PROVE Revised(1)[t] = Revised(0)[t]
  <2>1. Born[t] \in Nat /\ Grown[t] \in Nat /\ Born[t] # 1 /\ Grown[t] # 1
    BY BornAre, TablesAre
  <2> QED
    BY <2>1 DEF Revised
<1> QED
  BY <1>1, RevisedAre, BornAre, AtFirstAre, TablesAre

(* What revision 2 changes, table by table. *)
LEMMA Revision2 ==
  /\ \A t \in Tables \ {"tasks", "customer_snapshots", "booking_snapshots"} :
       Revised(2)[t] = Revised(1)[t]
  /\ Revised(1)["tasks"] = TasksAtFirst /\ Revised(2)["tasks"] = Models["tasks"]
  /\ Revised(1)["customer_snapshots"] = {}
  /\ Revised(2)["customer_snapshots"] = Models["customer_snapshots"]
  /\ Revised(1)["booking_snapshots"] = {}
  /\ Revised(2)["booking_snapshots"] = Models["booking_snapshots"]
<1>1. ASSUME NEW t \in Tables \ {"tasks", "customer_snapshots", "booking_snapshots"}
      PROVE Revised(2)[t] = Revised(1)[t]
  <2>1. Born[t] \in Nat /\ Grown[t] \in Nat /\ Born[t] # 2 /\ Grown[t] # 2
    BY BornAre, TablesAre
  <2> QED
    BY <2>1 DEF Revised
<1> QED
  BY <1>1, RevisedAre, BornAre, AtFirstAre, TablesAre

(* What revision 3 changes, table by table. *)
LEMMA Revision3 ==
  /\ \A t \in Tables \ {"tool_attempts", "external_receipts"} : Revised(3)[t] = Revised(2)[t]
  /\ Revised(2)["tool_attempts"] = {} /\ Revised(3)["tool_attempts"] = Models["tool_attempts"]
  /\ Revised(2)["external_receipts"] = {}
  /\ Revised(3)["external_receipts"] = Models["external_receipts"]
<1>1. ASSUME NEW t \in Tables \ {"tool_attempts", "external_receipts"}
      PROVE Revised(3)[t] = Revised(2)[t]
  <2>1. Born[t] \in Nat /\ Grown[t] \in Nat /\ Born[t] # 3 /\ Grown[t] # 3
    BY BornAre, TablesAre
  <2> QED
    BY <2>1 DEF Revised
<1> QED
  BY <1>1, RevisedAre, BornAre, AtFirstAre, TablesAre

(* What revision 4 changes, table by table. *)
LEMMA Revision4 ==
  /\ \A t \in Tables \ {"agent_runs", "risk_decisions", "proposal_versions"} :
       Revised(4)[t] = Revised(3)[t]
  /\ Revised(3)["agent_runs"] = RunsAtFirst /\ Revised(4)["agent_runs"] = Models["agent_runs"]
  /\ Revised(3)["risk_decisions"] = {} /\ Revised(4)["risk_decisions"] = Models["risk_decisions"]
  /\ Revised(3)["proposal_versions"] = {} /\ Revised(4)["proposal_versions"] = Drafts
<1>1. ASSUME NEW t \in Tables \ {"agent_runs", "risk_decisions", "proposal_versions"}
      PROVE Revised(4)[t] = Revised(3)[t]
  <2>1. Born[t] \in Nat /\ Grown[t] \in Nat /\ Born[t] # 4 /\ Grown[t] # 4
    BY BornAre, TablesAre
  <2> QED
    BY <2>1 DEF Revised
<1> QED
  BY <1>1, RevisedAre, BornAre, AtFirstAre, TablesAre

(* What revision 5 changes, table by table. *)
LEMMA Revision5 ==
  /\ \A t \in Tables \ {"proposal_versions", "policy_document_versions", "policy_chunks", "retrieval_evidence"} :
       Revised(5)[t] = Revised(4)[t]
  /\ Revised(4)["proposal_versions"] = Drafts
  /\ Revised(5)["proposal_versions"] = Models["proposal_versions"]
  /\ Revised(4)["policy_document_versions"] = {}
  /\ Revised(5)["policy_document_versions"] = Models["policy_document_versions"]
  /\ Revised(4)["policy_chunks"] = {} /\ Revised(5)["policy_chunks"] = Models["policy_chunks"]
  /\ Revised(4)["retrieval_evidence"] = {}
  /\ Revised(5)["retrieval_evidence"] = Models["retrieval_evidence"]
<1>1. ASSUME NEW t \in Tables \ {"proposal_versions", "policy_document_versions", "policy_chunks", "retrieval_evidence"}
      PROVE Revised(5)[t] = Revised(4)[t]
  <2>1. Born[t] \in Nat /\ Grown[t] \in Nat /\ Born[t] # 5 /\ Grown[t] # 5
    BY BornAre, TablesAre
  <2> QED
    BY <2>1 DEF Revised
<1> QED
  BY <1>1, RevisedAre, BornAre, AtFirstAre, TablesAre

(* The statements of CorePersistence. *)
LEMMA CorePersistenceIs ==
  /\ Len(CorePersistence) = 4
  /\ CorePersistence[1].kind = "create" /\ CorePersistence[1].table = "tasks"
  /\ CorePersistence[1].objects = TasksAtFirst
  /\ CorePersistence[2].kind = "create" /\ CorePersistence[2].table = "requests"
  /\ CorePersistence[2].objects = Models["requests"]
  /\ CorePersistence[3].kind = "create" /\ CorePersistence[3].table = "agent_runs"
  /\ CorePersistence[3].objects = RunsAtFirst
  /\ CorePersistence[4].kind = "create" /\ CorePersistence[4].table = "audit_events"
  /\ CorePersistence[4].objects = Models["audit_events"]
BY DEF CorePersistence, CreateTable, Statement, TasksAtFirst, RunsAtFirst, Models

(* What each of them makes of a table. *)
LEMMA CorePersistenceMakes ==
  /\ Len(CorePersistence) = 4 /\ \A i \in 1 .. 4 : Proper(CorePersistence[i])
  /\ \A t, objects :
       /\ Made(CorePersistence[1], t, objects) =
            IF t = "tasks" THEN objects \cup TasksAtFirst ELSE objects
       /\ Made(CorePersistence[2], t, objects) =
            IF t = "requests" THEN objects \cup Models["requests"] ELSE objects
       /\ Made(CorePersistence[3], t, objects) =
            IF t = "agent_runs" THEN objects \cup RunsAtFirst ELSE objects
       /\ Made(CorePersistence[4], t, objects) =
            IF t = "audit_events" THEN objects \cup Models["audit_events"] ELSE objects
BY CorePersistenceIs, TablesAre DEF Made, Proper

(* The upgrade to revision 1 leads to its schema. *)
LEMMA Up1 == SchemaAfter(Revised(0), CorePersistence, 4) = Revised(1)
<1> DEFINE S(i) == SchemaAfter(Revised(0), CorePersistence, i)
<1>1. S(0) = Revised(0) /\ IsSchema(S(4)) /\ IsSchema(Revised(1))
  BY Statements, Walk, RevisedAre, CorePersistenceMakes
<1>2. \A t \in Tables :
        /\ S(1)[t] = Made(CorePersistence[1], t, S(0)[t])
        /\ S(2)[t] = Made(CorePersistence[2], t, S(1)[t])
        /\ S(3)[t] = Made(CorePersistence[3], t, S(2)[t])
        /\ S(4)[t] = Made(CorePersistence[4], t, S(3)[t])
  <2>1. \A i \in 1 .. 4, t \in Tables : S(i)[t] = Made(CorePersistence[i], t, S(i - 1)[t])
    BY Walk, RevisedAre, CorePersistenceMakes
  <2> HIDE DEF S
  <2> QED
    BY <2>1
<1> HIDE DEF S
<1>3. ASSUME NEW t \in Tables \ {"tasks", "requests", "agent_runs", "audit_events"}
      PROVE S(4)[t] = Revised(1)[t]
  BY <1>1, <1>2, CorePersistenceMakes, Revision1
<1>4. S(4)["tasks"] = Revised(1)["tasks"]
  <2>1. S(4)["tasks"] = Revised(0)["tasks"] \cup TasksAtFirst
    BY <1>1, <1>2, CorePersistenceMakes, TablesAre
  <2>2. Revised(0)["tasks"] = {} /\ Revised(1)["tasks"] = TasksAtFirst
    BY Revision1, Zenon
  <2> QED
    BY <2>1, <2>2
<1>5. S(4)["requests"] = Revised(1)["requests"]
  <2>1. S(4)["requests"] = Revised(0)["requests"] \cup Models["requests"]
    BY <1>1, <1>2, CorePersistenceMakes, TablesAre
  <2>2. Revised(0)["requests"] = {} /\ Revised(1)["requests"] = Models["requests"]
    BY Revision1, Zenon
  <2> QED
    BY <2>1, <2>2
<1>6. S(4)["agent_runs"] = Revised(1)["agent_runs"]
  <2>1. S(4)["agent_runs"] = Revised(0)["agent_runs"] \cup RunsAtFirst
    BY <1>1, <1>2, CorePersistenceMakes, TablesAre
  <2>2. Revised(0)["agent_runs"] = {} /\ Revised(1)["agent_runs"] = RunsAtFirst
    BY Revision1, Zenon
  <2> QED
    BY <2>1, <2>2
<1>7. S(4)["audit_events"] = Revised(1)["audit_events"]
  <2>1. S(4)["audit_events"] = Revised(0)["audit_events"] \cup Models["audit_events"]
    BY <1>1, <1>2, CorePersistenceMakes, TablesAre
  <2>2. Revised(0)["audit_events"] = {} /\ Revised(1)["audit_events"] = Models["audit_events"]
    BY Revision1, Zenon
  <2> QED
    BY <2>1, <2>2
<1>8. ASSUME NEW t \in Tables PROVE S(4)[t] = Revised(1)[t]
  BY <1>3, <1>4, <1>5, <1>6, <1>7
<1> QED
  BY <1>1, <1>8, SameSchema DEF S

(* The statements of TaskContext. *)
LEMMA TaskContextIs ==
  /\ Len(TaskContext) = 6
  /\ TaskContext[1].kind = "add" /\ TaskContext[1].table = "tasks"
  /\ TaskContext[1].objects = {TaskColumns[1]}
  /\ TaskContext[2].kind = "add" /\ TaskContext[2].table = "tasks"
  /\ TaskContext[2].objects = {TaskColumns[2]}
  /\ TaskContext[3].kind = "add" /\ TaskContext[3].table = "tasks"
  /\ TaskContext[3].objects = {TaskColumns[3]}
  /\ TaskContext[4].kind = "add" /\ TaskContext[4].table = "tasks"
  /\ TaskContext[4].objects = {TaskColumns[4]}
  /\ TaskContext[5].kind = "create" /\ TaskContext[5].table = "customer_snapshots"
  /\ TaskContext[5].objects = Models["customer_snapshots"]
  /\ TaskContext[6].kind = "create" /\ TaskContext[6].table = "booking_snapshots"
  /\ TaskContext[6].objects = Models["booking_snapshots"]
BY DEF TaskContext, AddTaskColumns, CreateTable, Add, Statement, TaskColumns, Models

(* What each of them makes of a table. *)
LEMMA TaskContextMakes ==
  /\ Len(TaskContext) = 6 /\ \A i \in 1 .. 6 : Proper(TaskContext[i])
  /\ \A t, objects :
       /\ Made(TaskContext[1], t, objects) =
            IF t = "tasks" THEN objects \cup {TaskColumns[1]} ELSE objects
       /\ Made(TaskContext[2], t, objects) =
            IF t = "tasks" THEN objects \cup {TaskColumns[2]} ELSE objects
       /\ Made(TaskContext[3], t, objects) =
            IF t = "tasks" THEN objects \cup {TaskColumns[3]} ELSE objects
       /\ Made(TaskContext[4], t, objects) =
            IF t = "tasks" THEN objects \cup {TaskColumns[4]} ELSE objects
       /\ Made(TaskContext[5], t, objects) =
            IF t = "customer_snapshots" THEN objects \cup Models["customer_snapshots"] ELSE objects
       /\ Made(TaskContext[6], t, objects) =
            IF t = "booking_snapshots" THEN objects \cup Models["booking_snapshots"] ELSE objects
BY TaskContextIs, TablesAre DEF Made, Proper

(* The upgrade to revision 2 leads to its schema. *)
LEMMA Up2 == SchemaAfter(Revised(1), TaskContext, 6) = Revised(2)
<1> DEFINE S(i) == SchemaAfter(Revised(1), TaskContext, i)
<1>1. S(0) = Revised(1) /\ IsSchema(S(6)) /\ IsSchema(Revised(2))
  BY Statements, Walk, RevisedAre, TaskContextMakes
<1>2. \A t \in Tables :
        /\ S(1)[t] = Made(TaskContext[1], t, S(0)[t])
        /\ S(2)[t] = Made(TaskContext[2], t, S(1)[t])
        /\ S(3)[t] = Made(TaskContext[3], t, S(2)[t])
        /\ S(4)[t] = Made(TaskContext[4], t, S(3)[t])
        /\ S(5)[t] = Made(TaskContext[5], t, S(4)[t])
        /\ S(6)[t] = Made(TaskContext[6], t, S(5)[t])
  <2>1. \A i \in 1 .. 6, t \in Tables : S(i)[t] = Made(TaskContext[i], t, S(i - 1)[t])
    BY Walk, RevisedAre, TaskContextMakes
  <2> HIDE DEF S
  <2> QED
    BY <2>1
<1> HIDE DEF S
<1>3. ASSUME NEW t \in Tables \ {"tasks", "customer_snapshots", "booking_snapshots"}
      PROVE S(6)[t] = Revised(2)[t]
  BY <1>1, <1>2, TaskContextMakes, Revision2
<1>4. S(6)["tasks"] = Revised(2)["tasks"]
  <2>1. S(6)["tasks"] =
          (((Revised(1)["tasks"] \cup {TaskColumns[1]}) \cup {TaskColumns[2]}) \cup {TaskColumns[3]}) \cup {TaskColumns[4]}
    BY <1>1, <1>2, TaskContextMakes, TablesAre
  <2>2. Revised(1)["tasks"] = TasksAtFirst /\ Revised(2)["tasks"] = Models["tasks"]
    BY Revision2, Zenon
  <2> QED
    BY <2>1, <2>2, Additions, ColumnsAre
<1>5. S(6)["customer_snapshots"] = Revised(2)["customer_snapshots"]
  <2>1. S(6)["customer_snapshots"] =
          Revised(1)["customer_snapshots"] \cup Models["customer_snapshots"]
    BY <1>1, <1>2, TaskContextMakes, TablesAre
  <2>2. Revised(1)["customer_snapshots"] =
          {} /\ Revised(2)["customer_snapshots"] = Models["customer_snapshots"]
    BY Revision2, Zenon
  <2> QED
    BY <2>1, <2>2
<1>6. S(6)["booking_snapshots"] = Revised(2)["booking_snapshots"]
  <2>1. S(6)["booking_snapshots"] =
          Revised(1)["booking_snapshots"] \cup Models["booking_snapshots"]
    BY <1>1, <1>2, TaskContextMakes, TablesAre
  <2>2. Revised(1)["booking_snapshots"] =
          {} /\ Revised(2)["booking_snapshots"] = Models["booking_snapshots"]
    BY Revision2, Zenon
  <2> QED
    BY <2>1, <2>2
<1>7. ASSUME NEW t \in Tables PROVE S(6)[t] = Revised(2)[t]
  BY <1>3, <1>4, <1>5, <1>6
<1> QED
  BY <1>1, <1>7, SameSchema DEF S

(* The statements of ToolAttempts. *)
LEMMA ToolAttemptsIs ==
  /\ Len(ToolAttempts) = 2
  /\ ToolAttempts[1].kind = "create" /\ ToolAttempts[1].table = "tool_attempts"
  /\ ToolAttempts[1].objects = Models["tool_attempts"]
  /\ ToolAttempts[2].kind = "create" /\ ToolAttempts[2].table = "external_receipts"
  /\ ToolAttempts[2].objects = Models["external_receipts"]
BY DEF ToolAttempts, CreateTable, Statement, Models

(* What each of them makes of a table. *)
LEMMA ToolAttemptsMakes ==
  /\ Len(ToolAttempts) = 2 /\ \A i \in 1 .. 2 : Proper(ToolAttempts[i])
  /\ \A t, objects :
       /\ Made(ToolAttempts[1], t, objects) =
            IF t = "tool_attempts" THEN objects \cup Models["tool_attempts"] ELSE objects
       /\ Made(ToolAttempts[2], t, objects) =
            IF t = "external_receipts" THEN objects \cup Models["external_receipts"] ELSE objects
BY ToolAttemptsIs, TablesAre DEF Made, Proper

(* The upgrade to revision 3 leads to its schema. *)
LEMMA Up3 == SchemaAfter(Revised(2), ToolAttempts, 2) = Revised(3)
<1> DEFINE S(i) == SchemaAfter(Revised(2), ToolAttempts, i)
<1>1. S(0) = Revised(2) /\ IsSchema(S(2)) /\ IsSchema(Revised(3))
  BY Statements, Walk, RevisedAre, ToolAttemptsMakes
<1>2. \A t \in Tables :
        /\ S(1)[t] = Made(ToolAttempts[1], t, S(0)[t])
        /\ S(2)[t] = Made(ToolAttempts[2], t, S(1)[t])
  <2>1. \A i \in 1 .. 2, t \in Tables : S(i)[t] = Made(ToolAttempts[i], t, S(i - 1)[t])
    BY Walk, RevisedAre, ToolAttemptsMakes
  <2> HIDE DEF S
  <2> QED
    BY <2>1
<1> HIDE DEF S
<1>3. ASSUME NEW t \in Tables \ {"tool_attempts", "external_receipts"}
      PROVE S(2)[t] = Revised(3)[t]
  BY <1>1, <1>2, ToolAttemptsMakes, Revision3
<1>4. S(2)["tool_attempts"] = Revised(3)["tool_attempts"]
  <2>1. S(2)["tool_attempts"] = Revised(2)["tool_attempts"] \cup Models["tool_attempts"]
    BY <1>1, <1>2, ToolAttemptsMakes, TablesAre
  <2>2. Revised(2)["tool_attempts"] = {} /\ Revised(3)["tool_attempts"] = Models["tool_attempts"]
    BY Revision3, Zenon
  <2> QED
    BY <2>1, <2>2
<1>5. S(2)["external_receipts"] = Revised(3)["external_receipts"]
  <2>1. S(2)["external_receipts"] =
          Revised(2)["external_receipts"] \cup Models["external_receipts"]
    BY <1>1, <1>2, ToolAttemptsMakes, TablesAre
  <2>2. Revised(2)["external_receipts"] =
          {} /\ Revised(3)["external_receipts"] = Models["external_receipts"]
    BY Revision3, Zenon
  <2> QED
    BY <2>1, <2>2
<1>6. ASSUME NEW t \in Tables PROVE S(2)[t] = Revised(3)[t]
  BY <1>3, <1>4, <1>5
<1> QED
  BY <1>1, <1>6, SameSchema DEF S

(* The statements of OrchestrationTables. *)
LEMMA OrchestrationTablesIs ==
  /\ Len(OrchestrationTables) = 6
  /\ OrchestrationTables[1].kind = "add" /\ OrchestrationTables[1].table = "agent_runs"
  /\ OrchestrationTables[1].objects = {RunColumns[1]}
  /\ OrchestrationTables[2].kind = "add" /\ OrchestrationTables[2].table = "agent_runs"
  /\ OrchestrationTables[2].objects = {RunColumns[2]}
  /\ OrchestrationTables[3].kind = "add" /\ OrchestrationTables[3].table = "agent_runs"
  /\ OrchestrationTables[3].objects = {RunColumns[3]}
  /\ OrchestrationTables[4].kind = "add" /\ OrchestrationTables[4].table = "agent_runs"
  /\ OrchestrationTables[4].objects = {RunColumns[4]}
  /\ OrchestrationTables[5].kind = "create" /\ OrchestrationTables[5].table = "risk_decisions"
  /\ OrchestrationTables[5].objects = Models["risk_decisions"]
  /\ OrchestrationTables[6].kind = "create" /\ OrchestrationTables[6].table = "proposal_versions"
  /\ OrchestrationTables[6].objects = Drafts
BY DEF OrchestrationTables, CreateTable, Add, Statement, RunColumns, Models, Drafts

(* What each of them makes of a table. *)
LEMMA OrchestrationTablesMakes ==
  /\ Len(OrchestrationTables) = 6 /\ \A i \in 1 .. 6 : Proper(OrchestrationTables[i])
  /\ \A t, objects :
       /\ Made(OrchestrationTables[1], t, objects) =
            IF t = "agent_runs" THEN objects \cup {RunColumns[1]} ELSE objects
       /\ Made(OrchestrationTables[2], t, objects) =
            IF t = "agent_runs" THEN objects \cup {RunColumns[2]} ELSE objects
       /\ Made(OrchestrationTables[3], t, objects) =
            IF t = "agent_runs" THEN objects \cup {RunColumns[3]} ELSE objects
       /\ Made(OrchestrationTables[4], t, objects) =
            IF t = "agent_runs" THEN objects \cup {RunColumns[4]} ELSE objects
       /\ Made(OrchestrationTables[5], t, objects) =
            IF t = "risk_decisions" THEN objects \cup Models["risk_decisions"] ELSE objects
       /\ Made(OrchestrationTables[6], t, objects) =
            IF t = "proposal_versions" THEN objects \cup Drafts ELSE objects
BY OrchestrationTablesIs, TablesAre DEF Made, Proper

(* The upgrade to revision 4 leads to its schema. *)
LEMMA Up4 == SchemaAfter(Revised(3), OrchestrationTables, 6) = Revised(4)
<1> DEFINE S(i) == SchemaAfter(Revised(3), OrchestrationTables, i)
<1>1. S(0) = Revised(3) /\ IsSchema(S(6)) /\ IsSchema(Revised(4))
  BY Statements, Walk, RevisedAre, OrchestrationTablesMakes
<1>2. \A t \in Tables :
        /\ S(1)[t] = Made(OrchestrationTables[1], t, S(0)[t])
        /\ S(2)[t] = Made(OrchestrationTables[2], t, S(1)[t])
        /\ S(3)[t] = Made(OrchestrationTables[3], t, S(2)[t])
        /\ S(4)[t] = Made(OrchestrationTables[4], t, S(3)[t])
        /\ S(5)[t] = Made(OrchestrationTables[5], t, S(4)[t])
        /\ S(6)[t] = Made(OrchestrationTables[6], t, S(5)[t])
  <2>1. \A i \in 1 .. 6, t \in Tables : S(i)[t] = Made(OrchestrationTables[i], t, S(i - 1)[t])
    BY Walk, RevisedAre, OrchestrationTablesMakes
  <2> HIDE DEF S
  <2> QED
    BY <2>1
<1> HIDE DEF S
<1>3. ASSUME NEW t \in Tables \ {"agent_runs", "risk_decisions", "proposal_versions"}
      PROVE S(6)[t] = Revised(4)[t]
  BY <1>1, <1>2, OrchestrationTablesMakes, Revision4
<1>4. S(6)["agent_runs"] = Revised(4)["agent_runs"]
  <2>1. S(6)["agent_runs"] =
          (((Revised(3)["agent_runs"] \cup {RunColumns[1]}) \cup {RunColumns[2]}) \cup {RunColumns[3]}) \cup {RunColumns[4]}
    BY <1>1, <1>2, OrchestrationTablesMakes, TablesAre
  <2>2. Revised(3)["agent_runs"] = RunsAtFirst /\ Revised(4)["agent_runs"] = Models["agent_runs"]
    BY Revision4, Zenon
  <2> QED
    BY <2>1, <2>2, Additions, ColumnsAre
<1>5. S(6)["risk_decisions"] = Revised(4)["risk_decisions"]
  <2>1. S(6)["risk_decisions"] = Revised(3)["risk_decisions"] \cup Models["risk_decisions"]
    BY <1>1, <1>2, OrchestrationTablesMakes, TablesAre
  <2>2. Revised(3)["risk_decisions"] =
          {} /\ Revised(4)["risk_decisions"] = Models["risk_decisions"]
    BY Revision4, Zenon
  <2> QED
    BY <2>1, <2>2
<1>6. S(6)["proposal_versions"] = Revised(4)["proposal_versions"]
  <2>1. S(6)["proposal_versions"] = Revised(3)["proposal_versions"] \cup Drafts
    BY <1>1, <1>2, OrchestrationTablesMakes, TablesAre
  <2>2. Revised(3)["proposal_versions"] = {} /\ Revised(4)["proposal_versions"] = Drafts
    BY Revision4, Zenon
  <2> QED
    BY <2>1, <2>2
<1>7. ASSUME NEW t \in Tables PROVE S(6)[t] = Revised(4)[t]
  BY <1>3, <1>4, <1>5, <1>6
<1> QED
  BY <1>1, <1>7, SameSchema DEF S

(* The statements of PolicyTables. *)
LEMMA PolicyTablesIs ==
  /\ Len(PolicyTables) = 5
  /\ PolicyTables[1].kind = "remove" /\ PolicyTables[1].table = "proposal_versions"
  /\ PolicyTables[1].objects = {DraftOnly}
  /\ PolicyTables[2].kind = "add" /\ PolicyTables[2].table = "proposal_versions"
  /\ PolicyTables[2].objects = {DraftOrWaiting}
  /\ PolicyTables[3].kind = "create" /\ PolicyTables[3].table = "policy_document_versions"
  /\ PolicyTables[3].objects = Models["policy_document_versions"]
  /\ PolicyTables[4].kind = "create" /\ PolicyTables[4].table = "policy_chunks"
  /\ PolicyTables[4].objects = Models["policy_chunks"]
  /\ PolicyTables[5].kind = "create" /\ PolicyTables[5].table = "retrieval_evidence"
  /\ PolicyTables[5].objects = Models["retrieval_evidence"]
BY DEF PolicyTables, CreateTable, Add, DropObject, Statement, Models

(* What each of them makes of a table. *)
LEMMA PolicyTablesMakes ==
  /\ Len(PolicyTables) = 5 /\ \A i \in 1 .. 5 : Proper(PolicyTables[i])
  /\ \A t, objects :
       /\ Made(PolicyTables[1], t, objects) =
            IF t = "proposal_versions" THEN objects \ {DraftOnly} ELSE objects
       /\ Made(PolicyTables[2], t, objects) =
            IF t = "proposal_versions" THEN objects \cup {DraftOrWaiting} ELSE objects
       /\ Made(PolicyTables[3], t, objects) =
            IF t = "policy_document_versions" THEN objects \cup Models["policy_document_versions"] ELSE objects
       /\ Made(PolicyTables[4], t, objects) =
            IF t = "policy_chunks" THEN objects \cup Models["policy_chunks"] ELSE objects
       /\ Made(PolicyTables[5], t, objects) =
            IF t = "retrieval_evidence" THEN objects \cup Models["retrieval_evidence"] ELSE objects
BY PolicyTablesIs, TablesAre DEF Made, Proper

(* The upgrade to revision 5 leads to its schema. *)
LEMMA Up5 == SchemaAfter(Revised(4), PolicyTables, 5) = Revised(5)
<1> DEFINE S(i) == SchemaAfter(Revised(4), PolicyTables, i)
<1>1. S(0) = Revised(4) /\ IsSchema(S(5)) /\ IsSchema(Revised(5))
  BY Statements, Walk, RevisedAre, PolicyTablesMakes
<1>2. \A t \in Tables :
        /\ S(1)[t] = Made(PolicyTables[1], t, S(0)[t])
        /\ S(2)[t] = Made(PolicyTables[2], t, S(1)[t])
        /\ S(3)[t] = Made(PolicyTables[3], t, S(2)[t])
        /\ S(4)[t] = Made(PolicyTables[4], t, S(3)[t])
        /\ S(5)[t] = Made(PolicyTables[5], t, S(4)[t])
  <2>1. \A i \in 1 .. 5, t \in Tables : S(i)[t] = Made(PolicyTables[i], t, S(i - 1)[t])
    BY Walk, RevisedAre, PolicyTablesMakes
  <2> HIDE DEF S
  <2> QED
    BY <2>1
<1> HIDE DEF S
<1>3. ASSUME NEW t \in Tables \ {"proposal_versions", "policy_document_versions", "policy_chunks", "retrieval_evidence"}
      PROVE S(5)[t] = Revised(5)[t]
  BY <1>1, <1>2, PolicyTablesMakes, Revision5
<1>4. S(5)["proposal_versions"] = Revised(5)["proposal_versions"]
  <2>1. S(5)["proposal_versions"] =
          (Revised(4)["proposal_versions"] \ {DraftOnly}) \cup {DraftOrWaiting}
    BY <1>1, <1>2, PolicyTablesMakes, TablesAre
  <2>2. Revised(4)["proposal_versions"] =
          Drafts /\ Revised(5)["proposal_versions"] = Models["proposal_versions"]
    BY Revision5, Zenon
  <2> QED
    BY <2>1, <2>2, Additions, ColumnsAre
<1>5. S(5)["policy_document_versions"] = Revised(5)["policy_document_versions"]
  <2>1. S(5)["policy_document_versions"] =
          Revised(4)["policy_document_versions"] \cup Models["policy_document_versions"]
    BY <1>1, <1>2, PolicyTablesMakes, TablesAre
  <2>2. Revised(4)["policy_document_versions"] =
          {} /\ Revised(5)["policy_document_versions"] = Models["policy_document_versions"]
    BY Revision5, Zenon
  <2> QED
    BY <2>1, <2>2
<1>6. S(5)["policy_chunks"] = Revised(5)["policy_chunks"]
  <2>1. S(5)["policy_chunks"] = Revised(4)["policy_chunks"] \cup Models["policy_chunks"]
    BY <1>1, <1>2, PolicyTablesMakes, TablesAre
  <2>2. Revised(4)["policy_chunks"] = {} /\ Revised(5)["policy_chunks"] = Models["policy_chunks"]
    BY Revision5, Zenon
  <2> QED
    BY <2>1, <2>2
<1>7. S(5)["retrieval_evidence"] = Revised(5)["retrieval_evidence"]
  <2>1. S(5)["retrieval_evidence"] =
          Revised(4)["retrieval_evidence"] \cup Models["retrieval_evidence"]
    BY <1>1, <1>2, PolicyTablesMakes, TablesAre
  <2>2. Revised(4)["retrieval_evidence"] =
          {} /\ Revised(5)["retrieval_evidence"] = Models["retrieval_evidence"]
    BY Revision5, Zenon
  <2> QED
    BY <2>1, <2>2
<1>8. ASSUME NEW t \in Tables PROVE S(5)[t] = Revised(5)[t]
  BY <1>3, <1>4, <1>5, <1>6, <1>7
<1> QED
  BY <1>1, <1>8, SameSchema DEF S

(* The statements of UndoCorePersistence. *)
LEMMA UndoCorePersistenceIs ==
  /\ Len(UndoCorePersistence) = 4
  /\ UndoCorePersistence[1].kind = "drop" /\ UndoCorePersistence[1].table = "audit_events"
  /\ UndoCorePersistence[2].kind = "drop" /\ UndoCorePersistence[2].table = "agent_runs"
  /\ UndoCorePersistence[3].kind = "drop" /\ UndoCorePersistence[3].table = "requests"
  /\ UndoCorePersistence[4].kind = "drop" /\ UndoCorePersistence[4].table = "tasks"
BY DEF UndoCorePersistence, DropTable, DropObject, Add, Statement

(* What each of them makes of a table. *)
LEMMA UndoCorePersistenceMakes ==
  /\ Len(UndoCorePersistence) = 4 /\ \A i \in 1 .. 4 : Proper(UndoCorePersistence[i])
  /\ \A t, objects :
       /\ Made(UndoCorePersistence[1], t, objects) = IF t = "audit_events" THEN {} ELSE objects
       /\ Made(UndoCorePersistence[2], t, objects) = IF t = "agent_runs" THEN {} ELSE objects
       /\ Made(UndoCorePersistence[3], t, objects) = IF t = "requests" THEN {} ELSE objects
       /\ Made(UndoCorePersistence[4], t, objects) = IF t = "tasks" THEN {} ELSE objects
BY UndoCorePersistenceIs, TablesAre DEF Made, Proper

(* The downgrade from revision 1 leads back to the schema before it. *)
LEMMA Down1 == SchemaAfter(Revised(1), UndoCorePersistence, 4) = Revised(0)
<1> DEFINE S(i) == SchemaAfter(Revised(1), UndoCorePersistence, i)
<1>1. S(0) = Revised(1) /\ IsSchema(S(4)) /\ IsSchema(Revised(0))
  BY Statements, Walk, RevisedAre, UndoCorePersistenceMakes
<1>2. \A t \in Tables :
        /\ S(1)[t] = Made(UndoCorePersistence[1], t, S(0)[t])
        /\ S(2)[t] = Made(UndoCorePersistence[2], t, S(1)[t])
        /\ S(3)[t] = Made(UndoCorePersistence[3], t, S(2)[t])
        /\ S(4)[t] = Made(UndoCorePersistence[4], t, S(3)[t])
  <2>1. \A i \in 1 .. 4, t \in Tables : S(i)[t] = Made(UndoCorePersistence[i], t, S(i - 1)[t])
    BY Walk, RevisedAre, UndoCorePersistenceMakes
  <2> HIDE DEF S
  <2> QED
    BY <2>1
<1> HIDE DEF S
<1>3. ASSUME NEW t \in Tables \ {"tasks", "requests", "agent_runs", "audit_events"}
      PROVE S(4)[t] = Revised(0)[t]
  BY <1>1, <1>2, UndoCorePersistenceMakes, Revision1
<1>4. S(4)["tasks"] = Revised(0)["tasks"]
  <2>1. S(4)["tasks"] = {}
    BY <1>1, <1>2, UndoCorePersistenceMakes, TablesAre
  <2>2. Revised(1)["tasks"] = TasksAtFirst /\ Revised(0)["tasks"] = {}
    BY Revision1, Zenon
  <2> QED
    BY <2>1, <2>2
<1>5. S(4)["requests"] = Revised(0)["requests"]
  <2>1. S(4)["requests"] = {}
    BY <1>1, <1>2, UndoCorePersistenceMakes, TablesAre
  <2>2. Revised(1)["requests"] = Models["requests"] /\ Revised(0)["requests"] = {}
    BY Revision1, Zenon
  <2> QED
    BY <2>1, <2>2
<1>6. S(4)["agent_runs"] = Revised(0)["agent_runs"]
  <2>1. S(4)["agent_runs"] = {}
    BY <1>1, <1>2, UndoCorePersistenceMakes, TablesAre
  <2>2. Revised(1)["agent_runs"] = RunsAtFirst /\ Revised(0)["agent_runs"] = {}
    BY Revision1, Zenon
  <2> QED
    BY <2>1, <2>2
<1>7. S(4)["audit_events"] = Revised(0)["audit_events"]
  <2>1. S(4)["audit_events"] = {}
    BY <1>1, <1>2, UndoCorePersistenceMakes, TablesAre
  <2>2. Revised(1)["audit_events"] = Models["audit_events"] /\ Revised(0)["audit_events"] = {}
    BY Revision1, Zenon
  <2> QED
    BY <2>1, <2>2
<1>8. ASSUME NEW t \in Tables PROVE S(4)[t] = Revised(0)[t]
  BY <1>3, <1>4, <1>5, <1>6, <1>7
<1> QED
  BY <1>1, <1>8, SameSchema DEF S

(* The statements of UndoTaskContext. *)
LEMMA UndoTaskContextIs ==
  /\ Len(UndoTaskContext) = 6
  /\ UndoTaskContext[1].kind = "drop" /\ UndoTaskContext[1].table = "booking_snapshots"
  /\ UndoTaskContext[2].kind = "drop" /\ UndoTaskContext[2].table = "customer_snapshots"
  /\ UndoTaskContext[3].kind = "remove" /\ UndoTaskContext[3].table = "tasks"
  /\ UndoTaskContext[3].objects = {TaskColumns[4]}
  /\ UndoTaskContext[4].kind = "remove" /\ UndoTaskContext[4].table = "tasks"
  /\ UndoTaskContext[4].objects = {TaskColumns[3]}
  /\ UndoTaskContext[5].kind = "remove" /\ UndoTaskContext[5].table = "tasks"
  /\ UndoTaskContext[5].objects = {TaskColumns[2]}
  /\ UndoTaskContext[6].kind = "remove" /\ UndoTaskContext[6].table = "tasks"
  /\ UndoTaskContext[6].objects = {TaskColumns[1]}
BY DEF UndoTaskContext, DropTable, DropObject, Add, Statement

(* What each of them makes of a table. *)
LEMMA UndoTaskContextMakes ==
  /\ Len(UndoTaskContext) = 6 /\ \A i \in 1 .. 6 : Proper(UndoTaskContext[i])
  /\ \A t, objects :
       /\ Made(UndoTaskContext[1], t, objects) = IF t = "booking_snapshots" THEN {} ELSE objects
       /\ Made(UndoTaskContext[2], t, objects) = IF t = "customer_snapshots" THEN {} ELSE objects
       /\ Made(UndoTaskContext[3], t, objects) =
            IF t = "tasks" THEN objects \ {TaskColumns[4]} ELSE objects
       /\ Made(UndoTaskContext[4], t, objects) =
            IF t = "tasks" THEN objects \ {TaskColumns[3]} ELSE objects
       /\ Made(UndoTaskContext[5], t, objects) =
            IF t = "tasks" THEN objects \ {TaskColumns[2]} ELSE objects
       /\ Made(UndoTaskContext[6], t, objects) =
            IF t = "tasks" THEN objects \ {TaskColumns[1]} ELSE objects
BY UndoTaskContextIs, TablesAre DEF Made, Proper

(* The downgrade from revision 2 leads back to the schema before it. *)
LEMMA Down2 == SchemaAfter(Revised(2), UndoTaskContext, 6) = Revised(1)
<1> DEFINE S(i) == SchemaAfter(Revised(2), UndoTaskContext, i)
<1>1. S(0) = Revised(2) /\ IsSchema(S(6)) /\ IsSchema(Revised(1))
  BY Statements, Walk, RevisedAre, UndoTaskContextMakes
<1>2. \A t \in Tables :
        /\ S(1)[t] = Made(UndoTaskContext[1], t, S(0)[t])
        /\ S(2)[t] = Made(UndoTaskContext[2], t, S(1)[t])
        /\ S(3)[t] = Made(UndoTaskContext[3], t, S(2)[t])
        /\ S(4)[t] = Made(UndoTaskContext[4], t, S(3)[t])
        /\ S(5)[t] = Made(UndoTaskContext[5], t, S(4)[t])
        /\ S(6)[t] = Made(UndoTaskContext[6], t, S(5)[t])
  <2>1. \A i \in 1 .. 6, t \in Tables : S(i)[t] = Made(UndoTaskContext[i], t, S(i - 1)[t])
    BY Walk, RevisedAre, UndoTaskContextMakes
  <2> HIDE DEF S
  <2> QED
    BY <2>1
<1> HIDE DEF S
<1>3. ASSUME NEW t \in Tables \ {"tasks", "customer_snapshots", "booking_snapshots"}
      PROVE S(6)[t] = Revised(1)[t]
  BY <1>1, <1>2, UndoTaskContextMakes, Revision2
<1>4. S(6)["tasks"] = Revised(1)["tasks"]
  <2>1. S(6)["tasks"] =
          (((Revised(2)["tasks"] \ {TaskColumns[4]}) \ {TaskColumns[3]}) \ {TaskColumns[2]}) \ {TaskColumns[1]}
    BY <1>1, <1>2, UndoTaskContextMakes, TablesAre
  <2>2. Revised(2)["tasks"] = Models["tasks"] /\ Revised(1)["tasks"] = TasksAtFirst
    BY Revision2, Zenon
  <2> QED
    BY <2>1, <2>2, Removals, Zenon
<1>5. S(6)["customer_snapshots"] = Revised(1)["customer_snapshots"]
  <2>1. S(6)["customer_snapshots"] = {}
    BY <1>1, <1>2, UndoTaskContextMakes, TablesAre
  <2>2. Revised(2)["customer_snapshots"] =
          Models["customer_snapshots"] /\ Revised(1)["customer_snapshots"] = {}
    BY Revision2, Zenon
  <2> QED
    BY <2>1, <2>2
<1>6. S(6)["booking_snapshots"] = Revised(1)["booking_snapshots"]
  <2>1. S(6)["booking_snapshots"] = {}
    BY <1>1, <1>2, UndoTaskContextMakes, TablesAre
  <2>2. Revised(2)["booking_snapshots"] =
          Models["booking_snapshots"] /\ Revised(1)["booking_snapshots"] = {}
    BY Revision2, Zenon
  <2> QED
    BY <2>1, <2>2
<1>7. ASSUME NEW t \in Tables PROVE S(6)[t] = Revised(1)[t]
  BY <1>3, <1>4, <1>5, <1>6
<1> QED
  BY <1>1, <1>7, SameSchema DEF S

(* The statements of UndoToolAttempts. *)
LEMMA UndoToolAttemptsIs ==
  /\ Len(UndoToolAttempts) = 2
  /\ UndoToolAttempts[1].kind = "drop" /\ UndoToolAttempts[1].table = "external_receipts"
  /\ UndoToolAttempts[2].kind = "drop" /\ UndoToolAttempts[2].table = "tool_attempts"
BY DEF UndoToolAttempts, DropTable, DropObject, Add, Statement

(* What each of them makes of a table. *)
LEMMA UndoToolAttemptsMakes ==
  /\ Len(UndoToolAttempts) = 2 /\ \A i \in 1 .. 2 : Proper(UndoToolAttempts[i])
  /\ \A t, objects :
       /\ Made(UndoToolAttempts[1], t, objects) = IF t = "external_receipts" THEN {} ELSE objects
       /\ Made(UndoToolAttempts[2], t, objects) = IF t = "tool_attempts" THEN {} ELSE objects
BY UndoToolAttemptsIs, TablesAre DEF Made, Proper

(* The downgrade from revision 3 leads back to the schema before it. *)
LEMMA Down3 == SchemaAfter(Revised(3), UndoToolAttempts, 2) = Revised(2)
<1> DEFINE S(i) == SchemaAfter(Revised(3), UndoToolAttempts, i)
<1>1. S(0) = Revised(3) /\ IsSchema(S(2)) /\ IsSchema(Revised(2))
  BY Statements, Walk, RevisedAre, UndoToolAttemptsMakes
<1>2. \A t \in Tables :
        /\ S(1)[t] = Made(UndoToolAttempts[1], t, S(0)[t])
        /\ S(2)[t] = Made(UndoToolAttempts[2], t, S(1)[t])
  <2>1. \A i \in 1 .. 2, t \in Tables : S(i)[t] = Made(UndoToolAttempts[i], t, S(i - 1)[t])
    BY Walk, RevisedAre, UndoToolAttemptsMakes
  <2> HIDE DEF S
  <2> QED
    BY <2>1
<1> HIDE DEF S
<1>3. ASSUME NEW t \in Tables \ {"tool_attempts", "external_receipts"}
      PROVE S(2)[t] = Revised(2)[t]
  BY <1>1, <1>2, UndoToolAttemptsMakes, Revision3
<1>4. S(2)["tool_attempts"] = Revised(2)["tool_attempts"]
  <2>1. S(2)["tool_attempts"] = {}
    BY <1>1, <1>2, UndoToolAttemptsMakes, TablesAre
  <2>2. Revised(3)["tool_attempts"] = Models["tool_attempts"] /\ Revised(2)["tool_attempts"] = {}
    BY Revision3, Zenon
  <2> QED
    BY <2>1, <2>2
<1>5. S(2)["external_receipts"] = Revised(2)["external_receipts"]
  <2>1. S(2)["external_receipts"] = {}
    BY <1>1, <1>2, UndoToolAttemptsMakes, TablesAre
  <2>2. Revised(3)["external_receipts"] =
          Models["external_receipts"] /\ Revised(2)["external_receipts"] = {}
    BY Revision3, Zenon
  <2> QED
    BY <2>1, <2>2
<1>6. ASSUME NEW t \in Tables PROVE S(2)[t] = Revised(2)[t]
  BY <1>3, <1>4, <1>5
<1> QED
  BY <1>1, <1>6, SameSchema DEF S

(* The statements of UndoOrchestrationTables. *)
LEMMA UndoOrchestrationTablesIs ==
  /\ Len(UndoOrchestrationTables) = 6
  /\ UndoOrchestrationTables[1].kind = "drop"
  /\ UndoOrchestrationTables[1].table = "proposal_versions"
  /\ UndoOrchestrationTables[2].kind = "drop"
  /\ UndoOrchestrationTables[2].table = "risk_decisions"
  /\ UndoOrchestrationTables[3].kind = "remove" /\ UndoOrchestrationTables[3].table = "agent_runs"
  /\ UndoOrchestrationTables[3].objects = {RunColumns[4]}
  /\ UndoOrchestrationTables[4].kind = "remove" /\ UndoOrchestrationTables[4].table = "agent_runs"
  /\ UndoOrchestrationTables[4].objects = {RunColumns[3]}
  /\ UndoOrchestrationTables[5].kind = "remove" /\ UndoOrchestrationTables[5].table = "agent_runs"
  /\ UndoOrchestrationTables[5].objects = {RunColumns[2]}
  /\ UndoOrchestrationTables[6].kind = "remove" /\ UndoOrchestrationTables[6].table = "agent_runs"
  /\ UndoOrchestrationTables[6].objects = {RunColumns[1]}
BY DEF UndoOrchestrationTables, DropTable, DropObject, Add, Statement

(* What each of them makes of a table. *)
LEMMA UndoOrchestrationTablesMakes ==
  /\ Len(UndoOrchestrationTables) = 6 /\ \A i \in 1 .. 6 : Proper(UndoOrchestrationTables[i])
  /\ \A t, objects :
       /\ Made(UndoOrchestrationTables[1], t, objects) =
            IF t = "proposal_versions" THEN {} ELSE objects
       /\ Made(UndoOrchestrationTables[2], t, objects) =
            IF t = "risk_decisions" THEN {} ELSE objects
       /\ Made(UndoOrchestrationTables[3], t, objects) =
            IF t = "agent_runs" THEN objects \ {RunColumns[4]} ELSE objects
       /\ Made(UndoOrchestrationTables[4], t, objects) =
            IF t = "agent_runs" THEN objects \ {RunColumns[3]} ELSE objects
       /\ Made(UndoOrchestrationTables[5], t, objects) =
            IF t = "agent_runs" THEN objects \ {RunColumns[2]} ELSE objects
       /\ Made(UndoOrchestrationTables[6], t, objects) =
            IF t = "agent_runs" THEN objects \ {RunColumns[1]} ELSE objects
BY UndoOrchestrationTablesIs, TablesAre DEF Made, Proper

(* The downgrade from revision 4 leads back to the schema before it. *)
LEMMA Down4 == SchemaAfter(Revised(4), UndoOrchestrationTables, 6) = Revised(3)
<1> DEFINE S(i) == SchemaAfter(Revised(4), UndoOrchestrationTables, i)
<1>1. S(0) = Revised(4) /\ IsSchema(S(6)) /\ IsSchema(Revised(3))
  BY Statements, Walk, RevisedAre, UndoOrchestrationTablesMakes
<1>2. \A t \in Tables :
        /\ S(1)[t] = Made(UndoOrchestrationTables[1], t, S(0)[t])
        /\ S(2)[t] = Made(UndoOrchestrationTables[2], t, S(1)[t])
        /\ S(3)[t] = Made(UndoOrchestrationTables[3], t, S(2)[t])
        /\ S(4)[t] = Made(UndoOrchestrationTables[4], t, S(3)[t])
        /\ S(5)[t] = Made(UndoOrchestrationTables[5], t, S(4)[t])
        /\ S(6)[t] = Made(UndoOrchestrationTables[6], t, S(5)[t])
  <2>1. \A i \in 1 .. 6, t \in Tables : S(i)[t] = Made(UndoOrchestrationTables[i], t, S(i - 1)[t])
    BY Walk, RevisedAre, UndoOrchestrationTablesMakes
  <2> HIDE DEF S
  <2> QED
    BY <2>1
<1> HIDE DEF S
<1>3. ASSUME NEW t \in Tables \ {"agent_runs", "risk_decisions", "proposal_versions"}
      PROVE S(6)[t] = Revised(3)[t]
  BY <1>1, <1>2, UndoOrchestrationTablesMakes, Revision4
<1>4. S(6)["agent_runs"] = Revised(3)["agent_runs"]
  <2>1. S(6)["agent_runs"] =
          (((Revised(4)["agent_runs"] \ {RunColumns[4]}) \ {RunColumns[3]}) \ {RunColumns[2]}) \ {RunColumns[1]}
    BY <1>1, <1>2, UndoOrchestrationTablesMakes, TablesAre
  <2>2. Revised(4)["agent_runs"] = Models["agent_runs"] /\ Revised(3)["agent_runs"] = RunsAtFirst
    BY Revision4, Zenon
  <2> QED
    BY <2>1, <2>2, Removals, Zenon
<1>5. S(6)["risk_decisions"] = Revised(3)["risk_decisions"]
  <2>1. S(6)["risk_decisions"] = {}
    BY <1>1, <1>2, UndoOrchestrationTablesMakes, TablesAre
  <2>2. Revised(4)["risk_decisions"] =
          Models["risk_decisions"] /\ Revised(3)["risk_decisions"] = {}
    BY Revision4, Zenon
  <2> QED
    BY <2>1, <2>2
<1>6. S(6)["proposal_versions"] = Revised(3)["proposal_versions"]
  <2>1. S(6)["proposal_versions"] = {}
    BY <1>1, <1>2, UndoOrchestrationTablesMakes, TablesAre
  <2>2. Revised(4)["proposal_versions"] = Drafts /\ Revised(3)["proposal_versions"] = {}
    BY Revision4, Zenon
  <2> QED
    BY <2>1, <2>2
<1>7. ASSUME NEW t \in Tables PROVE S(6)[t] = Revised(3)[t]
  BY <1>3, <1>4, <1>5, <1>6
<1> QED
  BY <1>1, <1>7, SameSchema DEF S

(* The statements of UndoPolicyTables. *)
LEMMA UndoPolicyTablesIs ==
  /\ Len(UndoPolicyTables) = 5
  /\ UndoPolicyTables[1].kind = "drop" /\ UndoPolicyTables[1].table = "retrieval_evidence"
  /\ UndoPolicyTables[2].kind = "drop" /\ UndoPolicyTables[2].table = "policy_chunks"
  /\ UndoPolicyTables[3].kind = "drop" /\ UndoPolicyTables[3].table = "policy_document_versions"
  /\ UndoPolicyTables[4].kind = "remove" /\ UndoPolicyTables[4].table = "proposal_versions"
  /\ UndoPolicyTables[4].objects = {DraftOrWaiting}
  /\ UndoPolicyTables[5].kind = "add" /\ UndoPolicyTables[5].table = "proposal_versions"
  /\ UndoPolicyTables[5].objects = {DraftOnly}
BY DEF UndoPolicyTables, DropTable, DropObject, Add, Statement, RestoreDraftOnly

(* What each of them makes of a table. *)
LEMMA UndoPolicyTablesMakes ==
  /\ Len(UndoPolicyTables) = 5 /\ \A i \in 1 .. 5 : Proper(UndoPolicyTables[i])
  /\ \A t, objects :
       /\ Made(UndoPolicyTables[1], t, objects) = IF t = "retrieval_evidence" THEN {} ELSE objects
       /\ Made(UndoPolicyTables[2], t, objects) = IF t = "policy_chunks" THEN {} ELSE objects
       /\ Made(UndoPolicyTables[3], t, objects) =
            IF t = "policy_document_versions" THEN {} ELSE objects
       /\ Made(UndoPolicyTables[4], t, objects) =
            IF t = "proposal_versions" THEN objects \ {DraftOrWaiting} ELSE objects
       /\ Made(UndoPolicyTables[5], t, objects) =
            IF t = "proposal_versions" THEN objects \cup {DraftOnly} ELSE objects
BY UndoPolicyTablesIs, TablesAre DEF Made, Proper

(* The downgrade from revision 5 leads back to the schema before it. *)
LEMMA Down5 == SchemaAfter(Revised(5), UndoPolicyTables, 5) = Revised(4)
<1> DEFINE S(i) == SchemaAfter(Revised(5), UndoPolicyTables, i)
<1>1. S(0) = Revised(5) /\ IsSchema(S(5)) /\ IsSchema(Revised(4))
  BY Statements, Walk, RevisedAre, UndoPolicyTablesMakes
<1>2. \A t \in Tables :
        /\ S(1)[t] = Made(UndoPolicyTables[1], t, S(0)[t])
        /\ S(2)[t] = Made(UndoPolicyTables[2], t, S(1)[t])
        /\ S(3)[t] = Made(UndoPolicyTables[3], t, S(2)[t])
        /\ S(4)[t] = Made(UndoPolicyTables[4], t, S(3)[t])
        /\ S(5)[t] = Made(UndoPolicyTables[5], t, S(4)[t])
  <2>1. \A i \in 1 .. 5, t \in Tables : S(i)[t] = Made(UndoPolicyTables[i], t, S(i - 1)[t])
    BY Walk, RevisedAre, UndoPolicyTablesMakes
  <2> HIDE DEF S
  <2> QED
    BY <2>1
<1> HIDE DEF S
<1>3. ASSUME NEW t \in Tables \ {"proposal_versions", "policy_document_versions", "policy_chunks", "retrieval_evidence"}
      PROVE S(5)[t] = Revised(4)[t]
  BY <1>1, <1>2, UndoPolicyTablesMakes, Revision5
<1>4. S(5)["proposal_versions"] = Revised(4)["proposal_versions"]
  <2>1. S(5)["proposal_versions"] =
          (Revised(5)["proposal_versions"] \ {DraftOrWaiting}) \cup {DraftOnly}
    BY <1>1, <1>2, UndoPolicyTablesMakes, TablesAre
  <2>2. Revised(5)["proposal_versions"] =
          Models["proposal_versions"] /\ Revised(4)["proposal_versions"] = Drafts
    BY Revision5, Zenon
  <2> QED
    BY <2>1, <2>2, Removals, Zenon
<1>5. S(5)["policy_document_versions"] = Revised(4)["policy_document_versions"]
  <2>1. S(5)["policy_document_versions"] = {}
    BY <1>1, <1>2, UndoPolicyTablesMakes, TablesAre
  <2>2. Revised(5)["policy_document_versions"] =
          Models["policy_document_versions"] /\ Revised(4)["policy_document_versions"] = {}
    BY Revision5, Zenon
  <2> QED
    BY <2>1, <2>2
<1>6. S(5)["policy_chunks"] = Revised(4)["policy_chunks"]
  <2>1. S(5)["policy_chunks"] = {}
    BY <1>1, <1>2, UndoPolicyTablesMakes, TablesAre
  <2>2. Revised(5)["policy_chunks"] = Models["policy_chunks"] /\ Revised(4)["policy_chunks"] = {}
    BY Revision5, Zenon
  <2> QED
    BY <2>1, <2>2
<1>7. S(5)["retrieval_evidence"] = Revised(4)["retrieval_evidence"]
  <2>1. S(5)["retrieval_evidence"] = {}
    BY <1>1, <1>2, UndoPolicyTablesMakes, TablesAre
  <2>2. Revised(5)["retrieval_evidence"] =
          Models["retrieval_evidence"] /\ Revised(4)["retrieval_evidence"] = {}
    BY Revision5, Zenon
  <2> QED
    BY <2>1, <2>2
<1>8. ASSUME NEW t \in Tables PROVE S(5)[t] = Revised(4)[t]
  BY <1>3, <1>4, <1>5, <1>6, <1>7
<1> QED
  BY <1>1, <1>8, SameSchema DEF S

------------------------------------------------------------------------------
(* The scripts between any two revisions. *)

(* The five revisions, there and back. *)
LEMMA RevisionsAre ==
  /\ Len(Upgrades) = 5 /\ HeadRevision = 5
  /\ Upgrades[1] = CorePersistence /\ Upgrades[2] = TaskContext /\ Upgrades[3] = ToolAttempts
  /\ Upgrades[4] = OrchestrationTables /\ Upgrades[5] = PolicyTables
  /\ Downgrades[1] = UndoCorePersistence /\ Downgrades[2] = UndoTaskContext
  /\ Downgrades[3] = UndoToolAttempts /\ Downgrades[4] = UndoOrchestrationTables
  /\ Downgrades[5] = UndoPolicyTables
BY DEF Upgrades, Downgrades, HeadRevision

(* Scripts are sequences. *)
IsSequence(q) == \E S : q \in Seq(S)

(* Tuples are sequences, and two joined are one. *)
LEMMA SequencesAre ==
  /\ \A a, b : IsSequence(<<a, b>>)
  /\ \A a, b, c, d : IsSequence(<<a, b, c, d>>)
  /\ \A a, b, c, d, e : IsSequence(<<a, b, c, d, e>>)
  /\ \A f : IsSequence([i \in 1 .. 4 |-> f[i]])
  /\ \A p, q : IsSequence(p) /\ IsSequence(q) => IsSequence(p \o q)
<1>1. ASSUME NEW a, NEW b PROVE IsSequence(<<a, b>>)
  <2>1. <<a, b>> \in Seq({a, b})
    OBVIOUS
  <2> QED
    BY <2>1, Zenon DEF IsSequence
<1>2. ASSUME NEW a, NEW b, NEW c, NEW d PROVE IsSequence(<<a, b, c, d>>)
  <2>1. <<a, b, c, d>> \in Seq({a, b, c, d})
    OBVIOUS
  <2> QED
    BY <2>1, Zenon DEF IsSequence
<1>3. ASSUME NEW a, NEW b, NEW c, NEW d, NEW e PROVE IsSequence(<<a, b, c, d, e>>)
  <2>1. <<a, b, c, d, e>> \in Seq({a, b, c, d, e})
    OBVIOUS
  <2> QED
    BY <2>1, Zenon DEF IsSequence
<1>4. ASSUME NEW f PROVE IsSequence([i \in 1 .. 4 |-> f[i]])
  <2>1. [i \in 1 .. 4 |-> f[i]] \in Seq({f[i] : i \in 1 .. 4})
    OBVIOUS
  <2> QED
    BY <2>1, Zenon DEF IsSequence
<1>5. ASSUME NEW p, NEW q, IsSequence(p), IsSequence(q) PROVE IsSequence(p \o q)
  <2>1. PICK S : p \in Seq(S)
    BY <1>5 DEF IsSequence
  <2>2. PICK T : q \in Seq(T)
    BY <1>5 DEF IsSequence
  <2>3. p \in Seq(S \cup T) /\ q \in Seq(S \cup T)
    BY <2>1, <2>2
  <2>4. p \o q \in Seq(S \cup T)
    BY <2>3
  <2> QED
    BY <2>4, Zenon DEF IsSequence
<1> QED
  BY <1>1, <1>2, <1>3, <1>4, <1>5

(* So is every revision's script, both ways. *)
LEMMA ScriptsAre ==
  \A n \in 1 .. 5 : IsSequence(Upgrades[n]) /\ IsSequence(Downgrades[n])
<1>1. IsSequence(CorePersistence) /\ IsSequence(UndoCorePersistence)
  BY SequencesAre, Zenon DEF CorePersistence, UndoCorePersistence
<1>2. IsSequence(TaskContext) /\ IsSequence(UndoTaskContext)
  <2>1. AddTaskColumns = [i \in 1 .. 4 |-> AddTaskColumns[i]]
    BY DEF AddTaskColumns, TaskColumns
  <2>2. IsSequence(AddTaskColumns)
    BY <2>1, SequencesAre, Zenon
  <2>3. IsSequence(TaskContext)
    BY <2>2, SequencesAre, Zenon DEF TaskContext
  <2>4. \A a, b, c, d, e, f : IsSequence(<<a, b, c, d, e, f>>)
    <3>1. ASSUME NEW a, NEW b, NEW c, NEW d, NEW e, NEW f PROVE IsSequence(<<a, b, c, d, e, f>>)
      <4>1. <<a, b, c, d, e, f>> \in Seq({a, b, c, d, e, f})
        OBVIOUS
      <4> QED
        BY <4>1, Zenon DEF IsSequence
    <3> QED
      BY <3>1
  <2>5. IsSequence(UndoTaskContext)
    BY <2>4, Zenon DEF UndoTaskContext
  <2> QED
    BY <2>3, <2>5
<1>3. IsSequence(ToolAttempts) /\ IsSequence(UndoToolAttempts)
  BY SequencesAre, Zenon DEF ToolAttempts, UndoToolAttempts
<1>4. IsSequence(OrchestrationTables) /\ IsSequence(UndoOrchestrationTables)
  <2> DEFINE adds == [i \in 1 .. 4 |-> Add("agent_runs", RunColumns[i], Contents)]
             drops == [i \in 1 .. 4 |-> DropObject("agent_runs", RunColumns[5 - i])]
  <2>1. adds = [i \in 1 .. 4 |-> adds[i]] /\ drops = [i \in 1 .. 4 |-> drops[i]]
    OBVIOUS
  <2> HIDE DEF adds, drops
  <2>2. IsSequence(adds) /\ IsSequence(drops)
    BY <2>1, SequencesAre, Zenon
  <2>3. IsSequence(OrchestrationTables)
    BY <2>2, SequencesAre, Zenon DEF OrchestrationTables, adds
  <2>4. IsSequence(UndoOrchestrationTables)
    BY <2>2, SequencesAre, Zenon DEF UndoOrchestrationTables, drops
  <2> QED
    BY <2>3, <2>4
<1>5. IsSequence(PolicyTables) /\ IsSequence(UndoPolicyTables)
  BY SequencesAre, Zenon DEF PolicyTables, UndoPolicyTables
<1> QED
  BY <1>1, <1>2, <1>3, <1>4, <1>5, RevisionsAre

(* A script to a revision is the one to the revision before it and then that revision's. *)
LEMMA ScriptGrows ==
  ASSUME NEW from \in 0 .. 5, NEW to \in 0 .. 5
  PROVE  /\ from = to => Script[from][to] = << >>
         /\ to = from + 1 => Script[from][to] = Upgrades[to]
         /\ from + 1 < to => Script[from][to] = Script[from][to - 1] \o Upgrades[to]
         /\ from = to + 1 => Script[from][to] = Downgrades[from]
         /\ to + 1 < from => Script[from][to] = Script[from][to + 1] \o Downgrades[to + 1]
<1> DEFINE ups(a, b) == [i \in 1 .. b - a |-> Upgrades[a + i]]
           downs(a, b) == [i \in 1 .. a - b |-> Downgrades[a + 1 - i]]
<1>1. \A a, b \in 0 .. 5 : Script[a][b] = FlattenSeq(IF a <= b THEN ups(a, b) ELSE downs(a, b))
  BY RevisionsAre DEF Script
<1>2. \A a, b \in 0 .. 5 :
        /\ a <= b => /\ Len(ups(a, b)) = b - a
                     /\ \A i \in 1 .. b - a : ups(a, b)[i] = Upgrades[a + i]
        /\ b <= a => /\ Len(downs(a, b)) = a - b
                     /\ \A i \in 1 .. a - b : downs(a, b)[i] = Downgrades[a + 1 - i]
  OBVIOUS
<1>3. ASSUME from = to PROVE Script[from][to] = << >>
  <2>1. ups(from, to) = << >>
    BY <1>3
  <2>2. FlattenSeq(<< >>) = << >>
    BY DEF FlattenSeq
  <2> QED
    BY <1>1, <1>3, <2>1, <2>2
<1> HIDE DEF ups, downs
<1>4. ASSUME from < to
      PROVE  Script[from][to] = IF to = from + 1 THEN Upgrades[to]
                                                 ELSE Script[from][to - 1] \o Upgrades[to]
  <2> DEFINE n == to - from - 1
  <2>1. /\ n \in Nat /\ to - 1 \in 0 .. 5 /\ from <= to - 1 /\ from <= to
        /\ to - from = n + 1 /\ (to - 1) - from = n
    BY <1>4
  <2>5. /\ Len(ups(from, to)) = n + 1 /\ Len(ups(from, to - 1)) = n
        /\ \A i \in 1 .. n + 1 : ups(from, to)[i] = Upgrades[from + i]
        /\ \A i \in 1 .. n : ups(from, to - 1)[i] = Upgrades[from + i]
    <3>1. /\ Len(ups(from, to)) = to - from
          /\ \A i \in 1 .. to - from : ups(from, to)[i] = Upgrades[from + i]
      BY <1>2, <2>1, Zenon
    <3>2. /\ Len(ups(from, to - 1)) = (to - 1) - from
          /\ \A i \in 1 .. (to - 1) - from : ups(from, to - 1)[i] = Upgrades[from + i]
      BY <1>2, <2>1, Zenon
    <3> HIDE DEF n
    <3> QED
      BY <2>1, <3>1, <3>2
  <2>6. from + (n + 1) = to /\ n + 1 \in 1 .. n + 1 /\ (n = 0 => n + 1 = 1)
        /\ \A i \in 1 .. n : i \in 1 .. n + 1
    BY <2>1
  <2> HIDE DEF n
  <2>2. /\ Len(ups(from, to)) = n + 1 /\ Len(ups(from, to - 1)) = n
        /\ \A i \in 1 .. n : ups(from, to)[i] = ups(from, to - 1)[i]
        /\ ups(from, to)[n + 1] = Upgrades[to] /\ (n = 0 => ups(from, to)[1] = Upgrades[to])
    BY <2>5, <2>6
  <2>3. FlattenSeq(ups(from, to)) =
          IF n = 0 THEN ups(from, to)[1] ELSE FlattenSeq(ups(from, to - 1)) \o ups(from, to)[n + 1]
    BY <2>1, <2>2, Flattened
  <2>4. /\ Script[from][to] = FlattenSeq(ups(from, to))
        /\ Script[from][to - 1] = FlattenSeq(ups(from, to - 1))
    BY <1>1, <1>4, <2>1
  <2>7. n = 0 <=> to = from + 1
    BY <1>4, <2>1, <2>6
  <2> QED
    BY <2>2, <2>3, <2>4, <2>7
<1>5. ASSUME to < from
      PROVE  Script[from][to] = IF from = to + 1 THEN Downgrades[from]
                                                 ELSE Script[from][to + 1] \o Downgrades[to + 1]
  <2> DEFINE n == from - to - 1
  <2>1. /\ n \in Nat /\ to + 1 \in 0 .. 5 /\ to + 1 <= from /\ to <= from
        /\ from - to = n + 1 /\ from - (to + 1) = n
    BY <1>5
  <2>5. /\ Len(downs(from, to)) = n + 1 /\ Len(downs(from, to + 1)) = n
        /\ \A i \in 1 .. n + 1 : downs(from, to)[i] = Downgrades[from + 1 - i]
        /\ \A i \in 1 .. n : downs(from, to + 1)[i] = Downgrades[from + 1 - i]
    <3>1. /\ Len(downs(from, to)) = from - to
          /\ \A i \in 1 .. from - to : downs(from, to)[i] = Downgrades[from + 1 - i]
      BY <1>2, <2>1, Zenon
    <3>2. /\ Len(downs(from, to + 1)) = from - (to + 1)
          /\ \A i \in 1 .. from - (to + 1) : downs(from, to + 1)[i] = Downgrades[from + 1 - i]
      BY <1>2, <2>1, Zenon
    <3> HIDE DEF n
    <3> QED
      BY <2>1, <3>1, <3>2
  <2>6. from + 1 - (n + 1) = to + 1 /\ n + 1 \in 1 .. n + 1
        /\ (n = 0 => n + 1 = 1 /\ from = to + 1)
        /\ (from = to + 1 => n = 0) /\ \A i \in 1 .. n : i \in 1 .. n + 1
    BY <2>1
  <2> HIDE DEF n
  <2>2. /\ Len(downs(from, to)) = n + 1 /\ Len(downs(from, to + 1)) = n
        /\ \A i \in 1 .. n : downs(from, to)[i] = downs(from, to + 1)[i]
        /\ downs(from, to)[n + 1] = Downgrades[to + 1]
        /\ (n = 0 => downs(from, to)[1] = Downgrades[to + 1])
    BY <2>5, <2>6
  <2>3. FlattenSeq(downs(from, to)) =
          IF n = 0 THEN downs(from, to)[1]
                   ELSE FlattenSeq(downs(from, to + 1)) \o downs(from, to)[n + 1]
    BY <2>1, <2>2, Flattened
  <2>4. /\ Script[from][to] = FlattenSeq(downs(from, to))
        /\ n # 0 => Script[from][to + 1] = FlattenSeq(downs(from, to + 1))
    BY <1>1, <1>5, <2>1
  <2> QED
    BY <2>2, <2>3, <2>4, <2>6
<1>6. /\ to = from + 1 => from < to
      /\ from + 1 < to => from < to /\ to # from + 1
      /\ from = to + 1 => to < from
      /\ to + 1 < from => to < from /\ from # to + 1
  OBVIOUS
<1> QED
  BY <1>3, <1>4, <1>5, <1>6, Zenon

(* The tables a script drops. *)
Dropped(script) ==
  {t \in Tables : \E i \in 1 .. Len(script) : script[i].kind = "drop" /\ script[i].table = t}

(* A script and then another drop what each of them drops. *)
LEMMA DropsOfBoth ==
  ASSUME NEW p, NEW q, IsSequence(p), IsSequence(q)
  PROVE  Dropped(p \o q) = Dropped(p) \cup Dropped(q)
<1>1. PICK S, T : p \in Seq(S) /\ q \in Seq(T)
  BY DEF IsSequence
<1>2. p \in Seq(S \cup T) /\ q \in Seq(S \cup T)
  BY <1>1
<1> DEFINE both == p \o q
<1>3. /\ Len(p) \in Nat /\ Len(q) \in Nat /\ Len(both) = Len(p) + Len(q)
      /\ \A i \in 1 .. Len(p) : both[i] = p[i]
      /\ \A i \in 1 .. Len(q) : both[Len(p) + i] = q[i]
  BY <1>2
<1> HIDE DEF both
<1>4. ASSUME NEW t \in Dropped(both) PROVE t \in Dropped(p) \cup Dropped(q)
  <2>1. PICK i \in 1 .. Len(both) : both[i].kind = "drop" /\ both[i].table = t
    BY DEF Dropped
  <2>2. CASE i <= Len(p)
    BY <1>3, <2>1, <2>2 DEF Dropped
  <2>3. CASE Len(p) < i
    <3>1. i - Len(p) \in 1 .. Len(q) /\ Len(p) + (i - Len(p)) = i
      BY <1>3, <2>1, <2>3
    <3>2. both[i] = q[i - Len(p)]
      BY <1>3, <3>1
    <3> QED
      BY <2>1, <3>1, <3>2 DEF Dropped
  <2> QED
    BY <1>3, <2>1, <2>2, <2>3
<1>5. ASSUME NEW t \in Dropped(p) PROVE t \in Dropped(both)
  <2>1. PICK i \in 1 .. Len(p) : p[i].kind = "drop" /\ p[i].table = t
    BY DEF Dropped
  <2>2. i \in 1 .. Len(both)
    BY <1>3, <2>1
  <2> QED
    BY <1>3, <2>1, <2>2 DEF Dropped
<1>6. ASSUME NEW t \in Dropped(q) PROVE t \in Dropped(both)
  <2>1. PICK i \in 1 .. Len(q) : q[i].kind = "drop" /\ q[i].table = t
    BY DEF Dropped
  <2>2. Len(p) + i \in 1 .. Len(both)
    BY <1>3, <2>1
  <2> QED
    BY <1>3, <2>1, <2>2 DEF Dropped
<1> QED
  BY <1>4, <1>5, <1>6 DEF both

(* The tables between two revisions. *)
BornIn(from, to) == {t \in Tables : from < Born[t] /\ Born[t] <= to}

(* A script makes of one revision the other, and of the tables drops these. *)
Leads(script, from, to, tables) ==
  /\ IsSequence(script)
  /\ SchemaAfter(Revised(from), script, Len(script)) = Revised(to)
  /\ Dropped(script) = tables

(* Each revision's upgrade leads to it and drops nothing; each downgrade leads back and drops
   the tables the revision created. *)
LEMMA OneRevision ==
  ASSUME NEW n \in 1 .. 5
  PROVE  /\ Leads(Upgrades[n], n - 1, n, {})
         /\ Leads(Downgrades[n], n, n - 1, BornIn(n - 1, n))
<1>1. /\ IsSequence(Upgrades[n]) /\ IsSequence(Downgrades[n])
      /\ SchemaAfter(Revised(n - 1), Upgrades[n], Len(Upgrades[n])) = Revised(n)
      /\ SchemaAfter(Revised(n), Downgrades[n], Len(Downgrades[n])) = Revised(n - 1)
  <2>1. CASE n = 1
    <3>1. n - 1 = 0 /\ Upgrades[n] = CorePersistence /\ Downgrades[n] = UndoCorePersistence
      BY <2>1, RevisionsAre
    <3>2. /\ SchemaAfter(Revised(0), CorePersistence, Len(CorePersistence)) = Revised(1)
          /\ SchemaAfter(Revised(1), UndoCorePersistence, Len(UndoCorePersistence)) = Revised(0)
      BY Up1, Down1, CorePersistenceIs, UndoCorePersistenceIs, Zenon
    <3> QED
      BY <2>1, <3>1, <3>2, ScriptsAre, Zenon
  <2>2. CASE n = 2
    <3>1. n - 1 = 1 /\ Upgrades[n] = TaskContext /\ Downgrades[n] = UndoTaskContext
      BY <2>2, RevisionsAre
    <3>2. /\ SchemaAfter(Revised(1), TaskContext, Len(TaskContext)) = Revised(2)
          /\ SchemaAfter(Revised(2), UndoTaskContext, Len(UndoTaskContext)) = Revised(1)
      BY Up2, Down2, TaskContextIs, UndoTaskContextIs, Zenon
    <3> QED
      BY <2>2, <3>1, <3>2, ScriptsAre, Zenon
  <2>3. CASE n = 3
    <3>1. n - 1 = 2 /\ Upgrades[n] = ToolAttempts /\ Downgrades[n] = UndoToolAttempts
      BY <2>3, RevisionsAre
    <3>2. /\ SchemaAfter(Revised(2), ToolAttempts, Len(ToolAttempts)) = Revised(3)
          /\ SchemaAfter(Revised(3), UndoToolAttempts, Len(UndoToolAttempts)) = Revised(2)
      BY Up3, Down3, ToolAttemptsIs, UndoToolAttemptsIs, Zenon
    <3> QED
      BY <2>3, <3>1, <3>2, ScriptsAre, Zenon
  <2>4. CASE n = 4
    <3>1. n - 1 = 3
          /\ Upgrades[n] = OrchestrationTables /\ Downgrades[n] = UndoOrchestrationTables
      BY <2>4, RevisionsAre
    <3>2. /\ SchemaAfter(Revised(3), OrchestrationTables, Len(OrchestrationTables)) = Revised(4)
          /\ SchemaAfter(Revised(4), UndoOrchestrationTables, Len(UndoOrchestrationTables)) = Revised(3)
      BY Up4, Down4, OrchestrationTablesIs, UndoOrchestrationTablesIs, Zenon
    <3> QED
      BY <2>4, <3>1, <3>2, ScriptsAre, Zenon
  <2>5. CASE n = 5
    <3>1. n - 1 = 4 /\ Upgrades[n] = PolicyTables /\ Downgrades[n] = UndoPolicyTables
      BY <2>5, RevisionsAre
    <3>2. /\ SchemaAfter(Revised(4), PolicyTables, Len(PolicyTables)) = Revised(5)
          /\ SchemaAfter(Revised(5), UndoPolicyTables, Len(UndoPolicyTables)) = Revised(4)
      BY Up5, Down5, PolicyTablesIs, UndoPolicyTablesIs, Zenon
    <3> QED
      BY <2>5, <3>1, <3>2, ScriptsAre, Zenon
  <2> QED
    BY <2>1, <2>2, <2>3, <2>4, <2>5
<1>2. Dropped(Upgrades[n]) = {}
  <2>1. /\ Dropped(CorePersistence) = {} /\ Dropped(TaskContext) = {}
        /\ Dropped(ToolAttempts) = {} /\ Dropped(OrchestrationTables) = {}
        /\ Dropped(PolicyTables) = {}
    BY CorePersistenceIs, TaskContextIs, ToolAttemptsIs, OrchestrationTablesIs, PolicyTablesIs
       DEF Dropped
  <2> QED
    BY <2>1, RevisionsAre
<1>3. Dropped(Downgrades[n]) = BornIn(n - 1, n)
  <2>1. Dropped(UndoCorePersistence) = BornIn(0, 1)
    BY UndoCorePersistenceIs, TablesAre, BornAre DEF Dropped, BornIn
  <2>2. Dropped(UndoTaskContext) = BornIn(1, 2)
    BY UndoTaskContextIs, TablesAre, BornAre DEF Dropped, BornIn
  <2>3. Dropped(UndoToolAttempts) = BornIn(2, 3)
    BY UndoToolAttemptsIs, TablesAre, BornAre DEF Dropped, BornIn
  <2>4. Dropped(UndoOrchestrationTables) = BornIn(3, 4)
    BY UndoOrchestrationTablesIs, TablesAre, BornAre DEF Dropped, BornIn
  <2>5. Dropped(UndoPolicyTables) = BornIn(4, 5)
    BY UndoPolicyTablesIs, TablesAre, BornAre DEF Dropped, BornIn
  <2> QED
    BY <2>1, <2>2, <2>3, <2>4, <2>5, RevisionsAre
<1> QED
  BY <1>1, <1>2, <1>3 DEF Leads

(* What leads from one revision to a second, then from there to a third, leads from the
   first to the third. *)
LEMMA TwoScripts ==
  ASSUME NEW p, NEW q, NEW a, NEW b, NEW c, NEW S, NEW T, Leads(p, a, b, S), Leads(q, b, c, T)
  PROVE  Leads(p \o q, a, c, S \cup T)
<1>1. IsSequence(p \o q)
  BY SequencesAre, Zenon DEF Leads
<1>2. Dropped(p \o q) = S \cup T
  BY DropsOfBoth DEF Leads
<1>3. SchemaAfter(Revised(a), p \o q, Len(p \o q)) = Revised(c)
  <2>1. PICK X, Y : p \in Seq(X) /\ q \in Seq(Y)
    BY DEF IsSequence, Leads
  <2>2. p \in Seq(X \cup Y) /\ q \in Seq(X \cup Y)
    BY <2>1
  <2>3. SchemaAfter(Revised(a), p \o q, Len(p \o q)) =
          SchemaAfter(SchemaAfter(Revised(a), p, Len(p)), q, Len(q))
    <3> DEFINE U == X \cup Y
    <3>1. p \in Seq(U) /\ q \in Seq(U)
      BY <2>2
    <3> HIDE DEF U
    <3> QED
      BY <3>1, OneAfterAnother
  <2> QED
    BY <2>3, Zenon DEF Leads
<1> QED
  BY <1>1, <1>2, <1>3, Zenon DEF Leads

(* However many revisions it spans, an upgrade's script drops nothing ... *)
LEMMA UpgradesLead ==
  ASSUME NEW from \in 0 .. 5, NEW to \in 0 .. 5, from < to
  PROVE  Leads(Script[from][to], from, to, {})
<1> DEFINE Fail == {n \in 0 .. 5 : from < n /\ ~Leads(Script[from][n], from, n, {})}
<1>1. SUFFICES ASSUME Fail # {} PROVE FALSE
  OBVIOUS
<1>2. PICK n \in Fail : \A m \in Fail : ~(m < n)
  <2>1. Fail \in SUBSET Nat
    OBVIOUS
  <2> HIDE DEF Fail
  <2> QED
    BY <1>1, <2>1, LeastNumber
<1>3. n \in 1 .. 5 /\ n - 1 \in 0 .. 5 /\ n - 1 < n /\ from < n /\ n \in 0 .. 5
  BY <1>2
<1>4. ~Leads(Script[from][n], from, n, {})
  BY <1>2
<1>5. CASE n = from + 1
  <2>1. Script[from][n] = Upgrades[n]
    BY <1>3, <1>5, ScriptGrows, Zenon
  <2>2. n - 1 = from
    BY <1>3, <1>5
  <2>3. Leads(Upgrades[n], n - 1, n, {})
    BY <1>3, OneRevision, Zenon
  <2> QED
    BY <1>4, <2>1, <2>2, <2>3
<1>6. CASE n # from + 1
  <2>1. from + 1 < n /\ from < n - 1
    BY <1>3, <1>6
  <2>2. Script[from][n] = Script[from][n - 1] \o Upgrades[n]
    BY <1>3, <2>1, ScriptGrows, Zenon
  <2>3. Leads(Script[from][n - 1], from, n - 1, {})
    BY <1>2, <1>3, <2>1
  <2>4. Leads(Upgrades[n], n - 1, n, {})
    BY <1>3, OneRevision, Zenon
  <2> DEFINE m == n - 1   none == {}
  <2> HIDE DEF m, none
  <2>5. Leads(Script[from][m] \o Upgrades[n], from, n, none \cup none)
    BY <2>3, <2>4, TwoScripts, Zenon DEF m, none
  <2>6. none \cup none = {}
    BY DEF none
  <2> QED
    BY <1>4, <2>2, <2>5, <2>6 DEF m
<1> QED
  BY <1>5, <1>6

(* ... a downgrade's the tables of every revision it undoes; and it begins with the last. *)
LEMMA DowngradesLead ==
  ASSUME NEW from \in 0 .. 5, NEW to \in 0 .. 5, to < from
  PROVE  /\ Leads(Script[from][to], from, to, BornIn(to, from))
         /\ \A i \in 1 .. Len(Downgrades[from]) : i \in 1 .. Len(Script[from][to])
                                                  /\ Script[from][to][i] = Downgrades[from][i]
<1> DEFINE Begins(script) == \A i \in 1 .. Len(Downgrades[from]) :
                               i \in 1 .. Len(script) /\ script[i] = Downgrades[from][i]
           Good(n) == Leads(Script[from][n], from, n, BornIn(n, from)) /\ Begins(Script[from][n])
           Fail == {d \in 1 .. 5 : d <= from /\ ~Good(from - d)}
<1>1. from - (from - to) = to /\ from - to \in 1 .. 5 /\ from - to <= from
  OBVIOUS
<1>2. SUFFICES ASSUME Fail # {} PROVE FALSE
  <2>1. SUFFICES ASSUME ~Good(to) PROVE Fail # {}
    BY <1>2
  <2>2. ~Good(from - (from - to))
    BY <1>1, <2>1
  <2> HIDE DEF Good
  <2> QED
    BY <1>1, <2>2
<1>3. PICK d \in Fail : \A m \in Fail : ~(m < d)
  <2>1. Fail \in SUBSET Nat
    OBVIOUS
  <2> HIDE DEF Fail
  <2> QED
    BY <1>2, <2>1, LeastNumber
<1> DEFINE n == from - d
<1>4. d \in 1 .. 5 /\ d <= from /\ ~Good(n)
  BY <1>3
<1>5. from \in 1 .. 5 /\ n \in 0 .. 4 /\ n + 1 \in 1 .. 5 /\ (n + 1) - 1 = n /\ n < from
  BY <1>4
<1>6. Leads(Downgrades[n + 1], n + 1, n, BornIn(n, n + 1))
  <2>1. Leads(Downgrades[n + 1], n + 1, (n + 1) - 1, BornIn((n + 1) - 1, n + 1))
    BY <1>5, OneRevision, Zenon
  <2> QED
    BY <1>5, <2>1
<1>7. CASE d = 1
  <2>1. from = n + 1 /\ n \in 0 .. 5
    BY <1>5, <1>7
  <2>2. Script[from][n] = Downgrades[from]
    BY <2>1, ScriptGrows, Zenon
  <2> QED
    BY <1>4, <1>6, <2>1, <2>2
<1>8. CASE d # 1
  <2>1. n + 1 < from /\ d - 1 \in 1 .. 5 /\ d - 1 <= from /\ from - (d - 1) = n + 1 /\ d - 1 < d
        /\ n \in 0 .. 5
    BY <1>4, <1>8
  <2>2. Good(n + 1)
    <3> HIDE DEF Good
    <3>1. Good(from - (d - 1))
      BY <1>3, <2>1
    <3> QED
      BY <2>1, <3>1
  <2> DEFINE p == Script[from][n + 1]   q == Downgrades[n + 1]
  <2>3. Script[from][n] = p \o q
    BY <2>1, ScriptGrows, Zenon
  <2>4. Leads(p, from, n + 1, BornIn(n + 1, from)) /\ Begins(p)
    BY <2>2
  <2>5. Leads(p \o q, from, n, BornIn(n + 1, from) \cup BornIn(n, n + 1))
    BY <1>6, <2>4, TwoScripts, Zenon
  <2>6. BornIn(n + 1, from) \cup BornIn(n, n + 1) = BornIn(n, from)
    <3>1. \A t \in Tables : Born[t] \in Nat
      BY TablesAre, BornAre
    <3>2. n \in Nat /\ from \in Nat /\ n + 1 < from
      BY <1>5, <2>1
    <3> HIDE DEF n
    <3> QED
      BY <3>1, <3>2 DEF BornIn
  <2>7. Begins(p \o q)
    <3>1. PICK X, Y : p \in Seq(X) /\ q \in Seq(Y)
      BY <1>6, <2>4 DEF Leads, IsSequence
    <3> HIDE DEF p, q
    <3>2. p \in Seq(X \cup Y) /\ q \in Seq(X \cup Y)
      BY <3>1
    <3>3. \A i \in 1 .. Len(p) : i \in 1 .. Len(p \o q) /\ (p \o q)[i] = p[i]
      BY <3>2
    <3> QED
      BY <2>4, <3>3
  <2> HIDE DEF p, q
  <2>8. Good(n)
    BY <2>3, <2>5, <2>6, <2>7
  <2> QED
    BY <1>4, <2>8
<1> QED
  BY <1>7, <1>8

(* The schema of each revision. *)
LEMMA SchemaOf ==
  ASSUME NEW n \in 0 .. 5
  PROVE  SchemaAt[n] = Revised(n)
<1>1. SchemaAt[n] = SchemaAfter(Nothing, Script[0][n], Len(Script[0][n]))
  BY RevisionsAre DEF SchemaAt
<1>2. Nothing = Revised(0)
  <2>1. \A t \in Tables : 0 < Born[t]
    BY TablesAre, BornAre
  <2> QED
    BY <2>1 DEF Nothing, Revised
<1>3. CASE n = 0
  <2>1. Script[0][0] = << >>
    BY ScriptGrows
  <2> QED
    BY <1>1, <1>2, <1>3, <2>1, Statements
<1>4. CASE n # 0
  <2>1. Leads(Script[0][n], 0, n, {})
    BY <1>4, UpgradesLead
  <2> QED
    BY <1>1, <1>2, <2>1, Zenon DEF Leads
<1> QED
  BY <1>3, <1>4

(* What a migration makes of the schema and of the rows. *)
Migrates(from, to, held) ==
  /\ SchemaAfter(SchemaAt[from], Script[from][to], Len(Script[from][to])) = SchemaAt[to]
  /\ \A t \in BornIn(to, from) :
       RowsAfter(held, Script[from][to], Len(Script[from][to]))[t] = "none"
  /\ \A t \in Tables \ BornIn(to, from) :
       RowsAfter(held, Script[from][to], Len(Script[from][to]))[t] = held[t]

(* Every script makes of the schema the one of its revision, and empties the tables it drops. *)
LEMMA Migrated ==
  ASSUME NEW from \in 0 .. 5, NEW to \in 0 .. 5, from # to, NEW held
  PROVE  Migrates(from, to, held)
<1> DEFINE script == Script[from][to]
<1>1. Leads(script, from, to, BornIn(to, from))
  <2>1. CASE from < to
    <3>1. BornIn(to, from) = {}
      <4>1. \A t \in Tables : Born[t] \in Nat
        BY TablesAre, BornAre
      <4> QED
        BY <2>1, <4>1 DEF BornIn
    <3> QED
      BY <2>1, <3>1, UpgradesLead
  <2>2. CASE to < from
    BY <2>2, DowngradesLead
  <2> QED
    BY <2>1, <2>2
<1> HIDE DEF script
<1>2. SchemaAfter(SchemaAt[from], script, Len(script)) = SchemaAt[to]
  BY <1>1, SchemaOf, Zenon DEF Leads
<1>3. \A t \in Tables : t \in BornIn(to, from) <=>
        \E i \in 1 .. Len(script) : script[i].kind = "drop" /\ script[i].table = t
  BY <1>1 DEF Leads, Dropped
<1>4. /\ \A t \in BornIn(to, from) : RowsAfter(held, script, Len(script))[t] = "none"
      /\ \A t \in Tables \ BornIn(to, from) : RowsAfter(held, script, Len(script))[t] = held[t]
  BY <1>3 DEF RowsAfter, BornIn
<1> QED
  BY <1>2, <1>4 DEF script, Migrates

(* From head there is no way down while a proposal waits. *)
LEMMA RefusedWhileWaiting ==
  ASSUME NEW to \in 0 .. 4, NEW given, NEW held, GoesThrough(given, held, Script[5][to])
  PROVE  held["proposal_versions"] \in {"none", "draft_waiting_evidence"}
<1> DEFINE script == Script[5][to]
           content == RowsAfter(held, script, 4)["proposal_versions"]
<1>1. /\ \A i \in 1 .. 5 : i \in 1 .. Len(script) /\ script[i] = UndoPolicyTables[i]
      /\ IsSequence(script)
  <2>1. 5 \in 0 .. 5 /\ to \in 0 .. 5 /\ to < 5
    OBVIOUS
  <2>2. /\ Leads(script, 5, to, BornIn(to, 5))
        /\ \A i \in 1 .. Len(Downgrades[5]) : i \in 1 .. Len(script) /\ script[i] = Downgrades[5][i]
    BY <2>1, DowngradesLead, Zenon
  <2>3. Downgrades[5] = UndoPolicyTables /\ Len(UndoPolicyTables) = 5
    BY RevisionsAre, UndoPolicyTablesIs
  <2> QED
    BY <2>2, <2>3 DEF Leads
<1>2. IsSequence(script)
  BY <1>1
<1>3. 5 \in DOMAIN script
  <2>1. PICK S : script \in Seq(S)
    BY <1>2 DEF IsSequence
  <2> QED
    BY <1>1, <2>1
<1>4. script[5].kind = "add" /\ script[5].table = "proposal_versions"
      /\ script[5].accepted = {"none", "draft_waiting_evidence"}
  <2>1. UndoPolicyTables[5] = RestoreDraftOnly
    BY DEF UndoPolicyTables
  <2> QED
    BY <1>1, <2>1 DEF RestoreDraftOnly, Add, Statement
<1> DEFINE left == SchemaAfter(given, script, 4)
<1>5. Possible(left, content, script[5])
  <2>1. <<script[5], SchemaAfter(given, script, 5 - 1),
          RowsAfter(held, script, 5 - 1)[script[5].table]>> \in Finds(given, held, script)
    BY <1>3, Zenon DEF Finds
  <2>2. 5 - 1 = 4
    OBVIOUS
  <2>3. <<script[5], left, content>> \in Finds(given, held, script)
    BY <1>4, <2>1, <2>2
  <2> HIDE DEF left, content, script
  <2> QED
    BY <2>3 DEF GoesThrough, script
<1>6. content \in {"none", "draft_waiting_evidence"}
  BY <1>4, <1>5 DEF Possible
<1>7. content = held["proposal_versions"]
  <2>1. \A i \in 1 .. 4 : script[i].table = "proposal_versions" => script[i].kind # "drop"
    BY <1>1, UndoPolicyTablesIs
  <2>2. "proposal_versions" \in Tables
    BY TablesAre
  <2> QED
    BY <2>1, <2>2 DEF RowsAfter
<1> QED
  BY <1>6, <1>7

------------------------------------------------------------------------------
(* Tables, foreign keys and the steps that use them. *)

(* The tables the foreign keys of a table refer to. *)
Parents ==
  [tasks |-> {}, requests |-> {"tasks"}, agent_runs |-> {"tasks"},
   audit_events |-> {"tasks", "agent_runs"}, customer_snapshots |-> {"tasks"},
   booking_snapshots |-> {"tasks"}, tool_attempts |-> {"agent_runs"},
   external_receipts |-> {"tool_attempts"}, risk_decisions |-> {"agent_runs"},
   proposal_versions |-> {"tasks", "agent_runs"}, policy_document_versions |-> {},
   policy_chunks |-> {"policy_document_versions"},
   retrieval_evidence |-> {"proposal_versions", "policy_document_versions", "policy_chunks"}]

(* A table comes no earlier than those it refers to, and these are its foreign keys in the
   models. *)
LEMMA ParentsAre ==
  /\ \A t, u \in Tables : u \in Parents[t] => Born[u] <= Born[t]
  /\ \A t, u \in Tables : Reference(u) \in Models[t] <=> u \in Parents[t]
  /\ \A t \in Tables : Column("id") \in Models[t]
<1>1. \A t, u \in Tables : u \in Parents[t] => Born[u] <= Born[t]
  BY TablesAre, BornAre DEF Parents
<1> DEFINE Keyed(t) == Column("id") \in Models[t]
                       /\ \A u \in Tables : Reference(u) \in Models[t] <=> u \in Parents[t]
<1>2. Keyed("tasks") /\ Keyed("agent_runs")
  <2>1. Models["tasks"] = TasksAtFirst \cup ToSet(TaskColumns)
        /\ Models["agent_runs"] = RunsAtFirst \cup ToSet(RunColumns)
    BY Additions
  <2>2. \A u : Reference(u) \notin ToSet(TaskColumns) /\ Reference(u) \notin ToSet(RunColumns)
    BY ColumnsAre, ObjectsDiffer DEF TaskColumns, RunColumns
  <2>3. \A u : Reference(u) \notin TasksAtFirst /\ (Reference(u) \in RunsAtFirst <=> u = "tasks")
    BY WholeIs DEF TasksAtFirst, RunsAtFirst
  <2>4. Column("id") \in TasksAtFirst /\ Column("id") \in RunsAtFirst
    BY WholeIs DEF TasksAtFirst, RunsAtFirst
  <2>5. Parents["tasks"] = {} /\ Parents["agent_runs"] = {"tasks"}
    BY DEF Parents
  <2> QED
    BY <2>1, <2>2, <2>3, <2>4, <2>5
<1>3. \A t \in Tables \ {"tasks", "agent_runs"} : Keyed(t)
  <2>1. ASSUME NEW t \in Tables, NEW keys, NEW checks, Models[t] = Whole(Parents[t], keys, checks)
        PROVE  Keyed(t)
    BY <2>1, WholeIs, Zenon
  <2>2. Keyed("requests")
    <3>1. Models["requests"] = Whole(Parents["requests"], {"task_id"}, {"channel"})
      BY DEF Models, Parents
    <3> QED
      BY <2>1, <3>1, TablesAre, Zenon
  <2>3. Keyed("audit_events")
    <3>1. Models["audit_events"] = Whole(Parents["audit_events"], {}, {})
      BY DEF Models, Parents
    <3> QED
      BY <2>1, <3>1, TablesAre, Zenon
  <2>4. Keyed("customer_snapshots")
    <3>1. Models["customer_snapshots"] = Whole(Parents["customer_snapshots"], {"task_id"}, {})
      BY DEF Models, Parents
    <3> QED
      BY <2>1, <3>1, TablesAre, Zenon
  <2>5. Keyed("booking_snapshots")
    <3>1. Models["booking_snapshots"] = Whole(Parents["booking_snapshots"], {"task_id"}, {})
      BY DEF Models, Parents
    <3> QED
      BY <2>1, <3>1, TablesAre, Zenon
  <2>6. Keyed("tool_attempts")
    <3>1. Models["tool_attempts"] =
            Whole(Parents["tool_attempts"], {}, {"outcome", "side_effect_state"})
      BY DEF Models, Parents
    <3> QED
      BY <2>1, <3>1, TablesAre, Zenon
  <2>7. Keyed("external_receipts")
    <3>1. Models["external_receipts"] =
            Whole(Parents["external_receipts"], {"tool_attempt_id", "provider_tool_idempotency", "external_reference"}, {})
      BY DEF Models, Parents
    <3> QED
      BY <2>1, <3>1, TablesAre, Zenon
  <2>8. Keyed("risk_decisions")
    <3>1. Models["risk_decisions"] = Whole(Parents["risk_decisions"], {"run_id"}, {})
      BY DEF Models, Parents
    <3> QED
      BY <2>1, <3>1, TablesAre, Zenon
  <2>9. Keyed("proposal_versions")
    <3>1. Models["proposal_versions"] =
            Whole(Parents["proposal_versions"], {"task_version", "run_id"}, {"version", DraftOrWaiting[2]})
      BY DEF Models, Parents
    <3> QED
      BY <2>1, <3>1, TablesAre, Zenon
  <2>10. Keyed("policy_document_versions")
    <3>1. Models["policy_document_versions"] =
            Whole(Parents["policy_document_versions"], {"source_version"}, {"lifecycle_status"})
      BY DEF Models, Parents
    <3> QED
      BY <2>1, <3>1, TablesAre, Zenon
  <2>11. Keyed("policy_chunks")
    <3>1. Models["policy_chunks"] = Whole(Parents["policy_chunks"], {"clause"}, {})
      BY DEF Models, Parents
    <3> QED
      BY <2>1, <3>1, TablesAre, Zenon
  <2>12. Keyed("retrieval_evidence")
    <3>1. Models["retrieval_evidence"] =
            Whole(Parents["retrieval_evidence"], {"proposal_chunk"}, {})
      BY DEF Models, Parents
    <3> QED
      BY <2>1, <3>1, TablesAre, Zenon
  <2> HIDE DEF Keyed
  <2> QED
    BY TablesAre, <2>2, <2>3, <2>4, <2>5, <2>6, <2>7, <2>8, <2>9, <2>10, <2>11, <2>12
<1> QED
  BY <1>1, <1>2, <1>3

(* Every foreign key of a revision is one of the models. *)
LEMMA ReferencesAre ==
  ASSUME NEW n \in 0 .. 5, NEW t \in Tables, NEW u \in Tables, Reference(u) \in Revised(n)[t]
  PROVE  u \in Parents[t]
<1>1. CASE Revised(n)[t] = Models[t]
  BY <1>1, ParentsAre
<1>2. CASE Revised(n)[t] # Models[t]
  <2>1. n < Grown[t] /\ ~(n < Born[t]) /\ Revised(n)[t] = AtFirst(t)
    BY <1>2, RevisedAre
  <2>2. t \in {"tasks", "agent_runs", "proposal_versions"}
    BY <2>1, TablesAre, BornAre
  <2>3. CASE t = "tasks"
    <3>1. Reference(u) \in TasksAtFirst
      BY <2>1, <2>3, AtFirstAre
    <3> QED
      BY <3>1, WholeIs DEF TasksAtFirst
  <2>4. CASE t = "agent_runs"
    <3>1. Reference(u) \in RunsAtFirst
      BY <2>1, <2>4, AtFirstAre
    <3>2. u = "tasks"
      BY <3>1, WholeIs DEF RunsAtFirst
    <3> QED
      BY <2>4, <3>2 DEF Parents
  <2>5. CASE t = "proposal_versions"
    <3>1. Reference(u) \in ProposalsBare \cup {DraftOnly}
      BY <2>1, <2>5, AtFirstAre, Additions
    <3>2. u = "tasks" \/ u = "agent_runs"
      BY <3>1 DEF ProposalsBare, DraftOnly, Column, Reference, Unique, Check
    <3> QED
      BY <2>5, <3>2 DEF Parents
  <2> QED
    BY <2>2, <2>3, <2>4, <2>5
<1> QED
  BY <1>1, <1>2

(* What each step uses, and what its request goes on with. *)
LEMMA UsedByAre ==
  /\ UsedBy["publish"] = policies
  /\ UsedBy["seed_task"] = {"tasks", "requests", "audit_events"}
  /\ UsedBy["context"] = context
  /\ UsedBy["seed_run"] = {"agent_runs", "audit_events"}
  /\ UsedBy["run"] = {"agent_runs", "audit_events"}
  /\ UsedBy["begin"] = {"agent_runs", "audit_events"}
  /\ UsedBy["insert"] = {"agent_runs", "proposal_versions", "risk_decisions"}
  /\ UsedBy["bind"] = policies \cup {"retrieval_evidence", "proposal_versions"}
  /\ \A step \in Steps : UsedBy[step] \subseteq Tables
BY TablesAre DEF UsedBy, Steps, Boot, Handling, Reads, Pages, policies, context

(* The rows of a request are rows of tables. *)
LEMMA HeldByAre ==
  /\ HeldBy("seed_run") = {"tasks"} /\ HeldBy("context") = {"tasks"} /\ HeldBy("run") = {"tasks"}
  /\ HeldBy("begin") = {"tasks", "agent_runs"} /\ HeldBy("check") = {"tasks", "agent_runs"}
  /\ HeldBy("graph") = {"tasks", "agent_runs"} /\ HeldBy("persist") = {"tasks", "agent_runs"}
  /\ HeldBy("insert") = {"tasks", "agent_runs"}
  /\ HeldBy("bind") = {"tasks", "agent_runs", "proposal_versions"}
  /\ HeldBy("park") = {"tasks", "agent_runs", "proposal_versions"}
  /\ HeldBy("reread") = {"tasks", "agent_runs", "proposal_versions"}
  /\ HeldBy("page_proposal") = {"agent_runs"} /\ HeldBy("page_evidence") = {"proposal_versions"}
  /\ \A step \in {"down", "upgrade", "migrate", "checkpoints", "ingest", "publish", "seed",
                  "seed_task", "serving", "ready", "reply", "load", "page_run"} \cup Reads :
       HeldBy(step) = {}
  /\ \A step : HeldBy(step) \subseteq Tables
BY TablesAre DEF HeldBy, Reads

(* A step that works finds its tables in the revision there is. *)
LEMMA WorksMeans ==
  ASSUME TypeOK, schema = SchemaAt[rev], NEW s \in Servers, Works(s), NEW t \in UsedBy[pc[s]]
  PROVE  t \in Tables /\ Born[t] <= rev
<1>1. t \in Tables /\ rev \in 0 .. 5
  BY UsedByAre, RevisionsAre DEF TypeOK
<1>2. schema[t] # {}
  <2>1. Column("id") \in Declared[t]
    BY <1>1, ParentsAre DEF Declared, Column
  <2> QED
    BY <2>1 DEF Works
<1>3. Revised(rev)[t] # {}
  BY <1>1, <1>2, SchemaOf
<1>4. Born[t] \in Nat
  BY <1>1, TablesAre, BornAre
<1> QED
  BY <1>1, <1>3, <1>4, RevisedAre

(* The schema of the last revision is what the models declare. *)
LEMMA HeadIsTheModels == Revised(5) = Models
<1>1. \A t \in Tables : Revised(5)[t] = Models[t]
  <2>1. \A t \in Tables : Born[t] <= 5 /\ Grown[t] <= 5 /\ Born[t] \in Nat /\ Grown[t] \in Nat
    BY TablesAre, BornAre
  <2> QED
    BY <2>1, RevisedAre
<1>2. IsSchema(Models)
  BY DEF Tables, IsSchema, Models
<1> QED
  BY <1>1, <1>2, RevisedAre, SameSchema

(* The revision a step needs has the tables it uses, with the columns the models declare:
   of a proposal only a check changes later. *)
LEMMA NeededAre ==
  ASSUME NEW step \in Handling, NEW t \in UsedBy[step]
  PROVE  /\ t \in Tables /\ Needs(step) \in Nat /\ Born[t] <= Needs(step)
         /\ Grown[t] <= Needs(step) \/ t = "proposal_versions"
<1>1. step \in Steps
  BY DEF Steps
<1>2. CASE step \in {"load", "task"}
  <2>1. UsedBy[step] = context /\ Needs(step) = 2
    BY <1>1, <1>2 DEF UsedBy, Needs
  <2> QED
    BY <2>1, TablesAre, BornAre DEF context
<1>3. CASE step \in {"bind", "page_evidence", "policy"}
  <2>1. Needs(step) = 5
    BY <1>3 DEF Needs
  <2>2. t \in Tables
    BY <1>1, UsedByAre
  <2> QED
    BY <2>1, <2>2, TablesAre, BornAre
<1>4. CASE step = "graph"
  BY <1>1, <1>4 DEF UsedBy
<1>5. CASE step \notin {"load", "task", "bind", "page_evidence", "policy", "graph"}
  <2>1. Needs(step) = 4
    BY <1>5 DEF Needs
  <2>2. t \in {"agent_runs", "audit_events", "proposal_versions", "risk_decisions"}
    BY <1>1, <1>5 DEF UsedBy, Handling, Reads, Pages
  <2> QED
    BY <2>1, <2>2, TablesAre, BornAre
<1> QED
  BY <1>2, <1>3, <1>4, <1>5

(* From that revision on nothing is missing. *)
LEMMA WorksFromThere ==
  ASSUME TypeOK, schema = SchemaAt[rev], NEW s \in Servers, up, pc[s] \in Handling,
         ~(rev < Needs(pc[s])), pc[s] = "graph" => checkpoints
  PROVE  Works(s)
<1>1. schema = Revised(rev) /\ rev \in 0 .. 5
  BY SchemaOf, RevisionsAre DEF TypeOK
<1>2. ASSUME NEW t \in UsedBy[pc[s]] PROVE Declared[t] \subseteq schema[t]
  <2>1. /\ t \in Tables /\ Needs(pc[s]) \in Nat /\ Born[t] <= Needs(pc[s])
        /\ Grown[t] <= Needs(pc[s]) \/ t = "proposal_versions"
    BY <1>2, NeededAre
  <2>2. Born[t] \in Nat /\ Grown[t] \in Nat
    BY <2>1, TablesAre, BornAre
  <2>3. ~(rev < Born[t])
    BY <1>1, <2>1, <2>2
  <2>4. CASE ~(rev < Grown[t])
    <3>1. schema[t] = Models[t]
      BY <1>1, <2>1, <2>3, <2>4, RevisedAre
    <3> QED
      BY <2>1, <3>1 DEF Declared
  <2>5. CASE rev < Grown[t]
    <3>1. t = "proposal_versions"
      BY <1>1, <2>1, <2>2, <2>5
    <3>2. schema[t] = Drafts
      BY <1>1, <2>1, <2>3, <2>5, <3>1, RevisedAre, AtFirstAre
    <3>3. Models[t] \subseteq Drafts \cup {DraftOrWaiting}
      BY <3>1, Additions
    <3>4. DraftOrWaiting[1] # "column"
      BY DEF DraftOrWaiting, Check
    <3> QED
      BY <2>1, <3>2, <3>3, <3>4 DEF Declared
  <2> QED
    BY <2>4, <2>5
<1> QED
  BY <1>2 DEF Works

------------------------------------------------------------------------------
(* The inductive invariant. *)

(* Only tables of the revision have rows. *)
RowsFit == \A t \in Tables : rows[t] # "none" => Born[t] <= rev

(* The rows a foreign key of the models refers to are there. *)
ParentsAreThere ==
  \A t \in Tables : rows[t] # "none" => \A u \in Parents[t] : rows[u] # "none"

(* What the approval of a refund rests on. *)
ApprovalsRest ==
  /\ rows["proposal_versions"] = "waiting_approval" <=> rows["retrieval_evidence"] # "none"
  /\ rows["agent_runs"] = "waiting_approval" => rows["proposal_versions"] = "waiting_approval"

(* What a container relies on between two transactions.  Unless a downgrade has taken
   it, what its request found is there, and only a request that found something can
   have lost it, or a container whose transaction an outage ended; a proposal about to
   be parked waits, as does the one of a page that saw a waiting run. *)
ServerIsCoherent(s) ==
  /\ s \notin lost => \A t \in HeldBy(pc[s]) : rows[t] # "none"
  /\ s \in lost => HeldBy(pc[s]) # {} \/ pc[s] = "publish"
  /\ pc[s] = "park" => rows["proposal_versions"] = "waiting_approval"
  /\ pc[s] \in {"page_proposal", "page_evidence"} /\ saw[s] = "waiting_approval" =>
       rows["proposal_versions"] = "waiting_approval" /\ s \notin lost
  /\ pc[s] \in Handling \cup {"ready"} => id[s] = "own"

ServersAreCoherent == \A s \in Servers : ServerIsCoherent(s)

RowsAreSound == RowsFit /\ ParentsAreThere /\ ApprovalsRest

Coherent == schema = SchemaAt[rev] /\ RowsAreSound /\ ServersAreCoherent

IInv == TypeOK /\ Coherent

(* A step that takes no row away. *)
Keeps == /\ \A t \in Tables : rows[t] # "none" => rows'[t] # "none"
         /\ rows["proposal_versions"] = "waiting_approval" =>
              rows'["proposal_versions"] = "waiting_approval"

(* A step of s is nobody else's. *)
Alone(s) == \A r \in Servers \ {s} : /\ pc'[r] = pc[r] /\ saw'[r] = saw[r] /\ id'[r] = id[r]
                                     /\ r \in lost' <=> r \in lost

(* Containers whose rows are kept stay coherent. *)
LEMMA OthersStay ==
  ASSUME NEW r, ServerIsCoherent(r), Keeps,
         pc'[r] = pc[r], saw'[r] = saw[r], id'[r] = id[r], r \in lost' <=> r \in lost
  PROVE  ServerIsCoherent(r)'
<1>1. \A t \in HeldBy(pc[r]) : t \in Tables
  BY HeldByAre
<1>2. r \notin lost' => \A t \in HeldBy(pc'[r]) : rows'[t] # "none"
  BY <1>1 DEF ServerIsCoherent, Keeps
<1>3. r \in lost' => HeldBy(pc'[r]) # {} \/ pc'[r] = "publish"
  BY DEF ServerIsCoherent
<1> QED
  BY <1>2, <1>3 DEF ServerIsCoherent, Keeps

(* So do all the others when one container makes a step that takes no row away. *)
LEMMA Moves ==
  ASSUME ServersAreCoherent, Keeps, NEW s, Alone(s), ServerIsCoherent(s)'
  PROVE  ServersAreCoherent'
<1>1. ASSUME NEW r \in Servers, r # s PROVE ServerIsCoherent(r)'
  BY <1>1, OthersStay DEF ServersAreCoherent, Alone
<1> QED
  BY <1>1 DEF ServersAreCoherent

(* A container that moves moves alone. *)
LEMMA GotoIs ==
  ASSUME TypeOK, NEW s \in Servers, NEW step, Goto(s, step)
  PROVE  pc'[s] = step /\ \A r \in Servers \ {s} : pc'[r] = pc[r]
BY DEF TypeOK, Goto

(* It leaves the others' requests alone as well. *)
LEMMA GotoIsAlone ==
  ASSUME TypeOK, NEW s \in Servers, NEW step, Goto(s, step), UNCHANGED request
  PROVE  Alone(s) /\ pc'[s] = step /\ saw' = saw /\ id' = id /\ lost' = lost
BY GotoIs DEF Alone, request

(* Who has answered, or stopped, relies on nothing. *)
LEMMA AnswersIsCoherent ==
  ASSUME TypeOK, NEW s \in Servers, ServerIsCoherent(s), NEW response, Answers(s, response),
         pc[s] \in Handling \cup {"ready"}
  PROVE  Alone(s) /\ ServerIsCoherent(s)'
<1>1. /\ pc'[s] = "reply" /\ \A r \in Servers \ {s} : pc'[r] = pc[r]
      /\ lost' = lost \ {s} /\ \A r \in Servers \ {s} : saw'[r] = saw[r] /\ id'[r] = id[r]
  BY GotoIs DEF Answers, TypeOK
<1>2. Alone(s)
  BY <1>1 DEF Alone
<1>3. HeldBy("reply") = {}
  BY HeldByAre
<1>4. "reply" \notin Handling \cup {"ready"}
  BY DEF Handling, Reads, Pages
<1> QED
  BY <1>1, <1>2, <1>3, <1>4 DEF ServerIsCoherent

(* Neither does one that has stopped. *)
LEMMA StopIsCoherent ==
  ASSUME TypeOK, NEW s \in Servers, Stop(s)
  PROVE  Alone(s) /\ ServerIsCoherent(s)'
<1>1. /\ pc'[s] = "down" /\ \A r \in Servers \ {s} : pc'[r] = pc[r]
      /\ lost' = lost \ {s} /\ \A r \in Servers \ {s} : saw'[r] = saw[r] /\ id'[r] = id[r]
  BY GotoIs DEF Stop, TypeOK
<1>2. Alone(s)
  BY <1>1 DEF Alone
<1>3. HeldBy("down") = {}
  BY HeldByAre
<1>4. "down" \notin Handling \cup {"ready"}
  BY DEF Handling, Reads, Pages
<1> QED
  BY <1>1, <1>2, <1>3, <1>4 DEF ServerIsCoherent

(* Rows that are written together with the ones they refer to, or after them. *)
LEMMA HoldsIsSound ==
  ASSUME TypeOK, RowsAreSound, rev' = rev, NEW ts, Holds(ts, "some"),
         ts \subseteq Tables \ {"agent_runs", "proposal_versions", "retrieval_evidence"},
         \A t \in ts : Born[t] <= rev /\ \A u \in Parents[t] : u \in ts \/ rows[u] # "none"
  PROVE  RowsAreSound' /\ Keeps
<1>1. \A t \in Tables : rows'[t] = IF t \in ts THEN "some" ELSE rows[t]
  BY DEF Holds
<1>2. \A t \in Tables : Parents[t] \subseteq Tables
  BY TablesAre DEF Parents
<1>3. RowsFit'
  BY <1>1 DEF RowsFit, RowsAreSound
<1>4. ParentsAreThere'
  BY <1>1, <1>2 DEF ParentsAreThere, RowsAreSound
<1>5. \A t \in {"agent_runs", "proposal_versions", "retrieval_evidence"} : rows'[t] = rows[t]
  BY <1>1, TablesAre
<1>6. ApprovalsRest'
  BY <1>5 DEF ApprovalsRest, RowsAreSound
<1> QED
  BY <1>1, <1>3, <1>4, <1>5, <1>6 DEF RowsAreSound, Keeps

(* A run may change its status while its task is there, and wait while its proposal does. *)
LEMMA RunIsSound ==
  ASSUME TypeOK, RowsAreSound, rev' = rev, NEW status, RunIs(status), status # "none",
         rows["tasks"] # "none",
         status = "waiting_approval" => rows["proposal_versions"] = "waiting_approval"
  PROVE  RowsAreSound' /\ Keeps /\ rows'["agent_runs"] # "none"
<1>1. \A t \in Tables : rows'[t] = IF t = "agent_runs" THEN status
                                   ELSE IF t = "audit_events" THEN "some" ELSE rows[t]
  BY DEF RunIs, TypeOK
<1>2. \A t \in Tables : Parents[t] \subseteq Tables
  BY TablesAre DEF Parents
<1>3. Parents["agent_runs"] = {"tasks"} /\ Parents["audit_events"] = {"tasks", "agent_runs"}
  BY DEF Parents
<1>4. RowsFit'
  BY <1>1, TablesAre, BornAre DEF RowsFit, RowsAreSound
<1>5. ParentsAreThere'
  <2>1. ASSUME NEW t \in Tables, rows'[t] # "none", NEW u \in Parents[t]
        PROVE  rows'[u] # "none"
    <3>1. t \notin {"agent_runs", "audit_events"} => rows[u] # "none"
      BY <1>1, <2>1 DEF ParentsAreThere, RowsAreSound
    <3>2. t \in {"agent_runs", "audit_events"} => u = "tasks" \/ u = "agent_runs"
      BY <1>3, <2>1
    <3>3. u \in Tables /\ "tasks" \in Tables
      BY <1>2, <2>1, TablesAre
    <3> QED
      BY <1>1, <3>1, <3>2, <3>3
  <2> QED
    BY <2>1 DEF ParentsAreThere
<1>6. /\ rows'["proposal_versions"] = rows["proposal_versions"]
      /\ rows'["retrieval_evidence"] = rows["retrieval_evidence"]
      /\ rows'["agent_runs"] = status
  BY <1>1, TablesAre
<1>7. ApprovalsRest'
  BY <1>6 DEF ApprovalsRest, RowsAreSound
<1> QED
  BY <1>1, <1>4, <1>5, <1>6, <1>7 DEF RowsAreSound, Keeps

(* Rows that stay as they are stay sound. *)
LEMMA SameRows ==
  ASSUME UNCHANGED <<rev, rows>>
  PROVE  (RowsAreSound => RowsAreSound') /\ Keeps
BY DEF RowsAreSound, RowsFit, ParentsAreThere, ApprovalsRest, Keeps

------------------------------------------------------------------------------
(* What transactions and migrations make of the rows. *)

(* Rows written together with the ones they refer to, or after them. *)
LEMMA WritesAreSound ==
  ASSUME RowsAreSound, rev' = rev, NEW ts, ts \subseteq Tables,
         \A t \in Tables \ ts : rows'[t] = rows[t],
         \A t \in ts : /\ rows'[t] # "none" /\ Born[t] <= rev
                       /\ \A u \in Parents[t] : u \in ts \/ rows[u] # "none"
  PROVE  RowsFit' /\ ParentsAreThere' /\ \A t \in Tables : rows[t] # "none" => rows'[t] # "none"
<1>1. \A t \in Tables : Parents[t] \subseteq Tables
  BY TablesAre DEF Parents
<1>2. \A t \in Tables : rows[t] # "none" => rows'[t] # "none"
  OBVIOUS
<1>3. RowsFit'
  BY DEF RowsFit, RowsAreSound
<1>4. ParentsAreThere'
  BY <1>1, <1>2 DEF ParentsAreThere, RowsAreSound
<1> QED
  BY <1>2, <1>3, <1>4

(* The decision and the draft refer to a run and a task that are there (Insert); no run
   waits and no evidence is bound before there is a draft. *)
LEMMA InsertIsSound ==
  ASSUME TypeOK, schema = SchemaAt[rev], RowsAreSound, NEW s \in Servers, ServerIsCoherent(s),
         Insert(s)
  PROVE  RowsAreSound' /\ Keeps /\ rows'["proposal_versions"] # "none"
<1> DEFINE ts == {"risk_decisions", "proposal_versions"}
<1>1. /\ rows' = [rows EXCEPT !["risk_decisions"] = "some",
                              !["proposal_versions"] = "draft_waiting_evidence"]
      /\ pc[s] = "insert" /\ Works(s) /\ s \notin lost /\ rev' = rev
      /\ rows["proposal_versions"] = "none"
  BY DEF Insert, Ready, At
<1>2. /\ \A t \in Tables \ ts : rows'[t] = rows[t]
      /\ rows'["risk_decisions"] = "some"
      /\ rows'["proposal_versions"] = "draft_waiting_evidence"
  BY <1>1, TablesAre DEF TypeOK
<1>3. Born["risk_decisions"] <= rev /\ Born["proposal_versions"] <= rev
  BY <1>1, UsedByAre, WorksMeans
<1>4. rows["tasks"] # "none" /\ rows["agent_runs"] # "none"
  BY <1>1, HeldByAre DEF ServerIsCoherent
<1>5. Parents["risk_decisions"] = {"agent_runs"}
      /\ Parents["proposal_versions"] = {"tasks", "agent_runs"}
  BY DEF Parents
<1>6. ts \subseteq Tables
  BY TablesAre
<1>7. \A t \in ts : /\ rows'[t] # "none" /\ Born[t] <= rev
                    /\ \A u \in Parents[t] : u \in ts \/ rows[u] # "none"
  BY <1>2, <1>3, <1>4, <1>5
<1>8. RowsFit' /\ ParentsAreThere' /\ \A t \in Tables : rows[t] # "none" => rows'[t] # "none"
  <2> HIDE DEF ts
  <2> QED
    BY <1>1, <1>2, <1>6, <1>7, WritesAreSound
<1>9. ApprovalsRest'
  <2>1. rows'["retrieval_evidence"] = rows["retrieval_evidence"]
        /\ rows'["agent_runs"] = rows["agent_runs"]
    BY <1>2, TablesAre
  <2> QED
    BY <1>1, <1>2, <2>1 DEF ApprovalsRest, RowsAreSound
<1> QED
  BY <1>1, <1>2, <1>8, <1>9 DEF RowsAreSound, Keeps

(* Evidence and the proposal's readiness are written at once, with the chunks and the policy
   they cite in place (Bind). *)
LEMMA BindIsSound ==
  ASSUME TypeOK, schema = SchemaAt[rev], RowsAreSound, NEW s \in Servers, ServerIsCoherent(s),
         Bind(s)
  PROVE  RowsAreSound' /\ Keeps /\ rows'["proposal_versions"] = "waiting_approval"
<1> DEFINE ts == {"retrieval_evidence", "proposal_versions"}
<1>1. /\ rows' = [rows EXCEPT !["retrieval_evidence"] = "some",
                              !["proposal_versions"] = "waiting_approval"]
      /\ pc[s] = "bind" /\ Works(s) /\ s \notin lost /\ rev' = rev
      /\ rows["policy_chunks"] # "none"
  BY DEF Bind, Ready, At
<1>2. /\ \A t \in Tables \ ts : rows'[t] = rows[t]
      /\ rows'["retrieval_evidence"] = "some"
      /\ rows'["proposal_versions"] = "waiting_approval"
  BY <1>1, TablesAre DEF TypeOK
<1>3. Born["retrieval_evidence"] <= rev /\ Born["proposal_versions"] <= rev
  BY <1>1, UsedByAre, WorksMeans
<1>4. rows["tasks"] # "none" /\ rows["agent_runs"] # "none"
  BY <1>1, HeldByAre DEF ServerIsCoherent
<1>5. Parents["policy_chunks"] = {"policy_document_versions"}
      /\ Parents["retrieval_evidence"] =
           {"proposal_versions", "policy_document_versions", "policy_chunks"}
      /\ Parents["proposal_versions"] = {"tasks", "agent_runs"}
  BY DEF Parents
<1>6. rows["policy_document_versions"] # "none"
  BY <1>1, <1>5, TablesAre DEF RowsAreSound, ParentsAreThere
<1>7. ts \subseteq Tables
  BY TablesAre
<1>8. \A t \in ts : /\ rows'[t] # "none" /\ Born[t] <= rev
                    /\ \A u \in Parents[t] : u \in ts \/ rows[u] # "none"
  BY <1>1, <1>2, <1>3, <1>4, <1>5, <1>6
<1>9. RowsFit' /\ ParentsAreThere' /\ \A t \in Tables : rows[t] # "none" => rows'[t] # "none"
  <2> HIDE DEF ts
  <2> QED
    BY <1>1, <1>2, <1>7, <1>8, WritesAreSound
<1>10. ApprovalsRest'
  BY <1>2 DEF ApprovalsRest
<1> QED
  BY <1>2, <1>9, <1>10 DEF RowsAreSound, Keeps

(* What the transactions of a server write. *)
LEMMA PublishIsSound ==
  ASSUME TypeOK, schema = SchemaAt[rev], RowsAreSound, NEW s \in Servers, Publish(s)
  PROVE  RowsAreSound' /\ Keeps
<1>1. policies = {"policy_document_versions", "policy_chunks"}
  BY DEF policies
<1>2. \A t \in policies : Born[t] <= rev
  BY UsedByAre, WorksMeans DEF Publish, Ready, At
<1>3. \A t \in policies : Parents[t] \subseteq policies
  BY <1>1 DEF Parents
<1>4. policies \subseteq Tables \ {"agent_runs", "proposal_versions", "retrieval_evidence"}
  BY <1>1, TablesAre
<1>5. \A t \in policies : Born[t] <= rev
      /\ \A u \in Parents[t] : u \in policies \/ rows[u] # "none"
  BY <1>2, <1>3
<1>6. Holds(policies, "some") /\ rev' = rev
  BY DEF Publish
<1> QED
  BY <1>4, <1>5, <1>6, HoldsIsSound, Zenon

(* The demo task is written with its request (SeedTask). *)
LEMMA SeedTaskIsSound ==
  ASSUME TypeOK, schema = SchemaAt[rev], RowsAreSound, NEW s \in Servers, SeedTask(s)
  PROVE  RowsAreSound' /\ Keeps /\ rows'["tasks"] # "none"
<1> DEFINE ts == {"tasks", "requests"}
<1>1. \A t \in ts : Born[t] <= rev
  BY UsedByAre, WorksMeans DEF SeedTask, Ready, At
<1>2. \A t \in ts : Parents[t] \subseteq ts
  BY DEF Parents
<1>3. ts \subseteq Tables \ {"agent_runs", "proposal_versions", "retrieval_evidence"}
  BY TablesAre
<1>4. \A t \in ts : Born[t] <= rev /\ \A u \in Parents[t] : u \in ts \/ rows[u] # "none"
  BY <1>1, <1>2
<1>5. Holds(ts, "some") /\ rev' = rev
  BY DEF SeedTask
<1>6. rows'["tasks"] = "some"
  BY <1>5, TablesAre DEF Holds
<1> HIDE DEF ts
<1>7. RowsAreSound' /\ Keeps
  BY <1>3, <1>4, <1>5, HoldsIsSound, Zenon
<1> QED
  BY <1>6, <1>7

(* The snapshots are written while their task is there (SeedContext). *)
LEMMA SeedContextIsSound ==
  ASSUME TypeOK, schema = SchemaAt[rev], RowsAreSound, NEW s \in Servers, ServerIsCoherent(s),
         SeedContext(s)
  PROVE  RowsAreSound' /\ Keeps
<1> DEFINE ts == {"customer_snapshots", "booking_snapshots"}
<1>1. pc[s] = "context" /\ s \notin lost /\ Works(s) /\ Holds(ts, "some") /\ rev' = rev
  BY DEF SeedContext, Ready, At
<1>2. \A t \in ts : Born[t] <= rev
  <2>1. ts \subseteq UsedBy["context"]
    BY UsedByAre DEF context
  <2> QED
    BY <1>1, <2>1, WorksMeans
<1>3. \A t \in ts : Parents[t] = {"tasks"}
  BY DEF Parents
<1>4. rows["tasks"] # "none"
  BY <1>1, HeldByAre DEF ServerIsCoherent
<1>5. ts \subseteq Tables \ {"agent_runs", "proposal_versions", "retrieval_evidence"}
  BY TablesAre
<1>6. \A t \in ts : Born[t] <= rev /\ \A u \in Parents[t] : u \in ts \/ rows[u] # "none"
  BY <1>2, <1>3, <1>4
<1> HIDE DEF ts
<1> QED
  BY <1>1, <1>5, <1>6, HoldsIsSound, Zenon

(* No migration commits while a proposal waits; what it leaves of the rows is sound. *)
LEMMA CommitIsSound ==
  ASSUME TypeOK, schema = SchemaAt[rev], RowsAreSound, NEW to \in 0 .. 5, to # rev,
         Commit(rev, to)
  PROVE  /\ rev' = to /\ schema' = SchemaAt[rev'] /\ RowsAreSound'
         /\ rows["proposal_versions"] # "waiting_approval"
         /\ lost' = lost \cup {s \in Servers :
                          \E t \in HeldBy(pc[s]) : rows[t] # "none" /\ rows'[t] = "none"}
<1>1. rev \in 0 .. 5
  BY RevisionsAre DEF TypeOK
<1>2. /\ rev' = to
      /\ schema' = SchemaAfter(SchemaAt[rev], Script[rev][to], Len(Script[rev][to]))
      /\ rows' = RowsAfter(rows, Script[rev][to], Len(Script[rev][to]))
      /\ lost' = lost \cup {s \in Servers :
                          \E t \in HeldBy(pc[s]) : rows[t] # "none" /\ rows'[t] = "none"}
      /\ GoesThrough(schema, rows, Script[rev][to])
  BY DEF Commit, Commits
<1>3. /\ schema' = SchemaAt[to]
      /\ \A t \in BornIn(to, rev) : rows'[t] = "none"
      /\ \A t \in Tables \ BornIn(to, rev) : rows'[t] = rows[t]
  <2>1. Migrates(rev, to, rows)
    BY <1>1, Migrated
  <2> QED
    BY <1>2, <2>1, Zenon DEF Migrates
<1>4. rows["proposal_versions"] # "waiting_approval"
  <2> SUFFICES ASSUME rows["proposal_versions"] = "waiting_approval" PROVE FALSE
    OBVIOUS
  <2>1. rows["retrieval_evidence"] # "none"
    BY DEF RowsAreSound, ApprovalsRest
  <2>2. rev = 5
    BY <1>1, <2>1, TablesAre, BornAre DEF RowsAreSound, RowsFit
  <2>3. to \in 0 .. 4
    BY <2>2
  <2> QED
    BY <1>2, <2>2, <2>3, RefusedWhileWaiting
<1>5. \A t \in Tables : /\ Born[t] \in Nat
                        /\ rows'[t] # "none" => rows'[t] = rows[t] /\ Born[t] <= rev /\ Born[t] <= to
                        /\ Born[t] <= to => rows'[t] = rows[t]
  <2>1. \A t \in Tables : Born[t] \in Nat
    BY TablesAre, BornAre
  <2>2. ASSUME NEW t \in Tables
        PROVE  rows'[t] = IF to < Born[t] /\ Born[t] <= rev THEN "none" ELSE rows[t]
    BY <1>1, <1>3, <2>1 DEF BornIn
  <2>3. \A t \in Tables : rows[t] # "none" => Born[t] <= rev
    BY DEF RowsAreSound, RowsFit
  <2> QED
    BY <1>1, <2>1, <2>2, <2>3
<1>6. RowsFit'
  BY <1>2, <1>5 DEF RowsFit
<1>7. ParentsAreThere'
  <2>1. ASSUME NEW t \in Tables, rows'[t] # "none", NEW u \in Parents[t]
        PROVE  rows'[u] # "none"
    <3>1. u \in Tables
      BY TablesAre DEF Parents
    <3>2. rows[u] # "none"
      BY <1>5, <2>1 DEF RowsAreSound, ParentsAreThere
    <3>3. Born[u] <= Born[t] /\ Born[t] <= to
      BY <1>5, <2>1, <3>1, ParentsAre
    <3>4. Born[u] <= to
      BY <1>5, <3>1, <3>3
    <3> QED
      BY <1>5, <3>1, <3>2, <3>4
  <2> QED
    BY <2>1 DEF ParentsAreThere
<1>8. ApprovalsRest'
  <2>1. rows["retrieval_evidence"] = "none" /\ rows["agent_runs"] # "waiting_approval"
    BY <1>4 DEF RowsAreSound, ApprovalsRest
  <2>2. {"retrieval_evidence", "agent_runs", "proposal_versions"} \subseteq Tables
    BY TablesAre
  <2>3. \A t \in Tables : rows'[t] # "none" => rows'[t] = rows[t]
    BY <1>5
  <2>4. rows'["retrieval_evidence"] = "none"
    BY <2>1, <2>2, <2>3
  <2>5. rows'["agent_runs"] # "waiting_approval"
        /\ rows'["proposal_versions"] # "waiting_approval"
    BY <1>4, <2>1, <2>2, <2>3
  <2> QED
    BY <2>4, <2>5 DEF ApprovalsRest
<1> QED
  BY <1>2, <1>3, <1>4, <1>6, <1>7, <1>8 DEF RowsAreSound

(* Whoever it takes rows from knows. *)
LEMMA CommitIsCoherent ==
  ASSUME TypeOK, schema = SchemaAt[rev], RowsAreSound, NEW to \in 0 .. 5, to # rev,
         Commit(rev, to), NEW r \in Servers, ServerIsCoherent(r),
         pc'[r] = pc[r], saw'[r] = saw[r], id'[r] = id[r]
  PROVE  ServerIsCoherent(r)'
<1>1. /\ rows["proposal_versions"] # "waiting_approval"
      /\ lost' = lost \cup {s \in Servers :
                          \E t \in HeldBy(pc[s]) : rows[t] # "none" /\ rows'[t] = "none"}
  BY CommitIsSound
<1>2. r \in lost' <=> r \in lost \/ \E t \in HeldBy(pc[r]) : rows[t] # "none" /\ rows'[t] = "none"
  BY <1>1
<1>3. r \notin lost' => \A t \in HeldBy(pc'[r]) : rows'[t] # "none"
  BY <1>2 DEF ServerIsCoherent
<1>4. r \in lost' => HeldBy(pc'[r]) # {} \/ pc'[r] = "publish"
  BY <1>2 DEF ServerIsCoherent
<1>5. /\ pc[r] # "park"
      /\ ~(pc[r] \in {"page_proposal", "page_evidence"} /\ saw[r] = "waiting_approval")
  BY <1>1 DEF ServerIsCoherent
<1>6. pc[r] \in Handling \cup {"ready"} => id[r] = "own"
  BY DEF ServerIsCoherent
<1> QED
  BY <1>3, <1>4, <1>5, <1>6 DEF ServerIsCoherent

(* A container's own migration (Migrate), one that finds nothing to do included. *)
LEMMA MigrateIsSound ==
  ASSUME IInv, NEW s \in Servers, Migrate(s)
  PROVE  Coherent'
<1>1. /\ pc[s] = "migrate" /\ saw' = saw /\ id' = id
      /\ pc'[s] = "checkpoints" /\ \A r \in Servers \ {s} : pc'[r] = pc[r]
  BY GotoIs DEF Migrate, At, IInv
<1>2. /\ TypeOK /\ schema = SchemaAt[rev] /\ RowsAreSound
      /\ \A r \in Servers : ServerIsCoherent(r)
  BY DEF IInv, Coherent, ServersAreCoherent
<1>3. HeldBy("migrate") = {} /\ HeldBy("checkpoints") = {}
  BY HeldByAre
<1>4. s \notin lost
  BY <1>1, <1>2, <1>3 DEF ServerIsCoherent
<1>5. "checkpoints" \notin Handling \cup {"ready"}
  BY DEF Handling, Reads, Pages
<1>6. ASSUME s \notin lost' PROVE ServerIsCoherent(s)'
  BY <1>1, <1>3, <1>5, <1>6 DEF ServerIsCoherent
<1>7. CASE read[s] = HeadRevision
  <2>1. UNCHANGED <<rev, schema, rows, checkpoints, lost>>
    BY <1>7 DEF Migrate, database
  <2>2. RowsAreSound' /\ Keeps
    BY <1>2, <2>1, SameRows
  <2>3. ServerIsCoherent(s)' /\ Alone(s)
    BY <1>1, <1>4, <1>6, <2>1 DEF Alone
  <2>4. ServersAreCoherent'
    BY <1>1, <1>2, <2>1, <2>2, <2>3, Moves DEF ServersAreCoherent
  <2> QED
    BY <1>2, <2>1, <2>2, <2>4 DEF Coherent
<1>8. CASE read[s] # HeadRevision
  <2>1. Commit(read[s], HeadRevision)
    BY <1>8 DEF Migrate
  <2>2. read[s] = rev
    BY <2>1 DEF Commit, Commits, StillAt
  <2>3. Commit(rev, 5) /\ 5 \in 0 .. 5 /\ 5 # rev
    BY <1>8, <2>1, <2>2, RevisionsAre
  <2>4. /\ schema' = SchemaAt[rev'] /\ RowsAreSound'
        /\ lost' = lost \cup {r \in Servers :
                         \E t \in HeldBy(pc[r]) : rows[t] # "none" /\ rows'[t] = "none"}
    BY <1>2, <2>3, CommitIsSound
  <2>5. s \notin lost'
    BY <1>1, <1>3, <1>4, <2>4
  <2>6. ASSUME NEW r \in Servers, r # s PROVE ServerIsCoherent(r)'
    BY <1>1, <1>2, <2>3, <2>6, CommitIsCoherent
  <2> QED
    BY <1>6, <2>4, <2>5, <2>6 DEF Coherent, ServersAreCoherent
<1> QED
  BY <1>7, <1>8

(* The operator's (Upgrade, Downgrade). *)
LEMMA AdministerIsSound ==
  ASSUME IInv, NEW to \in 0 .. 5, Administer(to)
  PROVE  Coherent'
<1>1. /\ TypeOK /\ schema = SchemaAt[rev] /\ RowsAreSound
      /\ \A r \in Servers : ServerIsCoherent(r)
  BY DEF IInv, Coherent, ServersAreCoherent
<1>2. /\ Commit(rev, to) /\ to # rev
      /\ pc' = pc /\ saw' = saw /\ id' = id
  BY DEF Administer
<1>3. \A r \in Servers : ServerIsCoherent(r)'
  BY <1>1, <1>2, CommitIsCoherent
<1>4. schema' = SchemaAt[rev'] /\ RowsAreSound'
  BY <1>1, <1>2, CommitIsSound
<1> QED
  BY <1>3, <1>4 DEF Coherent, ServersAreCoherent

(* An outage takes no row: who was about to write one has lost its transaction. *)
LEMMA OutageIsCoherent == ASSUME IInv, Outage PROVE Coherent'
<1>1. /\ schema = SchemaAt[rev] /\ RowsAreSound
      /\ \A s \in Servers : ServerIsCoherent(s)
  BY DEF IInv, Coherent, ServersAreCoherent
<1>2. /\ UNCHANGED <<rev, schema, rows, pc, saw, id>>
      /\ lost' = lost \cup {s \in Servers : pc[s] \in {"publish", "insert"}}
  BY DEF Outage, database, InTransaction
<1>3. RowsAreSound'
  BY <1>1, <1>2, SameRows
<1>4. HeldBy("insert") # {}
  BY HeldByAre
<1>5. ASSUME NEW s \in Servers PROVE ServerIsCoherent(s)'
  <2>1. s \in lost' <=> s \in lost \/ pc[s] \in {"publish", "insert"}
    BY <1>2
  <2> QED
    BY <1>1, <1>2, <1>4, <2>1 DEF ServerIsCoherent
<1> QED
  BY <1>1, <1>2, <1>3, <1>5 DEF Coherent, ServersAreCoherent

------------------------------------------------------------------------------
(* What steps make of the servers' requests. *)

(* What a step of s alone needs, for the rest of the invariant to go on. *)
LEMMA StaysCoherent ==
  ASSUME IInv, NEW s, Alone(s), UNCHANGED <<rev, schema>>, RowsAreSound', Keeps,
         ServerIsCoherent(s)'
  PROVE  Coherent'
BY Moves DEF IInv, Coherent

(* An answer that writes nothing. *)
LEMMA AnswerStaysCoherent ==
  ASSUME IInv, NEW s \in Servers, pc[s] \in Handling \cup {"ready"}, NEW response,
         Answers(s, response), UNCHANGED database
  PROVE  Coherent'
<1>1. Alone(s) /\ ServerIsCoherent(s)'
  BY AnswersIsCoherent DEF IInv, Coherent, ServersAreCoherent
<1>2. RowsAreSound' /\ Keeps
  BY SameRows DEF IInv, Coherent, database
<1> QED
  BY <1>1, <1>2, StaysCoherent DEF database

(* A container that stops. *)
LEMMA StopStaysCoherent ==
  ASSUME IInv, NEW s \in Servers, Stop(s)
  PROVE  Coherent'
<1>1. Alone(s) /\ ServerIsCoherent(s)'
  BY StopIsCoherent DEF IInv
<1>2. RowsAreSound' /\ Keeps
  BY SameRows DEF IInv, Coherent, database, Stop
<1> QED
  BY <1>1, <1>2, StaysCoherent DEF database, Stop

(* A container that goes on with what it has written or found. *)
LEMMA GoesOn ==
  ASSUME IInv, NEW s \in Servers, NEW step, Goto(s, step), s \notin lost,
         UNCHANGED <<lost, id>>, \A r \in Servers \ {s} : saw'[r] = saw[r],
         step \notin {"ready", "page_proposal", "page_evidence"},
         step \in Handling => pc[s] \in Handling,
         UNCHANGED <<rev, schema>>, RowsAreSound', Keeps,
         \A t \in HeldBy(step) : rows'[t] # "none",
         step = "park" => rows'["proposal_versions"] = "waiting_approval"
  PROVE  Coherent'
<1>1. Alone(s) /\ pc'[s] = step
  BY GotoIs DEF IInv, Alone
<1>2. step \in Handling => id[s] = "own"
  BY DEF IInv, Coherent, ServersAreCoherent, ServerIsCoherent
<1>3. ServerIsCoherent(s)'
  BY <1>1, <1>2 DEF ServerIsCoherent
<1> QED
  BY <1>1, <1>3, StaysCoherent

(* The same, with the rest of its request as it was. *)
LEMMA MovesOn ==
  ASSUME IInv, NEW s \in Servers, NEW step, Goto(s, step), UNCHANGED request, s \notin lost,
         step \notin {"ready", "page_proposal", "page_evidence"},
         step \in Handling => pc[s] \in Handling,
         UNCHANGED <<rev, schema>>, RowsAreSound', Keeps,
         \A t \in HeldBy(step) : rows'[t] # "none",
         step = "park" => rows'["proposal_versions"] = "waiting_approval"
  PROVE  Coherent'
BY GoesOn DEF request

(* A container that starts holds nothing, and is nothing to a request. *)
LEMMA BootStaysCoherent ==
  ASSUME IInv, NEW s \in Servers, NEW step, Goto(s, step), UNCHANGED request,
         HeldBy(pc[s]) = {}, pc[s] # "publish", HeldBy(step) = {},
         step \notin Handling \cup {"ready"}, UNCHANGED <<rev, schema, rows>>
  PROVE  Coherent'
<1>1. s \notin lost
  BY DEF IInv, Coherent, ServersAreCoherent, ServerIsCoherent
<1>2. RowsAreSound' /\ Keeps
  BY SameRows DEF IInv, Coherent
<1>3. step \notin {"ready", "park", "page_proposal", "page_evidence"}
  BY DEF Handling, Pages
<1> QED
  BY <1>1, <1>2, <1>3, MovesOn

(* Whether the container is to seed or to serve, it holds nothing yet. *)
LEMMA SeedingIs ==
  /\ HeldBy(Seeding) = {} /\ Seeding \notin Handling \cup {"ready"}
  /\ Seeding \in {"seed", "serving"}
BY HeldByAre DEF Seeding, Handling, Reads, Pages

(* Start. *)
LEMMA StartIsCoherent == ASSUME IInv, NEW s \in Servers, Start(s) PROVE Coherent'
<1> DEFINE step == IF "migrate" \in flags THEN "upgrade" ELSE Seeding
<1>1. /\ pc[s] = "down" /\ Goto(s, step) /\ UNCHANGED request
      /\ UNCHANGED <<rev, schema, rows>>
  BY DEF Start, At, database
<1>2. HeldBy("down") = {} /\ HeldBy("upgrade") = {}
  BY HeldByAre
<1>3. step \notin Handling \cup {"ready"} /\ HeldBy(step) = {}
  BY <1>2, SeedingIs DEF Handling, Reads, Pages
<1> HIDE DEF step
<1> QED
  BY <1>1, <1>2, <1>3, BootStaysCoherent

(* ReadRevision. *)
LEMMA ReadRevisionIsCoherent ==
  ASSUME IInv, NEW s \in Servers, ReadRevision(s) PROVE Coherent'
<1>1. /\ pc[s] = "upgrade" /\ Goto(s, "migrate") /\ UNCHANGED request
      /\ UNCHANGED <<rev, schema, rows>>
  BY DEF ReadRevision, Ready, At, database
<1>2. HeldBy("upgrade") = {} /\ HeldBy("migrate") = {}
  BY HeldByAre
<1>3. "migrate" \notin Handling \cup {"ready"}
  BY DEF Handling, Reads, Pages
<1> QED
  BY <1>1, <1>2, <1>3, BootStaysCoherent

(* SetUpCheckpoints. *)
LEMMA SetUpCheckpointsIsCoherent ==
  ASSUME IInv, NEW s \in Servers, SetUpCheckpoints(s) PROVE Coherent'
<1>1. /\ pc[s] = "checkpoints" /\ Goto(s, "ingest") /\ UNCHANGED request
      /\ UNCHANGED <<rev, schema, rows>>
  BY DEF SetUpCheckpoints, Ready, At
<1>2. HeldBy("checkpoints") = {} /\ HeldBy("ingest") = {}
  BY HeldByAre
<1>3. "ingest" \notin Handling \cup {"ready"}
  BY DEF Handling, Reads, Pages
<1> QED
  BY <1>1, <1>2, <1>3, BootStaysCoherent

(* Ingest. *)
LEMMA IngestIsCoherent == ASSUME IInv, NEW s \in Servers, Ingest(s) PROVE Coherent'
<1> DEFINE step == IF Found(policies) THEN Seeding ELSE "publish"
<1>1. /\ pc[s] = "ingest" /\ Goto(s, step) /\ UNCHANGED request
      /\ UNCHANGED <<rev, schema, rows>>
  BY DEF Ingest, Ready, At, database
<1>2. HeldBy("ingest") = {} /\ HeldBy("publish") = {}
  BY HeldByAre
<1>3. step \notin Handling \cup {"ready"} /\ HeldBy(step) = {}
  BY <1>2, SeedingIs DEF Handling, Reads, Pages
<1> HIDE DEF step
<1> QED
  BY <1>1, <1>2, <1>3, BootStaysCoherent

(* Publish. *)
LEMMA PublishIsCoherent == ASSUME IInv, NEW s \in Servers, Publish(s) PROVE Coherent'
<1>1. /\ s \notin lost /\ Goto(s, Seeding) /\ UNCHANGED request
      /\ UNCHANGED <<rev, schema>>
  BY DEF Publish, Ready
<1>2. RowsAreSound' /\ Keeps
  BY PublishIsSound DEF IInv, Coherent
<1> QED
  BY <1>1, <1>2, SeedingIs, MovesOn

(* FindTask: a task that is found is there for its context. *)
LEMMA FindTaskIsCoherent == ASSUME IInv, NEW s \in Servers, FindTask(s) PROVE Coherent'
<1>1. /\ s \notin lost /\ UNCHANGED request /\ UNCHANGED <<rev, schema, rows>>
  BY DEF FindTask, Ready, database
<1>2. RowsAreSound' /\ Keeps
  BY <1>1, SameRows DEF IInv, Coherent
<1>3. HeldBy("seed_task") = {} /\ HeldBy("context") = {"tasks"}
  BY HeldByAre
<1>4. "seed_task" \notin Handling /\ "context" \notin Handling
  BY DEF Handling, Reads, Pages
<1>5. CASE rows["tasks"] = "none"
  <2>1. Goto(s, "seed_task")
    BY <1>5 DEF FindTask
  <2> QED
    BY <1>1, <1>2, <1>3, <1>4, <2>1, MovesOn
<1>6. CASE rows["tasks"] # "none"
  <2>1. Goto(s, "context") /\ rows'["tasks"] # "none"
    BY <1>1, <1>6 DEF FindTask
  <2> QED
    BY <1>1, <1>2, <1>3, <1>4, <2>1, MovesOn
<1> QED
  BY <1>5, <1>6

(* SeedTask. *)
LEMMA SeedTaskIsCoherent == ASSUME IInv, NEW s \in Servers, SeedTask(s) PROVE Coherent'
<1>1. /\ s \notin lost /\ Goto(s, "seed_run") /\ UNCHANGED request
      /\ UNCHANGED <<rev, schema>>
  BY DEF SeedTask, Ready
<1>2. RowsAreSound' /\ Keeps /\ rows'["tasks"] # "none"
  BY SeedTaskIsSound DEF IInv, Coherent
<1>3. HeldBy("seed_run") = {"tasks"}
  BY HeldByAre
<1>4. "seed_run" \notin Handling
  BY DEF Handling, Reads, Pages
<1> QED
  BY <1>1, <1>2, <1>3, <1>4, MovesOn

(* SeedRun. *)
LEMMA SeedRunIsCoherent == ASSUME IInv, NEW s \in Servers, SeedRun(s) PROVE Coherent'
<1>1. /\ pc[s] = "seed_run" /\ s \notin lost /\ Goto(s, "context") /\ UNCHANGED request
      /\ UNCHANGED <<rev, schema>>
  BY DEF SeedRun, Ready, At, outside
<1>2. HeldBy("seed_run") = {"tasks"} /\ HeldBy("context") = {"tasks"} /\ "tasks" \in Tables
  BY HeldByAre, TablesAre
<1>3. rows["tasks"] # "none"
  BY <1>1, <1>2 DEF IInv, Coherent, ServersAreCoherent, ServerIsCoherent
<1>4. RowsAreSound' /\ Keeps
  <2>1. CASE RunIs("queued")
    BY <1>1, <1>3, <2>1, RunIsSound DEF IInv, Coherent
  <2>2. CASE UNCHANGED rows
    BY <1>1, <2>2, SameRows DEF IInv, Coherent
  <2> QED
    BY <2>1, <2>2 DEF SeedRun
<1>5. "context" \notin Handling
  BY DEF Handling, Reads, Pages
<1>6. rows'["tasks"] # "none"
  BY <1>2, <1>3, <1>4 DEF Keeps
<1> QED
  BY <1>1, <1>2, <1>4, <1>5, <1>6, MovesOn

(* SeedContext. *)
LEMMA SeedContextIsCoherent == ASSUME IInv, NEW s \in Servers, SeedContext(s) PROVE Coherent'
<1>1. /\ pc[s] = "context" /\ s \notin lost /\ Goto(s, "serving") /\ UNCHANGED request
      /\ UNCHANGED <<rev, schema>>
  BY DEF SeedContext, Ready, At, outside
<1>2. HeldBy("serving") = {}
  BY HeldByAre
<1>3. RowsAreSound' /\ Keeps
  BY SeedContextIsSound DEF IInv, Coherent, ServersAreCoherent
<1>4. "serving" \notin Handling
  BY DEF Handling, Reads, Pages
<1> QED
  BY <1>1, <1>2, <1>3, <1>4, MovesOn

(* Ask: the request gets its correlation ID and holds nothing yet. *)
LEMMA AskIsCoherent ==
  ASSUME IInv, NEW s \in Servers, NEW route \in {"load", "page_run", "ready"} \cup Reads,
         Ask(s, route)
  PROVE  Coherent'
<1>1. /\ pc[s] = "serving" /\ Goto(s, route) /\ id' = [id EXCEPT ![s] = "own"]
      /\ UNCHANGED <<rev, schema, rows, saw, lost>>
  BY DEF Ask, At, outside, database
<1>2. pc'[s] = route /\ \A r \in Servers \ {s} : pc'[r] = pc[r]
  BY <1>1, GotoIs DEF IInv
<1>3. id'[s] = "own" /\ \A r \in Servers \ {s} : id'[r] = id[r]
  BY <1>1 DEF IInv, TypeOK
<1>4. HeldBy("serving") = {} /\ HeldBy(route) = {}
  BY HeldByAre
<1>5. s \notin lost
  BY <1>1, <1>4 DEF IInv, Coherent, ServersAreCoherent, ServerIsCoherent
<1>6. route \notin {"park", "page_proposal", "page_evidence"}
  BY DEF Reads
<1>7. ServerIsCoherent(s)' /\ Alone(s)
  BY <1>1, <1>2, <1>3, <1>4, <1>5, <1>6 DEF ServerIsCoherent, Alone
<1>8. RowsAreSound' /\ Keeps
  BY <1>1, SameRows DEF IInv, Coherent
<1> QED
  BY <1>1, <1>7, <1>8, StaysCoherent

(* Deliver. *)
LEMMA DeliverIsCoherent == ASSUME IInv, NEW s \in Servers, Deliver(s) PROVE Coherent'
<1>1. /\ pc[s] = "reply" /\ Goto(s, "serving")
      /\ UNCHANGED <<rev, schema, rows, saw, lost, id>>
  BY DEF Deliver, At, outside, database
<1>2. pc'[s] = "serving" /\ \A r \in Servers \ {s} : pc'[r] = pc[r]
  BY <1>1, GotoIs DEF IInv
<1>3. HeldBy("reply") = {} /\ HeldBy("serving") = {}
  BY HeldByAre
<1>4. s \notin lost
  BY <1>1, <1>3 DEF IInv, Coherent, ServersAreCoherent, ServerIsCoherent
<1>5. "serving" \notin Handling \cup {"ready"}
  BY DEF Handling, Reads, Pages
<1>6. ServerIsCoherent(s)' /\ Alone(s)
  BY <1>1, <1>2, <1>3, <1>4, <1>5 DEF ServerIsCoherent, Alone
<1>7. RowsAreSound' /\ Keeps
  BY <1>1, SameRows DEF IInv, Coherent
<1> QED
  BY <1>1, <1>6, <1>7, StaysCoherent

(* The answers that leave the rows as they are. *)
LEMMA RefusalsAreCoherent ==
  ASSUME IInv, NEW s \in Servers,
         \/ TellReadiness(s) \/ NotConfigured(s) \/ Fails(s) \/ FindsItGone(s)
         \/ GetTask(s) \/ GetRun(s) \/ GetProposal(s) \/ GetPolicy(s) \/ InsertCollides(s)
         \/ EndUnbound(s) \/ ParkRefused(s) \/ Reread(s) \/ PageEvidence(s)
  PROVE  Coherent'
<1>1. /\ {"task", "agent_run", "proposal", "policy"} \subseteq Handling
      /\ {"insert", "bind", "park", "reread", "page_evidence"} \subseteq Handling
  BY DEF Handling, Reads, Pages
<1>2. CASE TellReadiness(s)
  BY <1>2, AnswerStaysCoherent DEF TellReadiness, At
<1>3. CASE NotConfigured(s)
  BY <1>3, AnswerStaysCoherent DEF NotConfigured
<1>4. CASE Fails(s)
  BY <1>4, AnswerStaysCoherent DEF Fails
<1>5. CASE FindsItGone(s)
  BY <1>5, AnswerStaysCoherent DEF FindsItGone
<1>6. ASSUME NEW route \in {"task", "agent_run", "proposal", "policy"}, Look(s, route)
      PROVE  Coherent'
  BY <1>1, <1>6, AnswerStaysCoherent DEF Look, Ready, At
<1>7. CASE EndUnbound(s)
  BY <1>1, <1>7, AnswerStaysCoherent DEF EndUnbound, Ready, At
<1>8. CASE PageEvidence(s)
  BY <1>1, <1>8, AnswerStaysCoherent DEF PageEvidence, At
<1>9. CASE InsertCollides(s)
  BY <1>1, <1>9, AnswerStaysCoherent DEF InsertCollides, Ready, At
<1>10. CASE ParkRefused(s) \/ Reread(s)
  BY <1>1, <1>10, AnswerStaysCoherent DEF ParkRefused, Reread, Ready, At
<1> QED
  BY <1>2, <1>3, <1>4, <1>5, <1>6, <1>7, <1>8, <1>9, <1>10
     DEF GetTask, GetRun, GetProposal, GetPolicy

(* LoadContext: the run goes on with a task it has found. *)
LEMMA LoadContextIsCoherent == ASSUME IInv, NEW s \in Servers, LoadContext(s) PROVE Coherent'
<1>1. pc[s] = "load" /\ s \notin lost /\ UNCHANGED <<outside, database>>
  BY DEF LoadContext, Ready, At
<1>2. "load" \in Handling
  BY DEF Handling
<1>3. CASE HasContext /\ Goto(s, "run") /\ UNCHANGED request
  <2>1. HeldBy("run") = {"tasks"} /\ rows'["tasks"] # "none"
    BY <1>1, <1>3, HeldByAre DEF HasContext, Found, context, database
  <2>2. RowsAreSound' /\ Keeps
    BY <1>1, SameRows DEF IInv, Coherent, database
  <2> QED
    BY <1>1, <1>2, <1>3, <2>1, <2>2, MovesOn DEF outside, database
<1>4. CASE Answers(s, Status(404))
  BY <1>1, <1>2, <1>4, AnswerStaysCoherent
<1> QED
  BY <1>3, <1>4 DEF LoadContext

(* A run goes on with its task. *)
LEMMA HeldTask ==
  ASSUME IInv, NEW s \in Servers, s \notin lost, pc[s] \in {"run", "begin", "check"}
  PROVE  rows["tasks"] # "none"
BY HeldByAre DEF IInv, Coherent, ServersAreCoherent, ServerIsCoherent

(* CreateRun. *)
LEMMA CreateRunIsCoherent == ASSUME IInv, NEW s \in Servers, CreateRun(s) PROVE Coherent'
<1>1. /\ pc[s] = "run" /\ s \notin lost /\ Goto(s, "begin") /\ UNCHANGED request
      /\ UNCHANGED <<rev, schema>> /\ RunIs("queued")
  BY DEF CreateRun, Ready, At, outside
<1>2. RowsAreSound' /\ Keeps /\ rows'["agent_runs"] # "none"
  BY <1>1, HeldTask, RunIsSound DEF IInv, Coherent
<1>3. rows'["tasks"] # "none"
  BY <1>1, <1>2, HeldTask, TablesAre DEF Keeps
<1>4. HeldBy("begin") = {"tasks", "agent_runs"}
  BY HeldByAre
<1>5. {"run", "begin"} \subseteq Handling
  BY DEF Handling
<1> QED
  BY <1>1, <1>2, <1>3, <1>4, <1>5, MovesOn

(* ResumeRun: a run that is there. *)
LEMMA ResumeRunIsCoherent == ASSUME IInv, NEW s \in Servers, ResumeRun(s) PROVE Coherent'
<1>1. /\ pc[s] = "run" /\ s \notin lost /\ Goto(s, "check") /\ UNCHANGED request
      /\ UNCHANGED <<rev, schema, rows>>
      /\ rows["agent_runs"] # "none"
  BY DEF ResumeRun, Ready, At, outside, database
<1>2. RowsAreSound' /\ Keeps
  BY <1>1, SameRows DEF IInv, Coherent
<1>3. HeldBy("check") = {"tasks", "agent_runs"}
  BY HeldByAre
<1>4. rows'["tasks"] # "none" /\ rows'["agent_runs"] # "none"
  BY <1>1, HeldTask
<1>5. {"run", "check"} \subseteq Handling
  BY DEF Handling
<1> QED
  BY <1>1, <1>2, <1>3, <1>4, <1>5, MovesOn

(* BeginRunning. *)
LEMMA BeginRunningIsCoherent ==
  ASSUME IInv, NEW s \in Servers, BeginRunning(s) PROVE Coherent'
<1>1. /\ pc[s] = "begin" /\ s \notin lost /\ Goto(s, "check") /\ UNCHANGED request
      /\ UNCHANGED <<rev, schema>> /\ RunIs("running")
  BY DEF BeginRunning, Ready, At, outside
<1>2. RowsAreSound' /\ Keeps /\ rows'["agent_runs"] # "none"
  BY <1>1, HeldTask, RunIsSound DEF IInv, Coherent
<1>3. rows'["tasks"] # "none"
  BY <1>1, <1>2, HeldTask, TablesAre DEF Keeps
<1>4. HeldBy("check") = {"tasks", "agent_runs"}
  BY HeldByAre
<1>5. {"begin", "check"} \subseteq Handling
  BY DEF Handling
<1> QED
  BY <1>1, <1>2, <1>3, <1>4, <1>5, MovesOn

(* CheckProposal. *)
LEMMA CheckProposalIsCoherent ==
  ASSUME IInv, NEW s \in Servers, CheckProposal(s) PROVE Coherent'
<1>1. pc[s] = "check" /\ s \notin lost /\ UNCHANGED <<outside, database>>
  BY DEF CheckProposal, Ready, At
<1>2. {"check", "graph"} \subseteq Handling
  BY DEF Handling
<1>3. CASE Goto(s, "graph") /\ UNCHANGED request
  <2>1. HeldBy("check") = {"tasks", "agent_runs"} /\ HeldBy("graph") = {"tasks", "agent_runs"}
    BY HeldByAre
  <2>2. \A t \in HeldBy("graph") : rows'[t] # "none"
    BY <1>1, <2>1 DEF IInv, Coherent, ServersAreCoherent, ServerIsCoherent, database
  <2>3. RowsAreSound' /\ Keeps
    BY <1>1, SameRows DEF IInv, Coherent, database
  <2> QED
    BY <1>1, <1>2, <1>3, <2>2, <2>3, MovesOn DEF outside, database
<1>4. CASE Answers(s, Status(201))
  BY <1>1, <1>2, <1>4, AnswerStaysCoherent
<1> QED
  BY <1>3, <1>4 DEF CheckProposal

(* The graph does not look at the database: what is lost is found out after it. *)
LEMMA InvokeGraphIsCoherent ==
  ASSUME IInv, NEW s \in Servers, InvokeGraph(s) PROVE Coherent'
<1>1. /\ pc[s] = "graph" /\ Goto(s, "persist") /\ UNCHANGED request
      /\ UNCHANGED <<rev, schema, rows>>
  BY DEF InvokeGraph, At, outside, database
<1>2. Alone(s) /\ pc'[s] = "persist" /\ saw' = saw /\ id' = id /\ lost' = lost
  BY <1>1, GotoIsAlone DEF IInv
<1>3. HeldBy("persist") = HeldBy("graph")
  BY HeldByAre
<1>4. {"graph", "persist"} \subseteq Handling
  BY DEF Handling
<1>5. ServerIsCoherent(s)
  BY DEF IInv, Coherent, ServersAreCoherent
<1>6. ServerIsCoherent(s)'
  BY <1>1, <1>2, <1>3, <1>4, <1>5 DEF ServerIsCoherent
<1>7. RowsAreSound' /\ Keeps
  BY <1>1, SameRows DEF IInv, Coherent
<1> QED
  BY <1>1, <1>2, <1>6, <1>7, StaysCoherent

(* The status a request has read is nothing to the others. *)
LEMMA SeesRunIs ==
  ASSUME TypeOK, NEW s \in Servers, SeesRun(s)
  PROVE  saw'[s] = rows["agent_runs"] /\ \A r \in Servers \ {s} : saw'[r] = saw[r]
BY DEF TypeOK, SeesRun

(* Persist: a proposal that is found is there to bind evidence to. *)
LEMMA PersistIsCoherent == ASSUME IInv, NEW s \in Servers, Persist(s) PROVE Coherent'
<1>1. /\ pc[s] = "persist" /\ s \notin lost /\ UNCHANGED <<lost, id>>
      /\ UNCHANGED <<rev, schema, rows>>
  BY DEF Persist, Ready, At, database
<1>2. RowsAreSound' /\ Keeps
  BY <1>1, SameRows DEF IInv, Coherent
<1>3. /\ HeldBy("persist") = {"tasks", "agent_runs"}
      /\ HeldBy("insert") = {"tasks", "agent_runs"}
      /\ HeldBy("bind") = {"tasks", "agent_runs", "proposal_versions"}
  BY HeldByAre
<1>4. rows["tasks"] # "none" /\ rows["agent_runs"] # "none"
  BY <1>1, <1>3 DEF IInv, Coherent, ServersAreCoherent, ServerIsCoherent
<1>5. {"persist", "insert", "bind"} \subseteq Handling
  BY DEF Handling
<1>6. CASE rows["proposal_versions"] = "none"
  <2>1. Goto(s, "insert") /\ saw' = saw
    BY <1>6 DEF Persist
  <2> QED
    BY <1>1, <1>2, <1>3, <1>4, <1>5, <2>1, GoesOn
<1>7. CASE rows["proposal_versions"] # "none"
  <2>1. Goto(s, "bind") /\ \A r \in Servers \ {s} : saw'[r] = saw[r]
    BY <1>7, SeesRunIs DEF Persist, IInv
  <2>2. \A t \in HeldBy("bind") : rows'[t] # "none"
    BY <1>1, <1>3, <1>4, <1>7
  <2> QED
    BY <1>1, <1>2, <1>5, <2>1, <2>2, GoesOn
<1> QED
  BY <1>6, <1>7

(* Insert: so is one that is inserted. *)
LEMMA InsertIsCoherent == ASSUME IInv, NEW s \in Servers, Insert(s) PROVE Coherent'
<1>1. /\ pc[s] = "insert" /\ s \notin lost /\ Goto(s, "bind") /\ UNCHANGED <<lost, id>>
      /\ UNCHANGED <<rev, schema>> /\ SeesRun(s)
  BY DEF Insert, Ready, At
<1>2. RowsAreSound' /\ Keeps /\ rows'["proposal_versions"] # "none"
  BY InsertIsSound DEF IInv, Coherent, ServersAreCoherent
<1>3. /\ HeldBy("insert") = {"tasks", "agent_runs"}
      /\ HeldBy("bind") = {"tasks", "agent_runs", "proposal_versions"}
      /\ {"tasks", "agent_runs"} \subseteq Tables
  BY HeldByAre, TablesAre
<1>4. rows["tasks"] # "none" /\ rows["agent_runs"] # "none"
  BY <1>1, <1>3 DEF IInv, Coherent, ServersAreCoherent, ServerIsCoherent
<1>5. \A t \in HeldBy("bind") : rows'[t] # "none"
  BY <1>2, <1>3, <1>4 DEF Keeps
<1>6. {"insert", "bind"} \subseteq Handling
  BY DEF Handling
<1>7. \A r \in Servers \ {s} : saw'[r] = saw[r]
  BY <1>1, SeesRunIs DEF IInv
<1> QED
  BY <1>1, <1>2, <1>5, <1>6, <1>7, GoesOn

(* Bind: the proposal about to be parked waits. *)
LEMMA BindIsCoherent == ASSUME IInv, NEW s \in Servers, Bind(s) PROVE Coherent'
<1>1. /\ pc[s] = "bind" /\ s \notin lost /\ Goto(s, "park") /\ UNCHANGED request
      /\ UNCHANGED <<rev, schema>>
  BY DEF Bind, Ready, At, outside
<1>2. RowsAreSound' /\ Keeps /\ rows'["proposal_versions"] = "waiting_approval"
  BY BindIsSound DEF IInv, Coherent, ServersAreCoherent
<1>3. HeldBy("bind") = HeldBy("park") /\ HeldBy("bind") \subseteq Tables
  BY HeldByAre
<1>4. \A t \in HeldBy("bind") : rows[t] # "none"
  BY <1>1 DEF IInv, Coherent, ServersAreCoherent, ServerIsCoherent
<1>5. \A t \in HeldBy("park") : rows'[t] # "none"
  BY <1>2, <1>3, <1>4 DEF Keeps
<1>6. {"bind", "park"} \subseteq Handling
  BY DEF Handling
<1> QED
  BY <1>1, <1>2, <1>5, <1>6, MovesOn

(* Park: the run waits with its proposal. *)
LEMMA ParkIsCoherent == ASSUME IInv, NEW s \in Servers, Park(s) PROVE Coherent'
<1>1. /\ pc[s] = "park" /\ s \notin lost /\ Goto(s, "reread") /\ UNCHANGED request
      /\ UNCHANGED <<rev, schema>> /\ RunIs("waiting_approval")
  BY DEF Park, Ready, At
<1>2. rows["tasks"] # "none" /\ rows["proposal_versions"] = "waiting_approval"
  BY <1>1, HeldByAre DEF IInv, Coherent, ServersAreCoherent, ServerIsCoherent
<1>3. RowsAreSound' /\ Keeps
  BY <1>1, <1>2, RunIsSound DEF IInv, Coherent
<1>4. HeldBy("park") = HeldBy("reread") /\ HeldBy("park") \subseteq Tables
  BY HeldByAre
<1>5. \A t \in HeldBy("park") : rows[t] # "none"
  BY <1>1 DEF IInv, Coherent, ServersAreCoherent, ServerIsCoherent
<1>6. \A t \in HeldBy("reread") : rows'[t] # "none"
  BY <1>3, <1>4, <1>5 DEF Keeps
<1>7. {"park", "reread"} \subseteq Handling
  BY DEF Handling
<1> QED
  BY <1>1, <1>3, <1>6, <1>7, MovesOn

(* PageRun: a page that sees a waiting run finds a waiting proposal. *)
LEMMA PageRunIsCoherent == ASSUME IInv, NEW s \in Servers, PageRun(s) PROVE Coherent'
<1>1. pc[s] = "page_run" /\ UNCHANGED <<outside, database>>
  BY DEF PageRun, At
<1>2. {"page_run", "page_proposal"} \subseteq Handling
  BY DEF Handling, Pages
<1>3. CASE Answers(s, Status(404))
  BY <1>1, <1>2, <1>3, AnswerStaysCoherent
<1>4. CASE /\ rows["agent_runs"] # "none" /\ SeesRun(s)
           /\ Goto(s, "page_proposal") /\ UNCHANGED <<lost, id, answer>>
  <2>1. pc'[s] = "page_proposal" /\ \A r \in Servers \ {s} : pc'[r] = pc[r]
    BY <1>4, GotoIs DEF IInv
  <2>2. saw'[s] = rows["agent_runs"] /\ \A r \in Servers \ {s} : saw'[r] = saw[r]
    BY <1>4, SeesRunIs DEF IInv
  <2>3. HeldBy("page_run") = {} /\ HeldBy("page_proposal") = {"agent_runs"}
    BY HeldByAre
  <2>4. s \notin lost /\ id[s] = "own"
    BY <1>1, <1>2, <2>3 DEF IInv, Coherent, ServersAreCoherent, ServerIsCoherent
  <2>5. rows["agent_runs"] = "waiting_approval" =>
          rows["proposal_versions"] = "waiting_approval"
    BY DEF IInv, Coherent, RowsAreSound, ApprovalsRest
  <2>6. UNCHANGED <<rev, schema, rows>>
    BY <1>1 DEF outside, database
  <2>7. ServerIsCoherent(s)' /\ Alone(s)
    BY <1>4, <2>1, <2>2, <2>3, <2>4, <2>5, <2>6 DEF ServerIsCoherent, Alone
  <2>8. RowsAreSound' /\ Keeps
    BY <2>6, SameRows DEF IInv, Coherent
  <2> QED
    BY <2>6, <2>7, <2>8, StaysCoherent
<1> QED
  BY <1>3, <1>4 DEF PageRun

(* PageProposal. *)
LEMMA PageProposalIsCoherent ==
  ASSUME IInv, NEW s \in Servers, PageProposal(s) PROVE Coherent'
<1>1. pc[s] = "page_proposal" /\ UNCHANGED <<outside, database>>
  BY DEF PageProposal, At
<1>2. {"page_proposal", "page_evidence"} \subseteq Handling
  BY DEF Handling, Pages
<1>3. CASE Answers(s, Page(s, FALSE))
  BY <1>1, <1>2, <1>3, AnswerStaysCoherent
<1>4. CASE /\ rows["proposal_versions"] # "none" /\ s \notin lost
           /\ Goto(s, "page_evidence") /\ UNCHANGED request
  <2>1. Alone(s) /\ pc'[s] = "page_evidence" /\ saw' = saw /\ id' = id /\ lost' = lost
    BY <1>4, GotoIsAlone DEF IInv
  <2>2. HeldBy("page_evidence") = {"proposal_versions"}
    BY HeldByAre
  <2>3. UNCHANGED <<rev, schema, rows>>
    BY <1>1 DEF outside, database
  <2>4. ServerIsCoherent(s)
    BY DEF IInv, Coherent, ServersAreCoherent
  <2>5. ServerIsCoherent(s)'
    BY <1>1, <1>2, <1>4, <2>1, <2>2, <2>3, <2>4 DEF ServerIsCoherent
  <2>6. RowsAreSound' /\ Keeps
    BY <2>3, SameRows DEF IInv, Coherent
  <2> QED
    BY <2>1, <2>3, <2>5, <2>6, StaysCoherent
<1> QED
  BY <1>3, <1>4 DEF PageProposal

------------------------------------------------------------------------------
(* Types. *)

Responses == [status : {0, 200, 201, 404, 500, 503}, run : Contents,
              id : {"none", "own"}, items : BOOLEAN]
OutsideTyped == /\ configured \in BOOLEAN /\ flags \subseteq {"migrate", "seed"}
                /\ up \in BOOLEAN /\ faults \in 0 .. MaxFaults
DatabaseTyped == checkpoints \in BOOLEAN /\ rev \in 0 .. HeadRevision
                 /\ rows \in [Tables -> Contents]
RequestTyped == /\ saw \in [Servers -> Contents] /\ lost \subseteq Servers
                /\ id \in [Servers -> {"none", "own"}] /\ answer \in [Servers -> Responses]
ServersTyped == /\ pc \in [Servers -> Steps] /\ read \in [Servers -> 0 .. HeadRevision]
                /\ RequestTyped

(* TypeOK in three parts: faults and configuration, database, servers. *)
LEMMA TypesAre == TypeOK <=> OutsideTyped /\ DatabaseTyped /\ ServersTyped
BY DEF TypeOK, OutsideTyped, DatabaseTyped, ServersTyped, RequestTyped, Responses

(* The same, for the next state. *)
LEMMA TypesAreKept == ASSUME OutsideTyped', DatabaseTyped', ServersTyped' PROVE TypeOK'
BY DEF TypeOK, OutsideTyped, DatabaseTyped, ServersTyped, RequestTyped, Responses

(* What status a response may have. *)
LEMMA ResponsesAre ==
  /\ NoAnswer \in Responses
  /\ \A code \in {200, 201, 404, 500, 503} : Status(code) \in Responses
<1>1. NoAnswer \in Responses
  BY DEF NoAnswer, Responses, Contents
<1>2. \A code \in {200, 201, 404, 500, 503} : Status(code) \in Responses
  <2>1. \A r \in Responses : \A code \in {200, 201, 404, 500, 503} :
          [r EXCEPT !.status = code] \in Responses
    BY DEF Responses
  <2> QED
    BY <1>1, <2>1 DEF Status
<1> QED
  BY <1>1, <1>2

(* A page of evidence is a response. *)
LEMMA PagesAre ==
  ASSUME TypeOK, NEW s \in Servers, NEW items \in BOOLEAN
  PROVE  Page(s, items) \in Responses
BY DEF TypeOK, Page, Responses

(* A server that answers keeps its type. *)
LEMMA AnswersIsTyped ==
  ASSUME ServersTyped, NEW s \in Servers, NEW response \in Responses, Answers(s, response),
         read' = read
  PROVE  ServersTyped'
<1>1. [response EXCEPT !.id = Header(s, response.status)] \in Responses
  BY DEF ServersTyped, RequestTyped, Header, Responses
<1>2. answer' \in [Servers -> Responses]
  BY <1>1 DEF ServersTyped, RequestTyped, Answers
<1>3. saw' \in [Servers -> Contents] /\ id' \in [Servers -> {"none", "own"}]
  BY DEF ServersTyped, RequestTyped, Answers, Contents
<1>4. pc' \in [Servers -> Steps]
  BY DEF ServersTyped, Answers, Goto, Steps
<1> QED
  BY <1>2, <1>3, <1>4 DEF ServersTyped, RequestTyped, Answers

(* So does one that stops. *)
LEMMA StopIsTyped ==
  ASSUME ServersTyped, DatabaseTyped, NEW s \in Servers, Stop(s)
  PROVE  ServersTyped' /\ DatabaseTyped'
<1>1. answer' \in [Servers -> Responses]
  BY ResponsesAre DEF ServersTyped, RequestTyped, Stop
<1>2. saw' \in [Servers -> Contents] /\ id' \in [Servers -> {"none", "own"}]
  BY DEF ServersTyped, RequestTyped, Stop, Contents
<1>3. pc' \in [Servers -> Steps]
  BY DEF ServersTyped, Stop, Goto, Steps, Boot
<1>4. read' \in [Servers -> 0 .. HeadRevision]
  BY RevisionsAre DEF ServersTyped, Stop
<1>5. DatabaseTyped'
  BY DEF DatabaseTyped, Stop, database
<1> QED
  BY <1>1, <1>2, <1>3, <1>4, <1>5 DEF ServersTyped, RequestTyped, Stop

(* So does one that moves. *)
LEMMA GotoIsTyped ==
  ASSUME ServersTyped, NEW s \in Servers, NEW step \in Steps, Goto(s, step)
  PROVE  pc' \in [Servers -> Steps]
BY DEF ServersTyped, Goto

(* A move that changes nothing else. *)
LEMMA MovesAreTyped ==
  ASSUME ServersTyped, NEW s \in Servers, NEW step \in Steps, Goto(s, step),
         UNCHANGED <<read, request>>
  PROVE  ServersTyped'
BY GotoIsTyped DEF ServersTyped, RequestTyped, request

(* What transactions write into the tables. *)
LEMMA RowsAreTyped ==
  ASSUME DatabaseTyped,
         \/ \E ts : Holds(ts, "some")
         \/ \E status \in Contents : RunIs(status)
         \/ UNCHANGED rows
  PROVE  rows' \in [Tables -> Contents]
<1>1. ASSUME NEW ts, Holds(ts, "some") PROVE rows' \in [Tables -> Contents]
  BY <1>1 DEF DatabaseTyped, Holds, Contents
<1>2. ASSUME NEW status \in Contents, RunIs(status) PROVE rows' \in [Tables -> Contents]
  BY <1>2 DEF DatabaseTyped, RunIs, Contents
<1> QED
  BY <1>1, <1>2 DEF DatabaseTyped

(* What a migration leaves of the rows. *)
LEMMA CommitIsTyped ==
  ASSUME TypeOK, NEW from, NEW to \in 0 .. HeadRevision, Commit(from, to)
  PROVE  DatabaseTyped' /\ lost' \subseteq Servers
<1>1. \A script, n : RowsAfter(rows, script, n) \in [Tables -> Contents]
  BY DEF TypeOK, RowsAfter, Contents
<1>2. rows' \in [Tables -> Contents]
  BY <1>1 DEF Commit
<1> QED
  BY <1>2 DEF TypeOK, DatabaseTyped, Commit

(* The steps of a container's start keep the types. *)
LEMMA BootsAreTyped ==
  ASSUME TypeOK, NEW s \in Servers,
         \/ Start(s) \/ ReadRevision(s) \/ Migrate(s) \/ SetUpCheckpoints(s) \/ Ingest(s)
         \/ Publish(s) \/ FindTask(s) \/ SeedTask(s) \/ SeedRun(s) \/ SeedContext(s)
         \/ BootFails(s)
  PROVE  TypeOK'
<1>1. OutsideTyped /\ DatabaseTyped /\ ServersTyped
  BY TypesAre
<1>2. OutsideTyped'
  BY <1>1 DEF OutsideTyped, outside, Start, ReadRevision, Migrate, SetUpCheckpoints, Ingest,
               Publish, FindTask, SeedTask, SeedRun, SeedContext, BootFails
<1>3. CASE Start(s)
  <2>1. ServersTyped'
    BY <1>1, <1>3, MovesAreTyped, SeedingIs DEF Start, Steps, Boot
  <2> QED
    BY <1>1, <1>2, <1>3, <2>1, TypesAreKept DEF Start, DatabaseTyped, database
<1>4. CASE ReadRevision(s)
  <2>1. pc' \in [Servers -> Steps]
    BY <1>1, <1>4, GotoIsTyped DEF ReadRevision, Steps, Boot
  <2>2. read' \in [Servers -> 0 .. HeadRevision]
    BY <1>4 DEF ReadRevision, TypeOK
  <2>3. ServersTyped'
    BY <1>1, <1>4, <2>1, <2>2 DEF ReadRevision, ServersTyped, RequestTyped, request
  <2> QED
    BY <1>1, <1>2, <1>4, <2>3, TypesAreKept DEF ReadRevision, DatabaseTyped, database
<1>5. CASE Migrate(s)
  <2>1. pc' \in [Servers -> Steps]
    BY <1>1, <1>5, GotoIsTyped DEF Migrate, Steps, Boot
  <2>2. read' \in [Servers -> 0 .. HeadRevision]
    BY <1>5, RevisionsAre DEF Migrate, TypeOK
  <2>3. DatabaseTyped' /\ lost' \subseteq Servers
    <3>1. CASE read[s] = HeadRevision
      BY <1>1, <1>5, <3>1 DEF Migrate, DatabaseTyped, database, ServersTyped, RequestTyped
    <3>2. CASE read[s] # HeadRevision
      BY <1>5, <3>2, CommitIsTyped, RevisionsAre DEF Migrate
    <3> QED
      BY <3>1, <3>2
  <2>4. ServersTyped'
    BY <1>1, <1>5, <2>1, <2>2, <2>3 DEF Migrate, ServersTyped, RequestTyped
  <2> QED
    BY <1>2, <2>3, <2>4, TypesAreKept
<1>6. CASE SetUpCheckpoints(s)
  <2>1. ServersTyped'
    BY <1>1, <1>6, MovesAreTyped DEF SetUpCheckpoints, Steps, Boot
  <2> QED
    BY <1>1, <1>2, <1>6, <2>1, TypesAreKept DEF SetUpCheckpoints, DatabaseTyped
<1>7. CASE Ingest(s) \/ FindTask(s)
  <2>1. PICK step \in {"publish", "seed", "serving", "seed_task", "context"} : Goto(s, step)
    BY <1>7, SeedingIs DEF Ingest, FindTask
  <2>2. step \in Steps
    BY <2>1 DEF Steps, Boot
  <2>3. ServersTyped'
    BY <1>1, <1>7, <2>1, <2>2, MovesAreTyped DEF Ingest, FindTask
  <2> QED
    BY <1>1, <1>2, <1>7, <2>3, TypesAreKept DEF Ingest, FindTask, DatabaseTyped, database
<1>8. CASE Publish(s) \/ SeedTask(s)
  <2>1. PICK step \in {"seed", "serving", "seed_run"} : Goto(s, step)
    BY <1>8, SeedingIs DEF Publish, SeedTask
  <2>2. step \in Steps
    BY <2>1 DEF Steps, Boot
  <2>3. ServersTyped'
    BY <1>1, <1>8, <2>1, <2>2, MovesAreTyped DEF Publish, SeedTask
  <2>4. rows' \in [Tables -> Contents]
    BY <1>1, <1>8, RowsAreTyped DEF Publish, SeedTask
  <2> QED
    BY <1>1, <1>2, <1>8, <2>3, <2>4, TypesAreKept DEF Publish, SeedTask, DatabaseTyped
<1>9. CASE SeedRun(s)
  <2>1. ServersTyped'
    BY <1>1, <1>9, MovesAreTyped DEF SeedRun, Steps, Boot
  <2>2. rows' \in [Tables -> Contents]
    <3>1. "queued" \in Contents
      BY DEF Contents
    <3> QED
      BY <1>1, <1>9, <3>1, RowsAreTyped DEF SeedRun
  <2> QED
    BY <1>1, <1>2, <1>9, <2>1, <2>2, TypesAreKept DEF SeedRun, DatabaseTyped
<1>10. CASE SeedContext(s)
  <2>1. ServersTyped'
    BY <1>1, <1>10, MovesAreTyped DEF SeedContext, Steps
  <2>2. rows' \in [Tables -> Contents]
    BY <1>1, <1>10, RowsAreTyped DEF SeedContext
  <2> QED
    BY <1>1, <1>2, <1>10, <2>1, <2>2, TypesAreKept DEF SeedContext, DatabaseTyped
<1>11. CASE BootFails(s)
  BY <1>1, <1>2, <1>11, StopIsTyped, TypesAreKept DEF BootFails
<1> QED
  BY <1>3, <1>4, <1>5, <1>6, <1>7, <1>8, <1>9, <1>10, <1>11


(* The requests that write nothing ... *)
LEMMA AnswersKeepTypes ==
  ASSUME TypeOK, NEW s \in Servers, NEW response \in Responses, Answers(s, response),
         UNCHANGED <<outside, database, read>>
  PROVE  TypeOK'
<1>1. OutsideTyped /\ DatabaseTyped /\ ServersTyped
  BY TypesAre
<1>2. ServersTyped'
  BY <1>1, AnswersIsTyped
<1>3. OutsideTyped' /\ DatabaseTyped'
  BY <1>1 DEF OutsideTyped, DatabaseTyped, outside, database
<1> QED
  BY <1>2, <1>3, TypesAreKept

(* A move with nothing else changed. *)
LEMMA MovesKeepTypes ==
  ASSUME TypeOK, NEW s \in Servers, NEW step \in Steps, Goto(s, step), UNCHANGED request,
         UNCHANGED <<outside, database, read>>
  PROVE  TypeOK'
<1>1. OutsideTyped /\ DatabaseTyped /\ ServersTyped
  BY TypesAre
<1>2. ServersTyped'
  BY <1>1, MovesAreTyped
<1>3. OutsideTyped' /\ DatabaseTyped'
  BY <1>1 DEF OutsideTyped, DatabaseTyped, outside, database
<1> QED
  BY <1>2, <1>3, TypesAreKept

(* Neither does reading the run. *)
LEMMA SeesRunIsTyped == ASSUME TypeOK, NEW s, SeesRun(s) PROVE saw' \in [Servers -> Contents]
<1>1. "agent_runs" \in Tables
  BY TablesAre
<1>2. rows["agent_runs"] \in Contents /\ saw \in [Servers -> Contents]
  BY <1>1 DEF TypeOK
<1> QED
  BY <1>2 DEF SeesRun

(* A move that reads the run. *)
LEMMA SeersKeepTypes ==
  ASSUME TypeOK, NEW s \in Servers, NEW step \in Steps, Goto(s, step), SeesRun(s),
         UNCHANGED <<lost, id, answer>>, UNCHANGED <<outside, database, read>>
  PROVE  TypeOK'
<1>1. OutsideTyped /\ DatabaseTyped /\ ServersTyped
  BY TypesAre
<1>2. saw' \in [Servers -> Contents] /\ pc' \in [Servers -> Steps]
  BY <1>1, GotoIsTyped, SeesRunIsTyped
<1>3. ServersTyped'
  BY <1>1, <1>2 DEF ServersTyped, RequestTyped
<1>4. OutsideTyped' /\ DatabaseTyped'
  BY <1>1 DEF OutsideTyped, DatabaseTyped, outside, database
<1> QED
  BY <1>3, <1>4, TypesAreKept

(* The steps of requests that write nothing. *)
LEMMA ReadersAreTyped ==
  ASSUME TypeOK, NEW s \in Servers,
         \/ Deliver(s) \/ TellReadiness(s) \/ NotConfigured(s) \/ Fails(s) \/ FindsItGone(s)
         \/ GetTask(s) \/ GetRun(s) \/ GetProposal(s) \/ GetPolicy(s)
         \/ LoadContext(s) \/ ResumeRun(s) \/ CheckProposal(s) \/ InvokeGraph(s) \/ Persist(s)
         \/ InsertCollides(s) \/ EndUnbound(s) \/ ParkRefused(s) \/ Reread(s)
         \/ PageRun(s) \/ PageProposal(s) \/ PageEvidence(s)
  PROVE  TypeOK'
<1>1. OutsideTyped /\ DatabaseTyped /\ ServersTyped
  BY TypesAre
<1>2. /\ {"serving", "run", "check", "graph", "persist", "insert", "bind"} \subseteq Steps
      /\ {"page_proposal", "page_evidence"} \subseteq Steps
  BY DEF Steps, Handling, Pages
<1>3. CASE Deliver(s)
  <2>1. pc' \in [Servers -> Steps]
    BY <1>1, <1>2, <1>3, GotoIsTyped DEF Deliver
  <2>2. answer' \in [Servers -> Responses]
    BY <1>1, <1>3, ResponsesAre DEF Deliver, ServersTyped, RequestTyped
  <2>3. ServersTyped'
    BY <1>1, <1>3, <2>1, <2>2 DEF Deliver, ServersTyped, RequestTyped
  <2>4. OutsideTyped' /\ DatabaseTyped'
    BY <1>1, <1>3 DEF Deliver, OutsideTyped, DatabaseTyped, outside, database
  <2> QED
    BY <2>3, <2>4, TypesAreKept
<1>4. CASE TellReadiness(s)
  BY <1>4, ResponsesAre, AnswersKeepTypes DEF TellReadiness
<1>5. CASE NotConfigured(s)
  BY <1>5, ResponsesAre, AnswersKeepTypes DEF NotConfigured
<1>6. CASE Fails(s)
  BY <1>6, ResponsesAre, AnswersKeepTypes DEF Fails
<1>7. CASE FindsItGone(s)
  BY <1>7, ResponsesAre, AnswersKeepTypes DEF FindsItGone, Outcomes
<1>8. ASSUME NEW route, Look(s, route) PROVE TypeOK'
  BY <1>8, ResponsesAre, AnswersKeepTypes DEF Look
<1>9. CASE LoadContext(s)
  <2>1. CASE Answers(s, Status(404))
    BY <1>9, <2>1, ResponsesAre, AnswersKeepTypes DEF LoadContext
  <2>2. CASE Goto(s, "run") /\ UNCHANGED request
    BY <1>2, <1>9, <2>2, MovesKeepTypes DEF LoadContext
  <2> QED
    BY <1>9, <2>1, <2>2 DEF LoadContext
<1>10. CASE ResumeRun(s)
  BY <1>2, <1>10, MovesKeepTypes DEF ResumeRun
<1>11. CASE CheckProposal(s)
  <2>1. CASE Answers(s, Status(201))
    BY <1>11, <2>1, ResponsesAre, AnswersKeepTypes DEF CheckProposal
  <2>2. CASE Goto(s, "graph") /\ UNCHANGED request
    BY <1>2, <1>11, <2>2, MovesKeepTypes DEF CheckProposal
  <2> QED
    BY <1>11, <2>1, <2>2 DEF CheckProposal
<1>12. CASE InvokeGraph(s)
  BY <1>2, <1>12, MovesKeepTypes DEF InvokeGraph
<1>13. CASE EndUnbound(s)
  BY <1>13, ResponsesAre, AnswersKeepTypes DEF EndUnbound
<1>14. CASE PageRun(s)
  <2>1. CASE Answers(s, Status(404))
    BY <1>14, <2>1, ResponsesAre, AnswersKeepTypes DEF PageRun
  <2>2. CASE SeesRun(s) /\ Goto(s, "page_proposal") /\ UNCHANGED <<lost, id, answer>>
    BY <1>2, <1>14, <2>2, SeersKeepTypes DEF PageRun
  <2> QED
    BY <1>14, <2>1, <2>2 DEF PageRun
<1>15. CASE PageProposal(s)
  <2>1. CASE Answers(s, Page(s, FALSE))
    BY <1>15, <2>1, PagesAre, AnswersKeepTypes DEF PageProposal
  <2>2. CASE Goto(s, "page_evidence") /\ UNCHANGED request
    BY <1>2, <1>15, <2>2, MovesKeepTypes DEF PageProposal
  <2> QED
    BY <1>15, <2>1, <2>2 DEF PageProposal
<1>16. CASE PageEvidence(s)
  <2>1. PICK items \in BOOLEAN : Answers(s, Page(s, items))
    BY <1>16 DEF PageEvidence
  <2> QED
    BY <1>16, <2>1, PagesAre, AnswersKeepTypes DEF PageEvidence
<1>17. CASE Persist(s)
  <2>1. CASE Goto(s, "insert") /\ UNCHANGED saw
    BY <1>2, <1>17, <2>1, MovesKeepTypes DEF Persist, request
  <2>2. CASE Goto(s, "bind") /\ SeesRun(s)
    BY <1>2, <1>17, <2>2, SeersKeepTypes DEF Persist
  <2> QED
    BY <1>17, <2>1, <2>2 DEF Persist
<1>18. CASE InsertCollides(s) \/ ParkRefused(s) \/ Reread(s)
  BY <1>18, ResponsesAre, AnswersKeepTypes DEF InsertCollides, ParkRefused, Reread
<1> QED
  BY <1>3, <1>4, <1>5, <1>6, <1>7, <1>8, <1>9, <1>10, <1>11, <1>12, <1>13, <1>14, <1>15, <1>16,
     <1>17, <1>18
     DEF GetTask, GetRun, GetProposal, GetPolicy

(* ... and those that do. *)
LEMMA WritersAreTyped ==
  ASSUME TypeOK, NEW s \in Servers,
         CreateRun(s) \/ BeginRunning(s) \/ Insert(s) \/ Bind(s) \/ Park(s)
  PROVE  TypeOK'
<1>1. OutsideTyped /\ DatabaseTyped /\ ServersTyped
  BY TypesAre
<1>2. {"begin", "check", "bind", "park", "reread"} \subseteq Steps
  BY DEF Steps, Handling
<1>3. OutsideTyped' /\ UNCHANGED <<rev, checkpoints, read>>
  BY <1>1 DEF OutsideTyped, outside, CreateRun, BeginRunning, Insert, Bind, Park
<1>4. {"queued", "running", "waiting_approval", "draft_waiting_evidence", "some"} \subseteq Contents
  BY DEF Contents
<1>5. rows' \in [Tables -> Contents]
  <2>1. CASE CreateRun(s) \/ BeginRunning(s) \/ Park(s)
    BY <1>1, <1>4, <2>1, RowsAreTyped DEF CreateRun, BeginRunning, Park
  <2>2. CASE Insert(s)
    BY <1>1, <1>4, <2>2 DEF Insert, DatabaseTyped
  <2>3. CASE Bind(s)
    BY <1>1, <1>4, <2>3 DEF Bind, DatabaseTyped
  <2> QED
    BY <2>1, <2>2, <2>3
<1>6. ServersTyped'
  <2>1. CASE CreateRun(s)
    BY <1>1, <1>2, <2>1, MovesAreTyped DEF CreateRun
  <2>2. CASE BeginRunning(s)
    BY <1>1, <1>2, <2>2, MovesAreTyped DEF BeginRunning
  <2>3. CASE Insert(s)
    <3>1. saw' \in [Servers -> Contents] /\ pc' \in [Servers -> Steps]
      BY <1>1, <1>2, <2>3, GotoIsTyped, SeesRunIsTyped DEF Insert
    <3> QED
      BY <1>1, <2>3, <3>1 DEF Insert, ServersTyped, RequestTyped
  <2>4. CASE Bind(s)
    BY <1>1, <1>2, <2>4, MovesAreTyped DEF Bind
  <2>5. CASE Park(s)
    BY <1>1, <1>2, <2>5, MovesAreTyped DEF Park
  <2> QED
    BY <2>1, <2>2, <2>3, <2>4, <2>5
<1>7. DatabaseTyped'
  BY <1>1, <1>3, <1>5 DEF DatabaseTyped
<1> QED
  BY <1>3, <1>6, <1>7, TypesAreKept

(* The steps that are no server's own work. *)
LEMMA OthersAreTyped ==
  ASSUME TypeOK,
         \/ \E s \in Servers : \/ Die(s)
                              \/ \E route \in {"load", "page_run", "ready"} \cup Reads : Ask(s, route)
         \/ Upgrade \/ (\E to \in 0 .. HeadRevision : Downgrade(to)) \/ Outage \/ Recover
  PROVE  TypeOK'
<1>1. OutsideTyped /\ DatabaseTyped /\ ServersTyped
  BY TypesAre
<1>2. faults \in 0 .. MaxFaults /\ MaxFaults \in Nat
      /\ (faults < MaxFaults => faults + 1 \in 0 .. MaxFaults)
  BY <1>1, DeploymentAssumption DEF OutsideTyped
<1>3. ASSUME NEW s \in Servers, Die(s) PROVE TypeOK'
  <2>1. OutsideTyped'
    BY <1>1, <1>2, <1>3 DEF Die, OutsideTyped
  <2>2. ServersTyped' /\ DatabaseTyped'
    BY <1>1, <1>3, StopIsTyped DEF Die
  <2> QED
    BY <2>1, <2>2, TypesAreKept
<1>4. ASSUME NEW s \in Servers, NEW route \in {"load", "page_run", "ready"} \cup Reads,
             Ask(s, route)
      PROVE  TypeOK'
  <2>1. route \in Steps
    BY DEF Steps, Handling, Pages
  <2>2. pc' \in [Servers -> Steps]
    BY <1>1, <1>4, <2>1, GotoIsTyped DEF Ask
  <2>3. id' \in [Servers -> {"none", "own"}]
    BY <1>1, <1>4 DEF Ask, ServersTyped, RequestTyped
  <2>4. ServersTyped'
    BY <1>1, <1>4, <2>2, <2>3 DEF Ask, ServersTyped, RequestTyped
  <2>5. OutsideTyped' /\ DatabaseTyped'
    BY <1>1, <1>4 DEF Ask, OutsideTyped, DatabaseTyped, outside, database
  <2> QED
    BY <2>4, <2>5, TypesAreKept
<1>5. ASSUME NEW to \in 0 .. HeadRevision, Administer(to), faults' \in 0 .. MaxFaults
      PROVE  TypeOK'
  <2>1. DatabaseTyped' /\ lost' \subseteq Servers
    BY <1>5, CommitIsTyped DEF Administer
  <2>2. ServersTyped' /\ OutsideTyped'
    BY <1>1, <1>5, <2>1 DEF Administer, ServersTyped, RequestTyped, OutsideTyped
  <2> QED
    BY <2>1, <2>2, TypesAreKept
<1>6. ASSUME Upgrade PROVE TypeOK'
  <2>1. HeadRevision \in 0 .. HeadRevision
    BY RevisionsAre
  <2> QED
    BY <1>2, <1>5, <1>6, <2>1 DEF Upgrade
<1>7. ASSUME NEW to \in 0 .. HeadRevision, Downgrade(to) PROVE TypeOK'
  BY <1>2, <1>5, <1>7 DEF Downgrade
<1>8. ASSUME Outage \/ Recover PROVE TypeOK'
  <2>1. OutsideTyped'
    BY <1>1, <1>2, <1>8 DEF Outage, Recover, OutsideTyped
  <2>2. DatabaseTyped' /\ ServersTyped'
    BY <1>1, <1>8 DEF Outage, Recover, DatabaseTyped, ServersTyped, RequestTyped, database, request
  <2> QED
    BY <2>1, <2>2, TypesAreKept
<1> QED
  BY <1>3, <1>4, <1>6, <1>7, <1>8

------------------------------------------------------------------------------
(* The theorems. *)

(* The invariant holds at first: nothing is there. *)
LEMMA InitIsCoherent == Init => IInv
<1> SUFFICES ASSUME Init PROVE IInv
  OBVIOUS
<1>1. TypeOK
  <2>1. OutsideTyped
    BY DeploymentAssumption DEF Init, OutsideTyped
  <2>2. DatabaseTyped
    <3>1. Empty \in [Tables -> Contents]
      BY DEF Empty, Contents
    <3>2. 0 \in 0 .. HeadRevision
      BY RevisionsAre
    <3> QED
      BY <3>1, <3>2, Zenon DEF Init, DatabaseTyped
  <2>3. answer \in [Servers -> Responses]
    BY ResponsesAre DEF Init
  <2>4. pc \in [Servers -> Steps] /\ read \in [Servers -> 0 .. HeadRevision]
    BY RevisionsAre DEF Init, Steps, Boot
  <2>5. ServersTyped
    BY <2>3, <2>4 DEF Init, ServersTyped, RequestTyped, Contents
  <2> QED
    BY <2>1, <2>2, <2>5, TypesAre
<1>2. schema = SchemaAt[rev]
  <2>1. SchemaAt[0] = Nothing
    <3>1. \A t \in Tables : 0 < Born[t]
      BY TablesAre, BornAre
    <3>2. Revised(0) = Nothing
      BY <3>1 DEF Nothing, Revised
    <3> QED
      BY <3>2, SchemaOf
  <2> QED
    BY <2>1, Zenon DEF Init
<1>3. \A t \in Tables : rows[t] = "none"
  BY DEF Init, Empty
<1>4. RowsAreSound
  <2>1. {"proposal_versions", "retrieval_evidence", "agent_runs"} \subseteq Tables
    BY TablesAre
  <2> QED
    BY <1>3, <2>1 DEF RowsAreSound, RowsFit, ParentsAreThere, ApprovalsRest
<1>5. ServersAreCoherent
  <2>1. HeldBy("down") = {}
    BY HeldByAre
  <2>2. "down" \notin Handling \cup {"ready"}
    BY DEF Handling, Reads, Pages
  <2>3. \A s \in Servers : pc[s] = "down" /\ s \notin lost
    BY DEF Init
  <2> QED
    BY <2>1, <2>2, <2>3 DEF ServersAreCoherent, ServerIsCoherent
<1> QED
  BY <1>1, <1>2, <1>4, <1>5 DEF IInv, Coherent

(* A server's steps keep the types ... *)
LEMMA StepIsTyped == ASSUME TypeOK, NEW s \in Servers, Step(s) PROVE TypeOK'
BY BootsAreTyped, ReadersAreTyped, WritersAreTyped DEF Step

(* ... and the rest of the invariant. *)
LEMMA StepIsCoherent == ASSUME IInv, NEW s \in Servers, Step(s) PROVE Coherent'
<1>1. CASE BootFails(s)
  BY <1>1, StopStaysCoherent DEF BootFails
<1>2. CASE Start(s) \/ ReadRevision(s) \/ Migrate(s) \/ SetUpCheckpoints(s) \/ Ingest(s)
           \/ Publish(s) \/ FindTask(s) \/ SeedTask(s) \/ SeedRun(s) \/ SeedContext(s)
  BY <1>2, StartIsCoherent, ReadRevisionIsCoherent, MigrateIsSound, SetUpCheckpointsIsCoherent,
     IngestIsCoherent, PublishIsCoherent, FindTaskIsCoherent, SeedTaskIsCoherent,
     SeedRunIsCoherent, SeedContextIsCoherent
<1>3. CASE \/ TellReadiness(s) \/ NotConfigured(s) \/ Fails(s) \/ FindsItGone(s)
           \/ GetTask(s) \/ GetRun(s) \/ GetProposal(s) \/ GetPolicy(s) \/ InsertCollides(s)
           \/ EndUnbound(s) \/ ParkRefused(s) \/ Reread(s) \/ PageEvidence(s)
  BY <1>3, RefusalsAreCoherent
<1>4. CASE \/ Deliver(s) \/ LoadContext(s) \/ CreateRun(s) \/ ResumeRun(s) \/ BeginRunning(s)
           \/ CheckProposal(s) \/ InvokeGraph(s) \/ Persist(s) \/ Insert(s) \/ Bind(s)
           \/ Park(s) \/ PageRun(s) \/ PageProposal(s)
  BY <1>4, DeliverIsCoherent, LoadContextIsCoherent, CreateRunIsCoherent, ResumeRunIsCoherent,
     BeginRunningIsCoherent, CheckProposalIsCoherent, InvokeGraphIsCoherent, PersistIsCoherent,
     InsertIsCoherent, BindIsCoherent, ParkIsCoherent, PageRunIsCoherent, PageProposalIsCoherent
<1> QED
  BY <1>1, <1>2, <1>3, <1>4 DEF Step

(* So does every step. *)
LEMMA NextIsCoherent == IInv /\ [Next]_vars => IInv'
<1> SUFFICES ASSUME IInv, [Next]_vars PROVE IInv'
  OBVIOUS
<1>1. ASSUME NEW s \in Servers, Step(s) PROVE IInv'
  BY <1>1, StepIsTyped, StepIsCoherent DEF IInv
<1>2. ASSUME NEW s \in Servers, Die(s) PROVE IInv'
  <2>1. TypeOK'
    BY <1>2, OthersAreTyped DEF IInv
  <2> QED
    BY <1>2, <2>1, StopStaysCoherent DEF Die, IInv
<1>3. ASSUME NEW s \in Servers, NEW route \in {"load", "page_run", "ready"} \cup Reads,
             Ask(s, route)
      PROVE  IInv'
  <2>1. TypeOK'
    BY <1>3, OthersAreTyped DEF IInv
  <2> QED
    BY <1>3, <2>1, AskIsCoherent DEF IInv
<1>4. ASSUME NEW to \in 0 .. HeadRevision, Administer(to), TypeOK' PROVE IInv'
  BY <1>4, AdministerIsSound, RevisionsAre DEF IInv
<1>5. CASE Upgrade
  <2>1. TypeOK'
    BY <1>5, OthersAreTyped DEF IInv
  <2>2. HeadRevision \in 0 .. HeadRevision
    BY RevisionsAre
  <2> QED
    BY <1>4, <1>5, <2>1, <2>2 DEF Upgrade
<1>6. ASSUME NEW to \in 0 .. HeadRevision, Downgrade(to) PROVE IInv'
  <2>1. TypeOK'
    BY <1>6, OthersAreTyped DEF IInv
  <2> QED
    BY <1>4, <1>6, <2>1 DEF Downgrade
<1>7. ASSUME UNCHANGED <<database, pc, request>>, TypeOK' PROVE IInv'
  <2>1. RowsAreSound' /\ Keeps
    BY <1>7, SameRows DEF IInv, Coherent, database
  <2>2. \A s \in Servers : ServerIsCoherent(s)'
    BY <1>7 DEF IInv, Coherent, ServersAreCoherent, ServerIsCoherent, database, request
  <2> QED
    BY <1>7, <2>1, <2>2 DEF IInv, Coherent, ServersAreCoherent, database
<1>8. CASE Recover
  <2>1. TypeOK'
    BY <1>8, OthersAreTyped DEF IInv
  <2> QED
    BY <1>7, <1>8, <2>1 DEF Recover
<1>9. CASE UNCHANGED vars
  <2>1. TypeOK'
    BY <1>9 DEF vars, outside, database, request, IInv, TypeOK
  <2> QED
    BY <1>7, <1>9, <2>1 DEF vars, outside
<1>10. CASE Outage
  <2>1. TypeOK'
    BY <1>10, OthersAreTyped DEF IInv
  <2> QED
    BY <1>10, <2>1, OutageIsCoherent DEF IInv
<1> QED
  BY <1>1, <1>2, <1>3, <1>5, <1>6, <1>8, <1>9, <1>10 DEF Next

(* IInv is an invariant: it is inductive. *)
LEMMA Invariance == Spec => []IInv
<1>1. Init => IInv
  BY InitIsCoherent
<1>2. IInv /\ [Next]_vars => IInv'
  BY NextIsCoherent
<1> QED
  BY <1>1, <1>2, PTL DEF Spec

(* Every variable of the deployment has its type. *)
THEOREM TypeCorrectness == Spec => []TypeOK
<1>1. IInv => TypeOK
  BY DEF IInv
<1> QED
  BY <1>1, Invariance, PTL

(* However containers and the operator race, downgrade, upgrade again or die in between, the
   schema is the one its revision stands for, and at head it is what the models declare:
   migrations commit as a whole and only from the revision they were made for. *)
THEOREM SchemaStaysItsRevision == Spec => []SchemaIsItsRevision
<1>1. IInv => SchemaIsItsRevision
  BY SchemaOf, HeadIsTheModels, RevisionsAre DEF IInv, Coherent, SchemaIsItsRevision
<1> QED
  BY <1>1, Invariance, PTL

(* Through every migration, seed, request, death and outage a proposal is ready exactly when
   it has evidence, a run waits only on a ready proposal, and no row outlives one it refers to:
   what approval rests on is there as long as the approval is awaited. *)
THEOREM RowsStayCoherent == Spec => []RowsAreCoherent
<1>1. IInv => RowsAreCoherent
  <2> SUFFICES ASSUME IInv PROVE RowsAreCoherent
    OBVIOUS
  <2>1. schema = Revised(rev) /\ rev \in 0 .. 5
    BY SchemaOf, RevisionsAre DEF IInv, Coherent, TypeOK
  <2>2. ASSUME NEW t \in Tables, NEW u \in Tables, Reference(u) \in schema[t], rows[t] # "none"
        PROVE  rows[u] # "none"
    <3>1. u \in Parents[t]
      BY <2>1, <2>2, ReferencesAre
    <3> QED
      BY <2>2, <3>1 DEF IInv, Coherent, RowsAreSound, ParentsAreThere
  <2> QED
    BY <2>2 DEF RowsAreCoherent, IInv, Coherent, RowsAreSound, ApprovalsRest
<1> QED
  BY <1>1, Invariance, PTL

(* Why an answer may be a 500, and what it owes whoever asked. *)
Reasons(s) == \/ ~up \/ s \in lost
              \/ rev < Needs(pc[s])
              \/ At(s, "graph") /\ ~checkpoints
              \/ At(s, "insert") /\ rows["proposal_versions"] # "none"
              \/ At(s, "bind") /\ AlreadyBound
              \/ At(s, "park") /\ ~(rows["agent_runs"] = "running" /\ saw[s] = "running")
Honest(s) ==
  LET response == answer'[s] IN
  /\ response.status = 500 => Reasons(s)
  /\ response.run = "waiting_approval" => response.items
  /\ response.id = id[s] /\ id[s] # "none"

Silent(s) == \E step : step # "reply" /\ Goto(s, step)

(* A response that owes nothing more than its own fields gets its request's ID as well. *)
LEMMA AnswersHonestly ==
  ASSUME IInv, NEW s \in Servers, pc[s] \in Handling \cup {"ready"},
         NEW response \in Responses, Answers(s, response),
         response.status = 500 => Reasons(s),
         response.run = "waiting_approval" => response.items
  PROVE  Honest(s)
<1>1. id[s] = "own"
  BY DEF IInv, Coherent, ServersAreCoherent, ServerIsCoherent
<1>2. answer'[s] = [response EXCEPT !.id = id[s]]
  BY DEF Answers, Header, IInv, TypeOK
<1>3. /\ answer'[s].status = response.status /\ answer'[s].run = response.run
      /\ answer'[s].items = response.items /\ answer'[s].id = id[s]
  BY <1>2 DEF Responses
<1> QED
  BY <1>1, <1>3 DEF Honest

(* A bare status shows no run. *)
LEMMA StatusSays ==
  \A code : /\ Status(code).status = code /\ Status(code).run = "none"
BY DEF Status, NoAnswer

(* So a bare status only has to justify a 500. *)
LEMMA StatusIsHonest ==
  ASSUME IInv, NEW s \in Servers, pc[s] \in Handling \cup {"ready"},
         NEW code \in {200, 201, 404, 500, 503}, Answers(s, Status(code)),
         code = 500 => Reasons(s)
  PROVE  Honest(s)
<1>1. /\ Status(code) \in Responses /\ Status(code).status = code
      /\ Status(code).run # "waiting_approval"
  BY ResponsesAre, StatusSays
<1> QED
  BY <1>1, AnswersHonestly

(* A step of a server either answers nothing or answers honestly. *)
LEMMA StepIsHonest == ASSUME IInv, NEW s \in Servers, Step(s) PROVE Silent(s) \/ Honest(s)
<1>1. CASE \/ Start(s) \/ ReadRevision(s) \/ Migrate(s) \/ SetUpCheckpoints(s) \/ Ingest(s)
           \/ Publish(s) \/ FindTask(s) \/ SeedTask(s) \/ SeedRun(s) \/ SeedContext(s)
           \/ BootFails(s)
  <2>1. CASE Start(s)
    BY <2>1, SeedingIs DEF Start, Silent
  <2>2. CASE FindTask(s)
    BY <2>2 DEF FindTask, Silent
  <2>3. CASE Ingest(s) \/ Publish(s)
    BY <2>3, SeedingIs DEF Ingest, Publish, Silent
  <2> QED
    BY <1>1, <2>1, <2>2, <2>3 DEF ReadRevision, Migrate, SetUpCheckpoints, SeedTask, SeedRun,
                                  SeedContext, BootFails, Stop, Silent
<1>2. CASE Deliver(s) \/ CreateRun(s) \/ ResumeRun(s) \/ BeginRunning(s) \/ InvokeGraph(s)
           \/ Persist(s) \/ Insert(s) \/ Bind(s) \/ Park(s)
  <2>1. CASE Persist(s)
    BY <2>1 DEF Persist, Silent
  <2> QED
    BY <1>2, <2>1 DEF Deliver, CreateRun, ResumeRun, BeginRunning, InvokeGraph, Insert, Bind, Park,
                      Silent
<1>3. CASE TellReadiness(s)
  BY <1>3, StatusIsHonest DEF TellReadiness, At
<1>4. CASE NotConfigured(s)
  BY <1>4, StatusIsHonest DEF NotConfigured
<1>5. CASE Fails(s)
  <2>1. pc[s] \in Handling /\ ~Works(s) /\ Answers(s, Status(500))
    BY <1>5 DEF Fails
  <2>2. \/ ~up \/ rev < Needs(pc[s])
        \/ pc[s] = "graph" /\ ~checkpoints
    BY <2>1, WorksFromThere DEF IInv, Coherent
  <2>3. Reasons(s)
    BY <2>2 DEF Reasons, At
  <2> QED
    BY <2>1, <2>3, StatusIsHonest
<1>6. CASE FindsItGone(s)
  BY <1>6, StatusIsHonest DEF FindsItGone, Outcomes, Reasons
<1>7. ASSUME NEW route \in {"task", "agent_run", "proposal", "policy"}, Look(s, route)
      PROVE  Honest(s)
  <2>1. pc[s] \in Handling
    BY <1>7 DEF Look, Ready, At, Handling, Reads
  <2> QED
    BY <1>7, <2>1, StatusIsHonest DEF Look
<1>8. CASE LoadContext(s)
  <2>1. pc[s] \in Handling
    BY <1>8 DEF LoadContext, Ready, At, Handling
  <2>2. CASE Answers(s, Status(404))
    BY <2>1, <2>2, StatusIsHonest
  <2> QED
    BY <1>8, <2>2 DEF LoadContext, Silent
<1>9. CASE CheckProposal(s)
  <2>1. pc[s] \in Handling
    BY <1>9 DEF CheckProposal, Ready, At, Handling
  <2>2. CASE Answers(s, Status(201))
    BY <2>1, <2>2, StatusIsHonest
  <2> QED
    BY <1>9, <2>2 DEF CheckProposal, Silent
<1>10. CASE EndUnbound(s)
  <2>1. pc[s] \in Handling /\ At(s, "bind")
    BY <1>10 DEF EndUnbound, Ready, At, Handling
  <2> QED
    BY <1>10, <2>1, StatusIsHonest DEF EndUnbound, Reasons
<1>11. CASE InsertCollides(s) \/ ParkRefused(s) \/ Reread(s)
  <2>1. pc[s] \in Handling
    BY <1>11 DEF InsertCollides, ParkRefused, Reread, Ready, At, Handling
  <2>2. CASE InsertCollides(s)
    BY <2>1, <2>2, StatusIsHonest DEF InsertCollides, Ready, Reasons
  <2>3. CASE ParkRefused(s)
    BY <2>1, <2>3, StatusIsHonest DEF ParkRefused, Ready, MayWait, Reasons
  <2>4. CASE Reread(s)
    BY <2>1, <2>4, StatusIsHonest DEF Reread
  <2> QED
    BY <1>11, <2>2, <2>3, <2>4
<1>12. CASE PageRun(s)
  <2>1. pc[s] \in Handling
    BY <1>12 DEF PageRun, At, Handling, Pages
  <2>2. CASE Answers(s, Status(404))
    BY <2>1, <2>2, StatusIsHonest
  <2> QED
    BY <1>12, <2>2 DEF PageRun, Silent
<1>13. ASSUME NEW items \in BOOLEAN, Answers(s, Page(s, items)), pc[s] \in Handling,
              saw[s] = "waiting_approval" => items
       PROVE  Honest(s)
  <2>1. Page(s, items) \in Responses
    BY PagesAre DEF IInv
  <2>2. /\ Page(s, items).status = 200 /\ Page(s, items).run = saw[s]
        /\ Page(s, items).items = items
    BY DEF Page
  <2> QED
    BY <1>13, <2>1, <2>2, AnswersHonestly
<1>14. CASE PageProposal(s)
  <2>1. pc[s] \in Handling /\ pc[s] = "page_proposal"
    BY <1>14 DEF PageProposal, At, Handling, Pages
  <2>2. CASE /\ rows["proposal_versions"] = "none" \/ s \in lost
             /\ Answers(s, Page(s, FALSE))
    <3>1. saw[s] # "waiting_approval"
      BY <2>1, <2>2 DEF IInv, Coherent, ServersAreCoherent, ServerIsCoherent
    <3> QED
      BY <1>13, <2>1, <2>2, <3>1
  <2> QED
    BY <1>14, <2>2 DEF PageProposal, Silent
<1>15. CASE PageEvidence(s)
  <2>1. pc[s] \in Handling /\ pc[s] = "page_evidence"
    BY <1>15 DEF PageEvidence, At, Handling, Pages
  <2>2. Answers(s, Page(s, rows["retrieval_evidence"] # "none" /\ s \notin lost))
    BY <1>15 DEF PageEvidence
  <2>3. saw[s] = "waiting_approval" => rows["retrieval_evidence"] # "none" /\ s \notin lost
    BY <2>1 DEF IInv, Coherent, RowsAreSound, ApprovalsRest, ServersAreCoherent, ServerIsCoherent
  <2> QED
    BY <1>13, <2>1, <2>2, <2>3
<1> QED
  BY <1>1, <1>2, <1>3, <1>4, <1>5, <1>6, <1>7, <1>8, <1>9, <1>10, <1>11, <1>12, <1>14, <1>15
     DEF Step, GetTask, GetRun, GetProposal, GetPolicy

(* A server moves on in each of its steps, and in no other's. *)
LEMMA StepGoes == ASSUME NEW r, Step(r) PROVE \E step : Goto(r, step)
<1>1. \A response : Answers(r, response) => Goto(r, "reply")
  BY DEF Answers
<1>2. CASE \/ Start(r) \/ ReadRevision(r) \/ Migrate(r) \/ SetUpCheckpoints(r) \/ Ingest(r)
           \/ Publish(r) \/ FindTask(r) \/ SeedTask(r) \/ SeedRun(r) \/ SeedContext(r)
           \/ BootFails(r)
  BY <1>2 DEF Start, ReadRevision, Migrate, SetUpCheckpoints, Ingest, Publish, FindTask, SeedTask,
              SeedRun, SeedContext, BootFails, Stop
<1>3. CASE \/ Deliver(r) \/ TellReadiness(r) \/ NotConfigured(r) \/ Fails(r) \/ FindsItGone(r)
           \/ GetTask(r) \/ GetRun(r) \/ GetProposal(r) \/ GetPolicy(r)
  BY <1>1, <1>3 DEF Deliver, TellReadiness, NotConfigured, Fails, FindsItGone, GetTask, GetRun,
                    GetProposal, GetPolicy, Look
<1>4. CASE \/ LoadContext(r) \/ CreateRun(r) \/ ResumeRun(r) \/ BeginRunning(r)
           \/ CheckProposal(r) \/ InvokeGraph(r) \/ Persist(r) \/ Insert(r) \/ InsertCollides(r)
           \/ Bind(r) \/ EndUnbound(r) \/ Park(r) \/ ParkRefused(r) \/ Reread(r)
  BY <1>1, <1>4 DEF LoadContext, CreateRun, ResumeRun, BeginRunning, CheckProposal, InvokeGraph,
                    Persist, Insert, InsertCollides, Bind, EndUnbound, Park, ParkRefused, Reread
<1>5. CASE PageRun(r) \/ PageProposal(r) \/ PageEvidence(r)
  BY <1>1, <1>5 DEF PageRun, PageProposal, PageEvidence
<1> QED
  BY <1>2, <1>3, <1>4, <1>5 DEF Step

(* Whatever happens between the steps of a request: with the database reachable it fails only
   below the revision that brings what it reads or writes, where a downgrade took its rows or an
   outage its transaction, where nobody set up the checkpoints, where another request on the run
   inserted the proposal or bound the evidence first, or where the run was not running when it
   was read; a page that has read a waiting run shows evidence; and every response, that of an
   unexpected error included, has its request's correlation ID. *)
THEOREM AnswersStayHonest == Spec => AnswersAreHonest
<1>1. ASSUME IInv, [Next]_vars, NEW s \in Servers, At(s, "reply")', ~At(s, "reply")
      PROVE  Honest(s)
  <2>1. TypeOK /\ pc'[s] = "reply" /\ pc[s] # "reply"
    BY <1>1 DEF At, IInv
  <2>2. ASSUME NEW r \in Servers, NEW step, Goto(r, step) PROVE r = s /\ step = "reply"
    BY <2>1, <2>2, GotoIs
  <2>3. ASSUME NEW r \in Servers, Step(r) PROVE Honest(s)
    BY <1>1, <2>2, <2>3, StepGoes, StepIsHonest DEF Silent
  <2>4. ASSUME NEW r \in Servers, Die(r) PROVE FALSE
    BY <2>2, <2>4 DEF Die, Stop
  <2>5. ASSUME NEW r \in Servers, NEW route \in {"load", "page_run", "ready"} \cup Reads,
               Ask(r, route)
        PROVE  FALSE
    BY <2>2, <2>5 DEF Ask, Reads
  <2>6. pc' # pc
    BY <2>1
  <2>7. ~Upgrade /\ (\A to : ~Downgrade(to)) /\ ~Outage /\ ~Recover /\ ~UNCHANGED vars
    BY <2>6 DEF Upgrade, Downgrade, Administer, Outage, Recover, vars
  <2> QED
    BY <1>1, <2>3, <2>4, <2>5, <2>7 DEF Next
<1>2. IInv /\ [Next]_vars =>
        [\A s \in Servers : At(s, "reply")' /\ ~At(s, "reply") => Honest(s)]_vars
  BY <1>1
<1>3. Spec => [][\A s \in Servers : At(s, "reply")' /\ ~At(s, "reply") => Honest(s)]_vars
  BY <1>2, Invariance, PTL DEF Spec
<1> QED
  BY <1>3 DEF AnswersAreHonest, Honest, Reasons
==============================================================================
