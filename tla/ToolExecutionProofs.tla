-------------------------- MODULE ToolExecutionProofs --------------------------
(***************************************************************************)
(* Proofs about ToolExecution for any callers and any idempotency keys.    *)
(* What is recorded is true only because of what a caller carries between  *)
(* the provider and the database, and what is known of a refund may be     *)
(* known from a caller alone: the inductive invariant adds what each       *)
(* caller's answer says of the provider at every point of its call.        *)
(***************************************************************************)
EXTENDS ToolExecution, TLAPS

(* An answer says of the provider what the call did to it: it stored nothing when
   the effect is none or not attempted, it did when it is possible, and the provider
   holds the refund when it is possible or confirmed. *)
AnswerIsTrue(c) ==
  /\ answer[c] \in Answers
  /\ answer[c].effect \in {"none", "not_attempted"} => ~stored[c]
  /\ answer[c].effect = "possible" => stored[c]
  /\ answer[c].effect \in {"possible", "confirmed"} => refunds[call[c].key].present

(* Where a caller is tells what it has done: it has stored nothing before the
   store, it carries a true answer until the answer is recorded, when it has ended, a
   refund it stored is known from an attempt, and the provider holds what it stored. *)
CallIsCoherent(c) ==
  /\ pc[c] # "idle" => call[c] \in Call
  /\ pc[c] \in Tools \cup {"idle", "store"} => ~stored[c]
  /\ pc[c] \in {"record", "insert"} => AnswerIsTrue(c)
  /\ pc[c] = "insert" => answer[c].receipt # "none"
  /\ pc[c] \in {"replied", "collided"} /\ stored[c] => KnownFromAttempts(call[c].key)
  /\ stored[c] => refunds[call[c].key].present

CallsAreCoherent == \A c \in Callers : CallIsCoherent(c)

(* What an attempt or a death says of the provider is so. *)
KnownIsHeld ==
  \A k \in Keys : KnownFromAttempts(k) \/ k \in lost => refunds[k].present

IInv == TypeOK /\ CallsAreCoherent /\ RecordsAreTruthful /\ RefundsAreKnown /\ KnownIsHeld

------------------------------------------------------------------------------
(* Lemmas on the answers of the provider and on its refunds. *)

(* A caller that is inside its call is not idle, whatever the tool. *)
LEMMA Steps == Tools \cap {"idle", "store", "record", "insert", "replied", "collided"} = {}
BY DEF Tools

(* An answer confirms a side effect exactly when it carries a receipt. *)
LEMMA AnswersAndReceipts ==
  ASSUME NEW a \in Answers
  PROVE  /\ a.receipt # "none" <=> a.effect = "confirmed"
         /\ a.receipt \in Receipt \cup {"none"}
         /\ a.effect \in {"none", "not_attempted", "possible", "confirmed"}
         /\ a.outcome \in {"succeeded", "rejected", "uncertain"}
BY DEF Answers, Receipt

(* What the provider can answer. *)
LEMMA AnswersOfTheProvider ==
  /\ Found \in Answers /\ Found.effect = "none"
  /\ Failure("none") \in Answers /\ Failure("none").effect = "none"
  /\ Failure("not_attempted") \in Answers /\ Failure("not_attempted").effect = "not_attempted"
  /\ Failure("possible") \in Answers /\ Failure("possible").effect = "possible"
  /\ \A r \in Receipt : Confirmed(r) \in Answers /\ Confirmed(r).effect = "confirmed"
BY DEF Found, Failure, Confirmed, Answers, Receipt

(* A lookup counts, and takes nothing away from the provider. *)
LEMMA LookupsKeepRefunds ==
  ASSUME NEW r \in StoredRefund
  PROVE  Counted(r) \in StoredRefund /\ Counted(r).present
<1> DEFINE n == IF r.lookups <= r.hidden THEN r.lookups + 1 ELSE r.lookups
<1>1. r.hidden \in {0, 2} /\ r.lookups \in 0 .. 3 /\ r.present = TRUE
  BY DEF StoredRefund
<1>2. n \in 0 .. 3
  BY <1>1
<1>3. Counted(r) = [r EXCEPT !.lookups = n]
  BY DEF Counted
<1> HIDE DEF n
<1> QED BY <1>1, <1>2, <1>3 DEF StoredRefund

------------------------------------------------------------------------------
(* What a step of one caller leaves alone. *)

(* Callers that are not c go on as they are. *)
OthersStay(c) ==
  \A d \in Callers \ {c} : /\ pc'[d] = pc[d] /\ call'[d] = call[d]
                           /\ answer'[d] = answer[d] /\ stored'[d] = stored[d]

(* A step of one caller that forgets no attempt and no refund leaves the calls of
   the others coherent. *)
LEMMA OthersAreCoherent ==
  ASSUME CallsAreCoherent, NEW c \in Callers, OthersStay(c), CallIsCoherent(c)',
         attempts \subseteq attempts',
         \A k \in Keys : refunds[k].present => refunds'[k].present
  PROVE  CallsAreCoherent'
<1> SUFFICES ASSUME NEW d \in Callers PROVE CallIsCoherent(d)'
  BY DEF CallsAreCoherent
<1>1. CASE d = c
  BY <1>1
<1>2. CASE d # c
  <2>1. /\ pc'[d] = pc[d] /\ call'[d] = call[d]
        /\ answer'[d] = answer[d] /\ stored'[d] = stored[d]
    BY <1>2 DEF OthersStay
  <2>2. /\ call[d] \in Call /\ AnswerIsTrue(d) => AnswerIsTrue(d)'
        /\ call[d] \in Call /\ stored[d] /\ refunds[call[d].key].present =>
             refunds'[call[d].key].present
    BY <2>1 DEF AnswerIsTrue, Call
  <2>3. KnownFromAttempts(call[d].key) => KnownFromAttempts(call[d].key)'
    BY <2>1 DEF KnownFromAttempts
  <2>4. CallIsCoherent(d)
    BY DEF CallsAreCoherent
  <2> QED BY <2>1, <2>2, <2>3, <2>4 DEF CallIsCoherent
<1> QED BY <1>1, <1>2

(* Refunds that are known stay known when attempts are only added, and no caller
   gives up one that is known from it alone without having lost it. *)
LEMMA KnownStaysKnown ==
  ASSUME RefundsAreKnown, attempts \subseteq attempts', lost \subseteq lost',
         \A k \in Keys : refunds'[k].present => refunds[k].present,
         \A d \in Callers, k \in Keys :
           Recording(d, k) => Recording(d, k)' \/ KnownFromAttempts(k)' \/ k \in lost'
  PROVE  RefundsAreKnown'
<1> SUFFICES ASSUME NEW k \in Keys, refunds'[k].present
             PROVE  KnownFromAttempts(k)' \/ k \in lost' \/ \E d \in Callers : Recording(d, k)'
  BY DEF RefundsAreKnown
<1>1. KnownFromAttempts(k) => KnownFromAttempts(k)'
  BY DEF KnownFromAttempts
<1>2. KnownFromAttempts(k) \/ k \in lost \/ \E d \in Callers : Recording(d, k)
  BY DEF RefundsAreKnown
<1> QED BY <1>1, <1>2

(* A step that records nothing and takes no refund from the provider leaves the
   records true. *)
LEMMA RecordsStayTrue ==
  ASSUME TypeOK, RecordsAreTruthful, UNCHANGED <<attempts, receipts>>,
         \A k \in Keys : refunds[k].present => refunds'[k].present
  PROVE  RecordsAreTruthful'
BY DEF TypeOK, RecordsAreTruthful, Attempt

(* Recording what a caller carries, and its receipt if the key has none, is
   recording the truth. *)
LEMMA RecordingIsTrue ==
  ASSUME TypeOK, RecordsAreTruthful, NEW c \in Callers,
         AnswerIsTrue(c), call[c] \in Call,
         attempts' = attempts \cup {Row(c)}, UNCHANGED refunds,
         \/ /\ UNCHANGED receipts
            /\ answer[c].receipt = "none" \/ receipts[call[c].key] # "none"
         \/ /\ answer[c].receipt # "none"
            /\ receipts' = [receipts EXCEPT ![call[c].key] = answer[c].receipt]
  PROVE  RecordsAreTruthful' /\ Row(c) \in Attempt
<1> DEFINE row == Row(c)
<1>1. /\ row.key = call[c].key
      /\ row.effect = answer[c].effect /\ row.stored = stored[c]
      /\ call[c].key \in Keys
  BY DEF Row, Call
<1>2. row \in Attempt
  BY AnswersAndReceipts DEF Row, Call, Attempt, AnswerIsTrue, TypeOK
<1> HIDE DEF row
<1>3. ASSUME NEW a \in attempts'
      PROVE  /\ a.effect \in {"none", "not_attempted"} => ~a.stored
             /\ a.effect = "possible" => a.stored
             /\ a.effect = "confirmed" => refunds'[a.key].present
  <2>1. CASE a \in attempts
    BY <2>1 DEF RecordsAreTruthful
  <2>2. CASE a = row
    BY <2>2, <1>1 DEF AnswerIsTrue
  <2> QED BY <2>1, <2>2 DEF row
<1>4. ASSUME NEW k \in Keys
      PROVE  receipts'[k] # "none" <=> \E a \in attempts' : a.key = k /\ a.effect = "confirmed"
  <2>1. receipts[k] # "none" <=> \E a \in attempts : a.key = k /\ a.effect = "confirmed"
    BY DEF RecordsAreTruthful
  <2>2. attempts' = attempts \cup {row}
    BY DEF row
  <2>3. answer[c].receipt # "none" <=> answer[c].effect = "confirmed"
    BY AnswersAndReceipts DEF AnswerIsTrue
  <2>4. CASE k # call[c].key
    <3>1. receipts'[k] = receipts[k]
      BY <2>4 DEF TypeOK
    <3> QED BY <3>1, <2>1, <2>2, <2>4, <1>1
  <2>5. CASE k = call[c].key
    <3>1. receipts'[k] # "none" <=> receipts[k] # "none" \/ answer[c].effect = "confirmed"
      BY <2>3, <2>5, <1>1 DEF TypeOK
    <3> QED BY <3>1, <2>1, <2>2, <2>5, <1>1
  <2> QED BY <2>4, <2>5
<1> QED BY <1>2, <1>3, <1>4 DEF RecordsAreTruthful, row

(* A step of one caller that records nothing and stores nothing preserves the
   invariant when it leaves the caller coherent and gives up no refund. *)
LEMMA QuietStep ==
  ASSUME IInv, NEW c \in Callers, OthersStay(c), TypeOK', CallIsCoherent(c)',
         UNCHANGED <<attempts, receipts>>, lost \subseteq lost',
         \A k \in Keys : refunds'[k].present = refunds[k].present,
         \A k \in Keys : k \in lost' => k \in lost \/ refunds[k].present,
         \A k \in Keys :
           Recording(c, k) => Recording(c, k)' \/ KnownFromAttempts(k) \/ k \in lost'
  PROVE  IInv'
<1>1. CallsAreCoherent'
  BY OthersAreCoherent DEF IInv
<1>2. RecordsAreTruthful'
  BY RecordsStayTrue DEF IInv
<1>3. ASSUME NEW d \in Callers, NEW k \in Keys, Recording(d, k)
      PROVE  Recording(d, k)' \/ KnownFromAttempts(k)' \/ k \in lost'
  <2>1. CASE d = c
    BY <1>3, <2>1 DEF KnownFromAttempts
  <2>2. CASE d # c
    BY <1>3, <2>2 DEF Recording, OthersStay
  <2> QED BY <2>1, <2>2
<1>4. RefundsAreKnown'
  BY <1>3, KnownStaysKnown DEF IInv
<1>5. KnownIsHeld'
  BY DEF IInv, KnownIsHeld, KnownFromAttempts
<1> QED BY <1>1, <1>2, <1>4, <1>5 DEF IInv

------------------------------------------------------------------------------
(* The invariant holds initially and every action preserves it. *)

(* Nobody has called yet. *)
LEMMA InitIInv == Init => IInv
<1> SUFFICES ASSUME Init PROVE IInv
  OBVIOUS
<1>1. TypeOK
  BY DEF Init, TypeOK
<1>2. CallsAreCoherent
  BY DEF Init, CallsAreCoherent, CallIsCoherent
<1>3. RecordsAreTruthful /\ RefundsAreKnown /\ KnownIsHeld
  BY DEF Init, RecordsAreTruthful, RefundsAreKnown, KnownIsHeld, KnownFromAttempts, NoRefund
<1> QED BY <1>1, <1>2, <1>3 DEF IInv

(* A caller that begins has stored nothing. *)
LEMMA InvokeIInv ==
  ASSUME IInv, NEW c \in Callers, NEW tool \in Tools, NEW k \in Keys, NEW s \in Scenarios,
         Invoke(c, tool, k, s)
  PROVE  IInv'
<1>1. /\ TypeOK /\ pc[c] = "idle" /\ ~stored[c]
  BY DEF IInv, CallsAreCoherent, CallIsCoherent, Invoke, At
<1>2. /\ pc'[c] = tool /\ call'[c] = [key |-> k, scenario |-> s]
      /\ stored'[c] = stored[c] /\ OthersStay(c)
  BY <1>1 DEF TypeOK, Invoke, Goto, provider, OthersStay
<1>3. TypeOK'
  BY <1>1 DEF TypeOK, Call, Invoke, Goto, provider, database
<1>4. CallIsCoherent(c)'
  BY <1>1, <1>2, Steps DEF CallIsCoherent, Call
<1>5. \A q \in Keys : ~Recording(c, q)
  BY <1>1 DEF Recording
<1> QED BY <1>2, <1>3, <1>4, <1>5, QuietStep DEF Invoke, provider, database

(* An answer of the provider that did nothing, or that repeats what it holds, is
   true of a caller that has stored nothing. *)
LEMMA AnsweringIInv ==
  ASSUME IInv, NEW c \in Callers, NEW a \in Answers, pc[c] \in Tools, Answered(c, a),
         \/ a.effect \in {"none", "not_attempted"}
         \/ a.effect = "confirmed" /\ refunds[call[c].key].present,
         refunds' \in [Keys -> StoredRefund \cup {NoRefund}],
         \A k \in Keys : refunds'[k].present = refunds[k].present,
         UNCHANGED <<stored, attempts, receipts, lost>>
  PROVE  IInv'
<1>1. TypeOK /\ CallIsCoherent(c)
  BY DEF IInv, CallsAreCoherent
<1>2. ~stored[c] /\ call[c] \in Call /\ call[c].key \in Keys
  BY <1>1, Steps DEF CallIsCoherent, Call
<1> DEFINE asked == [call[c] EXCEPT !.scenario = "none"]
<1>3. asked \in Call /\ asked.key = call[c].key
  BY <1>2 DEF Call
<1> HIDE DEF asked
<1>4. /\ pc' = [pc EXCEPT ![c] = "record"] /\ answer' = [answer EXCEPT ![c] = a]
      /\ call' = [call EXCEPT ![c] = asked]
  BY DEF Answered, Goto, asked
<1>5. /\ pc'[c] = "record" /\ answer'[c] = a /\ call'[c] = asked /\ OthersStay(c)
  BY <1>1, <1>4 DEF TypeOK, OthersStay
<1>6. TypeOK'
  BY <1>1, <1>3, <1>4 DEF TypeOK
<1>7. AnswerIsTrue(c)'
  BY <1>2, <1>5, <1>3 DEF AnswerIsTrue
<1>8. CallIsCoherent(c)'
  BY <1>2, <1>5, <1>7, <1>3, Steps DEF CallIsCoherent
<1>9. \A q \in Keys : ~Recording(c, q)
  BY <1>2 DEF Recording
<1> QED BY <1>5, <1>6, <1>8, <1>9, QuietStep

(* The reads. *)
LEMMA ReadRecordIInv ==
  ASSUME IInv, NEW c \in Callers, ReadRecord(c)
  PROVE  IInv'
<1>1. PICK a \in {Found, Failure("none")} : Answered(c, a)
  BY DEF ReadRecord
<1>2. /\ pc[c] \in Tools /\ refunds \in [Keys -> StoredRefund \cup {NoRefund}]
      /\ UNCHANGED <<refunds, stored, attempts, receipts, lost>>
  BY DEF ReadRecord, At, Tools, IInv, TypeOK, provider, database
<1>3. a \in Answers /\ a.effect \in {"none", "not_attempted"}
  BY <1>1, AnswersOfTheProvider
<1>4. \A k \in Keys : refunds'[k].present = refunds[k].present
  BY <1>2
<1> QED BY <1>1, <1>2, <1>3, <1>4, AnsweringIInv

(* A lookup changes how often a refund was looked up and nothing else. *)
LEMMA LookupRefundIInv ==
  ASSUME IInv, NEW c \in Callers, LookupRefund(c)
  PROVE  IInv'
<1> DEFINE k == call[c].key
<1>1. TypeOK /\ pc[c] \in Tools /\ call[c] \in Call
  BY Steps DEF IInv, CallsAreCoherent, CallIsCoherent, LookupRefund, At, Tools
<1>2. /\ k \in Keys /\ refunds[k] \in StoredRefund \cup {NoRefund}
      /\ refunds' = [refunds EXCEPT ![k] = IF @.present THEN Counted(@) ELSE @]
  BY <1>1 DEF Call, TypeOK, LookupRefund
<1> HIDE DEF k
<1>3. /\ refunds' \in [Keys -> StoredRefund \cup {NoRefund}]
      /\ \A q \in Keys : refunds'[q].present = refunds[q].present
  <2>1. CASE refunds[k].present
    <3>1. refunds[k] \in StoredRefund
      BY <1>2, <2>1 DEF NoRefund
    <3>2. Counted(refunds[k]) \in StoredRefund
      BY <3>1, LookupsKeepRefunds
    <3>3. Counted(refunds[k]).present = refunds[k].present
      BY <3>1, <3>2 DEF StoredRefund
    <3>4. refunds' = [refunds EXCEPT ![k] = Counted(refunds[k])]
      BY <1>2, <2>1
    <3> QED BY <1>1, <1>2, <3>2, <3>3, <3>4 DEF TypeOK
  <2>2. CASE ~refunds[k].present
    BY <1>1, <1>2, <2>2 DEF TypeOK
  <2> QED BY <2>1, <2>2
<1>4. /\ Answered(c, Found) /\ Found \in Answers /\ Found.effect \in {"none", "not_attempted"}
      /\ UNCHANGED <<stored, attempts, receipts, lost>>
  BY AnswersOfTheProvider DEF LookupRefund, database
<1> QED BY <1>1, <1>3, <1>4, AnsweringIInv

(* A key the provider knows is answered with its receipt. *)
LEMMA ReturnDuplicateIInv ==
  ASSUME IInv, NEW c \in Callers, ReturnDuplicate(c)
  PROVE  IInv'
<1>1. /\ pc[c] \in Tools /\ refunds \in [Keys -> StoredRefund \cup {NoRefund}]
      /\ refunds[call[c].key].present /\ Answered(c, Confirmed("duplicate"))
      /\ UNCHANGED <<refunds, stored, attempts, receipts, lost>>
  BY DEF ReturnDuplicate, KnownKey, At, Tools, IInv, TypeOK, provider, database
<1>2. Confirmed("duplicate") \in Answers /\ Confirmed("duplicate").effect = "confirmed"
  BY AnswersOfTheProvider DEF Receipt
<1> QED BY <1>1, <1>2, AnsweringIInv

(* A refusal stores nothing and says so. *)
LEMMA RefuseIInv ==
  ASSUME IInv, NEW c \in Callers, Refuse(c)
  PROVE  IInv'
<1>1. /\ pc[c] \in Tools /\ refunds \in [Keys -> StoredRefund \cup {NoRefund}]
      /\ UNCHANGED <<refunds, stored, attempts, receipts, lost>>
  BY DEF Refuse, At, Tools, IInv, TypeOK, provider, database
<1>2. PICK a \in {Failure("none"), Failure("not_attempted")} : Answered(c, a)
  BY DEF Refuse
<1>3. a \in Answers /\ a.effect \in {"none", "not_attempted"}
  BY <1>2, AnswersOfTheProvider
<1>4. \A k \in Keys : refunds'[k].present = refunds[k].present
  BY <1>1
<1> QED BY <1>1, <1>2, <1>3, <1>4, AnsweringIInv

(* An accepted request has stored nothing before the store. *)
LEMMA AcceptIInv ==
  ASSUME IInv, NEW c \in Callers, Accept(c)
  PROVE  IInv'
<1>1. /\ TypeOK /\ CallIsCoherent(c) /\ pc[c] \in Tools
  BY DEF IInv, CallsAreCoherent, Accept, At, Tools
<1>2. ~stored[c] /\ call[c] \in Call
  BY <1>1, Steps DEF CallIsCoherent
<1>3. pc'[c] = "store" /\ OthersStay(c)
  BY <1>1 DEF TypeOK, Accept, Goto, provider, OthersStay
<1>4. TypeOK'
  BY <1>1 DEF TypeOK, Accept, Goto, provider, database
<1>5. CallIsCoherent(c)'
  BY <1>2, <1>3 DEF CallIsCoherent, Accept, provider
<1>6. \A q \in Keys : ~Recording(c, q)
  BY <1>2 DEF Recording
<1> QED BY <1>3, <1>4, <1>5, <1>6, QuietStep DEF Accept, provider, database

(* The provider stores a refund; from now on it is known from the caller. *)
LEMMA StoreIInv ==
  ASSUME IInv, NEW c \in Callers, Store(c)
  PROVE  IInv'
<1> DEFINE k == call[c].key
           h == IF call[c].scenario = "delayed_postcondition" THEN 2 ELSE 0
           r == [hidden |-> h, lookups |-> 0, present |-> TRUE]
           a == IF call[c].scenario = "timeout_after_acceptance"
                THEN Failure("possible") ELSE Confirmed("original")
           asked == [call[c] EXCEPT !.scenario = "none"]
<1>1. TypeOK /\ CallIsCoherent(c) /\ pc[c] = "store"
  BY DEF IInv, CallsAreCoherent, Store, At
<1>2. ~stored[c] /\ call[c] \in Call /\ k \in Keys
  BY <1>1 DEF CallIsCoherent, Call
<1>3. a \in Answers /\ a.effect \in {"possible", "confirmed"}
  BY AnswersOfTheProvider DEF Receipt
<1>4. r \in StoredRefund /\ r.present
  BY DEF StoredRefund
<1>5. /\ refunds' = [refunds EXCEPT ![k] = r] /\ stored' = [stored EXCEPT ![c] = TRUE]
      /\ answer' = [answer EXCEPT ![c] = a] /\ pc' = [pc EXCEPT ![c] = "record"]
      /\ call' = [call EXCEPT ![c] = asked]
      /\ UNCHANGED <<attempts, receipts, lost>>
  BY DEF Store, Answered, Goto, database
<1>6. asked \in Call /\ asked.key = k
  BY <1>2 DEF Call
<1> HIDE DEF k, r, a, asked
<1>7. TypeOK'
  BY <1>1, <1>2, <1>3, <1>4, <1>5, <1>6 DEF TypeOK
<1>8. /\ OthersStay(c) /\ pc'[c] = "record" /\ stored'[c] = TRUE /\ answer'[c] = a
      /\ call'[c] = asked
      /\ refunds'[k].present
      /\ \A q \in Keys \ {k} : refunds'[q] = refunds[q]
  BY <1>1, <1>2, <1>4, <1>5 DEF TypeOK, OthersStay
<1>9. \A q \in Keys : refunds[q].present => refunds'[q].present
  BY <1>8
<1>10. CallIsCoherent(c)'
  <2>1. AnswerIsTrue(c)'
    BY <1>3, <1>8, <1>6 DEF AnswerIsTrue
  <2> QED BY <1>8, <1>6, <2>1, Steps DEF CallIsCoherent
<1>11. CallsAreCoherent'
  BY <1>5, <1>8, <1>9, <1>10, OthersAreCoherent DEF IInv
<1>12. RecordsAreTruthful'
  BY <1>1, <1>5, <1>9, RecordsStayTrue DEF IInv
<1>13. RefundsAreKnown'
  <2> SUFFICES ASSUME NEW q \in Keys, refunds'[q].present
               PROVE  \/ KnownFromAttempts(q)' \/ q \in lost'
                      \/ \E d \in Callers : Recording(d, q)'
    BY DEF RefundsAreKnown
  <2>1. CASE q = k
    BY <1>8, <1>6, <2>1 DEF Recording
  <2>2. CASE q # k
    <3>1. KnownFromAttempts(q) \/ q \in lost \/ \E d \in Callers : Recording(d, q)
      BY <1>8, <2>2 DEF IInv, RefundsAreKnown
    <3>2. KnownFromAttempts(q) => KnownFromAttempts(q)'
      BY <1>5 DEF KnownFromAttempts
    <3>3. ASSUME NEW d \in Callers, Recording(d, q) PROVE Recording(d, q)'
      BY <1>2, <1>5, <1>8, <3>3 DEF Recording, OthersStay
    <3> QED BY <1>5, <3>1, <3>2, <3>3
  <2> QED BY <2>1, <2>2
<1>14. KnownIsHeld'
  BY <1>5, <1>9 DEF IInv, KnownIsHeld, KnownFromAttempts
<1> QED BY <1>7, <1>11, <1>12, <1>13, <1>14 DEF IInv

(* Recording what a caller carries makes a refund it stored known. *)
LEMMA RecordingIInv ==
  ASSUME IInv, NEW c \in Callers, pc[c] \in {"record", "insert"}, Goto(c, "replied"),
         attempts' = attempts \cup {Row(c)},
         UNCHANGED <<refunds, stored, call, answer, lost>>,
         \/ /\ UNCHANGED receipts
            /\ answer[c].receipt = "none" \/ receipts[call[c].key] # "none"
         \/ /\ answer[c].receipt # "none"
            /\ receipts' = [receipts EXCEPT ![call[c].key] = answer[c].receipt]
  PROVE  IInv'
<1>1. /\ TypeOK /\ RecordsAreTruthful /\ RefundsAreKnown
      /\ call[c] \in Call /\ AnswerIsTrue(c)
      /\ stored[c] => refunds[call[c].key].present
  BY DEF IInv, CallsAreCoherent, CallIsCoherent
<1>2. RecordsAreTruthful' /\ Row(c) \in Attempt
  BY <1>1, RecordingIsTrue
<1>3. answer[c].receipt \in Receipt \cup {"none"}
  BY <1>1, AnswersAndReceipts DEF AnswerIsTrue
<1>4. TypeOK'
  BY <1>1, <1>2, <1>3 DEF TypeOK, Goto, Call
<1>5. pc'[c] = "replied" /\ OthersStay(c)
  BY <1>1 DEF TypeOK, Goto, OthersStay
<1>6. stored[c] => KnownFromAttempts(call[c].key)'
  <2>1. Row(c).key = call[c].key /\ Row(c).effect = answer[c].effect
    BY DEF Row
  <2>2. stored[c] => answer[c].effect \in {"possible", "confirmed"}
    BY <1>1, AnswersAndReceipts DEF AnswerIsTrue
  <2> QED BY <2>1, <2>2 DEF KnownFromAttempts
<1>7. CallIsCoherent(c)'
  BY <1>1, <1>5, <1>6, Steps DEF CallIsCoherent
<1>8. CallsAreCoherent'
  BY <1>5, <1>7, OthersAreCoherent DEF IInv
<1>9. RefundsAreKnown'
  BY <1>1, KnownStaysKnown DEF Recording
<1>10. KnownIsHeld'
  <2>1. Row(c).key = call[c].key /\ Row(c).effect = answer[c].effect
    BY DEF Row
  <2> QED BY <1>1, <2>1 DEF IInv, KnownIsHeld, KnownFromAttempts, AnswerIsTrue
<1> QED BY <1>2, <1>4, <1>8, <1>9, <1>10 DEF IInv

(* The three ways to record an answer. *)
LEMMA RecordsIInv ==
  ASSUME IInv, NEW c \in Callers, RecordAttempt(c) \/ ReceiptExists(c) \/ InsertReceipt(c)
  PROVE  IInv'
<1>1. CASE RecordAttempt(c)
  BY <1>1, RecordingIInv DEF RecordAttempt, At, provider
<1>2. CASE ReceiptExists(c)
  BY <1>2, RecordingIInv DEF ReceiptExists, At, provider
<1>3. CASE InsertReceipt(c)
  <2>1. pc[c] = "insert" /\ answer[c].receipt # "none"
    BY <1>3 DEF InsertReceipt, At, IInv, CallsAreCoherent, CallIsCoherent
  <2> QED BY <1>3, <2>1, RecordingIInv DEF InsertReceipt, provider
<1> QED BY <1>1, <1>2, <1>3

(* A receipt that is missing will be inserted; nothing is recorded yet. *)
LEMMA ReceiptMissingIInv ==
  ASSUME IInv, NEW c \in Callers, ReceiptMissing(c)
  PROVE  IInv'
<1>1. TypeOK /\ CallIsCoherent(c) /\ pc[c] = "record" /\ answer[c].receipt # "none"
  BY DEF IInv, CallsAreCoherent, ReceiptMissing, At
<1>2. pc'[c] = "insert" /\ OthersStay(c)
  BY <1>1 DEF TypeOK, ReceiptMissing, Goto, provider, OthersStay
<1>3. TypeOK'
  BY <1>1 DEF TypeOK, ReceiptMissing, Goto, provider, database
<1>4. CallIsCoherent(c)'
  BY <1>1, <1>2, Steps DEF CallIsCoherent, AnswerIsTrue, ReceiptMissing, provider
<1> QED BY <1>2, <1>3, <1>4, QuietStep DEF ReceiptMissing, provider, database, Recording

(* A receipt that is there already was committed with an attempt of its own: the
   refund is known without this caller's. *)
LEMMA ReceiptCollidesIInv ==
  ASSUME IInv, NEW c \in Callers, ReceiptCollides(c)
  PROVE  IInv'
<1> DEFINE k == call[c].key
<1>1. /\ TypeOK /\ CallIsCoherent(c) /\ pc[c] = "insert" /\ receipts[k] # "none"
      /\ call[c] \in Call
  BY DEF IInv, CallsAreCoherent, CallIsCoherent, ReceiptCollides, At, NoReceiptYet
<1>2. pc'[c] = "collided" /\ OthersStay(c)
  BY <1>1 DEF TypeOK, ReceiptCollides, Goto, provider, OthersStay
<1>3. TypeOK'
  BY <1>1 DEF TypeOK, ReceiptCollides, Goto, provider, database
<1>4. KnownFromAttempts(k)
  <2>1. \E a \in attempts : a.key = k /\ a.effect = "confirmed"
    BY <1>1 DEF IInv, RecordsAreTruthful, Call
  <2> QED BY <2>1 DEF KnownFromAttempts
<1>5. CallIsCoherent(c)'
  BY <1>1, <1>2, <1>4, Steps
    DEF CallIsCoherent, ReceiptCollides, provider, database, KnownFromAttempts
<1> QED BY <1>2, <1>3, <1>5, QuietStep DEF ReceiptCollides, provider, database, Recording

(* A caller that returns has made its refund known; one that dies with a refund
   stored has lost it. *)
LEMMA ForgetIInv ==
  ASSUME IInv, NEW c \in Callers, Return(c) \/ Abort(c)
  PROVE  IInv'
<1>1. TypeOK /\ CallIsCoherent(c) /\ pc[c] # "idle" /\ Forget(c)
  BY DEF IInv, CallsAreCoherent, Return, Abort
<1>2. call[c] \in Call /\ call[c].key \in Keys
  BY <1>1 DEF CallIsCoherent, Call
<1>3. /\ lost \subseteq lost' /\ lost' \subseteq Keys
      /\ \A q \in Keys : Recording(c, q) => KnownFromAttempts(q) \/ q \in lost'
  <2>1. CASE Return(c)
    BY <1>1, <2>1 DEF Return, CallIsCoherent, Recording, TypeOK
  <2>2. CASE Abort(c)
    BY <1>1, <1>2, <2>2 DEF Abort, Recording, TypeOK
  <2> QED BY <2>1, <2>2
<1>4. TypeOK'
  BY <1>1, <1>3 DEF TypeOK, Forget, Goto, database
<1>5. \A q \in Keys : q \in lost' => q \in lost \/ refunds[q].present
  BY <1>1 DEF Return, Abort, CallIsCoherent
<1>6. pc'[c] = "idle" /\ ~stored'[c] /\ OthersStay(c)
  BY <1>1 DEF TypeOK, Forget, Goto, OthersStay
<1>7. CallIsCoherent(c)'
  BY <1>6 DEF CallIsCoherent
<1> QED BY <1>1, <1>3, <1>4, <1>6, <1>7, <1>5, QuietStep DEF Forget, database

(* Nothing changes when no caller moves. *)
LEMMA StutterIInv ==
  ASSUME IInv, UNCHANGED vars
  PROVE  IInv'
BY DEF IInv, TypeOK, CallsAreCoherent, CallIsCoherent, AnswerIsTrue, KnownFromAttempts,
       RecordsAreTruthful, RefundsAreKnown, KnownIsHeld, Recording, vars

(* Every step of the callers preserves the invariant. *)
THEOREM Invariance == Spec => []IInv
<1>1. IInv /\ [Next]_vars => IInv'
  <2> SUFFICES ASSUME IInv, [Next]_vars PROVE IInv'
    OBVIOUS
  <2>1. ASSUME NEW c \in Callers, Calls(c) PROVE IInv'
    BY <2>1, InvokeIInv DEF Calls, InvokeCreate, InvokeLookup, InvokeRead, Tools, Scenarios
  <2>2. ASSUME NEW c \in Callers, Step(c) PROVE IInv'
    BY <2>2, ReadRecordIInv, LookupRefundIInv, ReturnDuplicateIInv, RefuseIInv, AcceptIInv,
       StoreIInv, RecordsIInv, ReceiptMissingIInv, ReceiptCollidesIInv, ForgetIInv DEF Step
  <2>3. ASSUME NEW c \in Callers, Abort(c) PROVE IInv'
    BY <2>3, ForgetIInv
  <2> QED BY <2>1, <2>2, <2>3, StutterIInv DEF Next
<1> QED BY <1>1, InitIInv, PTL DEF Spec

------------------------------------------------------------------------------
(* The theorems. *)

(* Every variable keeps its type. *)
THEOREM TypeCorrectness == Spec => []TypeOK
BY Invariance, PTL DEF IInv

(* What is recorded is what the provider did, and a receipt and an attempt that
   confirms it exist together or not at all. *)
THEOREM Truthfulness == Spec => []RecordsAreTruthful
BY Invariance, PTL DEF IInv

(* No refund the provider holds is forgotten but by a caller that died with it. *)
THEOREM Knowledge == Spec => []RefundsAreKnown
BY Invariance, PTL DEF IInv

(* Receipts are never replaced and attempts never removed. *)
THEOREM Permanence == Spec => ReceiptsAreKept
<1> DEFINE Kept == /\ \A k \in Keys : receipts[k] # "none" => receipts'[k] = receipts[k]
                   /\ attempts \subseteq attempts'
<1>1. IInv /\ [Next]_vars => [Kept]_vars
  <2> SUFFICES ASSUME IInv, Next PROVE Kept
    OBVIOUS
  <2>1. PICK c \in Callers : Calls(c) \/ Step(c) \/ Abort(c)
    BY DEF Next
  <2>2. CASE UNCHANGED receipts
    <3>1. CASE UNCHANGED attempts
      BY <2>2, <3>1
    <3>2. CASE attempts' = attempts \cup {Row(c)}
      BY <2>2, <3>2
    <3> QED
      BY <2>1, <3>1, <3>2
        DEF Calls, InvokeCreate, InvokeLookup, InvokeRead, Invoke, Step, Abort, Forget, Return,
            ReadRecord, LookupRefund, ReturnDuplicate, Refuse, Accept, Store, RecordAttempt,
            ReceiptExists, ReceiptMissing, InsertReceipt, ReceiptCollides, database
  <2>3. CASE InsertReceipt(c)
    BY <2>3 DEF InsertReceipt, NoReceiptYet, IInv, TypeOK
  <2> QED
    BY <2>1, <2>2, <2>3
      DEF Calls, InvokeCreate, InvokeLookup, InvokeRead, Invoke, Step, Abort, Forget, Return,
          ReadRecord, LookupRefund, ReturnDuplicate, Refuse, Accept, Store, RecordAttempt,
          ReceiptExists, ReceiptMissing, ReceiptCollides, database
<1> QED BY <1>1, Invariance, PTL DEF Spec, ReceiptsAreKept

(* A request delivered again is answered with the receipt of the first delivery and
   stores nothing, whatever scenario it meets: once an attempt says that the provider
   acted or may have acted, or the caller that made it act has died. *)
THEOREM Retries == Spec => RetriesAreAnswered
<1>1. ASSUME IInv, [Next]_vars, NEW c \in Callers, At(c, "create_refund_request"),
             pc'[c] \notin {"create_refund_request", "idle"},
             KnownFromAttempts(call[c].key) \/ call[c].key \in lost
      PROVE  answer'[c] = Confirmed("duplicate") /\ ~stored'[c]
  <2>1. /\ TypeOK /\ call[c] \in Call /\ ~stored[c] /\ pc[c] = "create_refund_request"
    BY <1>1 DEF IInv, CallsAreCoherent, CallIsCoherent, At, Tools
  <2>2. KnownKey(c)
    BY <1>1, <2>1 DEF IInv, KnownIsHeld, KnownKey, Call
  <2>3. PICK d \in Callers : Calls(d) \/ Step(d) \/ Abort(d)
    BY <1>1, <2>1 DEF Next, vars
  <2>4. d = c
    <3>1. \E s : pc' = [pc EXCEPT ![d] = s]
      BY <2>3 DEF Calls, InvokeCreate, InvokeLookup, InvokeRead, Invoke, Step, Abort, Forget,
         Return, ReadRecord, LookupRefund, ReturnDuplicate, Refuse, Accept, Store,
         RecordAttempt, ReceiptExists, ReceiptMissing, InsertReceipt, ReceiptCollides,
         Answered, Goto
    <3> QED BY <1>1, <2>1, <3>1 DEF TypeOK
  <2>5. ~Abort(c)
    BY <1>1, <2>1 DEF Abort, Forget, Goto, TypeOK
  <2>6. ReturnDuplicate(c)
    BY <2>1, <2>2, <2>3, <2>4, <2>5
      DEF Calls, InvokeCreate, InvokeLookup, InvokeRead, Invoke, Step, Return, ReadRecord,
          LookupRefund, Refuse, Accept, Store, RecordAttempt, ReceiptExists, ReceiptMissing,
          InsertReceipt, ReceiptCollides, At
  <2>7. answer' = [answer EXCEPT ![c] = Confirmed("duplicate")] /\ UNCHANGED stored
    BY <2>6 DEF ReturnDuplicate, Answered, provider
  <2> QED BY <2>1, <2>7 DEF TypeOK
<1>2. IInv /\ [Next]_vars =>
        [\A c \in Callers :
           /\ At(c, "create_refund_request") /\ pc'[c] \notin {"create_refund_request", "idle"}
           /\ KnownFromAttempts(call[c].key) \/ call[c].key \in lost
           => answer'[c] = Confirmed("duplicate") /\ ~stored'[c]]_vars
  BY <1>1
<1> QED BY <1>2, Invariance, PTL DEF Spec, RetriesAreAnswered
==============================================================================
