---------------------------- MODULE ToolExecution ----------------------------
(***************************************************************************)
(* ToolService.invoke over the provider simulator: a call reaches the      *)
(* provider first, outside any transaction, and only then records what it  *)
(* learnt, in one transaction: a tool attempt for every answer, and an     *)
(* external receipt for the first confirmed refund of an idempotency key.  *)
(*                                                                         *)
(* Callers are threads that share one provider and one database.  They     *)
(* interleave inside create_refund (its lookup of the key and its store    *)
(* are separate accesses to the provider's dictionary) and between the     *)
(* SELECT and the INSERT of a receipt (READ COMMITTED).  An idempotency    *)
(* key stands for one logical request (docs/api/CONVENTIONS.md), so that   *)
(* two calls with one key differ at most in the scenario they meet.        *)
(***************************************************************************)
EXTENDS Naturals

CONSTANTS Callers,  \* threads that invoke tools
          Keys      \* idempotency keys

VARIABLES
  refunds,   \* refunds[k]: what the provider holds for key k
  attempts,  \* rows of tool_attempts, without their tool; equal rows count once
  receipts,  \* receipts[k]: the external receipt of key k
  pc,        \* pc[c]: where caller c is in its call
  call,      \* call[c]: the key of its call and the scenario it is to meet
  answer,    \* answer[c]: what the provider answered
  stored,    \* ghost: stored[c] when this call made the provider store a refund
  lost       \* ghost: keys of storing calls that died before they were recorded

vars == <<refunds, attempts, receipts, pc, call, answer, stored, lost>>

Scenarios == {"success", "reject_before_side_effect", "timeout_before_send",
              "timeout_after_acceptance", "delayed_postcondition", "mismatched"}

(* get_booking stands for get_customer too. *)
Tools == {"create_refund_request", "get_refund", "get_booking"}

NoRefund == [hidden |-> 0, lookups |-> 0, present |-> FALSE]
StoredRefund == [hidden : {0, 2}, lookups : 0 .. 3, present : {TRUE}]

(* What a receipt says of itself: whether the provider called it a duplicate. *)
Receipt == {"original", "duplicate"}

Call == [key : Keys, scenario : Scenarios \cup {"none"}]
NoCall == [key |-> "none", scenario |-> "none"]
NoAnswer == [outcome |-> "none", effect |-> "none", receipt |-> "none"]

Answers ==
  [outcome : {"rejected"}, effect : {"none", "not_attempted"}, receipt : {"none"}]
    \cup [outcome : {"uncertain"}, effect : {"possible"}, receipt : {"none"}]
    \cup [outcome : {"succeeded"}, effect : {"none"}, receipt : {"none"}]
    \cup [outcome : {"succeeded"}, effect : {"confirmed"}, receipt : Receipt]

Attempt == [key : Keys,
            outcome : {"succeeded", "rejected", "uncertain"},
            effect : {"none", "not_attempted", "possible", "confirmed"}, stored : BOOLEAN]

(* ToolExecutionError and its subclasses: the outcome follows the state of the
   side effect.  Faults: a timeout after acceptance is reported as harmless; every
   failure is a rejection. *)
Careless(effect) == [outcome |-> "rejected", receipt |-> "none",
                     effect |-> IF effect = "possible" THEN "none" ELSE effect]
Rejected(effect) == [outcome |-> "rejected", effect |-> effect, receipt |-> "none"]
Failure(effect) == [outcome |-> IF effect = "possible" THEN "uncertain" ELSE "rejected",
                    effect |-> effect, receipt |-> "none"]

Confirmed(receipt) ==
  [outcome |-> "succeeded", effect |-> "confirmed", receipt |-> receipt]
Found == [outcome |-> "succeeded", effect |-> "none", receipt |-> "none"]

At(c, step) == pc[c] = step
Goto(c, step) == pc' = [pc EXCEPT ![c] = step]

(* The provider answers; the scenario has played its part. *)
Answered(c, a) == /\ answer' = [answer EXCEPT ![c] = a]
                  /\ call' = [call EXCEPT ![c].scenario = "none"]
                  /\ Goto(c, "record")
Row(c) == [key |-> call[c].key, outcome |-> answer[c].outcome, effect |-> answer[c].effect,
           stored |-> stored[c]]
provider == <<refunds, stored>>
database == <<attempts, receipts>>

Init == /\ refunds = [k \in Keys |-> NoRefund]
        /\ attempts = {}
        /\ receipts = [k \in Keys |-> "none"]
        /\ pc = [c \in Callers |-> "idle"]
        /\ call = [c \in Callers |-> NoCall]
        /\ answer = [c \in Callers |-> NoAnswer]
        /\ stored = [c \in Callers |-> FALSE]
        /\ lost = {}

------------------------------------------------------------------------------
(* The call: registry.get and the validation of the payload precede it and
   change nothing when they fail. *)
Invoke(c, tool, k, scenario) ==
  /\ At(c, "idle")
  /\ call' = [call EXCEPT ![c] = [key |-> k, scenario |-> scenario]]
  /\ Goto(c, tool)
  /\ UNCHANGED <<provider, database, answer, lost>>

InvokeCreate(c, k) == \E s \in Scenarios : Invoke(c, "create_refund_request", k, s)
InvokeLookup(c, k) == Invoke(c, "get_refund", k, "success")
InvokeRead(c, k) == \E s \in {"success", "mismatched"} : Invoke(c, "get_booking", k, s)

(* get_booking and get_customer: a copy of the record, or not found. *)
ReadRecord(c) ==
  /\ At(c, "get_booking")
  /\ Answered(c, IF call[c].scenario = "success" THEN Found ELSE Failure("none"))
  /\ UNCHANGED <<provider, database, lost>>

(* create_refund: a key that is known is answered with its receipt, whatever
   the scenario.  Fault: the scenario is looked at first. *)
KnownIfSent(c) ==
  /\ refunds[call[c].key].present
  /\ call[c].scenario \notin {"reject_before_side_effect", "timeout_before_send"}
KnownKey(c) == refunds[call[c].key].present

ReturnDuplicate(c) == /\ At(c, "create_refund_request")
                      /\ KnownKey(c)
                      /\ Answered(c, Confirmed("duplicate"))
                      /\ UNCHANGED <<provider, database, lost>>

Refuse(c) ==
  LET scenario == call[c].scenario IN
  /\ At(c, "create_refund_request")
  /\ ~KnownKey(c)
  /\ \/ scenario \in {"reject_before_side_effect", "mismatched"}
        /\ Answered(c, Failure("none"))
     \/ scenario = "timeout_before_send" /\ Answered(c, Failure("not_attempted"))
  /\ UNCHANGED <<provider, database, lost>>

Accept(c) ==
  /\ At(c, "create_refund_request")
  /\ ~KnownKey(c)
  /\ call[c].scenario \in {"success", "timeout_after_acceptance", "delayed_postcondition"}
  /\ Goto(c, "store")
  /\ UNCHANGED <<provider, database, call, answer, lost>>

(* The store overwrites what another caller stored since the key was looked up;
   the receipts are equal, the count of lookups starts again. *)
Store(c) ==
  LET scenario == call[c].scenario IN
  /\ At(c, "store")
  /\ refunds' = [refunds EXCEPT ![call[c].key] =
                   [hidden |-> IF scenario = "delayed_postcondition" THEN 2 ELSE 0,
                    lookups |-> 0, present |-> TRUE]]
  /\ stored' = [stored EXCEPT ![c] = TRUE]
  /\ Answered(c, IF scenario = "timeout_after_acceptance"
                 THEN Failure("possible") ELSE Confirmed("original"))
  /\ UNCHANGED <<database, lost>>

(* lookup_refund counts the lookups of a refund it does not show yet.  Counts
   beyond the one that shows it are not told apart.  Fault: the lookup is not counted. *)
Uncounted(refund) == refund
Counted(refund) == [refund EXCEPT !.lookups = IF @ <= refund.hidden THEN @ + 1 ELSE @]
Visible(refund) == refund.present /\ refund.lookups > refund.hidden

LookupRefund(c) ==
  LET k == call[c].key IN
  /\ At(c, "get_refund")
  /\ refunds' = [refunds EXCEPT ![k] = IF @.present THEN Counted(@) ELSE @]
  /\ Answered(c, Found)
  /\ UNCHANGED <<stored, database, lost>>

------------------------------------------------------------------------------
(* A failure, or an output that is no refund receipt: the attempt alone is
   recorded.  Fault: a failure is raised before it is recorded. *)
RaiseAtOnce(c) == /\ At(c, "record")
                  /\ answer[c].receipt = "none"
                  /\ attempts' = IF answer[c].outcome = "succeeded"
                                 THEN attempts \cup {Row(c)} ELSE attempts
                  /\ Goto(c, "replied")
                  /\ UNCHANGED <<provider, receipts, call, answer, lost>>

RecordAttempt(c) == /\ At(c, "record")
                    /\ answer[c].receipt = "none"
                    /\ attempts' = attempts \cup {Row(c)}
                    /\ Goto(c, "replied")
                    /\ UNCHANGED <<provider, receipts, call, answer, lost>>

(* A refund receipt: get_by_idempotency_key, after the attempt was flushed. *)
ReceiptExists(c) == /\ At(c, "record")
                    /\ answer[c].receipt # "none"
                    /\ receipts[call[c].key] # "none"
                    /\ attempts' = attempts \cup {Row(c)}
                    /\ Goto(c, "replied")
                    /\ UNCHANGED <<provider, receipts, call, answer, lost>>

ReceiptMissing(c) == /\ At(c, "record")
                     /\ answer[c].receipt # "none"
                     /\ receipts[call[c].key] = "none"
                     /\ Goto(c, "insert")
                     /\ UNCHANGED <<provider, database, call, answer, lost>>

(* Provider, tool and key of a receipt are unique.  Fault: they are not. *)
AnyReceipt(c) == TRUE
NoReceiptYet(c) == receipts[call[c].key] = "none"

(* The receipt is inserted and the attempt commits with it.  Fault: the receipt
   has a transaction of its own. *)
ReceiptAlone(c) == /\ At(c, "insert")
                   /\ NoReceiptYet(c)
                   /\ receipts' = [receipts EXCEPT ![call[c].key] = answer[c].receipt]
                   /\ answer' = [answer EXCEPT ![c].receipt = "none"]
                   /\ Goto(c, "record")
                   /\ UNCHANGED <<provider, attempts, call, lost>>

InsertReceipt(c) ==
  /\ At(c, "insert")
  /\ NoReceiptYet(c)
  /\ receipts' = [receipts EXCEPT ![call[c].key] = answer[c].receipt]
  /\ attempts' = attempts \cup {Row(c)}
  /\ Goto(c, "replied")
  /\ UNCHANGED <<provider, call, answer, lost>>

(* Another caller inserted it first: IntegrityError, and the attempt, which is
   in the same transaction, is rolled back with it. *)
ReceiptCollides(c) == /\ At(c, "insert")
                      /\ ~NoReceiptYet(c)
                      /\ Goto(c, "collided")
                      /\ UNCHANGED <<provider, database, call, answer, lost>>

------------------------------------------------------------------------------
Forget(c) == /\ Goto(c, "idle")
             /\ call' = [call EXCEPT ![c] = NoCall]
             /\ answer' = [answer EXCEPT ![c] = NoAnswer]
             /\ stored' = [stored EXCEPT ![c] = FALSE]
             /\ UNCHANGED <<refunds, database>>

Return(c) == /\ pc[c] \in {"replied", "collided"}
             /\ Forget(c)
             /\ UNCHANGED lost

(* The database is unreachable, or the caller dies, in the middle of a call. *)
Abort(c) == /\ pc[c] \notin {"idle", "replied", "collided"}
            /\ Forget(c)
            /\ lost' = IF stored[c] THEN lost \cup {call[c].key} ELSE lost

Step(c) == \/ ReadRecord(c) \/ LookupRefund(c)
           \/ ReturnDuplicate(c) \/ Refuse(c) \/ Accept(c) \/ Store(c)
           \/ RecordAttempt(c) \/ ReceiptExists(c) \/ ReceiptMissing(c)
           \/ InsertReceipt(c) \/ ReceiptCollides(c) \/ Return(c)

Calls(c) == \E k \in Keys : InvokeCreate(c, k) \/ InvokeLookup(c, k) \/ InvokeRead(c, k)

Next == \E c \in Callers : Calls(c) \/ Step(c) \/ Abort(c)

Spec == Init /\ [][Next]_vars

(* Callers go on with what they began; and each refund is looked up again and again,
   which is how an answer that was lost is recovered (docs/backend/
   DELIVERY_CONTRACT.md: reconciliation, no blind retry), and lookups go through now
   and then however often their callers die.  Nobody is made to create a refund. *)
FairSpec ==
  /\ Spec
  /\ \A c \in Callers : WF_vars(Step(c))
  /\ \A k \in Keys : /\ SF_vars(\E c \in Callers : InvokeLookup(c, k))
                     /\ SF_vars(\E c \in Callers : call[c].key = k /\ LookupRefund(c))

------------------------------------------------------------------------------
(* Properties. *)

(* Every variable has its type. *)
TypeOK == /\ refunds \in [Keys -> StoredRefund \cup {NoRefund}]
          /\ attempts \subseteq Attempt
          /\ receipts \in [Keys -> Receipt \cup {"none"}]
          /\ pc \in [Callers -> Tools \cup {"idle", "store", "record", "insert",
                                            "replied", "collided"}]
          /\ call \in [Callers -> Call \cup {NoCall}]
          /\ answer \in [Callers -> Answers \cup {NoAnswer}]
          /\ stored \in [Callers -> BOOLEAN]
          /\ lost \subseteq Keys

(* What is recorded is what the provider did (backend-sprint-05): an attempt
   recorded as none or not_attempted made it store nothing, one recorded as possible
   did store a refund nobody acknowledged, one recorded as confirmed is backed by a
   refund it holds.  A receipt and an attempt that confirms it exist together or not
   at all: no receipt is made up from an absent response. *)
RecordsAreTruthful ==
  /\ \A a \in attempts :
       /\ a.effect \in {"none", "not_attempted"} => ~a.stored
       /\ a.effect = "possible" => a.stored
       /\ a.effect = "confirmed" => refunds[a.key].present
  /\ \A k \in Keys :
       receipts[k] # "none" <=> \E a \in attempts : a.key = k /\ a.effect = "confirmed"

(* No refund is forgotten: one the provider holds is known from an attempt that
   says possible or confirmed, or is about to be, unless its caller died between
   the provider and the database. *)
Recording(c, k) == stored[c] /\ call[c].key = k
KnownFromAttempts(k) ==
  \E a \in attempts : a.key = k /\ a.effect \in {"possible", "confirmed"}

RefundsAreKnown ==
  \A k \in Keys : refunds[k].present =>
    KnownFromAttempts(k) \/ k \in lost \/ \E c \in Callers : Recording(c, k)

(* A receipt, once recorded, is never replaced, whatever retries and duplicates
   of its key do; nor is an attempt removed. *)
ReceiptsAreKept ==
  [][/\ \A k \in Keys : receipts[k] # "none" => receipts'[k] = receipts[k]
     /\ attempts \subseteq attempts']_vars

(* A request that is delivered again is answered with the receipt of the first
   delivery, whatever scenario it meets, and stores nothing: once an attempt of its key
   says that the provider acted or may have acted, and also when the caller that
   made it act died before it recorded anything. *)
RetriesAreAnswered ==
  [][\A c \in Callers :
       /\ At(c, "create_refund_request") /\ pc'[c] \notin {"create_refund_request", "idle"}
       /\ KnownFromAttempts(call[c].key) \/ call[c].key \in lost
       => answer'[c] = Confirmed("duplicate") /\ ~stored'[c]]_vars

(* A refund the provider holds becomes visible by being looked up and stays so,
   although a racing store may hide it again, and although the callers that create it
   and look it up may die at any point. *)
RefundsBecomeVisible ==
  \A k \in Keys : [](refunds[k].present => <>[]Visible(refunds[k]))

(* backend-sprint-05: "Repeated attempts remain auditable while only one logical
   receipt is retained."  A call that has ended has left its attempt. *)
AttemptsAreAuditable ==
  \A c \in Callers : pc[c] \in {"replied", "collided"} => Row(c) \in attempts
==============================================================================
