----------------------------- MODULE RefundGraph -----------------------------
(***************************************************************************)
(* The refund graph on the checkpointed thread of one run.  Every          *)
(* invocation starts from START with the request's context; a node reads   *)
(* and writes channels, and each finished node is checkpointed.  The       *)
(* channels of an earlier invocation of the run, which may have died after *)
(* any node or been given another classification, are still there when the *)
(* next one starts.  The context is the same every time: a run has one     *)
(* task, whose request and snapshots are never updated.                    *)
(*                                                                         *)
(* Money is in cents; the threshold is 100 in any currency.                *)
(***************************************************************************)
EXTENDS Naturals

CONSTANTS Workers,    \* requests that work on the run, one invocation each at a time
          Amounts,    \* paid amounts, in cents
          Unset       \* the value of a channel nobody has written

Threshold == 10000

ASSUME GraphAssumption == Amounts \subseteq Nat /\ Unset \notin Nat \cup BOOLEAN

VARIABLES
  context, \* the booking's status and amount and the customer's tier
  thread,  \* the channels in the latest checkpoint of the run's thread
  node,    \* node[w]: the node invocation w executes next
  state    \* state[w]: the channels invocation w works on

vars == <<context, thread, node, state>>

Context == [booking_status : {"cancelled", "confirmed"},
            customer_tier : {"vip", "standard"}, amount : Amounts]
Causes == {"carrier_cancellation", "unknown"}
Codes == {"amount_above_operator_threshold", "vip_customer", "eligibility_not_established"}

Channels == [context : Context \cup {Unset}, cause : Causes \cup {Unset},
             policy_status : {"pending_retrieval", Unset},
             eligible : BOOLEAN \cup {Unset}, risk_codes : SUBSET Codes,
             requires_approval : BOOLEAN \cup {Unset},
             proposed : Amounts \cup {Unset}]

Blank == [context |-> Unset, cause |-> Unset, policy_status |-> Unset, eligible |-> Unset,
          risk_codes |-> {}, requires_approval |-> Unset, proposed |-> Unset]

Nodes == {"classify", "preliminary_policy", "eligibility", "risk", "propose"}

(* The edges of build_refund_graph.  Fault: risk comes before eligibility. *)
Swapped == [classify |-> "preliminary_policy", preliminary_policy |-> "risk",
            risk |-> "eligibility", eligibility |-> "propose", propose |-> "end"]
Edge == [classify |-> "preliminary_policy", preliminary_policy |-> "eligibility",
         eligibility |-> "risk", risk |-> "propose", propose |-> "end"]

------------------------------------------------------------------------------
(* The deterministic nodes, as functions of the channels. *)

(* Fault: the cause is not looked at. *)
CancelledOnly(s) == s.context.booking_status = "cancelled"
Eligible(s) == s.context.booking_status = "cancelled" /\ s.cause = "carrier_cancellation"

AboveThreshold(amount) == amount > Threshold

RiskCodes(s) ==
  {code \in Codes :
     CASE code = "amount_above_operator_threshold" -> AboveThreshold(s.context.amount)
       [] code = "vip_customer" -> s.context.customer_tier = "vip"
       [] code = "eligibility_not_established" -> s.eligible # TRUE}

(* Fault: the amount is proposed in whole units. *)
InUnits(s) == s.context.amount \div 100
ProposedAmount(s) == s.context.amount

Written(s, n) ==
  CASE n = "preliminary_policy" -> [s EXCEPT !.policy_status = "pending_retrieval"]
    [] n = "eligibility" -> [s EXCEPT !.eligible = Eligible(s)]
    [] n = "risk" -> [s EXCEPT !.risk_codes = RiskCodes(s),
                               !.requires_approval = RiskCodes(s) # {}]
    [] n = "propose" -> [s EXCEPT !.proposed = ProposedAmount(s)]

------------------------------------------------------------------------------
Init == /\ context \in Context
        /\ thread = Blank
        /\ node = [w \in Workers |-> "idle"]
        /\ state = [w \in Workers |-> Blank]

(* graph.invoke with an input: the thread's channels, the context replaced. *)
Invoke(w) ==
  LET s == [thread EXCEPT !.context = context] IN
  /\ node[w] = "idle"
  /\ node' = [node EXCEPT ![w] = "classify"]
  /\ state' = [state EXCEPT ![w] = s]
  /\ thread' = s
  /\ UNCHANGED context

Finish(w, n, s) == /\ node' = [node EXCEPT ![w] = Edge[n]]
                   /\ state' = [state EXCEPT ![w] = s]
                   /\ thread' = s
                   /\ UNCHANGED context

(* The gateway's answer, validated; another model may answer otherwise. *)
Classify(w, cause) == /\ node[w] = "classify"
                      /\ Finish(w, "classify", [state[w] EXCEPT !.cause = cause])

Execute(w) == /\ node[w] \in Nodes \ {"classify"}
              /\ Finish(w, node[w], Written(state[w], node[w]))

(* The request takes the result, or ends without one: the gateway timed out,
   was unavailable or answered out of schema, or the process died. *)
Leave(w) == /\ node[w] # "idle"
            /\ node' = [node EXCEPT ![w] = "idle"]
            /\ state' = [state EXCEPT ![w] = Blank]
            /\ UNCHANGED <<context, thread>>

Next == \E w \in Workers : \/ Invoke(w)
                           \/ \E cause \in Causes : Classify(w, cause)
                           \/ Execute(w)
                           \/ Leave(w)

Spec == Init /\ [][Next]_vars

------------------------------------------------------------------------------
(* Properties. *)

(* Every channel has its type, in the checkpoint and in every invocation. *)
TypeOK == /\ context \in Context
          /\ thread \in Channels
          /\ node \in [Workers -> Nodes \cup {"idle", "end"}]
          /\ state \in [Workers -> Channels]

(* What the result of an invocation should be, from the context and its
   classification alone. *)
Reference(cause) ==
  LET eligible == context.booking_status = "cancelled" /\ cause = "carrier_cancellation"
      codes == (IF context.amount > 10000 THEN {"amount_above_operator_threshold"} ELSE {})
                 \cup (IF context.customer_tier = "vip" THEN {"vip_customer"} ELSE {})
                 \cup (IF eligible THEN {} ELSE {"eligibility_not_established"})
  IN [context |-> context, cause |-> cause, policy_status |-> "pending_retrieval",
      eligible |-> eligible, risk_codes |-> codes, requires_approval |-> codes # {},
      proposed |-> context.amount]

(* Results are fresh: nothing an earlier or concurrent invocation left in the
   thread's checkpoint, under another classification, reaches the result of this
   one. *)
ResultsAreFresh ==
  \A w \in Workers : node[w] = "end" => state[w] = Reference(state[w].cause)

(* Approval is waived only for a refund of at most 100, to a customer who is no
   VIP, of a booking the carrier cancelled according to this invocation's own
   classification. *)
WaiversAreEarned ==
  \A w \in Workers : node[w] \in {"propose", "end"} /\ ~state[w].requires_approval =>
    /\ context.booking_status = "cancelled" /\ context.amount <= 10000
    /\ context.customer_tier # "vip"
    /\ state[w].cause = "carrier_cancellation"
==============================================================================
