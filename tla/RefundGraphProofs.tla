-------------------------- MODULE RefundGraphProofs --------------------------
(***************************************************************************)
(* Proofs about RefundGraph for any invocations of a run's thread and any  *)
(* amounts.  A result is fresh because every channel a node reads was      *)
(* written by this invocation before: the inductive invariant says, for    *)
(* each node, which channels are this invocation's own when it is reached. *)
(***************************************************************************)
EXTENDS RefundGraph, TLAPS

(* The nodes that come after n is finished. *)
After == [classify |-> (Nodes \ {"classify"}) \cup {"end"},
          preliminary_policy |-> {"eligibility", "risk", "propose", "end"},
          eligibility |-> {"risk", "propose", "end"},
          risk |-> {"propose", "end"}, propose |-> {"end"}]

(* The channels that the nodes before n wrote are functions of the context c and
   of the classification; the others may be left from another invocation. *)
OwnAt(n, s, c) ==
  /\ n # "idle" => s.context = c
  /\ n \in After["classify"] => s.cause \in Causes
  /\ n \in After["preliminary_policy"] => s.policy_status = "pending_retrieval"
  /\ n \in After["eligibility"] => s.eligible = Eligible(s)
  /\ n \in After["risk"] => /\ s.risk_codes = RiskCodes(s)
                            /\ s.requires_approval = (RiskCodes(s) # {})
  /\ n \in After["propose"] => s.proposed = ProposedAmount(s)

ChannelsAreOwn == \A w \in Workers : OwnAt(node[w], state[w], context)

IInv == TypeOK /\ ChannelsAreOwn

------------------------------------------------------------------------------
(* Lemmas on the nodes and the channels. *)

(* What comes after each node, and what does not. *)
LEMMA NodeOrder ==
  /\ Edge["classify"] = "preliminary_policy" /\ Edge["preliminary_policy"] = "eligibility"
  /\ Edge["eligibility"] = "risk" /\ Edge["risk"] = "propose" /\ Edge["propose"] = "end"
  /\ After["classify"] = {"preliminary_policy", "eligibility", "risk", "propose", "end"}
  /\ After["preliminary_policy"] = {"eligibility", "risk", "propose", "end"}
  /\ After["eligibility"] = {"risk", "propose", "end"}
  /\ After["risk"] = {"propose", "end"} /\ After["propose"] = {"end"}
BY DEF Nodes, Edge, After

(* A node's writing keeps the other channels, so it keeps what the nodes before
   it made of the channels they read. *)
LEMMA WritingKeeps ==
  ASSUME NEW s, NEW t, t.context = s.context, t.cause = s.cause, t.eligible = s.eligible
  PROVE  /\ Eligible(t) = Eligible(s) /\ RiskCodes(t) = RiskCodes(s)
         /\ ProposedAmount(t) = ProposedAmount(s)
BY DEF Eligible, RiskCodes, ProposedAmount

(* The codes of a risk assessment, one by one. *)
LEMMA CodesOneByOne ==
  ASSUME NEW s
  PROVE  /\ RiskCodes(s) \subseteq Codes
         /\ "amount_above_operator_threshold" \in RiskCodes(s)
              <=> AboveThreshold(s.context.amount)
         /\ "vip_customer" \in RiskCodes(s) <=> s.context.customer_tier = "vip"
         /\ "eligibility_not_established" \in RiskCodes(s) <=> s.eligible # TRUE
BY DEF RiskCodes, Codes

(* An invocation that is in order leaves every other one in order. *)
LEMMA OthersKeepTheirs ==
  ASSUME IInv, NEW w \in Workers, NEW n \in Nodes \cup {"idle", "end"}, NEW s \in Channels,
         node' = [node EXCEPT ![w] = n], state' = [state EXCEPT ![w] = s],
         context' = context, thread' \in Channels, OwnAt(n, s, context)
  PROVE  IInv'
<1>1. TypeOK'
  BY DEF IInv, TypeOK
<1>2. ASSUME NEW v \in Workers PROVE OwnAt(node'[v], state'[v], context)
  <2>1. CASE v = w
    BY <2>1 DEF IInv, TypeOK
  <2>2. CASE v # w
    <3>1. node'[v] = node[v] /\ state'[v] = state[v]
      BY <2>2 DEF IInv, TypeOK
    <3> QED BY <3>1 DEF IInv, ChannelsAreOwn
  <2> QED BY <2>1, <2>2
<1>3. ChannelsAreOwn'
  BY <1>2 DEF ChannelsAreOwn
<1> QED BY <1>1, <1>3 DEF IInv

------------------------------------------------------------------------------
(* The invariant holds initially and every action preserves it. *)

(* The invocations have not begun. *)
LEMMA InitIInv == Init => IInv
<1> SUFFICES ASSUME Init PROVE IInv
  OBVIOUS
<1>1. Blank \in Channels
  BY DEF Blank, Channels
<1>2. TypeOK
  BY <1>1 DEF Init, TypeOK
<1>3. ChannelsAreOwn
  BY NodeOrder DEF Init, ChannelsAreOwn, OwnAt
<1> QED BY <1>2, <1>3 DEF IInv

(* An invocation starts with the request's context and with nothing else that is
   its own. *)
LEMMA InvokeIInv ==
  ASSUME IInv, NEW w \in Workers, Invoke(w)
  PROVE  IInv'
<1> DEFINE s == [thread EXCEPT !.context = context]
<1>1. s \in Channels /\ s.context = context
  BY DEF IInv, TypeOK, Channels
<1>2. OwnAt("classify", s, context)
  BY <1>1, NodeOrder DEF OwnAt
<1> QED BY <1>1, <1>2, OthersKeepTheirs DEF Invoke, Nodes

(* The classification becomes the invocation's own. *)
LEMMA ClassifyIInv ==
  ASSUME IInv, NEW w \in Workers, NEW cause \in Causes, Classify(w, cause)
  PROVE  IInv'
<1> DEFINE s == [state[w] EXCEPT !.cause = cause]
<1>1. s \in Channels /\ s.cause = cause
  BY DEF IInv, TypeOK, Channels
<1>2. s.context = context
  BY DEF IInv, TypeOK, Channels, ChannelsAreOwn, OwnAt, Classify
<1>3. OwnAt("preliminary_policy", s, context)
  BY <1>1, <1>2, NodeOrder DEF OwnAt
<1> QED BY <1>1, <1>3, OthersKeepTheirs, NodeOrder DEF Classify, Finish, Nodes

(* Each node makes its channels the invocation's own and leaves the others. *)
LEMMA ExecuteIInv ==
  ASSUME IInv, NEW w \in Workers, Execute(w)
  PROVE  IInv'
<1> DEFINE n == node[w]
           old == state[w]
           s == Written(old, n)
<1>1. /\ n \in Nodes \ {"classify"} /\ old \in Channels /\ OwnAt(n, old, context)
      /\ context \in Context
  BY DEF IInv, TypeOK, Execute, ChannelsAreOwn
<1>2. old.context = context /\ context.amount \in Amounts
  BY <1>1 DEF OwnAt, Nodes, Context
<1>3. SUFFICES s \in Channels /\ OwnAt(Edge[n], s, context)
  <2>1. Edge[n] \in Nodes \cup {"idle", "end"}
    BY <1>1, NodeOrder DEF Nodes
  <2> QED BY <1>3, <2>1, OthersKeepTheirs DEF Execute, Finish
<1>4. CASE n = "preliminary_policy"
  <2>1. s = [old EXCEPT !.policy_status = "pending_retrieval"]
    BY <1>4 DEF Written
  <2>2. /\ s \in Channels /\ s.context = old.context /\ s.cause = old.cause
        /\ s.policy_status = "pending_retrieval"
    BY <1>1, <2>1 DEF Channels
  <2> QED BY <1>1, <1>2, <1>4, <2>2, NodeOrder DEF OwnAt
<1>5. CASE n = "eligibility"
  <2>1. s = [old EXCEPT !.eligible = Eligible(old)]
    BY <1>5 DEF Written
  <2>2. /\ s \in Channels /\ s.context = old.context /\ s.cause = old.cause
        /\ s.policy_status = old.policy_status /\ s.eligible = Eligible(old)
    BY <1>1, <2>1 DEF Channels, Eligible
  <2>3. Eligible(s) = Eligible(old)
    BY <2>2 DEF Eligible
  <2> QED BY <1>1, <1>2, <1>5, <2>2, <2>3, NodeOrder DEF OwnAt
<1>6. CASE n = "risk"
  <2>1. s = [old EXCEPT !.risk_codes = RiskCodes(old),
                        !.requires_approval = RiskCodes(old) # {}]
    BY <1>6 DEF Written
  <2>2. /\ s.context = old.context /\ s.cause = old.cause /\ s.eligible = old.eligible
        /\ s.policy_status = old.policy_status /\ s.risk_codes = RiskCodes(old)
        /\ s.requires_approval = (RiskCodes(old) # {})
    BY <1>1, <2>1 DEF Channels
  <2>3. s \in Channels
    BY <1>1, <2>1, CodesOneByOne DEF Channels
  <2>4. RiskCodes(s) = RiskCodes(old) /\ Eligible(s) = Eligible(old)
    BY <2>2, WritingKeeps
  <2> QED BY <1>1, <1>2, <1>6, <2>2, <2>3, <2>4, NodeOrder DEF OwnAt
<1>7. CASE n = "propose"
  <2>1. s = [old EXCEPT !.proposed = ProposedAmount(old)]
    BY <1>7 DEF Written
  <2>2. /\ s.context = old.context /\ s.cause = old.cause /\ s.eligible = old.eligible
        /\ s.policy_status = old.policy_status /\ s.risk_codes = old.risk_codes
        /\ s.requires_approval = old.requires_approval
        /\ s.proposed = ProposedAmount(old)
    BY <1>1, <2>1 DEF Channels
  <2>3. s \in Channels
    BY <1>1, <1>2, <2>1 DEF Channels, ProposedAmount
  <2>4. /\ RiskCodes(s) = RiskCodes(old) /\ Eligible(s) = Eligible(old)
        /\ ProposedAmount(s) = ProposedAmount(old)
    BY <2>2, WritingKeeps
  <2> QED BY <1>1, <1>2, <1>7, <2>2, <2>3, <2>4, NodeOrder DEF OwnAt
<1> QED BY <1>1, <1>4, <1>5, <1>6, <1>7 DEF Nodes

(* An invocation that ends has nothing left to keep. *)
LEMMA LeaveIInv ==
  ASSUME IInv, NEW w \in Workers, Leave(w)
  PROVE  IInv'
<1>1. Blank \in Channels
  BY DEF Blank, Channels
<1>2. OwnAt("idle", Blank, context)
  BY NodeOrder DEF OwnAt
<1> QED BY <1>1, <1>2, OthersKeepTheirs DEF Leave, IInv, TypeOK

(* Nothing changes when no invocation moves. *)
LEMMA StutterIInv ==
  ASSUME IInv, UNCHANGED vars
  PROVE  IInv'
BY DEF IInv, TypeOK, ChannelsAreOwn, vars

(* Every step of a run keeps the channels of its invocations their own. *)
THEOREM Invariance == Spec => []IInv
<1>1. IInv /\ [Next]_vars => IInv'
  BY InvokeIInv, ClassifyIInv, ExecuteIInv, LeaveIInv, StutterIInv DEF Next
<1> QED BY <1>1, InitIInv, PTL DEF Spec

------------------------------------------------------------------------------
(* The theorems. *)

(* Every channel of the checkpoint and of the invocations keeps its type. *)
THEOREM TypeCorrectness == Spec => []TypeOK
BY Invariance, PTL DEF IInv

(* The result of an invocation is what its context and its own classification
   make of it, whatever invocations of the thread came before or run beside it. *)
THEOREM Freshness == Spec => []ResultsAreFresh
<1>1. IInv => ResultsAreFresh
  <2> SUFFICES ASSUME IInv, NEW w \in Workers, node[w] = "end"
               PROVE  state[w] = Reference(state[w].cause)
    BY DEF ResultsAreFresh
  <2> DEFINE s == state[w]
             eligible == context.booking_status = "cancelled" /\ s.cause = "carrier_cancellation"
             codes == (IF context.amount > 10000 THEN {"amount_above_operator_threshold"} ELSE {})
                        \cup (IF context.customer_tier = "vip" THEN {"vip_customer"} ELSE {})
                        \cup (IF eligible THEN {} ELSE {"eligibility_not_established"})
             required == codes # {}
  <2>1. OwnAt("end", s, context) /\ s \in Channels /\ context.amount \in Nat
    BY GraphAssumption DEF IInv, ChannelsAreOwn, TypeOK, Context
  <2>2. /\ s.context = context /\ s.policy_status = "pending_retrieval"
        /\ s.eligible = Eligible(s) /\ s.risk_codes = RiskCodes(s)
        /\ s.requires_approval = (RiskCodes(s) # {}) /\ s.proposed = context.amount
    BY <2>1, NodeOrder DEF OwnAt, ProposedAmount
  <2>3. s.eligible = eligible
    BY <2>2 DEF Eligible
  <2>4. RiskCodes(s) = codes
    <3>1. /\ "amount_above_operator_threshold" \in codes <=> context.amount > 10000
          /\ "vip_customer" \in codes <=> context.customer_tier = "vip"
          /\ "eligibility_not_established" \in codes <=> ~eligible
          /\ codes \subseteq Codes
      BY DEF Codes
    <3>2. /\ "amount_above_operator_threshold" \in RiskCodes(s) <=> context.amount > 10000
          /\ "vip_customer" \in RiskCodes(s) <=> context.customer_tier = "vip"
          /\ RiskCodes(s) \subseteq Codes
      <4>1. s.context.amount = context.amount /\ s.context.customer_tier = context.customer_tier
        BY <2>2
      <4>2. AboveThreshold(s.context.amount) <=> context.amount > 10000
        BY <2>1, <4>1 DEF AboveThreshold, Threshold
      <4>3. /\ RiskCodes(s) \subseteq Codes
            /\ "amount_above_operator_threshold" \in RiskCodes(s)
                 <=> AboveThreshold(s.context.amount)
            /\ "vip_customer" \in RiskCodes(s) <=> s.context.customer_tier = "vip"
        BY CodesOneByOne, Zenon
      <4> HIDE DEF s
      <4> QED BY <4>1, <4>2, <4>3
    <3>3. "eligibility_not_established" \in RiskCodes(s) <=> ~eligible
      BY <2>3, CodesOneByOne
    <3> HIDE DEF codes, eligible
    <3>4. \A c \in Codes : c \in RiskCodes(s) <=> c \in codes
      BY <3>1, <3>2, <3>3 DEF Codes
    <3> QED BY <3>1, <3>2, <3>4
  <2>5. s.risk_codes = codes /\ s.requires_approval = required
    BY <2>2, <2>4
  <2>6. Reference(s.cause)
          = [context |-> context, cause |-> s.cause, policy_status |-> "pending_retrieval",
             eligible |-> eligible, risk_codes |-> codes, requires_approval |-> required,
             proposed |-> context.amount]
    BY DEF Reference
  <2> HIDE DEF eligible, codes, required
  <2> QED BY <2>1, <2>2, <2>3, <2>5, <2>6 DEF Channels
<1> QED BY <1>1, Invariance, PTL

(* Approval is waived only when every rule allows it, by this invocation's own
   classification. *)
THEOREM Waivers == Spec => []WaiversAreEarned
<1>1. IInv => WaiversAreEarned
  <2> SUFFICES ASSUME IInv, NEW w \in Workers, node[w] \in {"propose", "end"},
                      ~state[w].requires_approval
               PROVE  /\ context.booking_status = "cancelled" /\ context.amount <= 10000
                      /\ context.customer_tier # "vip"
                      /\ state[w].cause = "carrier_cancellation"
    BY DEF WaiversAreEarned
  <2> DEFINE s == state[w]
  <2>1. OwnAt(node[w], s, context) /\ context \in Context
    BY DEF IInv, ChannelsAreOwn, TypeOK
  <2>2. /\ s.context = context /\ s.eligible = Eligible(s)
        /\ s.requires_approval = (RiskCodes(s) # {})
    BY <2>1, NodeOrder DEF OwnAt
  <2>3. RiskCodes(s) = {} /\ context.amount \in Nat
    BY <2>1, <2>2, GraphAssumption DEF Context
  <2>4. Eligible(s) /\ ~AboveThreshold(context.amount) /\ context.customer_tier # "vip"
    BY <2>2, <2>3, CodesOneByOne DEF Eligible
  <2> QED BY <2>2, <2>3, <2>4 DEF Eligible, AboveThreshold, Threshold
<1> QED BY <1>1, Invariance, PTL
==============================================================================
