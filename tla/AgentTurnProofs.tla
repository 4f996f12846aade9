-------------------------- MODULE AgentTurnProofs --------------------------
(* Proofs that an agent turn keeps its inductive invariant IInv, and that it   *)
(* implements the turn as its caller sees it.                                  *)
EXTENDS AgentTurn, FiniteSetTheorems, TLAPS

Responses == [intent: RouteIntents, outcome: {"completed", "escalated", "blocked", "failed"},
              reason: Reasons]

(* How a tool call, or a step of one, may leave the turn.                  *)
GoesOn == pc' = "answering" /\ reply' = reply
GivesUp == pc' = "replied" /\ reply' = FailedResponse

LEMMA FailedIsResponse ==
  /\ FailedResponse \in Responses /\ FailedResponse # NoReply
  /\ FailedResponse.reason = "model_error" /\ FailedResponse.outcome = "failed"
BY DEF FailedResponse, NoReply, Responses, RouteIntents, Reasons

LEMMA FaultKinds ==
  ASSUME NEW tool, NEW o
  PROVE  Fault(tool, o) \in {"none", "timeout", "malformed"}
BY DEF Fault

LEMMA SpentInScript ==
  ASSUME NEW tool, NEW o
  PROVE  Spent(tool, o) \subseteq DOMAIN request.script
BY DEF Spent, NextEntry, Live

Errors == {"timeout", "malformed", "order_not_found", "forbidden", "invalid_transition"}

(* An order that passes the check is refundable, and was from the start.   *)
LEMMA EligibilityKinds ==
  ASSUME NEW o \in Orders
  PROVE  /\ GetOrder(o) \in Errors \cup {"ok"}
         /\ Eligibility(o) \in Errors \cup {"ok"}
         /\ Eligibility(o) = "ok" => o \in Mine /\ status[o] = "delivered"
BY FaultKinds DEF GetOrder, Eligibility, Refundable, Errors

LEMMA BlockedReasons ==
  ASSUME NEW e \in Errors, e \notin Interrupts
  PROVE  BlockedBy[e] \in ToolErrors
BY DEF Errors, Interrupts, BlockedBy, ToolErrors

LEMMA ToolEndsHow ==
  ASSUME NEW tool \in Tools, NEW error, ToolEnds(tool, error),
         retries \in Nat, failing \in Tools \cup {"none"}
  PROVE  /\ GoesOn \/ GivesUp
         /\ retries' \in Nat /\ failing' \in Tools \cup {"none"}
BY DEF ToolEnds, Raised, Answered, Broken, GoesOn, GivesUp

LEMMA OutcomeKinds ==
  ASSUME TypeOK, NEW cites \in BOOLEAN, draft # "none"
  PROVE  /\ Outcome(cites)[1] \in {"completed", "escalated", "blocked"}
         /\ Outcome(cites)[2] \in Reasons
         /\ Outcome(cites)[2] = "refund_confirmed" =>
              draft = "refund" /\ ConfirmedRefundFor(routing.order)
         /\ Outcome(cites)[2] = "refund_proposed" =>
              draft = "refund" /\ routing.order \in proposals
         /\ Outcome(cites)[1] = "escalated" => tickets > 0
<1>1. draft \in RouteIntents
  BY DEF TypeOK
<1>2. lastError \in ToolErrors \cup {"none"}
  BY DEF TypeOK
<1>3. CASE draft = "order_status"
  BY <1>3 DEF Outcome, Reasons, ToolErrors
<1>4. CASE draft = "policy"
  BY <1>4 DEF Outcome, Reasons, ToolErrors
<1>5. CASE draft = "refund"
  BY <1>2, <1>5 DEF Outcome, Reasons, ToolErrors
<1>6. CASE draft = "escalate"
  BY <1>6 DEF Outcome, Reasons, ToolErrors
<1>7. QED
  BY <1>1, <1>3, <1>4, <1>5, <1>6 DEF RouteIntents

LEMMA InitInv == Init => IInv
<1> SUFFICES ASSUME Init PROVE IInv
  OBVIOUS
<1> USE TurnAssumption DEF Init
<1>1. TypeOK
  BY DEF TypeOK, RouteIntents, Tools, PolicyVersions, RequestLimit
<1>2. RowInv /\ ProposalInv /\ TargetInv /\ ReplyInv
  BY DEF RowInv, ProposalInv, TargetInv, ReplyInv
<1>3. RefundNeedsConsent /\ MutationsAreEffects
  BY DEF RefundNeedsConsent, MutationsAreEffects
<1>4. ReplyIsTrue
  BY DEF ReplyIsTrue, NoReply
<1>5. QED
  BY <1>1, <1>2, <1>3, <1>4 DEF IInv

-----------------------------------------------------------------------------
(* Steps that touch neither orders nor proposals                           *)

(* What the safety parts of IInv read, apart from the control state.       *)
Facts == <<request, routing, status, proposals, confirmed, tickets, mutations>>

(* A turn that moves on or ends without a claim about refunds.             *)
LEMMA FactsKept ==
  ASSUME IInv, UNCHANGED Facts, TypeOK',
         pc \in {"routing", "answering", "reading", "updating"},
         (pc' = "answering" /\ pc # "routing" /\ reply' = reply) \/ (pc' = "replied" /\ reply' = FailedResponse)
  PROVE  IInv'
<1> USE DEF IInv, Facts
<1>1. RowInv' /\ RefundNeedsConsent' /\ MutationsAreEffects'
  BY DEF RowInv, RefundNeedsConsent, MutationsAreEffects
<1>2. ProposalInv' /\ TargetInv'
  BY DEF ProposalInv, TargetInv, RouteIntents
<1>3. reply = NoReply
  BY DEF ReplyInv
<1>4. ReplyInv'
  BY <1>3, FailedIsResponse DEF ReplyInv
<1>5. ReplyIsTrue'
  BY <1>3, FailedIsResponse DEF ReplyIsTrue, NoReply
<1>6. QED
  BY <1>1, <1>2, <1>4, <1>5

LEMMA RouteStep ==
  ASSUME IInv, NEW i \in RouteIntents, NEW o \in Orders \cup {NoOrder}, Route(i, o)
  PROVE  IInv'
<1> USE DEF IInv, Route, memory, effects, loop
<1>1. TypeOK'
  BY DEF TypeOK
<1>2. proposals = {}
  BY DEF ProposalInv, TypeOK, RouteIntents
<1>3. RowInv' /\ RefundNeedsConsent' /\ MutationsAreEffects'
  BY DEF RowInv, RefundNeedsConsent, MutationsAreEffects
<1>4. ProposalInv' /\ TargetInv'
  BY <1>2 DEF ProposalInv, TargetInv
<1>5. ReplyInv'
  BY DEF ReplyInv
<1>6. reply = NoReply
  BY DEF ReplyInv
<1>7. ReplyIsTrue'
  BY <1>6 DEF ReplyIsTrue, NoReply
<1>8. QED
  BY <1>1, <1>3, <1>4, <1>5, <1>7

LEMMA ModelFailsStep ==
  ASSUME IInv, ModelFails
  PROVE  IInv'
<1> USE DEF ModelFails, memory, effects, loop
<1>1. TypeOK'
  BY FailedIsResponse DEF IInv, TypeOK, Responses
<1>2. QED
  BY <1>1, FactsKept DEF Facts

LEMMA GetOrderStatusStep ==
  ASSUME IInv, NEW o \in Orders, ToolGetOrderStatus(o)
  PROVE  IInv'
<1> USE DEF ToolGetOrderStatus, Ask, effects
<1>1. TypeOK
  BY DEF IInv
<1>2. "get_order_status" \in Tools
  BY DEF Tools
<1>3. /\ GoesOn \/ GivesUp
      /\ retries' \in Nat /\ failing' \in Tools \cup {"none"}
  BY <1>1, <1>2, ToolEndsHow DEF TypeOK
<1>4. TypeOK'
  BY <1>1, <1>3, SpentInScript, FailedIsResponse
  DEF TypeOK, GoesOn, GivesUp, Responses, RequestLimit
<1>5. QED
  BY <1>3, <1>4, FactsKept DEF Facts, GoesOn, GivesUp

LEMMA GetPolicyStep ==
  ASSUME IInv, NEW v \in PolicyVersions, NEW fails \in BOOLEAN, ToolGetPolicy(v, fails)
  PROVE  IInv'
<1> USE DEF ToolGetPolicy, Ask, effects, memory
<1>1. TypeOK
  BY DEF IInv
<1>2. "get_policy" \in Tools
  BY DEF Tools
<1>3. /\ GoesOn \/ GivesUp
      /\ retries' \in Nat /\ failing' \in Tools \cup {"none"}
  BY <1>1, <1>2, ToolEndsHow DEF TypeOK
<1>4. policy' \in [version: PolicyVersions, called: BOOLEAN]
  BY <1>1 DEF TypeOK
<1>5. TypeOK'
  BY <1>1, <1>3, <1>4, SpentInScript, FailedIsResponse
  DEF TypeOK, GoesOn, GivesUp, Responses, RequestLimit
<1>6. QED
  BY <1>3, <1>5, FactsKept DEF Facts, GoesOn, GivesUp

LEMMA ConfirmRefusedStep ==
  ASSUME IInv, NEW o \in Orders, ToolConfirmRefused(o)
  PROVE  IInv'
<1> USE DEF ToolConfirmRefused, Ask, Answered, effects
<1>1. TypeOK
  BY DEF IInv
<1>2. TypeOK'
  BY <1>1 DEF TypeOK, RequestLimit, ToolErrors
<1>3. QED
  BY <1>2, FactsKept DEF Facts

-----------------------------------------------------------------------------
(* Steps that propose, escalate and refund                                 *)

LEMMA ProposeStep ==
  ASSUME IInv, NEW o \in Orders, ToolProposeRefund(o)
  PROVE  IInv'
<1> USE DEF ToolProposeRefund, Ask, effects
<1>1. TypeOK /\ reply = NoReply
  BY DEF IInv, ReplyInv
<1>2. "propose_refund" \in Tools
  BY DEF Tools
<1>3. /\ GoesOn \/ GivesUp
      /\ retries' \in Nat /\ failing' \in Tools \cup {"none"}
  BY <1>1, <1>2, ToolEndsHow DEF TypeOK
<1>4. lastError' \in ToolErrors \cup {"none"}
  BY <1>1, EligibilityKinds, BlockedReasons DEF TypeOK
<1>5. TypeOK'
  <2>1. proposals' \subseteq Orders /\ lastOrder' \in Orders \cup {NoOrder}
    BY <1>1 DEF TypeOK
  <2>2. QED
    BY <1>1, <1>3, <1>4, <2>1, SpentInScript, FailedIsResponse
    DEF TypeOK, GoesOn, GivesUp, Responses, RequestLimit
<1>6. routing.intent = "refund"
  BY DEF IInv, ProposalInv, ToolsByIntent, RouteIntents
<1>7. \A x \in proposals' \ proposals :
        x \in Mine /\ InitialStatus[x] = "delivered" /\ x \notin confirmed
  BY EligibilityKinds DEF IInv, RowInv, RefundNeedsConsent
<1>8. RowInv' /\ RefundNeedsConsent' /\ MutationsAreEffects'
  BY DEF IInv, RowInv, RefundNeedsConsent, MutationsAreEffects
<1>9. ProposalInv' /\ TargetInv'
  BY <1>3, <1>6, <1>7 DEF IInv, ProposalInv, TargetInv, GoesOn, GivesUp, RouteIntents
<1>10. ReplyInv' /\ ReplyIsTrue'
  BY <1>1, <1>3, FailedIsResponse
  DEF ReplyInv, ReplyIsTrue, NoReply, GoesOn, GivesUp
<1>11. QED
  BY <1>5, <1>8, <1>9, <1>10 DEF IInv

LEMMA TicketMade ==
  ASSUME TypeOK, MutationsAreEffects, CreateTicket
  PROVE  /\ tickets' \in Nat /\ tickets' > 0 /\ status' = status
         /\ mutations' \in [Orders \cup {Ticket} -> Nat]
         /\ \A o \in Orders : mutations'[o] = mutations[o]
         /\ mutations'[Ticket] = tickets'
BY TurnAssumption DEF TypeOK, MutationsAreEffects, CreateTicket

LEMMA EscalateToolStep ==
  ASSUME IInv, ToolEscalate
  PROVE  IInv'
<1> USE DEF ToolEscalate, Ask, memory
<1>1. TypeOK /\ reply = NoReply /\ MutationsAreEffects
  BY DEF IInv, ReplyInv
<1>2. "escalate" \in Tools
  BY DEF Tools
<1>3. /\ GoesOn \/ GivesUp
      /\ retries' \in Nat /\ failing' \in Tools \cup {"none"}
  BY <1>1, <1>2, ToolEndsHow DEF TypeOK
<1>4. /\ tickets' \in Nat /\ status' = status
      /\ mutations' \in [Orders \cup {Ticket} -> Nat]
      /\ \A o \in Orders : mutations'[o] = mutations[o]
      /\ mutations'[Ticket] = tickets'
  BY <1>1, TicketMade DEF effects, TypeOK, MutationsAreEffects
<1>5. TypeOK'
  BY <1>1, <1>3, <1>4, SpentInScript, FailedIsResponse
  DEF TypeOK, GoesOn, GivesUp, Responses, RequestLimit
<1>6. RowInv' /\ RefundNeedsConsent' /\ MutationsAreEffects'
  BY <1>1, <1>4 DEF IInv, RowInv, RefundNeedsConsent, MutationsAreEffects
<1>7. ProposalInv' /\ TargetInv'
  BY <1>3 DEF IInv, ProposalInv, TargetInv, GoesOn, GivesUp
<1>8. ReplyInv' /\ ReplyIsTrue'
  BY <1>1, <1>3, FailedIsResponse
  DEF ReplyInv, ReplyIsTrue, NoReply, GoesOn, GivesUp
<1>9. QED
  BY <1>5, <1>6, <1>7, <1>8 DEF IInv

LEMMA EscalateTurnStep ==
  ASSUME IInv, EscalateTurn
  PROVE  IInv'
<1> USE DEF EscalateTurn, memory, loop
<1>1. TypeOK /\ reply = NoReply /\ MutationsAreEffects
  BY DEF IInv, ReplyInv
<1>2. PlanTurn(routing) # "none"
  BY DEF IInv, ReplyInv
<1>3. /\ PlanTurn(routing) \in Reasons
      /\ PlanTurn(routing) \notin {"refund_confirmed", "refund_proposed"}
  BY <1>2 DEF PlanTurn, Reasons
<1>4. /\ tickets' \in Nat /\ status' = status
      /\ mutations' \in [Orders \cup {Ticket} -> Nat]
      /\ \A o \in Orders : mutations'[o] = mutations[o]
      /\ mutations'[Ticket] = tickets'
      /\ pc' = "replied" => tickets' > 0
  BY <1>1, TicketMade DEF effects, TypeOK, MutationsAreEffects
<1>5. \/ /\ pc' = "replied"
         /\ reply' = [intent |-> "escalate", outcome |-> "escalated",
                      reason |-> PlanTurn(routing)]
      \/ pc' = "raised" /\ reply' = reply
  OBVIOUS
<1>6. TypeOK'
  BY <1>1, <1>3, <1>4, <1>5, SpentInScript DEF TypeOK, RouteIntents
<1>7. RowInv' /\ RefundNeedsConsent' /\ MutationsAreEffects'
  BY <1>1, <1>4 DEF IInv, RowInv, RefundNeedsConsent, MutationsAreEffects
<1>8. ProposalInv' /\ TargetInv'
  BY <1>5 DEF IInv, ProposalInv, TargetInv
<1>9. ReplyInv' /\ ReplyIsTrue'
  BY <1>1, <1>3, <1>4, <1>5 DEF ReplyInv, ReplyIsTrue, NoReply
<1>10. QED
  BY <1>6, <1>7, <1>8, <1>9 DEF IInv

LEMMA ConfirmStep ==
  ASSUME IInv, NEW o \in Orders, ToolConfirmRefund(o)
  PROVE  IInv'
<1> USE DEF ToolConfirmRefund, Ask, memory, effects, MayConfirm
<1>1. TypeOK'
  BY DEF IInv, TypeOK, RequestLimit
<1>2. RowInv' /\ RefundNeedsConsent' /\ MutationsAreEffects'
  BY DEF IInv, RowInv, RefundNeedsConsent, MutationsAreEffects
<1>3. ProposalInv' /\ TargetInv'
  BY DEF IInv, ProposalInv, TargetInv
<1>4. ReplyInv' /\ ReplyIsTrue'
  BY DEF IInv, ReplyInv, ReplyIsTrue, NoReply
<1>5. QED
  BY <1>1, <1>2, <1>3, <1>4 DEF IInv

(* A refund that fails goes back to the model or leaves the turn.          *)
LEMMA RefundFailsHow ==
  ASSUME TypeOK, NEW error, RefundFails(error)
  PROVE  /\ \/ target.byTool /\ (GoesOn \/ GivesUp)
            \/ pc' = "raised" /\ reply' = reply
         /\ retries' \in Nat /\ failing' \in Tools \cup {"none"}
<1>1. "confirm_refund" \in Tools
  BY DEF Tools
<1>2. CASE target.byTool
  BY <1>1, <1>2, ToolEndsHow DEF RefundFails, TypeOK
<1>3. CASE ~target.byTool
  BY <1>3 DEF RefundFails, TypeOK
<1>4. QED
  BY <1>2, <1>3

(* Such a step keeps the invariant when it leaves orders and proposals.    *)
LEMMA RefundFailsStep ==
  ASSUME IInv, UNCHANGED Facts, UNCHANGED <<target, requests, lastOrder, lastError, policy, draft>>,
         pc \in {"reading", "updating"}, consumed' \subseteq DOMAIN request.script,
         NEW error, RefundFails(error)
  PROVE  IInv'
<1>1. TypeOK
  BY DEF IInv
<1>2. /\ \/ target.byTool /\ (GoesOn \/ GivesUp)
         \/ pc' = "raised" /\ reply' = reply
      /\ retries' \in Nat /\ failing' \in Tools \cup {"none"}
  BY <1>1, RefundFailsHow
<1>3. TypeOK'
  BY <1>1, <1>2, FailedIsResponse DEF TypeOK, Facts, GoesOn, GivesUp, Responses
<1>4. CASE GoesOn \/ GivesUp
  BY <1>3, <1>4, FactsKept DEF GoesOn, GivesUp
<1>5. CASE pc' = "raised" /\ reply' = reply
  <2>1. RowInv' /\ RefundNeedsConsent' /\ MutationsAreEffects'
    BY DEF IInv, Facts, RowInv, RefundNeedsConsent, MutationsAreEffects
  <2>2. ProposalInv' /\ TargetInv' /\ ReplyInv' /\ ReplyIsTrue'
    BY <1>5 DEF IInv, Facts, ProposalInv, TargetInv, ReplyInv, ReplyIsTrue, NoReply
  <2>3. QED
    BY <1>3, <2>1, <2>2 DEF IInv
<1>6. QED
  BY <1>2, <1>4, <1>5

LEMMA ReadStep ==
  ASSUME IInv, ReadForRefund
  PROVE  IInv'
<1> DEFINE error == Eligibility(target.order)
<1>1. TypeOK /\ consumed' \subseteq DOMAIN request.script
  BY SpentInScript DEF IInv, TypeOK, ReadForRefund
<1>2. CASE error = "ok"
  <2> USE <1>2 DEF ReadForRefund, memory, effects
  <2>1. TypeOK'
    BY <1>1 DEF TypeOK
  <2>2. RowInv' /\ RefundNeedsConsent' /\ MutationsAreEffects'
    BY DEF IInv, RowInv, RefundNeedsConsent, MutationsAreEffects
  <2>3. ProposalInv' /\ TargetInv' /\ ReplyInv' /\ ReplyIsTrue'
    BY DEF IInv, ProposalInv, TargetInv, ReplyInv, ReplyIsTrue, NoReply
  <2>4. QED
    BY <2>1, <2>2, <2>3 DEF IInv
<1>3. CASE error # "ok"
  <2>1. /\ RefundFails(error) /\ pc = "reading" /\ UNCHANGED Facts
        /\ UNCHANGED <<target, requests, lastOrder, lastError, policy, draft>>
    BY <1>3 DEF ReadForRefund, Facts, memory, effects
  <2>2. QED
    BY <1>1, <2>1, RefundFailsStep
<1>4. QED
  BY <1>2, <1>3

(* The conditional UPDATE matched: the proposal becomes a refund.          *)
LEMMA RefundStep ==
  ASSUME IInv, UpdateRow, Fault("confirm_refund", target.order) = "none",
         RowMatches(target.order)
  PROVE  IInv'
<1> DEFINE o == target.order
<1> USE DEF UpdateRow, memory, effects, Answered
<1>1. TypeOK /\ o \in Orders /\ status[o] = "delivered" /\ reply = NoReply
  BY DEF IInv, TypeOK, TargetInv, RowMatches, ReplyInv
<1>2. /\ o \in proposals /\ o \notin confirmed /\ request.refundConfirmed
      /\ InitialStatus[o] = "delivered" /\ o \in Mine
  BY DEF IInv, TargetInv, ProposalInv, RowMatches
<1>3. /\ status' = [status EXCEPT ![o] = "refunded"]
      /\ proposals' = proposals \ {o} /\ confirmed' = confirmed \cup {o}
      /\ mutations' = [mutations EXCEPT ![o] = @ + 1] /\ tickets' = tickets
      /\ lastOrder' = o /\ lastError' = "none"
      /\ pc' = (IF target.byTool THEN "answering" ELSE "assembling") /\ reply' = reply
      /\ retries' = retries /\ failing' \in {failing, "none"}
  BY DEF Report
<1>4. consumed' \subseteq DOMAIN request.script
  BY <1>1, SpentInScript DEF TypeOK
<1>5. TypeOK'
  BY <1>1, <1>3, <1>4 DEF TypeOK, RowStatus
<1>6. RowInv'
  BY <1>1, <1>2, <1>3 DEF IInv, RowInv, TypeOK
<1>7. RefundNeedsConsent'
  BY <1>1, <1>2, <1>3 DEF IInv, RefundNeedsConsent, TypeOK
<1>8. MutationsAreEffects'
  BY <1>1, <1>2, <1>3, TurnAssumption DEF IInv, MutationsAreEffects, TypeOK
<1>9. ProposalInv'
  BY <1>1, <1>2, <1>3 DEF IInv, ProposalInv, TargetInv, RouteIntents
<1>10. TargetInv' /\ ReplyInv' /\ ReplyIsTrue'
  BY <1>1, <1>3 DEF IInv, TargetInv, ReplyInv, ReplyIsTrue, NoReply
<1>11. QED
  BY <1>5, <1>6, <1>7, <1>8, <1>9, <1>10 DEF IInv

LEMMA UpdateStep ==
  ASSUME IInv, UpdateRow
  PROVE  IInv'
<1> DEFINE o == target.order
<1> DEFINE fault == Fault("confirm_refund", o)
<1> DEFINE reread == Fault("get_order_status", o)
<1>1. consumed' \subseteq DOMAIN request.script
  BY SpentInScript DEF IInv, TypeOK, UpdateRow
<1>2. CASE fault # "none"
  <2>1. /\ RefundFails(fault) /\ pc = "updating" /\ UNCHANGED Facts
        /\ UNCHANGED <<target, requests, lastOrder, lastError, policy, draft>>
    BY <1>2 DEF UpdateRow, Facts, memory, effects
  <2>2. QED
    BY <1>1, <2>1, RefundFailsStep
<1>3. CASE fault = "none" /\ RowMatches(o)
  BY <1>3, RefundStep
<1>4. CASE fault = "none" /\ ~RowMatches(o)
  <2>1. /\ RefundFails(IF reread # "none" THEN reread ELSE "invalid_transition")
        /\ pc = "updating" /\ UNCHANGED Facts
        /\ UNCHANGED <<target, requests, lastOrder, lastError, policy, draft>>
    BY <1>4 DEF UpdateRow, Facts, memory, effects, Report
  <2>2. QED
    BY <1>1, <2>1, RefundFailsStep
<1>5. QED
  BY <1>2, <1>3, <1>4

-----------------------------------------------------------------------------
(* The reply and the other sessions                                        *)

LEMMA DraftStep ==
  ASSUME IInv, NEW i \in RouteIntents, Draft(i)
  PROVE  IInv'
<1> USE DEF Draft, memory, effects
<1>1. i # "none"
  BY DEF RouteIntents
<1>2. TypeOK'
  <2>1. target' \in [order: Orders \cup {NoOrder}, byTool: BOOLEAN]
    <3>1. routing.order \in Orders \cup {NoOrder} /\ target \in [order: Orders \cup {NoOrder}, byTool: BOOLEAN]
      BY DEF IInv, TypeOK
    <3>2. target' \in {target, [order |-> routing.order, byTool |-> FALSE]}
      OBVIOUS
    <3>3. [order |-> routing.order, byTool |-> FALSE] \in [order: Orders \cup {NoOrder}, byTool: BOOLEAN]
      BY <3>1
    <3>4. QED
      BY <3>1, <3>2, <3>3
  <2>2. QED
    BY <2>1 DEF IInv, TypeOK, RequestLimit
<1>3. RowInv' /\ RefundNeedsConsent' /\ MutationsAreEffects'
  BY DEF IInv, RowInv, RefundNeedsConsent, MutationsAreEffects
<1>4. ProposalInv'
  BY DEF IInv, ProposalInv
<1>5. TargetInv' /\ ReplyInv' /\ ReplyIsTrue'
  BY <1>1 DEF IInv, TargetInv, ReplyInv, ReplyIsTrue, NoReply
<1>6. QED
  BY <1>2, <1>3, <1>4, <1>5 DEF IInv

LEMMA AssembleStep ==
  ASSUME IInv, NEW cites \in BOOLEAN, Assemble(cites)
  PROVE  IInv'
<1> USE DEF Assemble, memory, effects, loop
<1>1. TypeOK /\ draft # "none" /\ draft \in RouteIntents
  BY DEF IInv, ReplyInv, TypeOK
<1>2. reply' = [intent |-> draft, outcome |-> Outcome(cites)[1], reason |-> Outcome(cites)[2]]
  OBVIOUS
<1>3. TypeOK'
  BY <1>1, <1>2, OutcomeKinds DEF TypeOK
<1>4. RowInv' /\ RefundNeedsConsent' /\ MutationsAreEffects'
  BY DEF IInv, RowInv, RefundNeedsConsent, MutationsAreEffects
<1>5. ProposalInv' /\ TargetInv'
  BY DEF IInv, ProposalInv, TargetInv
<1>6. ReplyInv'
  BY <1>1, <1>2 DEF ReplyInv, NoReply, RouteIntents
<1>7. ReplyIsTrue'
  BY <1>1, <1>2, OutcomeKinds DEF IInv, ReplyIsTrue, ProposalInv, ConfirmedRefundFor
<1>8. QED
  BY <1>3, <1>4, <1>5, <1>6, <1>7 DEF IInv

LEMMA ElsewhereStep ==
  ASSUME IInv, NEW o \in Orders, Elsewhere(o)
  PROVE  IInv'
<1> USE DEF Elsewhere, memory, loop
<1>1. TypeOK'
  BY DEF IInv, TypeOK, RowStatus
<1>2. RowInv' /\ RefundNeedsConsent' /\ MutationsAreEffects'
  BY DEF IInv, TypeOK, RowInv, RefundNeedsConsent, MutationsAreEffects
<1>3. ProposalInv' /\ TargetInv' /\ ReplyInv' /\ ReplyIsTrue'
  BY DEF IInv, ProposalInv, TargetInv, ReplyInv, ReplyIsTrue
<1>4. QED
  BY <1>1, <1>2, <1>3 DEF IInv

LEMMA StutterStep ==
  ASSUME IInv, UNCHANGED vars
  PROVE  IInv'
<1> USE DEF vars
<1>1. TypeOK'
  BY DEF IInv, TypeOK
<1>2. RowInv' /\ RefundNeedsConsent' /\ MutationsAreEffects'
  BY DEF IInv, RowInv, RefundNeedsConsent, MutationsAreEffects
<1>3. ProposalInv' /\ TargetInv' /\ ReplyInv' /\ ReplyIsTrue'
  BY DEF IInv, ProposalInv, TargetInv, ReplyInv, ReplyIsTrue, PlanTurn
<1>4. QED
  BY <1>1, <1>2, <1>3 DEF IInv

LEMMA NextInv == IInv /\ [Next]_vars => IInv'
<1> SUFFICES ASSUME IInv, [Next]_vars PROVE IInv'
  OBVIOUS
<1>1. CASE TurnStep
  <2>1. CASE \E i \in RouteIntents, o \in Orders \cup {NoOrder} : Route(i, o)
    BY <2>1, RouteStep
  <2>2. CASE ToolStep
    BY <2>2, GetOrderStatusStep, ProposeStep, ConfirmRefusedStep, ConfirmStep, GetPolicyStep,
       EscalateToolStep DEF ToolStep
  <2>3. CASE ModelFails \/ EscalateTurn \/ ReadForRefund \/ UpdateRow
    BY <2>3, ModelFailsStep, EscalateTurnStep, ReadStep, UpdateStep
  <2>4. CASE \E i \in RouteIntents : Draft(i)
    BY <2>4, DraftStep
  <2>5. CASE \E cites \in BOOLEAN : Assemble(cites)
    BY <2>5, AssembleStep
  <2>6. QED
    BY <1>1, <2>1, <2>2, <2>3, <2>4, <2>5 DEF TurnStep
<1>2. CASE \E o \in Orders : Elsewhere(o)
  BY <1>2, ElsewhereStep
<1>3. CASE UNCHANGED vars
  BY <1>3, StutterStep
<1>4. QED
  BY <1>1, <1>2, <1>3 DEF Next

-----------------------------------------------------------------------------
(* IInv holds in every state of a turn.                                    *)
THEOREM Invariance == Spec => []IInv
BY InitInv, NextInv, PTL DEF Spec

(* The state of a turn keeps its types; in particular the answering model  *)
(* never gets more requests than _ANSWER_USAGE_LIMIT.                      *)
THEOREM TypeCorrect == Spec => []TypeOK
<1>1. IInv => TypeOK
  BY DEF IInv
<1>2. QED
  BY Invariance, <1>1, PTL

(* Whatever the model calls, confirm_refund refunds only delivered orders  *)
(* of the bound customer for a request with refund_confirmed.              *)
THEOREM RefundsNeedConsent == Spec => []RefundNeedsConsent
<1>1. IInv => RefundNeedsConsent
  BY DEF IInv
<1>2. QED
  BY Invariance, <1>1, PTL

(* ObservedSupportRepository reports every write of the turn once, and     *)
(* nothing else, under every fault script and every competing refund.      *)
THEOREM MutationsExact == Spec => []MutationsAreEffects
<1>1. IInv => MutationsAreEffects
  BY DEF IInv
<1>2. QED
  BY Invariance, <1>1, PTL

(* _assemble never reports a refund, a proposal or an escalation that the  *)
(* turn did not bring about.                                               *)
THEOREM RepliesTrue == Spec => []ReplyIsTrue
<1>1. IInv => ReplyIsTrue
  BY DEF IInv
<1>2. QED
  BY Invariance, <1>1, PTL

-----------------------------------------------------------------------------
(* Retries                                                                 *)

Timeouts == {i \in DOMAIN request.script : request.script[i].kind = "timeout"}

(* What a step does to the retry count: the timeout it retries after has   *)
(* used up its entry.                                                      *)
RetryEffect ==
  /\ request' = request /\ consumed \subseteq consumed'
  /\ \/ retries' = retries
     \/ /\ retries' = retries + 1
        /\ \E tool \in Tools, o \in Orders \cup {AnyOrder} :
             Fault(tool, o) = "timeout" /\ Spent(tool, o) \subseteq consumed'

(* A timeout of an entry that applies once is a fresh one.                 *)
LEMMA TimeoutIsFresh ==
  ASSUME NEW tool, NEW o, Fault(tool, o) = "timeout",
         \A i \in Timeouts : ~request.script[i].repeat
  PROVE  \E i \in Timeouts : i \notin consumed /\ i \in Spent(tool, o)
<1>1. PICK i \in NextEntry(tool, o) : request.script[i].kind = "timeout"
  BY DEF Fault
<1>2. i \in Timeouts /\ (request.script[i].repeat \/ i \notin consumed)
  BY <1>1 DEF NextEntry, Live, Timeouts
<1>3. QED
  BY <1>1, <1>2 DEF Spent

LEMMA RetriesKept ==
  ASSUME TypeOK, TypeOK', RetriesAreScripted, RetryEffect
  PROVE  RetriesAreScripted'
<1> DEFINE T == Timeouts
<1>1. Timeouts' = T /\ request.script \in Seq(Entry) /\ request' = request
  BY TurnAssumption DEF RetryEffect, TypeOK, Timeouts
<1>2. SUFFICES ASSUME \A i \in T : ~request.script[i].repeat
               PROVE  retries' <= Cardinality(T \cap consumed')
  BY <1>1 DEF RetriesAreScripted, Timeouts
<1>3. retries <= Cardinality(T \cap consumed)
  BY <1>2 DEF RetriesAreScripted, Timeouts
<1>4. T \subseteq 1 .. Len(request.script) /\ Len(request.script) \in Nat
  BY <1>1 DEF Timeouts
<1>5. IsFiniteSet(T)
  <2>1. IsFiniteSet(1 .. Len(request.script))
    BY <1>4, FS_Interval
  <2>2. QED
    BY <1>4, <2>1, FS_Subset
<1> HIDE DEF T
<1>6. IsFiniteSet(T \cap consumed) /\ IsFiniteSet(T \cap consumed')
  BY <1>5, FS_Subset
<1>7. Cardinality(T \cap consumed) \in Nat /\ Cardinality(T \cap consumed') \in Nat
  BY <1>6, FS_CardinalityType
<1>8. Cardinality(T \cap consumed) <= Cardinality(T \cap consumed')
  BY <1>6, FS_Subset DEF RetryEffect
<1>9. CASE retries' = retries
  BY <1>3, <1>7, <1>8, <1>9 DEF TypeOK
<1>10. CASE retries' # retries
  <2>1. PICK tool \in Tools, o \in Orders \cup {AnyOrder} :
               Fault(tool, o) = "timeout" /\ Spent(tool, o) \subseteq consumed'
    BY <1>10 DEF RetryEffect
  <2>2. PICK i \in T : i \notin consumed /\ i \in consumed'
    BY <1>2, <2>1, TimeoutIsFresh DEF T
  <2>3. Cardinality((T \cap consumed) \cup {i}) = Cardinality(T \cap consumed) + 1
    BY <1>6, <2>2, FS_AddElement
  <2>4. (T \cap consumed) \cup {i} \subseteq T \cap consumed'
    BY <2>2 DEF RetryEffect
  <2>5. Cardinality((T \cap consumed) \cup {i}) <= Cardinality(T \cap consumed')
    BY <1>6, <2>4, FS_Subset
  <2>6. QED
    BY <1>3, <1>7, <1>10, <2>3, <2>5 DEF RetryEffect, TypeOK
<1>11. QED
  BY <1>9, <1>10

LEMMA ToolEndsRetries ==
  ASSUME NEW tool \in Tools, NEW error, ToolEnds(tool, error)
  PROVE  retries' = retries \/ (retries' = retries + 1 /\ error = "timeout")
BY DEF ToolEnds, Raised, Answered, Broken

LEMMA CheckTimeouts ==
  ASSUME NEW o \in Orders
  PROVE  /\ GetOrder(o) = "timeout" => Fault("get_order_status", o) = "timeout"
         /\ Eligibility(o) = "timeout" => Fault("get_order_status", o) = "timeout"
BY DEF GetOrder, Eligibility

LEMMA ToolStepRetries ==
  ASSUME ToolStep
  PROVE  RetryEffect
<1>1. {"get_order_status", "propose_refund", "confirm_refund", "get_policy", "escalate"} \subseteq Tools
  BY DEF Tools
<1>2. ASSUME NEW o \in Orders, ToolGetOrderStatus(o)
      PROVE  RetryEffect
  <2>1. /\ ToolEnds("get_order_status", GetOrder(o)) /\ request' = request
        /\ consumed' = consumed \cup Spent("get_order_status", o)
    BY <1>2 DEF ToolGetOrderStatus
  <2>2. QED
    BY <1>1, <2>1, ToolEndsRetries, CheckTimeouts DEF RetryEffect
<1>3. ASSUME NEW o \in Orders, ToolProposeRefund(o)
      PROVE  RetryEffect
  <2>1. /\ ToolEnds("propose_refund", Eligibility(o)) /\ request' = request
        /\ consumed' = consumed \cup Spent("get_order_status", o)
    BY <1>3 DEF ToolProposeRefund
  <2>2. QED
    BY <1>1, <2>1, ToolEndsRetries, CheckTimeouts DEF RetryEffect
<1>4. ASSUME NEW o \in Orders, ToolConfirmRefused(o) \/ ToolConfirmRefund(o)
      PROVE  RetryEffect
  BY <1>4 DEF ToolConfirmRefused, ToolConfirmRefund, Answered, RetryEffect
<1>5. ASSUME NEW v \in PolicyVersions, NEW b \in BOOLEAN, ToolGetPolicy(v, b)
      PROVE  RetryEffect
  <2>1. /\ ToolEnds("get_policy", Fault("get_policy", AnyOrder)) /\ request' = request
        /\ consumed' = consumed \cup Spent("get_policy", AnyOrder)
    BY <1>5 DEF ToolGetPolicy
  <2>2. QED
    BY <1>1, <2>1, ToolEndsRetries DEF RetryEffect
<1>6. CASE ToolEscalate
  <2>1. /\ ToolEnds("escalate", Fault("escalate", AnyOrder)) /\ request' = request
        /\ consumed' = consumed \cup Spent("escalate", AnyOrder)
    BY <1>6 DEF ToolEscalate
  <2>2. QED
    BY <1>1, <2>1, ToolEndsRetries DEF RetryEffect
<1>7. QED
  BY <1>2, <1>3, <1>4, <1>5, <1>6 DEF ToolStep

LEMMA RefundRetries ==
  ASSUME NEW error, RefundFails(error)
  PROVE  retries' = retries \/ (retries' = retries + 1 /\ error = "timeout")
BY ToolEndsRetries DEF RefundFails, Tools

LEMMA RefundStepRetries ==
  ASSUME IInv, ReadForRefund \/ UpdateRow
  PROVE  RetryEffect
<1>1. {"get_order_status", "confirm_refund"} \subseteq Tools
  BY DEF Tools
<1>2. PICK o \in Orders : o = target.order
  BY DEF IInv, TypeOK, TargetInv, ReadForRefund, UpdateRow
<1>3. CASE ReadForRefund
  <2>1. /\ request' = request /\ consumed' = consumed \cup Spent("get_order_status", o)
        /\ retries' = retries \/ RefundFails(Eligibility(o))
    BY <1>2, <1>3 DEF ReadForRefund
  <2>2. QED
    BY <1>1, <2>1, RefundRetries, CheckTimeouts DEF RetryEffect
<1>4. CASE UpdateRow
  <2>1. /\ request' = request /\ consumed \subseteq consumed' /\ Spent("confirm_refund", o) \subseteq consumed'
    BY <1>2, <1>4 DEF UpdateRow
  <2>2. CASE Fault("confirm_refund", o) # "none"
    <3>1. RefundFails(Fault("confirm_refund", o))
      BY <1>2, <1>4, <2>2 DEF UpdateRow
    <3>2. QED
      BY <1>1, <2>1, <3>1, RefundRetries DEF RetryEffect
  <2>3. CASE Fault("confirm_refund", o) = "none" /\ RowMatches(o)
    <3>1. retries' = retries
      BY <1>2, <1>4, <2>3 DEF UpdateRow, Answered
    <3>2. QED
      BY <2>1, <3>1 DEF RetryEffect
  <2>4. CASE Fault("confirm_refund", o) = "none" /\ ~RowMatches(o)
    <3>1. PICK e : /\ RefundFails(e)
                   /\ e = IF Fault("get_order_status", o) # "none" THEN Fault("get_order_status", o)
                          ELSE "invalid_transition"
      BY <1>2, <1>4, <2>4 DEF UpdateRow
    <3>2. Spent("get_order_status", o) \subseteq consumed'
      BY <1>2, <1>4, <2>4 DEF UpdateRow
    <3>3. QED
      BY <1>1, <2>1, <3>1, <3>2, RefundRetries DEF RetryEffect
  <2>5. QED
    BY <2>2, <2>3, <2>4
<1>5. QED
  BY <1>3, <1>4

LEMMA StepRetries ==
  ASSUME IInv, [Next]_vars
  PROVE  RetryEffect
<1>1. CASE \/ ModelFails \/ EscalateTurn \/ UNCHANGED vars
           \/ \E i \in RouteIntents, o \in Orders \cup {NoOrder} : Route(i, o)
           \/ \E i \in RouteIntents : Draft(i)
           \/ \E cites \in BOOLEAN : Assemble(cites)
           \/ \E o \in Orders : Elsewhere(o)
  BY <1>1 DEF ModelFails, EscalateTurn, Route, Draft, Assemble, Elsewhere, RetryEffect, vars, loop
<1>2. QED
  BY <1>1, ToolStepRetries, RefundStepRetries DEF Next, TurnStep

(* The agent retries no more often than the fault script has timeouts that *)
(* apply once, whichever calls share an entry.                             *)
THEOREM RetriesScripted == Spec => []RetriesAreScripted
<1>1. Init => RetriesAreScripted
  BY FS_EmptySet DEF Init, RetriesAreScripted
<1>2. IInv /\ IInv' /\ RetriesAreScripted /\ [Next]_vars => RetriesAreScripted'
  BY StepRetries, RetriesKept DEF IInv
<1>3. QED
  BY <1>1, <1>2, Invariance, PTL DEF Spec

-----------------------------------------------------------------------------
(* The refinement: an agent turn implements SupportTurn, the turn as its       *)
(* caller sees it, for every set of orders, every fault script and every set   *)
(* of contended orders.                                                        *)

(* What SeenInv reads, apart from the control state and the retries.       *)
Memory == <<request, routing, status, confirmed, lastOrder, lastError, policy>>

LEMMA Viewed ==
  /\ SeenView.confirmed = request.refundConfirmed
  /\ SeenView.own = {InitialStatus[o] : o \in Mine}
  /\ SeenView.foreign = (\E o \in Orders \ Mine : InitialStatus[o] # "absent")
  /\ SeenView.current = TRUE
  /\ SeenView.unsteady = (Contended # {} \/ request.script # <<>>)
BY DEF SeenView

LEMMA ViewKept ==
  ASSUME request' = request
  PROVE  SeenView' = SeenView
BY DEF SeenView

(* Only a script makes a call of the repository fail.                      *)
LEMMA FaultIsScripted ==
  ASSUME NEW tool, NEW o, Fault(tool, o) # "none"
  PROVE  SeenView.unsteady
<1>1. request.script = <<>> => Live(tool, o) = {}
  BY DEF Live
<1>2. request.script # <<>>
  BY <1>1 DEF Fault, NextEntry
<1>3. QED
  BY <1>2, Viewed

LEMMA InterruptIsScripted ==
  ASSUME NEW o \in Orders, Eligibility(o) \in Interrupts \/ GetOrder(o) \in Interrupts
  PROVE  SeenView.unsteady
BY FaultIsScripted DEF Eligibility, GetOrder, Interrupts

LEMMA RetryIsScripted ==
  ASSUME NEW tool, NEW error, ToolEnds(tool, error), error \in Interrupts => SeenView.unsteady
  PROVE  retries' = retries \/ SeenView.unsteady
BY DEF ToolEnds, Answered

(* Steps that leave the tools' memory alone.                               *)
LEMMA MemoryKept ==
  ASSUME SeenInv, UNCHANGED Memory, retries' = retries \/ SeenView.unsteady,
         pc' = "escalating" => pc = "escalating"
  PROVE  SeenInv'
<1>1. SeenView' = SeenView
  BY ViewKept DEF Memory
<1>2. QED
  BY <1>1 DEF SeenInv, Memory

LEMMA SeenRoute ==
  ASSUME IInv, SeenInv, NEW i \in RouteIntents, NEW o \in Orders \cup {NoOrder}, Route(i, o)
  PROVE  SeenInv'
<1> USE DEF Route, memory, effects, loop
<1>1. SeenView' = SeenView
  BY ViewKept
<1>2. confirmed = {} /\ ~policy.called
  BY DEF IInv, ProposalInv, SeenInv
<1>3. QED
  BY <1>1, <1>2 DEF SeenInv

(* Reading an order: what the tool notes of it is so.                      *)
LEMMA SeenOrder ==
  ASSUME IInv, SeenInv, NEW o \in Orders
  PROVE  /\ GetOrder(o) = "ok" => o \in Mine /\ InitialStatus[o] # "absent"
         /\ Eligibility(o) = "forbidden" => SeenView.foreign
         /\ Eligibility(o) = "invalid_transition" =>
              confirmed # {} \/ SeenView.unsteady
                \/ SeenView.own \cap {"processing", "shipped", "refunded"} # {}
<1>1. status[o] # "absent" => InitialStatus[o] # "absent"
  BY DEF IInv, RowInv
<1>2. GetOrder(o) = "ok" => o \in Mine /\ status[o] # "absent"
  BY FaultKinds DEF GetOrder
<1>3. ASSUME Eligibility(o) = "forbidden"
      PROVE  SeenView.foreign
  <2>1. status[o] # "absent" /\ o \notin Mine
    BY <1>3, FaultKinds DEF GetOrder, Eligibility
  <2>2. QED
    BY <1>1, <2>1, Viewed
<1>4. ASSUME Eligibility(o) = "invalid_transition"
      PROVE  confirmed # {} \/ SeenView.unsteady
               \/ SeenView.own \cap {"processing", "shipped", "refunded"} # {}
  <2>1. GetOrder(o) = "ok" /\ status[o] # "delivered"
    BY <1>4, FaultKinds DEF GetOrder, Eligibility, Refundable
  <2>2. status[o] \in {"processing", "refunded"}
    BY <1>2, <2>1 DEF IInv, TypeOK, RowStatus
  <2>3. CASE status[o] = InitialStatus[o]
    <3>1. InitialStatus[o] \in SeenView.own
      BY <1>2, <2>1, Viewed
    <3>2. QED
      BY <2>2, <2>3, <3>1
  <2>4. CASE status[o] # InitialStatus[o]
    BY <2>4, Viewed DEF SeenInv
  <2>5. QED
    BY <2>3, <2>4
<1>5. QED
  BY <1>1, <1>2, <1>3, <1>4

LEMMA SeenGetOrderStatus ==
  ASSUME IInv, SeenInv, NEW o \in Orders, ToolGetOrderStatus(o)
  PROVE  SeenInv'
<1> USE DEF ToolGetOrderStatus, Ask, effects
<1>1. SeenView' = SeenView
  BY ViewKept
<1>2. retries' = retries \/ SeenView.unsteady
  BY RetryIsScripted, InterruptIsScripted
<1>3. pc' # "escalating"
  BY ToolEndsHow DEF IInv, TypeOK, GoesOn, GivesUp, Tools
<1>4. lastOrder' # NoOrder => lastOrder' \in Mine /\ InitialStatus[lastOrder'] # "absent"
  BY SeenOrder DEF SeenInv
<1>5. lastOrder # NoOrder => lastOrder' # NoOrder
  BY TurnAssumption
<1>6. QED
  BY <1>1, <1>2, <1>3, <1>4, <1>5 DEF SeenInv

LEMMA SeenGetPolicy ==
  ASSUME IInv, SeenInv, NEW v \in PolicyVersions, NEW fails \in BOOLEAN, ToolGetPolicy(v, fails)
  PROVE  SeenInv'
<1> USE DEF ToolGetPolicy, Ask, effects, memory
<1>1. SeenView' = SeenView
  BY ViewKept
<1>2. retries' = retries \/ SeenView.unsteady
  BY RetryIsScripted, FaultIsScripted DEF Interrupts
<1>3. pc' # "escalating"
  BY ToolEndsHow DEF IInv, TypeOK, GoesOn, GivesUp, Tools
<1>4. routing.intent = "policy"
  BY DEF IInv, ProposalInv, ToolsByIntent, RouteIntents
<1>5. QED
  BY <1>1, <1>2, <1>3, <1>4 DEF SeenInv

LEMMA SeenPropose ==
  ASSUME IInv, SeenInv, NEW o \in Orders, ToolProposeRefund(o)
  PROVE  SeenInv'
<1> USE DEF ToolProposeRefund, Ask, effects
<1>1. SeenView' = SeenView
  BY ViewKept
<1>2. retries' = retries \/ SeenView.unsteady
  BY RetryIsScripted, InterruptIsScripted
<1>3. pc' # "escalating"
  BY ToolEndsHow DEF IInv, TypeOK, GoesOn, GivesUp, Tools
<1>4. lastOrder' # NoOrder => lastOrder' \in Mine /\ InitialStatus[lastOrder'] # "absent"
  BY SeenOrder DEF SeenInv
<1>5. lastOrder # NoOrder => lastOrder' # NoOrder
  BY TurnAssumption
<1>6. lastError' = lastError \/ lastError' = "none"
        \/ (Eligibility(o) \in Errors \ Interrupts /\ lastError' = BlockedBy[Eligibility(o)])
  BY EligibilityKinds
<1>7. /\ lastError' = "refund_blocked_ineligible" =>
           lastError = lastError' \/ Eligibility(o) = "invalid_transition"
      /\ lastError' = "refund_blocked_forbidden" =>
           lastError = lastError' \/ Eligibility(o) = "forbidden"
  BY <1>6 DEF BlockedBy, Errors, Interrupts
<1>8. QED
  BY <1>1, <1>2, <1>3, <1>4, <1>5, <1>7, SeenOrder DEF SeenInv

(* A refund that fails does so because of a fault or another session.      *)
LEMMA RefundFailsWhy ==
  ASSUME IInv, SeenInv, pc \in {"reading", "updating"},
         \/ Eligibility(target.order) # "ok"
         \/ \E tool \in Tools : Fault(tool, target.order) # "none"
         \/ ~RowMatches(target.order)
  PROVE  SeenView.unsteady
<1> DEFINE o == target.order
<1>1. o \in Orders /\ o \in Mine /\ InitialStatus[o] = "delivered" /\ o \notin confirmed
  BY DEF IInv, TypeOK, TargetInv, ProposalInv
<1>2. status[o] # "delivered" => SeenView.unsteady
  BY <1>1, Viewed DEF SeenInv
<1>3. CASE Eligibility(o) # "ok"
  <2>1. Eligibility(o) \in Interrupts \/ status[o] # "delivered"
    BY <1>1, <1>3, FaultKinds DEF Eligibility, GetOrder, Interrupts, Refundable
  <2>2. QED
    BY <1>1, <1>2, <2>1, InterruptIsScripted
<1>4. CASE \E tool \in Tools : Fault(tool, o) # "none"
  BY <1>4, FaultIsScripted
<1>5. CASE ~RowMatches(o)
  BY <1>1, <1>2, <1>5 DEF RowMatches
<1>6. QED
  BY <1>3, <1>4, <1>5

LEMMA SeenRefundFails ==
  ASSUME IInv, SeenInv, UNCHANGED Memory, SeenView.unsteady,
         pc \in {"reading", "updating"}, NEW error, RefundFails(error)
  PROVE  SeenInv'
<1>1. pc' # "escalating"
  BY RefundFailsHow DEF IInv, GoesOn, GivesUp
<1>2. QED
  BY <1>1, MemoryKept

LEMMA SeenRead ==
  ASSUME IInv, SeenInv, ReadForRefund
  PROVE  SeenInv'
<1> USE DEF ReadForRefund, memory, effects
<1>1. CASE Eligibility(target.order) = "ok"
  BY <1>1, MemoryKept DEF Memory
<1>2. CASE Eligibility(target.order) # "ok"
  BY <1>2, RefundFailsWhy, SeenRefundFails DEF Memory
<1>3. QED
  BY <1>1, <1>2

LEMMA SeenUpdate ==
  ASSUME IInv, SeenInv, UpdateRow
  PROVE  SeenInv'
<1> DEFINE o == target.order
<1> DEFINE fault == Fault("confirm_refund", o)
<1> DEFINE reread == Fault("get_order_status", o)
<1> USE DEF UpdateRow, memory, effects
<1>1. CASE fault # "none"
  <2>1. SeenView.unsteady
    BY <1>1, FaultIsScripted
  <2>2. RefundFails(fault) /\ UNCHANGED Memory
    BY <1>1 DEF Memory
  <2>3. QED
    BY <2>1, <2>2, SeenRefundFails
<1>2. CASE fault = "none" /\ ~RowMatches(o)
  <2>1. SeenView.unsteady
    BY <1>2, RefundFailsWhy
  <2>2. UNCHANGED Memory /\ \E error : RefundFails(error)
    BY <1>2 DEF Memory
  <2>3. QED
    BY <2>1, <2>2, SeenRefundFails
<1>3. CASE fault = "none" /\ RowMatches(o)
  <2>1. /\ o \in Orders /\ o \in Mine /\ InitialStatus[o] = "delivered"
        /\ routing.intent = "refund" /\ o # NoOrder /\ status \in [Orders -> RowStatus]
    BY TurnAssumption DEF IInv, TypeOK, TargetInv, ProposalInv
  <2>2. /\ status' = [status EXCEPT ![o] = "refunded"] /\ confirmed' = confirmed \cup {o}
        /\ lastOrder' = o /\ lastError' = "none" /\ retries' = retries
        /\ pc' \in {"answering", "assembling"}
        /\ UNCHANGED <<request, routing, policy>>
    BY <1>3 DEF Answered
  <2>3. SeenView' = SeenView
    BY <2>2, ViewKept
  <2>4. \A x \in Orders : status'[x] # InitialStatus[x] => x \in confirmed' \/ Contended # {}
    BY <2>1, <2>2 DEF SeenInv
  <2>5. QED
    BY <2>1, <2>2, <2>3, <2>4 DEF SeenInv
<1>4. QED
  BY <1>1, <1>2, <1>3

LEMMA SeenElsewhere ==
  ASSUME IInv, SeenInv, NEW o \in Orders, Elsewhere(o)
  PROVE  SeenInv'
<1> USE DEF Elsewhere, memory, loop
<1>1. SeenView' = SeenView
  BY ViewKept
<1>2. QED
  BY <1>1 DEF SeenInv

LEMMA SeenOtherSteps ==
  ASSUME IInv, SeenInv,
         \/ ModelFails \/ EscalateTurn \/ ToolEscalate \/ UNCHANGED vars
         \/ \E o \in Orders : ToolConfirmRefund(o)
         \/ \E i \in RouteIntents : Draft(i)
         \/ \E cites \in BOOLEAN : Assemble(cites)
  PROVE  SeenInv'
<1> USE DEF memory, effects, loop
<1>1. CASE ToolEscalate
  <2>1. retries' = retries \/ SeenView.unsteady
    BY <1>1, RetryIsScripted, FaultIsScripted DEF ToolEscalate, Interrupts
  <2>2. pc' # "escalating"
    BY <1>1, ToolEndsHow DEF ToolEscalate, IInv, TypeOK, GoesOn, GivesUp, Tools
  <2>3. UNCHANGED Memory
    BY <1>1 DEF ToolEscalate, CreateTicket, Memory
  <2>4. QED
    BY <2>1, <2>2, <2>3, MemoryKept
<1>2. CASE EscalateTurn
  BY <1>2, MemoryKept DEF EscalateTurn, CreateTicket, Memory
<1>3. CASE ModelFails \/ UNCHANGED vars
  BY <1>3, MemoryKept DEF ModelFails, vars, Memory
<1>4. CASE \E o \in Orders : ToolConfirmRefund(o)
  BY <1>4, MemoryKept DEF ToolConfirmRefund, Memory
<1>5. CASE (\E i \in RouteIntents : Draft(i)) \/ \E cites \in BOOLEAN : Assemble(cites)
  BY <1>5, MemoryKept DEF Draft, Assemble, Memory
<1>6. QED
  BY <1>1, <1>2, <1>3, <1>4, <1>5

LEMMA SeenConfirmRefused ==
  ASSUME IInv, SeenInv, NEW o \in Orders, ToolConfirmRefused(o)
  PROVE  SeenInv'
<1> USE DEF ToolConfirmRefused, Ask, Answered, effects
<1>1. SeenView' = SeenView
  BY ViewKept
<1>2. QED
  BY <1>1 DEF SeenInv

LEMMA SeenNext ==
  ASSUME IInv, SeenInv, [Next]_vars
  PROVE  SeenInv'
BY SeenRoute, SeenGetOrderStatus, SeenGetPolicy, SeenPropose, SeenConfirmRefused, SeenRead,
   SeenUpdate, SeenElsewhere, SeenOtherSteps DEF Next, TurnStep, ToolStep

LEMMA SeenInit == Init => SeenInv
BY TurnAssumption DEF Init, SeenInv

-----------------------------------------------------------------------------
(* Every step of the turn is a step of its caller's view, or none          *)

Ended(p) == p \in {"replied", "raised"}

(* The part of Earned that does not depend on what the reply says.         *)
MayRefund == SeenView.confirmed /\ "delivered" \in SeenView.own

LEMMA RefundIsEarned ==
  ASSUME IInv, confirmed # {}
  PROVE  MayRefund
BY Viewed DEF IInv, TypeOK, RefundNeedsConsent, MayRefund

LEMMA RefundWillBeEarned ==
  ASSUME IInv', request' = request, confirmed' # {}
  PROVE  MayRefund
BY Viewed DEF IInv, TypeOK, RefundNeedsConsent, MayRefund

(* The rest of Earned, for a reply given by its outcome and its reason.    *)
Backed(outcome, reason, view, refunded, ticketed) ==
  /\ reason = "refund_confirmed" => refunded
  /\ reason = "refund_proposed" => ~view.confirmed /\ "delivered" \in view.own
  /\ outcome = "escalated" => ticketed
  /\ reason = "tool_error" => ~ticketed
  /\ outcome = "completed" /\ reason = "order_not_found" => ~refunded
  /\ reason \in {"order_status_ok", "ok_with_retry"} => view.own \ {"absent"} # {}
  /\ reason = "policy_answer" => view.current /\ ~refunded
  /\ reason \in {"escalated_missing_reference", "refund_blocked_missing_reference"} => ~refunded
  /\ reason = "refund_blocked_ineligible" =>
       refunded \/ view.own \cap {"processing", "shipped", "refunded"} # {} \/ view.unsteady
  /\ reason = "refund_blocked_forbidden" => view.foreign
  /\ reason = "ok_with_retry" \/ outcome = "raised" => view.unsteady

LEMMA BackedIsEarned ==
  ASSUME NEW outcome, NEW reason, NEW refunded \in BOOLEAN, NEW ticketed \in BOOLEAN,
         <<outcome, reason>> \in Caller!Replies,
         Backed(outcome, reason, SeenView, refunded, ticketed), refunded => MayRefund
  PROVE  [reply |-> <<outcome, reason>>, refunded |-> refunded, ticketed |-> ticketed]
           \in Caller!Results(SeenView)
<1> DEFINE t == [reply |-> <<outcome, reason>>, refunded |-> refunded, ticketed |-> ticketed]
<1>1. /\ t.reply = <<outcome, reason>> /\ t.refunded = refunded /\ t.ticketed = ticketed
      /\ t.reply[1] = outcome /\ t.reply[2] = reason
      /\ t \in [reply : Caller!Replies, refunded : BOOLEAN, ticketed : BOOLEAN]
  OBVIOUS
<1>2. t.reply = <<"completed", "order_not_found">> =>
        outcome = "completed" /\ reason = "order_not_found"
  BY <1>1
<1> HIDE DEF t
<1>3. Caller!Earned(t, SeenView)
  BY <1>1, <1>2 DEF Caller!Earned, Caller!Says, Backed, MayRefund
<1>4. t \in Caller!Results(SeenView)
  BY <1>1, <1>3 DEF Caller!Results
<1>5. QED
  BY <1>4 DEF t

LEMMA FailedIsEarned ==
  ASSUME NEW refunded \in BOOLEAN, NEW ticketed \in BOOLEAN, refunded => MayRefund
  PROVE  [reply |-> <<"failed", "model_error">>, refunded |-> refunded,
          ticketed |-> ticketed] \in Caller!Results(SeenView)
<1>1. <<"failed", "model_error">> \in Caller!Replies
  BY DEF Caller!Replies
<1>2. Backed("failed", "model_error", SeenView, refunded, ticketed)
  BY DEF Backed
<1>3. QED
  BY <1>1, <1>2, BackedIsEarned

LEMMA RaisedIsEarned ==
  ASSUME NEW refunded \in BOOLEAN, NEW ticketed \in BOOLEAN, refunded => MayRefund,
         SeenView.unsteady
  PROVE  [reply |-> <<"raised", "none">>, refunded |-> refunded,
          ticketed |-> ticketed] \in Caller!Results(SeenView)
<1>1. <<"raised", "none">> \in Caller!Replies
  BY DEF Caller!Replies
<1>2. Backed("raised", "none", SeenView, refunded, ticketed)
  BY DEF Backed
<1>3. QED
  BY <1>1, <1>2, BackedIsEarned

LEMMA EscalationIsEarned ==
  ASSUME IInv, SeenInv, pc = "escalating"
  PROVE  [reply |-> <<"escalated", PlanTurn(routing)>>, refunded |-> confirmed # {},
          ticketed |-> TRUE] \in Caller!Results(SeenView)
<1>1. confirmed = {} /\ PlanTurn(routing) # "none"
  BY DEF IInv, ReplyInv, SeenInv
<1>2. PlanTurn(routing) \in {"escalated", "escalated_missing_reference",
                             "refund_blocked_missing_reference"}
  BY <1>1 DEF PlanTurn
<1>3. <<"escalated", PlanTurn(routing)>> \in Caller!Replies
  BY <1>2 DEF Caller!Replies
<1>4. Backed("escalated", PlanTurn(routing), SeenView, confirmed # {}, TRUE)
  BY <1>1, <1>2 DEF Backed
<1>5. QED
  BY <1>3, <1>4, RefundIsEarned, BackedIsEarned

(* The assembled reply, intent by intent.                                  *)
LEMMA AssembledIsEarned ==
  ASSUME IInv, SeenInv, pc = "assembling", NEW cites \in BOOLEAN
  PROVE  [reply |-> <<Outcome(cites)[1], Outcome(cites)[2]>>, refunded |-> confirmed # {},
          ticketed |-> tickets > 0] \in Caller!Results(SeenView)
<1> DEFINE outcome == Outcome(cites)[1]
<1> DEFINE reason == Outcome(cites)[2]
<1> DEFINE backed == Backed(outcome, reason, SeenView, confirmed # {}, tickets > 0)
<1>1. draft \in RouteIntents
  BY DEF IInv, ReplyInv, TypeOK
<1>2. <<outcome, reason>> \in Caller!Replies /\ backed
  <2>1. CASE draft = "order_status"
    <3>1. /\ outcome = "completed"
          /\ \/ reason = "order_not_found" /\ lastOrder = NoOrder
             \/ reason = "ok_with_retry" /\ lastOrder # NoOrder /\ retries > 0
             \/ reason = "order_status_ok" /\ lastOrder # NoOrder
      BY <2>1 DEF Outcome
    <3>2. lastOrder = NoOrder => confirmed = {}
      BY DEF SeenInv
    <3>3. lastOrder # NoOrder => InitialStatus[lastOrder] \in SeenView.own \ {"absent"}
      BY Viewed DEF SeenInv
    <3>4. retries > 0 => SeenView.unsteady
      BY DEF SeenInv
    <3>5. QED
      BY <3>1, <3>2, <3>3, <3>4 DEF Backed, Caller!Replies
  <2>2. CASE draft = "policy"
    <3>1. \/ outcome = "completed" /\ reason = "policy_answer" /\ policy.called
          \/ outcome = "blocked" /\ reason = "policy_answer_ungrounded"
      BY <2>2 DEF Outcome, Grounded
    <3>2. policy.called => confirmed = {}
      BY DEF SeenInv
    <3>3. QED
      BY <3>1, <3>2, Viewed DEF Backed, Caller!Replies
  <2>3. CASE draft = "escalate"
    <3>1. \/ outcome = "escalated" /\ reason = "escalated" /\ tickets > 0
          \/ outcome = "blocked" /\ reason = "tool_error" /\ ~(tickets > 0)
      BY <2>3 DEF Outcome
    <3>2. QED
      BY <3>1 DEF Backed, Caller!Replies
  <2>4. CASE draft = "refund" /\ ConfirmedRefundFor(routing.order)
    <3>1. outcome = "completed" /\ reason = "refund_confirmed" /\ confirmed # {}
      BY <2>4 DEF Outcome, ConfirmedRefundFor
    <3>2. QED
      BY <3>1 DEF Backed, Caller!Replies
  <2>5. CASE draft = "refund" /\ ~ConfirmedRefundFor(routing.order) /\ routing.order \in proposals
    <3>1. outcome = "completed" /\ reason = "refund_proposed"
      BY <2>5 DEF Outcome
    <3>2. ~SeenView.confirmed /\ "delivered" \in SeenView.own
      BY <2>5, Viewed DEF IInv, ProposalInv
    <3>3. QED
      BY <3>1, <3>2 DEF Backed, Caller!Replies
  <2>6. CASE draft = "refund" /\ ~ConfirmedRefundFor(routing.order) /\ routing.order \notin proposals
    <3>1. lastError \in ToolErrors \cup {"none"}
      BY DEF IInv, TypeOK
    <3>2. /\ outcome = "blocked" /\ reason \in ToolErrors
          /\ reason # "refund_blocked_unconfirmed" => reason = lastError
      BY <2>6, <3>1 DEF Outcome, ToolErrors
    <3>3. lastError = "refund_blocked_ineligible" =>
            confirmed # {} \/ SeenView.unsteady
              \/ SeenView.own \cap {"processing", "shipped", "refunded"} # {}
      BY DEF SeenInv
    <3>4. lastError = "refund_blocked_forbidden" => SeenView.foreign
      BY DEF SeenInv
    <3>5. QED
      BY <3>2, <3>3, <3>4 DEF Backed, Caller!Replies, ToolErrors
  <2>7. QED
    BY <1>1, <2>1, <2>2, <2>3, <2>4, <2>5, <2>6 DEF RouteIntents
<1>3. (confirmed # {}) \in BOOLEAN /\ (tickets > 0) \in BOOLEAN
  BY DEF IInv, TypeOK
<1>4. [reply |-> <<outcome, reason>>, refunded |-> confirmed # {}, ticketed |-> tickets > 0]
        \in Caller!Results(SeenView)
  <2> HIDE DEF outcome, reason
  <2>1. QED
    BY <1>2, <1>3, RefundIsEarned, BackedIsEarned
<1>5. QED
  BY <1>4

-----------------------------------------------------------------------------
(* A turn that still runs is unanswered, one that ended has its result.    *)
LEMMA StillRuns ==
  ASSUME IInv, request' = request, ~Ended(pc), ~Ended(pc')
  PROVE  UNCHANGED <<SeenView, SeenResult>>
<1>1. SeenView' = SeenView
  BY ViewKept
<1>2. SeenResult' = SeenResult
  BY DEF SeenResult, Ended, Replied!Unanswered
<1>3. QED
  BY <1>1, <1>2

LEMMA Answers ==
  ASSUME request' = request, ~Ended(pc), SeenResult' \in Caller!Results(SeenView)
  PROVE  Caller!Answer
<1>1. SeenView' = SeenView
  BY ViewKept
<1>2. SeenResult = Caller!Unanswered
  BY DEF SeenResult, Ended, Replied!Unanswered, Caller!Unanswered
<1>3. QED
  BY <1>1, <1>2 DEF Caller!Answer

(* A step that fails the turn, or lets an exception leave it.              *)
LEMMA FailsIsAnswer ==
  ASSUME IInv', request' = request, ~Ended(pc),
         (pc' = "replied" /\ reply' = FailedResponse) \/ (pc' = "raised" /\ SeenView.unsteady)
  PROVE  Caller!Answer
<1> DEFINE refunded == confirmed' # {}
<1> DEFINE ticketed == tickets' > 0
<1>1. refunded \in BOOLEAN /\ ticketed \in BOOLEAN /\ (refunded => MayRefund)
  BY RefundWillBeEarned DEF IInv, TypeOK
<1>2. CASE pc' = "replied" /\ reply' = FailedResponse
  <2>1. SeenResult' = [reply |-> <<"failed", "model_error">>, refunded |-> refunded,
                       ticketed |-> ticketed]
    BY <1>2 DEF SeenResult, FailedResponse
  <2> HIDE DEF refunded, ticketed
  <2>2. SeenResult' \in Caller!Results(SeenView)
    BY <1>1, <2>1, FailedIsEarned
  <2>3. QED
    BY <2>2, Answers
<1>3. CASE pc' = "raised" /\ SeenView.unsteady
  <2>1. SeenResult' = [reply |-> <<"raised", "none">>, refunded |-> refunded,
                       ticketed |-> ticketed]
    BY <1>3 DEF SeenResult
  <2> HIDE DEF refunded, ticketed
  <2>2. SeenResult' \in Caller!Results(SeenView)
    BY <1>1, <1>3, <2>1, RaisedIsEarned
  <2>3. QED
    BY <2>2, Answers
<1>4. QED
  BY <1>2, <1>3

CallerStep == [Caller!Answer]_<<SeenView, SeenResult>>

(* A tool call goes on, or fails the turn.                                 *)
LEMMA ToolCallRefines ==
  ASSUME IInv, IInv', request' = request, pc = "answering", GoesOn \/ GivesUp
  PROVE  CallerStep
BY StillRuns, FailsIsAnswer DEF CallerStep, GoesOn, GivesUp, Ended

LEMMA RefundFailsRefines ==
  ASSUME IInv, IInv', request' = request, pc \in {"reading", "updating"}, SeenView.unsteady,
         NEW error, RefundFails(error)
  PROVE  CallerStep
<1>1. GoesOn \/ GivesUp \/ pc' = "raised"
  BY RefundFailsHow DEF IInv
<1>2. QED
  BY <1>1, StillRuns, FailsIsAnswer DEF CallerStep, GoesOn, GivesUp, Ended

LEMMA ToolStepRefines ==
  ASSUME IInv, IInv', ToolStep
  PROVE  CallerStep
<1> USE DEF IInv, TypeOK, Tools, Ask
<1>1. ASSUME NEW o \in Orders, ToolGetOrderStatus(o)
      PROVE  CallerStep
  BY <1>1, ToolEndsHow, ToolCallRefines DEF ToolGetOrderStatus
<1>2. ASSUME NEW o \in Orders, ToolProposeRefund(o)
      PROVE  CallerStep
  BY <1>2, ToolEndsHow, ToolCallRefines DEF ToolProposeRefund
<1>3. ASSUME NEW o \in Orders, ToolConfirmRefused(o)
      PROVE  CallerStep
  BY <1>3, ToolCallRefines DEF ToolConfirmRefused, Answered, GoesOn
<1>4. ASSUME NEW o \in Orders, ToolConfirmRefund(o)
      PROVE  CallerStep
  BY <1>4, StillRuns DEF ToolConfirmRefund, CallerStep, Ended
<1>5. ASSUME NEW v \in PolicyVersions, NEW fails \in BOOLEAN, ToolGetPolicy(v, fails)
      PROVE  CallerStep
  BY <1>5, ToolEndsHow, ToolCallRefines DEF ToolGetPolicy
<1>6. ASSUME ToolEscalate
      PROVE  CallerStep
  BY <1>6, ToolEndsHow, ToolCallRefines DEF ToolEscalate
<1>7. QED
  BY <1>1, <1>2, <1>3, <1>4, <1>5, <1>6 DEF ToolStep

LEMMA ReadRefines ==
  ASSUME IInv, SeenInv, IInv', ReadForRefund
  PROVE  CallerStep
<1>1. CASE Eligibility(target.order) = "ok"
  BY <1>1, StillRuns DEF ReadForRefund, CallerStep, Ended
<1>2. CASE Eligibility(target.order) # "ok"
  <2>1. SeenView.unsteady
    BY <1>2, RefundFailsWhy DEF ReadForRefund
  <2>2. QED
    BY <1>2, <2>1, RefundFailsRefines DEF ReadForRefund
<1>3. QED
  BY <1>1, <1>2

LEMMA UpdateRefines ==
  ASSUME IInv, SeenInv, IInv', UpdateRow
  PROVE  CallerStep
<1> DEFINE o == target.order
<1>1. CASE Fault("confirm_refund", o) = "none" /\ RowMatches(o)
  <2>1. pc = "updating" /\ pc' \in {"answering", "assembling"} /\ request' = request
    BY <1>1 DEF UpdateRow, Answered
  <2>2. QED
    BY <2>1, StillRuns DEF CallerStep, Ended
<1>2. CASE ~(Fault("confirm_refund", o) = "none" /\ RowMatches(o))
  <2>1. SeenView.unsteady
    BY <1>2, RefundFailsWhy, FaultIsScripted DEF UpdateRow
  <2>2. pc = "updating" /\ request' = request /\ \E error : RefundFails(error)
    BY <1>2 DEF UpdateRow
  <2>3. QED
    BY <2>1, <2>2, RefundFailsRefines
<1>3. QED
  BY <1>1, <1>2

LEMMA EscalateTurnRefines ==
  ASSUME IInv, SeenInv, IInv', EscalateTurn
  PROVE  CallerStep
<1>1. ~Ended(pc) /\ request' = request
  BY DEF EscalateTurn, Ended
<1>2. CASE Fault("escalate", AnyOrder) = "none"
  <2>1. tickets' > 0 /\ confirmed' = confirmed
    BY <1>2, TicketMade DEF EscalateTurn, IInv, memory
  <2>2. /\ pc' = "replied"
        /\ reply' = [intent |-> "escalate", outcome |-> "escalated", reason |-> PlanTurn(routing)]
    BY <1>2 DEF EscalateTurn
  <2>3. SeenResult' = [reply |-> <<"escalated", PlanTurn(routing)>>, refunded |-> confirmed # {},
                       ticketed |-> TRUE]
    BY <2>1, <2>2 DEF SeenResult
  <2>4. SeenResult' \in Caller!Results(SeenView)
    BY <2>3, EscalationIsEarned DEF EscalateTurn
  <2>5. QED
    BY <1>1, <2>4, Answers DEF CallerStep
<1>3. CASE Fault("escalate", AnyOrder) # "none"
  BY <1>1, <1>3, FaultIsScripted, FailsIsAnswer DEF EscalateTurn, CallerStep
<1>4. QED
  BY <1>2, <1>3

LEMMA AssembleRefines ==
  ASSUME IInv, SeenInv, NEW cites \in BOOLEAN, Assemble(cites)
  PROVE  CallerStep
<1>1. ~Ended(pc) /\ request' = request /\ pc = "assembling"
  BY DEF Assemble, Ended
<1>2. SeenResult' = [reply |-> <<Outcome(cites)[1], Outcome(cites)[2]>>,
                     refunded |-> confirmed # {}, ticketed |-> tickets > 0]
  <2>1. /\ pc' = "replied" /\ confirmed' = confirmed /\ tickets' = tickets
        /\ reply'.outcome = Outcome(cites)[1] /\ reply'.reason = Outcome(cites)[2]
    BY DEF Assemble, memory, effects
  <2>2. QED
    BY <2>1 DEF SeenResult
<1>3. SeenResult' \in Caller!Results(SeenView)
  BY <1>1, <1>2, AssembledIsEarned
<1>4. QED
  BY <1>1, <1>3, Answers DEF CallerStep

LEMMA OtherRefines ==
  ASSUME IInv, IInv',
         \/ ModelFails \/ UNCHANGED vars
         \/ \E i \in RouteIntents, o \in Orders \cup {NoOrder} : Route(i, o)
         \/ \E i \in RouteIntents : Draft(i)
         \/ \E o \in Orders : Elsewhere(o)
  PROVE  CallerStep
<1>1. CASE ModelFails
  BY <1>1, FailsIsAnswer DEF ModelFails, CallerStep, Ended
<1>2. CASE UNCHANGED vars
  BY <1>2 DEF vars, CallerStep, SeenView, SeenResult
<1>3. CASE \E i \in RouteIntents, o \in Orders \cup {NoOrder} : Route(i, o)
  BY <1>3, StillRuns DEF Route, CallerStep, Ended
<1>4. CASE \E i \in RouteIntents : Draft(i)
  BY <1>4, StillRuns DEF Draft, CallerStep, Ended
<1>5. CASE \E o \in Orders : Elsewhere(o)
  BY <1>5, StillRuns DEF Elsewhere, CallerStep, Ended
<1>6. QED
  BY <1>1, <1>2, <1>3, <1>4, <1>5

LEMMA NextRefines ==
  ASSUME IInv, SeenInv, IInv', [Next]_vars
  PROVE  CallerStep
BY ToolStepRefines, ReadRefines, UpdateRefines, EscalateTurnRefines, AssembleRefines,
   OtherRefines DEF Next, TurnStep

LEMMA InitRefines == Init => Caller!Init
<1> SUFFICES ASSUME Init PROVE Caller!Init
  OBVIOUS
<1>1. SeenResult = Caller!Unanswered
  BY DEF Init, SeenResult, Replied!Unanswered, Caller!Unanswered
<1>2. SeenView \in Caller!Views
  <2>1. request.refundConfirmed \in BOOLEAN
    BY DEF Init
  <2>2. {InitialStatus[o] : o \in Mine}
          \in SUBSET {"absent", "processing", "shipped", "delivered", "refunded"}
    BY TurnAssumption DEF RowStatus
  <2>3. QED
    BY <2>1, <2>2 DEF SeenView, Caller!Views
<1>3. QED
  BY <1>1, <1>2 DEF Caller!Init

-----------------------------------------------------------------------------
(* A turn gives one answer, once, that its effects and the data account    *)
(* for: run_turn implements the turn that its callers rely on.             *)
THEOREM TurnIsServed == Spec => CallerIsServed
<1>1. Init => SeenInv /\ Caller!Init
  BY SeenInit, InitRefines
<1>2. IInv /\ IInv' /\ SeenInv /\ [Next]_vars => SeenInv' /\ CallerStep
  BY SeenNext, NextRefines
<1>3. CallerStep => [Caller!Answer]_<<SeenView, SeenResult>>
  BY DEF CallerStep
<1>4. QED
  BY Invariance, <1>1, <1>2, <1>3, PTL DEF Spec, CallerIsServed, Caller!Spec
=============================================================================
