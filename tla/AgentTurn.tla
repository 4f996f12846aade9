----------------------------- MODULE AgentTurn -----------------------------
(***************************************************************************)
(* One turn of the support agent: routing, the tool calls of the answering *)
(* model, the confirmation that the application adds, and the reply that   *)
(* is assembled from what the tools left behind.                           *)
(*                                                                         *)
(* The model may call any tool of its intent with any order id, in any     *)
(* order, and may fail at any time.  The repository below it runs a fault  *)
(* script, and other sessions may refund orders between two calls.         *)
(***************************************************************************)
EXTENDS Integers, Sequences, FiniteSets

CONSTANTS
  Orders,         \* order ids a model may name
  Mine,           \* the orders of the customer bound to the turn
  InitialStatus,  \* [Orders -> {"absent", "processing", "delivered", "refunded"}]
  Contended,      \* orders that another session may refund during the turn
  Scripts         \* fault scripts, sequences of Entry; Init picks one

RequestLimit == 8
Tools == {"get_order_status", "get_policy", "propose_refund", "confirm_refund", "escalate"}
ToolRetries == [t \in Tools |-> IF t \in {"get_order_status", "get_policy"} THEN 1 ELSE 0]
RouteIntents == {"order_status", "policy", "refund", "escalate"}
ToolsByIntent ==
  [i \in RouteIntents |->
     CASE i = "order_status" -> {"get_order_status", "escalate"}
       [] i = "policy" -> {"get_policy", "escalate"}
       [] i = "refund" -> {"get_order_status", "propose_refund", "confirm_refund", "escalate"}
       [] i = "escalate" -> {}]
Refundable == {"delivered"}
RowStatus == {"absent", "processing", "delivered", "refunded"}
PolicyVersions == {"none", "accepted", "other"}

NoOrder == "no_order"
Ticket == "ticket"
AnyOrder == "any_order"   \* an entry with empty arguments
Entry == [tool: Tools, order: Orders \cup {AnyOrder},
          kind: {"delay", "timeout", "malformed"}, repeat: BOOLEAN]

ASSUME TurnAssumption ==
  /\ Mine \subseteq Orders /\ Contended \subseteq Orders
  /\ InitialStatus \in [Orders -> RowStatus]
  /\ Scripts \subseteq Seq(Entry)
  /\ {NoOrder, AnyOrder, Ticket} \cap Orders = {}

VARIABLES
  request,    \* refund_confirmed and the fault script
  pc,         \* where the turn is
  routing,    \* the routing decision
  target,     \* the order of the refund under way, and who asked for it
  requests,   \* model requests of the answering run
  failing,    \* the tool the model was last asked to call again
  retries,    \* AgentDeps.retry_count
  consumed,   \* entries of the script that were used up
  status,     \* status of the order rows as this session sees them
  proposals,  \* _pending_proposals
  confirmed,  \* _confirmed_order_ids
  lastOrder,  \* last_order
  lastError,  \* last_tool_error
  policy,     \* last policy version read, and whether the tool succeeded
  tickets,    \* tickets created by the turn
  mutations,  \* how many accepted writes ObservedSupportRepository reported
              \* of each order, and of tickets
  draft,      \* intent of the model's draft
  reply       \* reason code of the response, with its outcome and intent

asked == <<request, routing>>
memory == <<proposals, confirmed, lastOrder, lastError>>
effects == <<status, tickets, mutations>>
loop == <<requests, failing, retries>>
vars == <<request, pc, routing, target, requests, failing, retries, consumed, status,
          proposals, confirmed, lastOrder, lastError, policy, tickets, mutations, draft,
          reply>>

NoReply == [intent |-> "none", outcome |-> "none", reason |-> "none"]
FailedResponse == [intent |-> "escalate", outcome |-> "failed", reason |-> "model_error"]

Init ==
  /\ request \in [refundConfirmed: BOOLEAN, script: Scripts]
  /\ pc = "routing"
  /\ routing = [intent |-> "none", order |-> NoOrder]
  /\ target = [order |-> NoOrder, byTool |-> FALSE]
  /\ requests = 0 /\ failing = "none" /\ retries = 0
  /\ consumed = {}
  /\ status = InitialStatus
  /\ proposals = {} /\ confirmed = {}
  /\ lastOrder = NoOrder /\ lastError = "none"
  /\ policy = [version |-> "none", called |-> FALSE]
  /\ tickets = 0 /\ mutations = [x \in Orders \cup {Ticket} |-> 0]
  /\ draft = "none" /\ reply = NoReply

-----------------------------------------------------------------------------
(* The fault script in front of the repository                             *)

Live(tool, o) ==
  {i \in DOMAIN request.script :
     /\ request.script[i].tool = tool /\ request.script[i].order \in {AnyOrder, o}
     /\ request.script[i].repeat \/ i \notin consumed}

(* The entry _next_entry returns, as a set: empty when none matches.       *)
NextEntry(tool, o) == {i \in Live(tool, o) : \A j \in Live(tool, o) : i <= j}

(* A delay only sleeps; the others raise before the real call.             *)
Fault(tool, o) ==
  LET kinds == {request.script[i].kind : i \in NextEntry(tool, o)} IN
  IF "timeout" \in kinds THEN "timeout"
  ELSE IF "malformed" \in kinds THEN "malformed" ELSE "none"

(* Mutated: entries are used up by nothing.                                *)
NoneSpent(tool, o) == {}

Spent(tool, o) == {i \in NextEntry(tool, o) : ~request.script[i].repeat}

(* SupportService.get_order                                                *)
GetOrder(o) ==
  IF Fault("get_order_status", o) # "none" THEN Fault("get_order_status", o)
  ELSE IF status[o] = "absent" THEN "order_not_found"
  ELSE IF o \notin Mine THEN "forbidden" ELSE "ok"

-----------------------------------------------------------------------------
(* Routing                                                                 *)

(* The reason to escalate without a model call, or "none".                 *)
PlanTurn(r) ==
  CASE r.intent = "escalate" -> "escalated"
    [] r.intent = "order_status" /\ r.order = NoOrder -> "escalated_missing_reference"
    [] r.intent = "refund" /\ r.order = NoOrder -> "refund_blocked_missing_reference"
    [] OTHER -> "none"

Route(intent, o) ==
  /\ pc = "routing"
  /\ routing' = [intent |-> intent, order |-> o]
  /\ pc' = IF PlanTurn(routing') = "none" THEN "answering" ELSE "escalating"
  /\ UNCHANGED <<request, target, loop, consumed, memory, policy, effects, draft, reply>>

(* Any exception of the routing or of the answering run ends the turn with *)
(* the failed response: usage limits, retries used up, provider errors.    *)
ModelFails ==
  /\ pc \in {"routing", "answering"}
  /\ pc' = "replied" /\ reply' = FailedResponse
  /\ UNCHANGED <<request, routing, target, loop, consumed, memory, policy, effects, draft>>

CreateTicket ==
  /\ tickets' = tickets + 1
  /\ mutations' = [mutations EXCEPT ![Ticket] = @ + 1]
  /\ UNCHANGED status

(* escalate_turn: its exceptions leave the turn.                           *)
EscalateTurn ==
  /\ pc = "escalating"
  /\ consumed' = consumed \cup Spent("escalate", AnyOrder)
  /\ IF Fault("escalate", AnyOrder) = "none"
     THEN /\ CreateTicket
          /\ pc' = "replied"
          /\ reply' = [intent |-> "escalate", outcome |-> "escalated",
                       reason |-> PlanTurn(routing)]
     ELSE pc' = "raised" /\ UNCHANGED <<effects, reply>>
  /\ UNCHANGED <<request, routing, target, loop, memory, policy, draft>>

-----------------------------------------------------------------------------
(* Tools.  A response of the model names one tool; the run fails once the  *)
(* request limit is reached.                                               *)

(* Mutated: reads do not count as requests.                                *)
AskFreeReads(tool) ==
  /\ pc = "answering" /\ tool \in ToolsByIntent[routing.intent]
  /\ requests < RequestLimit
  /\ requests' = IF tool = "get_order_status" THEN requests ELSE requests + 1

Ask(tool) ==
  /\ pc = "answering" /\ tool \in ToolsByIntent[routing.intent]
  /\ requests < RequestLimit
  /\ requests' = requests + 1

(* The tool returned a text, good or bad news, and the run goes on.        *)
Answered == pc' = "answering" /\ failing' = "none" /\ UNCHANGED <<retries, reply>>

Broken == pc' = "replied" /\ reply' = FailedResponse

(* A timeout or connection error asks the model for the same call again,   *)
(* as often as the tool allows; any other error ends the run.              *)
Raised(tool, error) ==
  IF error = "timeout" /\ tool # "get_policy"
  THEN /\ retries' = retries + 1
       /\ IF failing = tool \/ ToolRetries[tool] = 0
          THEN Broken /\ UNCHANGED failing
          ELSE pc' = "answering" /\ failing' = tool /\ UNCHANGED reply
  ELSE Broken /\ UNCHANGED <<failing, retries>>

Interrupts == {"timeout", "malformed"}
ToolEnds(tool, error) == IF error \in Interrupts THEN Raised(tool, error) ELSE Answered

ToolGetOrderStatus(o) ==
  /\ Ask("get_order_status")
  /\ consumed' = consumed \cup Spent("get_order_status", o)
  /\ lastOrder' = IF GetOrder(o) = "ok" THEN o ELSE lastOrder
  /\ ToolEnds("get_order_status", GetOrder(o))
  /\ UNCHANGED <<request, routing, target, proposals, confirmed, lastError, policy, effects,
                 draft>>

(* The latest policy row, if any, has the accepted version or not; it is   *)
(* kept although a measured search for its evidence then fails.            *)
ToolGetPolicy(version, searchFails) ==
  LET error == Fault("get_policy", AnyOrder)
      found == error = "none" /\ version # "none" IN
  /\ Ask("get_policy")
  /\ consumed' = consumed \cup Spent("get_policy", AnyOrder)
  /\ policy' = IF ~found THEN policy
               ELSE [version |-> version, called |-> policy.called \/ ~searchFails]
  /\ ToolEnds("get_policy", error)
  /\ UNCHANGED <<request, routing, target, memory, effects, draft>>

(* What propose_refund and request_refund read and check first.            *)
Eligibility(o) ==
  IF GetOrder(o) = "ok" /\ status[o] \notin Refundable THEN "invalid_transition"
  ELSE GetOrder(o)

BlockedBy == [e \in {"forbidden", "order_not_found", "invalid_transition"} |->
                CASE e = "forbidden" -> "refund_blocked_forbidden"
                  [] e = "order_not_found" -> "order_not_found"
                  [] e = "invalid_transition" -> "refund_blocked_ineligible"]

ToolProposeRefund(o) ==
  LET error == Eligibility(o) IN
  /\ Ask("propose_refund")
  /\ consumed' = consumed \cup Spent("get_order_status", o)
  /\ lastOrder' = IF GetOrder(o) = "ok" THEN o ELSE lastOrder
  /\ lastError' = IF error = "ok" THEN "none"
                  ELSE IF error \in Interrupts THEN lastError ELSE BlockedBy[error]
  /\ proposals' = IF error = "ok" THEN proposals \cup {o} ELSE proposals
  /\ ToolEnds("propose_refund", error)
  /\ UNCHANGED <<request, routing, target, confirmed, policy, effects, draft>>

ToolEscalate ==
  LET error == Fault("escalate", AnyOrder) IN
  /\ Ask("escalate")
  /\ consumed' = consumed \cup Spent("escalate", AnyOrder)
  /\ IF error = "none" THEN CreateTicket ELSE UNCHANGED effects
  /\ ToolEnds("escalate", error)
  /\ UNCHANGED <<request, routing, target, memory, policy, draft>>

-----------------------------------------------------------------------------
(* confirm_refund: a tool of the model, and the application's own last     *)
(* step.  Between its read and its conditional UPDATE others may commit.   *)

(* Mutated: a proposal is enough.                                          *)
MayConfirmProposed(o) == o \in proposals

MayConfirm(o) == o \in proposals /\ request.refundConfirmed

ToolConfirmRefused(o) ==
  /\ Ask("confirm_refund") /\ ~MayConfirm(o)
  /\ lastError' = "refund_blocked_unconfirmed"
  /\ Answered
  /\ UNCHANGED <<request, routing, target, consumed, proposals, confirmed, lastOrder, policy,
                 effects, draft>>

ToolConfirmRefund(o) ==
  /\ Ask("confirm_refund") /\ MayConfirm(o)
  /\ pc' = "reading" /\ target' = [order |-> o, byTool |-> TRUE]
  /\ UNCHANGED <<request, routing, failing, retries, consumed, memory, policy, effects, draft,
                 reply>>

(* An error of the tool's refund goes back to the model, an error of the   *)
(* application's own refund leaves the turn.                               *)
RefundFails(error) ==
  IF target.byTool THEN ToolEnds("confirm_refund", error)
  ELSE pc' = "raised" /\ UNCHANGED <<failing, retries, reply>>

(* request_refund up to the UPDATE; the row was owned when proposed.       *)
ReadForRefund ==
  LET error == Eligibility(target.order) IN
  /\ pc = "reading"
  /\ consumed' = consumed \cup Spent("get_order_status", target.order)
  /\ IF error = "ok" THEN pc' = "updating" /\ UNCHANGED <<failing, retries, reply>>
     ELSE RefundFails(error)
  /\ UNCHANGED <<request, routing, target, requests, memory, policy, effects, draft>>

RowMatches(o) == o \in Mine /\ status[o] = "delivered"

(* Mutated: every attempt is reported as an accepted write.                *)
ReportAttempt(o) == [mutations EXCEPT ![o] = @ + 1]

(* ObservedSupportRepository compares the rows before and after.           *)
Report(o) == IF RowMatches(o) THEN [mutations EXCEPT ![o] = @ + 1] ELSE mutations

UpdateRow ==
  LET o == target.order
      fault == Fault("confirm_refund", o)
      reread == Fault("get_order_status", o) IN
  /\ pc = "updating"
  /\ consumed' = consumed \cup Spent("confirm_refund", o)
                   \cup (IF fault = "none" /\ ~RowMatches(o) THEN Spent("get_order_status", o)
                         ELSE {})
  /\ IF fault # "none" THEN RefundFails(fault) /\ UNCHANGED <<memory, effects>>
     ELSE /\ mutations' = Report(o) /\ UNCHANGED tickets
          /\ IF RowMatches(o)
             THEN /\ status' = [status EXCEPT ![o] = "refunded"]
                  /\ proposals' = proposals \ {o} /\ confirmed' = confirmed \cup {o}
                  /\ lastOrder' = o /\ lastError' = "none"
                  /\ IF target.byTool THEN Answered
                     ELSE pc' = "assembling" /\ UNCHANGED <<failing, retries, reply>>
             ELSE /\ RefundFails(IF reread # "none" THEN reread ELSE "invalid_transition")
                  /\ UNCHANGED <<status, memory>>
  /\ UNCHANGED <<request, routing, target, requests, policy, draft>>

-----------------------------------------------------------------------------
(* The reply                                                               *)

(* The model is done and claims an intent of its own choice.  A confirmed  *)
(* request whose proposal is still pending is refunded by the application. *)
Draft(intent) ==
  /\ pc = "answering" /\ requests < RequestLimit
  /\ requests' = requests + 1
  /\ draft' = intent
  /\ IF /\ routing.intent = "refund"
        /\ request.refundConfirmed
        /\ routing.order \in proposals \ confirmed
     THEN pc' = "reading" /\ target' = [order |-> routing.order, byTool |-> FALSE]
     ELSE pc' = "assembling" /\ UNCHANGED target
  /\ UNCHANGED <<request, routing, failing, retries, consumed, memory, policy, effects, reply>>

(* Mutated: the last order read counts as the result.                      *)
LastOrderRead(o) == o # NoOrder /\ lastOrder = o

ConfirmedRefundFor(o) == o \in confirmed /\ lastOrder = o

(* With a retriever, the draft must also cite what was retrieved.          *)
Grounded(cites) ==
  policy.version = "accepted" /\ policy.called /\ cites

(* Outcome and reason of the assembled response.                           *)
Outcome(cites) ==
  CASE draft = "order_status" ->
         <<"completed", IF lastOrder = NoOrder THEN "order_not_found"
                        ELSE IF retries > 0 THEN "ok_with_retry" ELSE "order_status_ok">>
    [] draft = "policy" ->
         IF Grounded(cites) THEN <<"completed", "policy_answer">>
         ELSE <<"blocked", "policy_answer_ungrounded">>
    [] draft = "refund" ->
         IF ConfirmedRefundFor(routing.order) THEN <<"completed", "refund_confirmed">>
         ELSE IF routing.order \in proposals THEN <<"completed", "refund_proposed">>
         ELSE <<"blocked", IF lastError # "none" THEN lastError
                           ELSE "refund_blocked_unconfirmed">>
    [] draft = "escalate" ->
         IF tickets > 0 THEN <<"escalated", "escalated">> ELSE <<"blocked", "tool_error">>

Assemble(cites) ==
  /\ pc = "assembling"
  /\ pc' = "replied"
  /\ reply' = [intent |-> draft, outcome |-> Outcome(cites)[1], reason |-> Outcome(cites)[2]]
  /\ UNCHANGED <<request, routing, target, loop, consumed, memory, policy, effects, draft>>

-----------------------------------------------------------------------------
(* Another session's refund commits while this one holds no row lock.      *)
Elsewhere(o) ==
  /\ o \in Contended /\ status[o] = "delivered" /\ pc \notin {"replied", "raised"}
  /\ status' = [status EXCEPT ![o] = "refunded"]
  /\ UNCHANGED <<request, pc, routing, target, loop, consumed, memory, policy, tickets,
                 mutations, draft, reply>>

ToolStep ==
  \/ \E o \in Orders : \/ ToolGetOrderStatus(o) \/ ToolProposeRefund(o)
                       \/ ToolConfirmRefused(o) \/ ToolConfirmRefund(o)
  \/ \E version \in PolicyVersions, searchFails \in BOOLEAN : ToolGetPolicy(version, searchFails)
  \/ ToolEscalate

TurnStep ==
  \/ \E i \in RouteIntents, o \in Orders \cup {NoOrder} : Route(i, o)
  \/ ModelFails \/ EscalateTurn \/ ToolStep \/ ReadForRefund \/ UpdateRow
  \/ \E i \in RouteIntents : Draft(i)
  \/ \E cites \in BOOLEAN : Assemble(cites)

Next == TurnStep \/ \E o \in Orders : Elsewhere(o)

Spec == Init /\ [][Next]_vars

(* The event loop keeps running the turn, and the model keeps answering.   *)
FairSpec == Spec /\ WF_vars(TurnStep)

-----------------------------------------------------------------------------
(* Properties                                                              *)

ToolErrors == {"refund_blocked_unconfirmed", "refund_blocked_forbidden",
               "refund_blocked_ineligible", "order_not_found"}
Reasons == ToolErrors \cup
           {"model_error", "escalated", "escalated_missing_reference", "tool_error",
            "refund_blocked_missing_reference", "ok_with_retry", "order_status_ok",
            "policy_answer", "policy_answer_ungrounded", "refund_confirmed", "refund_proposed"}

(* Types of the turn's state and of what the tools remember.               *)
TypeOK ==
  /\ request \in [refundConfirmed: BOOLEAN, script: Scripts]
  /\ pc \in {"routing", "escalating", "answering", "reading", "updating", "assembling",
             "replied", "raised"}
  /\ routing \in [intent: RouteIntents \cup {"none"}, order: Orders \cup {NoOrder}]
  /\ target \in [order: Orders \cup {NoOrder}, byTool: BOOLEAN]
  /\ requests \in 0 .. RequestLimit /\ retries \in Nat
  /\ failing \in Tools \cup {"none"}
  /\ consumed \subseteq DOMAIN request.script
  /\ status \in [Orders -> RowStatus]
  /\ proposals \subseteq Orders /\ confirmed \subseteq Orders
  /\ lastOrder \in Orders \cup {NoOrder} /\ lastError \in ToolErrors \cup {"none"}
  /\ policy \in [version: PolicyVersions, called: BOOLEAN]
  /\ tickets \in Nat /\ mutations \in [Orders \cup {Ticket} -> Nat]
  /\ draft \in RouteIntents \cup {"none"}
  /\ reply = NoReply \/ reply \in [intent: RouteIntents,
                                   outcome: {"completed", "escalated", "blocked", "failed"},
                                   reason: Reasons]

(* "The model cannot bypass these rules": whatever tools the model calls   *)
(* with whatever orders, confirm_refund refunds only orders of the bound   *)
(* customer that were delivered, for a request confirmed outside the model.*)
RefundNeedsConsent ==
  \A o \in confirmed :
    /\ request.refundConfirmed
    /\ o \in Mine /\ InitialStatus[o] = "delivered" /\ status[o] = "refunded"

(* The observed mutations are the turn's effects, also when an update lost *)
(* its race or a fault hit it: one entry for each order the turn refunded  *)
(* and for each ticket, and none for what it did not do.                   *)
MutationsAreEffects ==
  /\ \A o \in Orders : mutations[o] = (IF o \in confirmed THEN 1 ELSE 0)
  /\ mutations[Ticket] = tickets

(* What a reply states has happened: a confirmed refund is executed, an    *)
(* escalation has its ticket, a proposal still awaits a confirmation that  *)
(* the request did not give (_answer confirms it otherwise).               *)
ReplyIsTrue ==
  /\ reply.reason = "refund_confirmed" => routing.order \in confirmed
  /\ reply.reason = "refund_proposed" => /\ routing.order \in proposals \ confirmed
                                         /\ ~request.refundConfirmed
  /\ reply.outcome = "escalated" => tickets > 0

(* What the caller of the turn sees of it: the module SupportTurn.         *)
Replied == INSTANCE SupportReplies
SeenView ==
  [confirmed |-> request.refundConfirmed, own |-> {InitialStatus[o] : o \in Mine},
   foreign |-> \E o \in Orders \ Mine : InitialStatus[o] # "absent",
   current |-> TRUE,
   unsteady |-> Contended # {} \/ request.script # <<>>]
SeenResult ==
  IF pc \notin {"replied", "raised"} THEN Replied!Unanswered
  ELSE [reply |-> IF pc = "raised" THEN <<"raised", "none">> ELSE <<reply.outcome, reply.reason>>,
        refunded |-> confirmed # {}, ticketed |-> tickets > 0]
Caller == INSTANCE SupportTurn WITH view <- SeenView, result <- SeenResult

(* The turn is what its callers take it for: one answer, given once, that  *)
(* the effects of this turn and the data it was given account for, whatever*)
(* the model calls, other sessions do and the fault script does.           *)
CallerIsServed == Caller!Spec

(* The inductive invariant behind the three properties above.              *)

(* A row changes only by a refund.                                         *)
RowInv == \A o \in Orders : status[o] # InitialStatus[o] =>
            InitialStatus[o] = "delivered" /\ status[o] = "refunded"

(* A pending proposal is a refundable order of the customer; only a refund *)
(* request proposes, and a confirmed request is settled before its reply.  *)
ProposalInv ==
  /\ \A o \in proposals : o \in Mine /\ InitialStatus[o] = "delivered"
  /\ proposals \cap confirmed = {}
  /\ proposals # {} => routing.intent = "refund"
  /\ pc = "routing" => routing.intent = "none"
  /\ pc = "answering" => routing.intent \in RouteIntents
  /\ pc = "assembling" /\ request.refundConfirmed => routing.order \notin proposals

(* A refund under way rests on a proposal and the request's confirmation.  *)
TargetInv ==
  pc \in {"reading", "updating"} =>
    /\ target.order \in proposals /\ request.refundConfirmed
    /\ ~target.byTool => target.order = routing.order /\ draft # "none"

ReplyInv ==
  /\ pc = "replied" <=> reply # NoReply
  /\ pc = "assembling" => draft # "none"
  /\ pc = "escalating" => PlanTurn(routing) # "none"

IInv == /\ TypeOK /\ RowInv /\ ProposalInv /\ TargetInv /\ ReplyInv
        /\ RefundNeedsConsent /\ MutationsAreEffects /\ ReplyIsTrue

(* What links the tools' memory to the data and the request, for the proof *)
(* of CallerIsServed.                                                      *)
SeenInv ==
  /\ retries > 0 => SeenView.unsteady
  /\ \A o \in Orders : status[o] # InitialStatus[o] => o \in confirmed \/ Contended # {}
  /\ lastOrder # NoOrder => lastOrder \in Mine /\ InitialStatus[lastOrder] # "absent"
  /\ confirmed # {} => lastOrder # NoOrder /\ routing.intent = "refund"
  /\ policy.called => routing.intent = "policy"
  /\ pc = "escalating" => confirmed = {}
  /\ lastError = "refund_blocked_ineligible" =>
       confirmed # {} \/ SeenView.unsteady
         \/ SeenView.own \cap {"processing", "shipped", "refunded"} # {}
  /\ lastError = "refund_blocked_forbidden" => SeenView.foreign

(* "Entries apply once by default": when only such entries time out, the   *)
(* agent retries no more often than the script has timeouts, whatever      *)
(* calls share an entry (a proposal reads with get_order_status).          *)
RetriesAreScripted ==
  LET timeouts == {i \in DOMAIN request.script : request.script[i].kind = "timeout"} IN
  (\A i \in timeouts : ~request.script[i].repeat) => retries <= Cardinality(timeouts \cap consumed)

(* Every turn ends: the request limit bounds the model's calls.            *)
TurnEnds == <>(pc \in {"replied", "raised"})

(* "returns the confirmed refund result for one order.  If no result       *)
(* exists, returns None" (confirmed_refund_for): a refund reply that was   *)
(* assembled after the order was refunded says so.                         *)
ConfirmedRefundIsReported ==
  pc = "replied" /\ reply # FailedResponse /\ reply.intent = "refund"
    /\ routing.order \in confirmed => reply.reason = "refund_confirmed"
=============================================================================
