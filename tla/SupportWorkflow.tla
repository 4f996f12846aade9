--------------------------- MODULE SupportWorkflow ---------------------------
(***************************************************************************)
(* The controlled support workflow and the HTTP requests that drive it.    *)
(*                                                                         *)
(* A request starts a workflow, resumes one that waits for a refund        *)
(* confirmation, or asks for a refund directly.  Every request runs inside *)
(* one database session that commits only after the answer was sent        *)
(* (db.get_session), while the graph's checkpoints are written on another  *)
(* connection as the run advances.  The model keeps both: the committed    *)
(* orders and tickets, and the latest checkpoint of every workflow.        *)
(***************************************************************************)
EXTENDS Integers, FiniteSets

CONSTANTS
  Requests,       \* HTTP requests, each served at most once
  Workflows,      \* workflow ids that uuid4 may hand out
  Customers,      \* actors
  Orders,         \* order ids a message may name
  Owner,          \* [Orders -> Customers]: customer_id of the order row
  InitialStatus,  \* [Orders -> OrderStatus], "absent" for an id without a row
  Intents,        \* routes the messages of the run can take
  SharedService,  \* TRUE: one WorkflowService over one in-memory repository
                  \* FALSE: the HTTP router, one service and session per request
  Flaky,          \* graph nodes whose dependency may fail transiently
  MaxAborts       \* bound on requests that die before their session commits

RetryNodes == {"route", "retrieve_order", "retrieve_policy", "respond"}
OrderStatus == {"absent", "pending", "processing", "shipped", "delivered", "cancelled",
                "refunded"}
AllIntents == {"refund", "policy", "order_status", "escalate"}
MaxNodeAttempts == 2
Refundable == {"delivered"}

NoOrder == "no_order"   \* the message names no order id
Free == "free"          \* nobody holds the order's row lock

ASSUME WorkflowAssumption ==
  /\ Owner \in [Orders -> Customers]
  /\ InitialStatus \in [Orders -> OrderStatus]
  /\ Intents \subseteq AllIntents
  /\ SharedService \in BOOLEAN
  /\ Flaky \subseteq RetryNodes
  /\ MaxAborts \in Nat
  /\ NoOrder \notin Orders
  /\ Free \notin Requests

VARIABLES
  status,     \* committed status of every order row
  rowLock,    \* the request whose uncommitted UPDATE locks the row, or Free
  tickets,    \* requests whose escalation ticket is committed
  ckpt,       \* latest checkpoint of every workflow
  meta,       \* actor, order and intent of a started workflow
  expired,    \* workflows whose confirmation deadline has passed
  pc,         \* where each request is
  call,       \* what each request asks for
  view,       \* the graph state held by the request's run
  dirty,      \* requests with a superstep not yet in the checkpoint store
  ticket,     \* requests whose session holds an uncommitted ticket
  attempts,   \* AttemptTracker of the request's run
  told,       \* the status or error the request answered with
  aborts,     \* aborted requests so far
  refunders,  \* history: the requests whose refund of the order took effect
  consent     \* history: workflows whose confirmation node took "confirm"

store == <<status, rowLock, tickets, ticket, refunders>>
run == <<ckpt, view, dirty, attempts, consent>>
vars == <<status, rowLock, tickets, ckpt, meta, expired, pc, call, view, dirty,
          ticket, attempts, told, aborts, refunders, consent>>

-----------------------------------------------------------------------------
(* Graph state                                                             *)

Nodes == RetryNodes \cup
         {"propose_refund", "confirmation", "execute_refund", "reject", "escalate", "end"}
GraphStatus == {"received", "routed", "evidence_ready", "awaiting_confirmation",
                "confirmed", "rejected", "completed", "escalating", "escalated"}
Refusals == {"workflow_expired", "actor_mismatch", "request_mismatch", "invalid_resume",
             "order_not_found", "forbidden", "invalid_transition"}

GraphState == [node: Nodes, status: GraphStatus, order: OrderStatus \cup {"none"},
               policy: BOOLEAN, decision: {"none", "pending", "confirm", "reject"},
               escalation: {"none", "pending", "completed"}, interrupted: BOOLEAN]

(* What a run starts from.  It also stands for the checkpoint of a workflow *)
(* not started yet, which no request can name.                             *)
FreshState == [node |-> "route", status |-> "received", order |-> "none", policy |-> FALSE,
               decision |-> "none", escalation |-> "none", interrupted |-> FALSE]

NoMeta == [actor |-> "none", order |-> NoOrder, intent |-> "none"]
Metas == [actor: Customers, order: Orders \cup {NoOrder}, intent: AllIntents]

Calls == [kind: {"idle"}]
         \cup [kind: {"start"}, wf: Workflows]
         \cup [kind: {"confirm", "reject"}, wf: Workflows, actor: Customers, sameId: BOOLEAN]
         \cup [kind: {"refund"}, actor: Customers, order: Orders]

(* A node that gives up leaves a pending escalation in its delta.          *)
EscalationDelta(g) == [g EXCEPT !.escalation = "pending", !.status = "escalating"]

(* The conditional edges of the graph.                                     *)
AfterRoute(g, intent) ==
  IF g.escalation # "none" \/ intent = "escalate" THEN "escalate"
  ELSE IF intent = "policy" THEN "retrieve_policy" ELSE "retrieve_order"

(* Mutated: proposes before the policy was retrieved.                      *)
AfterEvidenceNoPolicy(g, intent) ==
  IF g.escalation # "none" THEN "escalate"
  ELSE IF intent # "refund" THEN "respond" ELSE "propose_refund"

AfterEvidence(g, intent) ==
  IF g.escalation # "none" THEN "escalate"
  ELSE IF intent # "refund" THEN "respond"
  ELSE IF g.policy THEN "propose_refund" ELSE "retrieve_policy"

AfterProposal(g) == IF g.escalation # "none" THEN "escalate" ELSE "confirmation"

AfterConfirmation(g) ==
  IF g.decision = "none" THEN "escalate"
  ELSE IF g.decision = "confirm" THEN "execute_refund" ELSE "reject"

(* Mutated: the edge after an executed refund leads to the next node.      *)
AfterExecutionRejects(g) == IF g.escalation # "none" THEN "escalate" ELSE "reject"

AfterExecution(g) == IF g.escalation # "none" THEN "escalate" ELSE "end"

AfterResponse(g) == IF g.escalation # "none" THEN "escalate" ELSE "end"

Successor(g, intent) ==
  CASE g.node = "route" -> AfterRoute(g, intent)
    [] g.node \in {"retrieve_order", "retrieve_policy"} -> AfterEvidence(g, intent)
    [] g.node = "propose_refund" -> AfterProposal(g)
    [] g.node = "confirmation" -> AfterConfirmation(g)
    [] g.node = "execute_refund" -> AfterExecution(g)
    [] g.node = "respond" -> AfterResponse(g)
    [] OTHER -> "end"

-----------------------------------------------------------------------------
(* Requests                                                                *)

Workflow(r) == call[r].wf
Resumes(r) == call[r].kind \in {"confirm", "reject"}
RunsGraph(r) == Resumes(r) \/ call[r].kind = "start"
Serving == {"waiting", "checked", "graph", "reading", "update", "answered"}
Running == {"checked", "graph", "update"}

(* The order a refund of this request would touch, and for whom.           *)
OrderOf(r) == IF RunsGraph(r) THEN meta[Workflow(r)].order ELSE call[r].order
ActorOf(r) == IF RunsGraph(r) THEN meta[Workflow(r)].actor ELSE call[r].actor

At(r, n) == pc[r] = "graph" /\ view[r].node = n

(* A client learns a workflow id from the answer to its start request.     *)
Known(w) == \E s \in Requests : /\ call[s].kind = "start" /\ call[s].wf = w
                                /\ told[s] # "none"

(* Mutated: nobody takes the workflow lock.                                *)
LockIgnored(r) == TRUE

(* WorkflowService._lock: held by a resume from its checks to its answer,  *)
(* and shared only by requests that share the service object.              *)
LockFree(r) ==
  SharedService => \A s \in Requests \ {r} :
                      ~(Resumes(s) /\ Workflow(s) = Workflow(r) /\ pc[s] \in Running)

Init ==
  /\ status = InitialStatus
  /\ rowLock = [o \in Orders |-> Free]
  /\ tickets = {} /\ ticket = {}
  /\ ckpt = [w \in Workflows |-> FreshState]
  /\ meta = [w \in Workflows |-> NoMeta]
  /\ expired = {}
  /\ pc = [r \in Requests |-> "idle"]
  /\ call = [r \in Requests |-> [kind |-> "idle"]]
  /\ view = [r \in Requests |-> FreshState]
  /\ dirty = {}
  /\ attempts = [r \in Requests |-> [n \in RetryNodes |-> 0]]
  /\ told = [r \in Requests |-> "none"]
  /\ aborts = 0
  /\ refunders = [o \in Orders |-> {}]
  /\ consent = {}

(* start: the run begins with its input checkpoint; the message fixes the  *)
(* route, and expires_at may be given, also in the past.                   *)
Start(r, w, c, o, intent) ==
  /\ pc[r] = "idle" /\ meta[w] = NoMeta
  /\ intent \notin {"refund", "order_status"} => o = NoOrder
  /\ pc' = [pc EXCEPT ![r] = "graph"]
  /\ call' = [call EXCEPT ![r] = [kind |-> "start", wf |-> w]]
  /\ meta' = [meta EXCEPT ![w] = [actor |-> c, order |-> o, intent |-> intent]]
  /\ expired' \in {expired, expired \cup {w}}
  /\ dirty' = dirty \cup {r}
  /\ UNCHANGED <<store, ckpt, view, attempts, told, aborts, consent>>

Resume(r, kind, w, c, sameId) ==
  /\ pc[r] = "idle" /\ Known(w)
  /\ pc' = [pc EXCEPT ![r] = "waiting"]
  /\ call' = [call EXCEPT ![r] = [kind |-> kind, wf |-> w, actor |-> c, sameId |-> sameId]]
  /\ UNCHANGED <<store, run, meta, expired, told, aborts>>

AskRefund(r, c, o) ==
  /\ pc[r] = "idle"
  /\ pc' = [pc EXCEPT ![r] = "reading"]
  /\ call' = [call EXCEPT ![r] = [kind |-> "refund", actor |-> c, order |-> o]]
  /\ UNCHANGED <<store, run, meta, expired, told, aborts>>

(* The clock passes expires_at.                                            *)
Expire(w) ==
  /\ meta[w] # NoMeta /\ w \notin expired
  /\ expired' = expired \cup {w}
  /\ UNCHANGED <<store, run, meta, pc, call, told, aborts>>

(* Answering with an error rolls the session back: there is nothing in it. *)
Refuse(r, error) ==
  /\ pc' = [pc EXCEPT ![r] = "done"]
  /\ told' = [told EXCEPT ![r] = error]

(* Mutated: resumes without the deadline check, and without the actor's.   *)
RefusalLate(r) ==
  LET w == Workflow(r) IN
  IF call[r].actor # meta[w].actor THEN "actor_mismatch"
  ELSE IF ~call[r].sameId THEN "request_mismatch"
  ELSE IF ckpt[w].status # "awaiting_confirmation" \/ ~ckpt[w].interrupted
  THEN "invalid_resume" ELSE "none"

RefusalAnyActor(r) ==
  LET w == Workflow(r) IN
  IF w \in expired THEN "workflow_expired"
  ELSE IF ~call[r].sameId THEN "request_mismatch"
  ELSE IF ckpt[w].status # "awaiting_confirmation" \/ ~ckpt[w].interrupted
  THEN "invalid_resume" ELSE "none"

(* _resume up to ainvoke: the checks read the checkpoint once, before the  *)
(* graph loads it again.                                                   *)
Refusal(r) ==
  LET w == Workflow(r) IN
  IF w \in expired THEN "workflow_expired"
  ELSE IF call[r].actor # meta[w].actor THEN "actor_mismatch"
  ELSE IF ~call[r].sameId THEN "request_mismatch"
  ELSE IF ckpt[w].status # "awaiting_confirmation" \/ ~ckpt[w].interrupted
  THEN "invalid_resume" ELSE "none"

Inspect(r) ==
  /\ pc[r] = "waiting" /\ LockFree(r)
  /\ IF Refusal(r) = "none"
     THEN pc' = [pc EXCEPT ![r] = "checked"] /\ UNCHANGED told
     ELSE Refuse(r, Refusal(r))
  /\ UNCHANGED <<store, run, meta, expired, call, aborts>>

(* ainvoke(Command(resume)) runs the pending node of whatever checkpoint   *)
(* is the latest by now.                                                   *)
Load(r) ==
  /\ pc[r] = "checked"
  /\ pc' = [pc EXCEPT ![r] = "graph"]
  /\ view' = [view EXCEPT ![r] = ckpt[Workflow(r)]]
  /\ UNCHANGED <<store, ckpt, dirty, attempts, consent, meta, expired, call, told, aborts>>

-----------------------------------------------------------------------------
(* Graph nodes: one superstep each                                         *)

(* The node's delta g is merged into the state, the edge picks the next    *)
(* node, and the superstep awaits its checkpoint.                          *)
Complete(r, g) ==
  /\ view' = [view EXCEPT ![r] = [g EXCEPT !.node = Successor(g, meta[Workflow(r)].intent)]]
  /\ dirty' = dirty \cup {r}

NodeFrame == UNCHANGED <<ckpt, meta, expired, call, told, aborts>>

(* A transient error of a dependency: raised once and retried by the       *)
(* RetryPolicy, turned into an escalation on the last attempt.             *)
Transient(r, n) ==
  /\ n \in Flaky /\ At(r, n)
  /\ attempts' = [attempts EXCEPT ![r][n] = @ + 1]
  /\ IF attempts'[r][n] < MaxNodeAttempts
     THEN UNCHANGED <<view, dirty>>
     ELSE Complete(r, EscalationDelta(view[r]))
  /\ UNCHANGED <<store, pc, consent>> /\ NodeFrame

(* An attempt that answers, with the node's delta.                         *)
Attempted(r, n, g) ==
  /\ At(r, n)
  /\ attempts' = [attempts EXCEPT ![r][n] = @ + 1]
  /\ Complete(r, g)
  /\ UNCHANGED <<store, pc, consent>> /\ NodeFrame

(* RuleRouter: the intent was fixed by the message.  Another router, or    *)
(* another response generator, may also declare the request unsafe.        *)
RouteNode(r) ==
  \/ Attempted(r, "route", [view[r] EXCEPT !.status = "routed"])
  \/ "route" \in Flaky /\ Attempted(r, "route", EscalationDelta(view[r]))

(* SupportService.get_order: the row must exist and belong to the actor.   *)
AccessError(o, c) ==
  IF status[o] = "absent" THEN "order_not_found"
  ELSE IF Owner[o] # c THEN "forbidden" ELSE "none"

RetrieveOrder(r) ==
  LET o == OrderOf(r) IN
  \/ /\ At(r, "retrieve_order") /\ o = NoOrder
     /\ Complete(r, EscalationDelta(view[r]))
     /\ UNCHANGED <<store, pc, consent, attempts>> /\ NodeFrame
  \/ /\ At(r, "retrieve_order") /\ o # NoOrder
     /\ Attempted(r, "retrieve_order",
          IF AccessError(o, ActorOf(r)) = "none"
          THEN [view[r] EXCEPT !.order = status[o], !.status = "evidence_ready"]
          ELSE EscalationDelta(view[r]))

(* The refund policy document may be missing.                              *)
RetrievePolicy(r) ==
  \E g \in {EscalationDelta(view[r]),
            [view[r] EXCEPT !.policy = TRUE, !.status = "evidence_ready"]} :
    Attempted(r, "retrieve_policy", g)

ProposeRefund(r) ==
  /\ At(r, "propose_refund")
  /\ Complete(r, IF view[r].order \in Refundable
                 THEN [view[r] EXCEPT !.decision = "pending",
                                      !.status = "awaiting_confirmation"]
                 ELSE EscalationDelta(view[r]))
  /\ UNCHANGED <<store, pc, consent, attempts>> /\ NodeFrame

(* Without a resume value the confirmation node interrupts the run.        *)
Interrupt(r) ==
  /\ At(r, "confirmation") /\ ~Resumes(r) /\ ~view[r].interrupted
  /\ view' = [view EXCEPT ![r].interrupted = TRUE]
  /\ dirty' = dirty \cup {r}
  /\ UNCHANGED <<store, pc, consent, attempts>> /\ NodeFrame

ConfirmationNode(r) ==
  /\ At(r, "confirmation") /\ Resumes(r)
  /\ Complete(r, [view[r] EXCEPT
       !.decision = call[r].kind, !.interrupted = FALSE,
       !.status = IF call[r].kind = "confirm" THEN "confirmed" ELSE "rejected"])
  /\ consent' = IF call[r].kind = "confirm" THEN consent \cup {Workflow(r)} ELSE consent
  /\ UNCHANGED <<store, pc, attempts>> /\ NodeFrame

RejectNode(r) ==
  /\ At(r, "reject")
  /\ Complete(r, [view[r] EXCEPT !.status = "rejected"])
  /\ UNCHANGED <<store, pc, consent, attempts>> /\ NodeFrame

Respond(r) ==
  \/ Attempted(r, "respond", [view[r] EXCEPT !.status = "completed"])
  \/ "respond" \in Flaky /\ Attempted(r, "respond", EscalationDelta(view[r]))

(* Opening the ticket: in the request's session, or at once in the shared  *)
(* in-memory repository.                                                   *)
Escalate(r) ==
  /\ At(r, "escalate")
  /\ IF SharedService THEN tickets' = tickets \cup {r} /\ UNCHANGED ticket
     ELSE ticket' = ticket \cup {r} /\ UNCHANGED tickets
  /\ Complete(r, [view[r] EXCEPT !.escalation = "completed", !.status = "escalated"])
  /\ UNCHANGED <<status, rowLock, refunders, pc, consent, attempts>> /\ NodeFrame

-----------------------------------------------------------------------------
(* Refunding: SupportService.request_refund                                *)

ReadError(r) ==
  LET error == AccessError(OrderOf(r), ActorOf(r)) IN
  IF error = "none" /\ status[OrderOf(r)] \notin Refundable
  THEN "invalid_transition" ELSE error

(* execute_refund, up to the conditional UPDATE.                           *)
ExecuteRead(r) ==
  /\ At(r, "execute_refund")
  /\ IF view[r].decision # "confirm"
     THEN Complete(r, [view[r] EXCEPT !.status = "rejected"]) /\ UNCHANGED pc
     ELSE IF ReadError(r) = "none"
     THEN pc' = [pc EXCEPT ![r] = "update"] /\ UNCHANGED <<view, dirty>>
     ELSE Complete(r, EscalationDelta(view[r])) /\ UNCHANGED pc
  /\ UNCHANGED <<store, consent, attempts>> /\ NodeFrame

(* POST /support/refunds, up to the conditional UPDATE.                    *)
DirectRead(r) ==
  /\ pc[r] = "reading"
  /\ IF ReadError(r) = "none"
     THEN pc' = [pc EXCEPT ![r] = "update"] /\ UNCHANGED told
     ELSE Refuse(r, ReadError(r))
  /\ UNCHANGED <<store, run, meta, expired, call, aborts>>

(* Mutated: the UPDATE trusts the status read before.                      *)
MatchesAnyStatus(r) == Owner[OrderOf(r)] = ActorOf(r)

(* UPDATE ... WHERE id AND customer AND status = 'delivered': it waits for *)
(* a conflicting uncommitted UPDATE and then re-evaluates its condition on *)
(* the committed row.                                                      *)
Matches(r) == status[OrderOf(r)] = "delivered" /\ Owner[OrderOf(r)] = ActorOf(r)

TakeEffect(r) ==
  /\ status' = [status EXCEPT ![OrderOf(r)] = "refunded"]
  /\ refunders' = [refunders EXCEPT ![OrderOf(r)] = @ \cup {r}]

UpdateRow(r) ==
  IF ~Matches(r) THEN UNCHANGED <<status, rowLock, refunders>>
  ELSE IF SharedService THEN TakeEffect(r) /\ UNCHANGED rowLock
  ELSE rowLock' = [rowLock EXCEPT ![OrderOf(r)] = r] /\ UNCHANGED <<status, refunders>>

ExecuteUpdate(r) ==
  /\ pc[r] = "update" /\ RunsGraph(r) /\ rowLock[OrderOf(r)] = Free
  /\ UpdateRow(r)
  /\ pc' = [pc EXCEPT ![r] = "graph"]
  /\ Complete(r, IF Matches(r)
                 THEN [view[r] EXCEPT !.order = "refunded", !.status = "completed"]
                 ELSE EscalationDelta(view[r]))
  /\ UNCHANGED <<tickets, ticket, consent, attempts>> /\ NodeFrame

DirectUpdate(r) ==
  /\ pc[r] = "update" /\ ~RunsGraph(r) /\ rowLock[OrderOf(r)] = Free
  /\ UpdateRow(r)
  /\ pc' = [pc EXCEPT ![r] = IF Matches(r) THEN "answered" ELSE "done"]
  /\ told' = [told EXCEPT ![r] = IF Matches(r) THEN "refunded" ELSE "invalid_transition"]
  /\ UNCHANGED <<tickets, ticket, run, meta, expired, call, aborts>>

-----------------------------------------------------------------------------
(* Checkpoints, answers and the end of the session                         *)

(* The checkpointer writes the newest superstep in the background.         *)
Persist(r) ==
  /\ r \in dirty /\ pc[r] \in {"graph", "update"}
  /\ ckpt' = [ckpt EXCEPT ![Workflow(r)] = view[r]]
  /\ dirty' = dirty \ {r}
  /\ UNCHANGED <<store, view, attempts, consent, meta, expired, pc, call, told, aborts>>

(* Mutated: answers while checkpoints are still being written.             *)
AnswerEarly(r) ==
  /\ pc[r] = "graph"
  /\ \/ view[r].node = "end"
     \/ view[r].interrupted /\ ~Resumes(r)
  /\ pc' = [pc EXCEPT ![r] = "answered"]
  /\ told' = [told EXCEPT ![r] = ckpt[Workflow(r)].status]
  /\ UNCHANGED <<store, run, meta, expired, call, aborts>>

(* The run is over or interrupted and all its checkpoints are written; the *)
(* answer is the latest checkpoint of the workflow.                        *)
Answer(r) ==
  /\ pc[r] = "graph" /\ r \notin dirty
  /\ \/ view[r].node = "end"
     \/ view[r].interrupted /\ ~Resumes(r)
  /\ pc' = [pc EXCEPT ![r] = "answered"]
  /\ told' = [told EXCEPT ![r] = ckpt[Workflow(r)].status]
  /\ UNCHANGED <<store, run, meta, expired, call, aborts>>

(* The session commits after the answer went out.                          *)
Holds(r, o) == rowLock[o] = r
(* Mutated: the connection returns to the pool with its transaction open.  *)
ReleaseNothing(r) == UNCHANGED rowLock

Release(r) == rowLock' = [o \in Orders |-> IF Holds(r, o) THEN Free ELSE rowLock[o]]

(* Mutated: a session that is closed without a commit.                     *)
CloseOnly(r) ==
  /\ pc[r] = "answered"
  /\ pc' = [pc EXCEPT ![r] = "done"]
  /\ Release(r)
  /\ ticket' = ticket \ {r}
  /\ UNCHANGED <<status, refunders, tickets, run, meta, expired, call, told, aborts>>

Commit(r) ==
  /\ pc[r] = "answered"
  /\ pc' = [pc EXCEPT ![r] = "done"]
  /\ Release(r)
  /\ status' = [o \in Orders |-> IF Holds(r, o) THEN "refunded" ELSE status[o]]
  /\ refunders' = [o \in Orders |-> IF Holds(r, o) THEN refunders[o] \cup {r} ELSE refunders[o]]
  /\ tickets' = tickets \cup (ticket \cap {r})
  /\ ticket' = ticket \ {r}
  /\ UNCHANGED <<run, meta, expired, call, told, aborts>>

(* A crash, a lost connection or an error no node handles, at any point:   *)
(* the session rolls back, the checkpoints already written stay.           *)
Abort(r) ==
  /\ pc[r] \in Serving /\ aborts < MaxAborts
  /\ aborts' = aborts + 1
  /\ pc' = [pc EXCEPT ![r] = "dead"]
  /\ Release(r)
  /\ ticket' = ticket \ {r} /\ dirty' = dirty \ {r}
  /\ UNCHANGED <<status, refunders, tickets, ckpt, view, attempts, consent, meta, expired,
                 call, told>>

-----------------------------------------------------------------------------
(* Everything the server does for one request once it arrived, except die. *)
GraphStep(r) ==
  \/ RouteNode(r) \/ RetrieveOrder(r) \/ RetrievePolicy(r) \/ ProposeRefund(r)
  \/ Interrupt(r) \/ ConfirmationNode(r) \/ RejectNode(r) \/ Respond(r) \/ Escalate(r)
  \/ ExecuteRead(r) \/ ExecuteUpdate(r)
  \/ \E n \in RetryNodes : Transient(r, n)

Serve(r) ==
  \/ Inspect(r) \/ Load(r) \/ GraphStep(r) \/ DirectRead(r) \/ DirectUpdate(r)
  \/ Persist(r) \/ Answer(r) \/ Commit(r)

Arrive(r) ==
  \/ \E w \in Workflows, c \in Customers, o \in Orders \cup {NoOrder}, i \in Intents :
       Start(r, w, c, o, i)
  \/ \E kind \in {"confirm", "reject"}, w \in Workflows, c \in Customers, sameId \in BOOLEAN :
       Resume(r, kind, w, c, sameId)
  \/ \E c \in Customers, o \in Orders : AskRefund(r, c, o)

Next ==
  \/ \E r \in Requests : Arrive(r) \/ Serve(r) \/ Abort(r)
  \/ \E w \in Workflows : Expire(w)

Spec == Init /\ [][Next]_vars

(* Requests need not arrive and deadlines need not pass, but the event     *)
(* loop and the database keep serving a request that did arrive.           *)
FairSpec == Spec /\ \A r \in Requests : WF_vars(Serve(r))
-----------------------------------------------------------------------------
(* Properties                                                              *)

(* No request of the workflow is being served.                             *)
Quiet(w) == \A r \in Requests : RunsGraph(r) /\ Workflow(r) = w => pc[r] \notin Serving

(* The requests of a workflow that refunded an order, or opened a ticket.  *)
RefundsBy(w) == {r \in UNION {refunders[o] : o \in Orders} : RunsGraph(r) /\ Workflow(r) = w}
TicketsBy(w) == {r \in tickets : Workflow(r) = w}

(* Types of the committed data, the checkpoints and the requests' state.   *)
TypeOK ==
  /\ status \in [Orders -> OrderStatus]
  /\ rowLock \in [Orders -> Requests \cup {Free}]
  /\ tickets \subseteq Requests /\ ticket \subseteq Requests
  /\ ckpt \in [Workflows -> GraphState]
  /\ meta \in [Workflows -> Metas \cup {NoMeta}]
  /\ expired \subseteq Workflows
  /\ pc \in [Requests -> Serving \cup {"idle", "done", "dead"}]
  /\ call \in [Requests -> Calls]
  /\ view \in [Requests -> GraphState]
  /\ dirty \subseteq Requests
  /\ attempts \in [Requests -> [RetryNodes -> 0 .. MaxNodeAttempts]]
  /\ told \in [Requests -> GraphStatus \cup Refusals \cup {"none", "refunded"}]
  /\ aborts \in 0 .. MaxAborts
  /\ refunders \in [Orders -> SUBSET Requests]
  /\ consent \subseteq Workflows

(* An order is refunded by at most one request, and only an order that was *)
(* delivered: request_refund's check and its conditional UPDATE withstand  *)
(* every interleaving of confirmations, direct refunds and rollbacks.      *)
RefundOnce ==
  \A o \in Orders :
    /\ \A r, s \in refunders[o] : r = s
    /\ refunders[o] # {} => InitialStatus[o] = "delivered" /\ status[o] = "refunded"
    /\ refunders[o] = {} => status[o] = InitialStatus[o]

(* A confirm call by the actor and with the request id of the workflow.    *)
Authorises(r, w) == /\ call[r].kind = "confirm" /\ call[r].wf = w
                    /\ call[r].actor = meta[w].actor /\ call[r].sameId

(* Whoever executed it, a refund is of the requested order, for its owner, *)
(* and a workflow refunds only after its own actor confirmed (_resume and  *)
(* the confirmation node), even when another request ran execute_refund.   *)
RefundIsAuthorised ==
  \A o \in Orders : \A r \in refunders[o] :
    /\ OrderOf(r) = o /\ ActorOf(r) = Owner[o]
    /\ RunsGraph(r) => \E s \in Requests : Authorises(s, Workflow(r))

(* A workflow waits for confirmation only with a refundable order of its   *)
(* actor and the policy as evidence: no node sequence, with whatever       *)
(* failures and retries, proposes a refund without them.                   *)
ProposalIsGrounded ==
  \A w \in Workflows :
    ckpt[w].status = "awaiting_confirmation" =>
      /\ meta[w].intent = "refund" /\ meta[w].order \in Orders
      /\ Owner[meta[w].order] = meta[w].actor
      /\ InitialStatus[meta[w].order] = "delivered" /\ ckpt[w].policy

-----------------------------------------------------------------------------
(* The inductive invariant behind the three properties above               *)

Authorised(w) == \E s \in Requests : Authorises(s, w)

(* A served request has its call, and its workflow has been started.       *)
CallInv ==
  \A r \in Requests :
    /\ pc[r] = "idle" <=> call[r].kind = "idle"
    /\ RunsGraph(r) => meta[Workflow(r)] # NoMeta
    /\ pc[r] \in {"waiting", "checked"} => Resumes(r)
    /\ pc[r] = "reading" => call[r].kind = "refund"
    /\ pc[r] = "graph" => RunsGraph(r)
    /\ r \in dirty => RunsGraph(r)
    /\ \A w \in Workflows : meta[w] = NoMeta => ckpt[w] = FreshState

(* Graph nodes run in one order, so each counts its own attempts only.     *)
Rank(n) == CASE n = "route" -> 0 [] n = "retrieve_order" -> 1
             [] n = "retrieve_policy" -> 2 [] OTHER -> 3
AttemptInv ==
  \A r \in Requests, n \in RetryNodes :
    /\ attempts[r][n] > 0 => pc[r] \notin {"idle", "waiting", "checked", "reading"}
    /\ attempts[r][n] > 0 => Rank(n) <= Rank(view[r].node)
    /\ view[r].node = n => attempts[r][n] < MaxNodeAttempts

(* What a state of workflow w vouches for: evidence, proposal, decision.   *)
Grounded(g, w) ==
  /\ g.order # "none" => meta[w].order \in Orders /\ Owner[meta[w].order] = meta[w].actor
  /\ g.order = "delivered" => InitialStatus[meta[w].order] = "delivered"
  /\ g.node = "propose_refund" => meta[w].intent = "refund" /\ g.policy
  /\ g.node = "confirmation" => g.decision # "none"
  /\ g.decision # "none" => meta[w].intent = "refund" /\ g.policy /\ g.order # "none"
  /\ g.decision # "none" => InitialStatus[meta[w].order] = "delivered"
  /\ g.status = "awaiting_confirmation" => g.decision # "none"
  /\ g.decision = "confirm" => Authorised(w)

RunInv ==
  /\ \A w \in Workflows : Grounded(ckpt[w], w)
  /\ \A r \in Requests : RunsGraph(r) => Grounded(view[r], Workflow(r))
  /\ \A r \in Requests : ~RunsGraph(r) => view[r] = FreshState
  /\ \A r \in Requests :
       /\ pc[r] \in Running /\ call[r].kind = "confirm" => Authorises(r, Workflow(r))
       /\ pc[r] = "update" => /\ OrderOf(r) \in Orders /\ ActorOf(r) = Owner[OrderOf(r)]
                              /\ RunsGraph(r) => view[r].decision = "confirm"

(* A request refunds, or is about to refund, only what it may.             *)
MayRefund(r, o) ==
  /\ call[r].kind # "idle" /\ OrderOf(r) = o /\ ActorOf(r) = Owner[o]
  /\ RunsGraph(r) => Authorised(Workflow(r))

LockInv ==
  \A o \in Orders :
    /\ \A r \in refunders[o] : MayRefund(r, o)
    /\ rowLock[o] # Free => /\ MayRefund(rowLock[o], o)
                            /\ status[o] = "delivered" /\ refunders[o] = {}

IInv == TypeOK /\ CallInv /\ AttemptInv /\ RunInv /\ LockInv /\ RefundOnce

(* Once nobody works on it, a refund workflow whose checkpoint says        *)
(* "completed" has its order refunded: "the order is now marked as         *)
(* refunded" (make_execute_node).  Holds as long as no request dies.       *)
CompletedIsRefunded ==
  \A w \in Workflows :
    Quiet(w) /\ meta[w].intent = "refund" /\ ckpt[w].status = "completed"
      => status[meta[w].order] = "refunded"

(* What a quiet workflow reports is in the database: the refund, or the    *)
(* ticket behind "I have handed this request to a human support agent".    *)
ReportIsStored ==
  /\ CompletedIsRefunded
  /\ \A w \in Workflows : Quiet(w) /\ ckpt[w].status = "escalated" => TicketsBy(w) # {}

(* "No refund was made because the proposed action was rejected"           *)
(* (make_rejection_node): a rejected workflow refunded nothing, as long as *)
(* no request dies.                                                        *)
RejectionHolds == aborts = 0 =>
  \A w \in Workflows : Quiet(w) /\ ckpt[w].status = "rejected" => RefundsBy(w) = {}

(* A finished workflow keeps its outcome: no later resume moves it.        *)
OutcomeIsFinal ==
  [][\A w \in Workflows : ckpt[w].node = "end" => ckpt'[w] = ckpt[w]]_vars

(* Nobody runs the graph of an expired workflow.                           *)
Frozen(w) == w \in expired /\ \A r \in Requests : RunsGraph(r) /\ Workflow(r) = w => pc[r] \notin Running

(* A frozen workflow stays frozen: once the deadline has passed while no   *)
(* accepted request was under way, _check_not_expired turns every decision *)
(* away, so that neither its checkpoint nor its consent changes any more.  *)
ExpiredIsFrozen ==
  [][\A w \in Workflows : Frozen(w) =>
       Frozen(w)' /\ ckpt'[w] = ckpt[w] /\ (w \in consent' => w \in consent)]_vars

(* Every request that arrived is eventually answered and its session       *)
(* closed: retries are bounded, row locks and the workflow lock are freed. *)
RequestEnds == \A r \in Requests : pc[r] = "waiting" \/ pc[r] = "graph" \/ pc[r] = "reading"
                                    ~> pc[r] \in {"done", "dead"}

(* A confirmed workflow reaches an end.  Holds as long as no request dies. *)
ConsentResolves == \A w \in Workflows : w \in consent ~> ckpt[w].node = "end"
=============================================================================
