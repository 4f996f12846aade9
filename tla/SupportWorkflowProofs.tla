----------------------- MODULE SupportWorkflowProofs -----------------------
(* Proofs that SupportWorkflow keeps its inductive invariant IInv, and,    *)
(* from it, the outcome invariants behind what a workflow reports.         *)
EXTENDS SupportWorkflow, TLAPS

LEMMA SuccessorNode ==
  ASSUME NEW g \in GraphState, NEW i
  PROVE  Successor(g, i) \in Nodes
BY DEF Successor, AfterRoute, AfterEvidence, AfterProposal, AfterConfirmation,
       AfterExecution, AfterResponse, Nodes, RetryNodes, GraphState

LEMMA MoveTo ==
  ASSUME NEW g \in GraphState, NEW n \in Nodes
  PROVE  [g EXCEPT !.node = n] \in GraphState
BY DEF GraphState

LEMMA CompleteType ==
  ASSUME TypeOK, NEW r \in Requests, NEW g \in GraphState, Complete(r, g)
  PROVE  /\ view' \in [Requests -> GraphState]
         /\ dirty' \subseteq Requests
BY SuccessorNode, MoveTo DEF Complete, TypeOK

LEMMA EscalationType ==
  ASSUME NEW g \in GraphState
  PROVE  EscalationDelta(g) \in GraphState
BY DEF EscalationDelta, GraphState, GraphStatus

LEMMA InitInv == Init => IInv
<1> SUFFICES ASSUME Init PROVE IInv
  OBVIOUS
<1> USE WorkflowAssumption DEF Init
<1>1. FreshState \in GraphState
  BY DEF FreshState, GraphState, Nodes, GraphStatus, RetryNodes
<1>2. TypeOK
  BY <1>1 DEF TypeOK, Calls, Metas, Serving, MaxNodeAttempts
<1>3. CallInv
  BY DEF CallInv, RunsGraph, Resumes
<1>4. AttemptInv
  BY DEF AttemptInv, MaxNodeAttempts
<1>5. RunInv
  BY DEF RunInv, Grounded, FreshState, RunsGraph, Resumes
<1>6. LockInv /\ RefundOnce
  BY DEF LockInv, RefundOnce
<1>7. QED
  BY <1>2, <1>3, <1>4, <1>5, <1>6 DEF IInv



-----------------------------------------------------------------------------
(* What a step keeps when it only adds calls and starts workflows          *)

Extends == /\ \A s \in Requests : call[s].kind # "idle" => call'[s] = call[s]
           /\ \A w \in Workflows : meta[w] # NoMeta => meta'[w] = meta[w]

LEMMA CallTypes ==
  ASSUME TypeOK, NEW r \in Requests
  PROVE  /\ RunsGraph(r) => Workflow(r) \in Workflows
         /\ ~RunsGraph(r) /\ call[r].kind # "idle" =>
              /\ call[r].kind = "refund"
              /\ call[r].order \in Orders /\ call[r].actor \in Customers
         /\ Resumes(r) => call[r].actor \in Customers /\ call[r].sameId \in BOOLEAN
         /\ RunsGraph(r) => call[r].kind # "idle"
<1>1. call[r] \in Calls
  BY DEF TypeOK
<1>2. QED
  BY <1>1 DEF Calls, RunsGraph, Resumes, Workflow

LEMMA AuthorisedStable ==
  ASSUME TypeOK, CallInv, Extends, NEW w \in Workflows, meta[w] # NoMeta, Authorised(w)
  PROVE  Authorised(w)'
BY DEF Authorised, Authorises, Extends

LEMMA CallStable ==
  ASSUME TypeOK, CallInv, Extends, NEW s \in Requests, call[s].kind # "idle"
  PROVE  /\ RunsGraph(s)' <=> RunsGraph(s)
         /\ Workflow(s)' = Workflow(s)
         /\ OrderOf(s)' = OrderOf(s) /\ ActorOf(s)' = ActorOf(s)
BY CallTypes DEF Extends, RunsGraph, Resumes, Workflow, OrderOf, ActorOf, CallInv

LEMMA MayRefundStable ==
  ASSUME TypeOK, CallInv, Extends, NEW s \in Requests, NEW o \in Orders, MayRefund(s, o)
  PROVE  MayRefund(s, o)'
<1>1. call[s].kind # "idle" /\ call'[s] = call[s]
  BY DEF MayRefund, Extends
<1>2. ASSUME RunsGraph(s)
      PROVE  Authorised(Workflow(s))'
  <2>1. PICK w \in Workflows : w = Workflow(s)
    BY <1>2, CallTypes
  <2>2. meta[w] # NoMeta /\ Authorised(w)
    BY <2>1, <1>2 DEF CallInv, MayRefund
  <2>3. Authorised(w)'
    BY <2>2, AuthorisedStable
  <2>4. Workflow(s)' = w
    BY <2>1, <1>1, CallStable
  <2>5. QED
    BY <2>3, <2>4
<1>3. QED
  BY <1>1, <1>2, CallStable DEF MayRefund

LEMMA GroundedStable ==
  ASSUME TypeOK, CallInv, Extends, NEW w \in Workflows, NEW g, Grounded(g, w),
         meta[w] # NoMeta \/ g = FreshState
  PROVE  Grounded(g, w)'
<1>1. CASE g = FreshState
  BY <1>1 DEF Grounded, FreshState
<1>2. CASE meta[w] # NoMeta
  BY <1>2, AuthorisedStable DEF Grounded, Extends
<1>3. QED
  BY <1>1, <1>2


LEMMA ViewStable ==
  ASSUME TypeOK, CallInv, RunInv, Extends, NEW s \in Requests, call[s].kind # "idle",
         view'[s] = view[s]
  PROVE  RunsGraph(s)' => Grounded(view[s], Workflow(s))'
<1>1. SUFFICES ASSUME RunsGraph(s)
               PROVE  Grounded(view[s], Workflow(s))'
  BY CallStable
<1>2. PICK w \in Workflows : w = Workflow(s)
  BY <1>1, CallTypes
<1>3. PICK g : g = view[s]
  OBVIOUS
<1>4. Grounded(g, w)'
  BY <1>1, <1>2, <1>3, GroundedStable DEF RunInv, CallInv
<1>5. view[s]' = g /\ Workflow(s)' = w
  BY <1>2, <1>3, CallStable
<1>6. QED
  BY <1>4, <1>5

(* An arrival: one idle request gets its call, its run has not begun.      *)
LEMMA ArrivalRunInv ==
  ASSUME TypeOK, CallInv, RunInv, Extends, NEW r \in Requests, call[r].kind = "idle",
         \A s \in Requests \ {r} : call'[s] = call[s] /\ pc'[s] = pc[s],
         pc'[r] \in Running => call'[r].kind = "start" /\ pc'[r] = "graph",
         view' = view, ckpt' = ckpt
  PROVE  RunInv'
<1>1. \A v \in Workflows : Grounded(ckpt[v], v)'
  BY GroundedStable DEF RunInv, CallInv
<1>2. view[r] = FreshState
  BY DEF RunInv, RunsGraph, Resumes
<1>3. ASSUME NEW s \in Requests, RunsGraph(s)'
      PROVE  Grounded(view[s], Workflow(s))'
  <2>1. CASE s = r
    BY <1>2, <2>1 DEF Grounded, FreshState
  <2>2. CASE call[s].kind = "idle" /\ s # r
    BY <2>2, <1>3 DEF RunsGraph, Resumes
  <2>3. CASE call[s].kind # "idle"
    BY <2>3, <1>3, ViewStable
  <2>4. QED
    BY <2>1, <2>2, <2>3
<1>4. ASSUME NEW s \in Requests, ~RunsGraph(s)'
      PROVE  view'[s] = FreshState
  BY <1>2, <1>4 DEF RunInv, RunsGraph, Resumes
<1>5. ASSUME NEW s \in Requests
      PROVE  /\ pc'[s] \in Running /\ call'[s].kind = "confirm" => Authorises(s, Workflow(s))'
             /\ pc'[s] = "update" => /\ OrderOf(s)' \in Orders /\ ActorOf(s)' = Owner[OrderOf(s)']
                                     /\ RunsGraph(s)' => view'[s].decision = "confirm"
  <2>1. CASE s = r
    BY <2>1 DEF Running
  <2>2. CASE s # r /\ call[s].kind = "idle"
    BY <2>2 DEF CallInv, Running
  <2>3. CASE s # r /\ call[s].kind # "idle"
    <3>1. pc[s] = "update" => /\ OrderOf(s)' \in Orders /\ ActorOf(s)' = Owner[OrderOf(s)']
                              /\ RunsGraph(s)' => view'[s].decision = "confirm"
      BY <2>3, CallStable DEF RunInv
    <3>2. ASSUME pc[s] \in Running, call[s].kind = "confirm"
          PROVE  Authorises(s, Workflow(s))'
      BY <2>3, <3>2, CallTypes, CallStable
         DEF RunInv, Authorises, Extends, CallInv, RunsGraph, Resumes
    <3>3. QED
      BY <2>3, <3>1, <3>2
  <2>4. QED
    BY <2>1, <2>2, <2>3
<1>6. QED
  BY <1>1, <1>3, <1>4, <1>5 DEF RunInv

LEMMA StartInv ==
  ASSUME IInv, NEW r \in Requests, NEW w \in Workflows, NEW c \in Customers,
         NEW o \in Orders \cup {NoOrder}, NEW i \in Intents, Start(r, w, c, o, i)
  PROVE  IInv'
<1> USE WorkflowAssumption DEF IInv, store
<1>0. TypeOK /\ CallInv /\ Extends /\ call[r].kind = "idle" /\ meta[w] = NoMeta
  BY DEF Start, Extends, TypeOK, CallInv
<1>1. TypeOK'
  BY DEF TypeOK, Start, Calls, Metas, Serving
<1>2. call' = [call EXCEPT ![r] = [kind |-> "start", wf |-> w]] /\ meta'[w] # NoMeta
  BY DEF Start, TypeOK, NoMeta, AllIntents
<1>3. CallInv'
  <2>1. ASSUME NEW s \in Requests, s # r
        PROVE  RunsGraph(s)' => meta'[Workflow(s)'] # NoMeta
    BY <1>0, <1>2, <2>1, CallTypes DEF CallInv, RunsGraph, Resumes, Workflow, Extends, TypeOK
  <2>2. QED
    BY <1>2, <2>1 DEF CallInv, Start, RunsGraph, Resumes, Workflow, TypeOK
<1>4. AttemptInv'
  BY DEF AttemptInv, Start, TypeOK
<1>5. RunInv'
  BY <1>0, <1>2, ArrivalRunInv DEF Start, TypeOK
<1>6. LockInv' /\ RefundOnce'
  BY <1>0, MayRefundStable DEF LockInv, RefundOnce, TypeOK, Start
<1>7. QED
  BY <1>1, <1>3, <1>4, <1>5, <1>6

LEMMA ResumeInv ==
  ASSUME IInv, NEW r \in Requests, NEW kind \in {"confirm", "reject"}, NEW w \in Workflows,
         NEW c \in Customers, NEW b \in BOOLEAN, Resume(r, kind, w, c, b)
  PROVE  IInv'
<1> USE WorkflowAssumption DEF IInv, store, run
<1>0. TypeOK /\ CallInv /\ Extends /\ call[r].kind = "idle" /\ meta[w] # NoMeta
  BY DEF Resume, Extends, TypeOK, CallInv, Known, RunsGraph, Workflow
<1>1. TypeOK'
  BY DEF TypeOK, Resume, Calls, Serving
<1>2. /\ call' = [call EXCEPT ![r] = [kind |-> kind, wf |-> w, actor |-> c, sameId |-> b]]
      /\ call'[r].kind = kind
  BY DEF Resume, TypeOK
<1>3. CallInv'
  <2>1. ASSUME NEW s \in Requests, s # r
        PROVE  RunsGraph(s)' => meta'[Workflow(s)'] # NoMeta
    BY <1>0, <1>2, <2>1, CallTypes DEF CallInv, RunsGraph, Resumes, Workflow, Resume, TypeOK
  <2>2. QED
    BY <1>0, <1>2, <2>1 DEF CallInv, Resume, RunsGraph, Resumes, Workflow, TypeOK
<1>4. AttemptInv'
  BY DEF AttemptInv, Resume, TypeOK
<1>5. RunInv'
  <2>1. /\ \A s \in Requests \ {r} : call'[s] = call[s] /\ pc'[s] = pc[s]
        /\ pc'[r] \notin Running
        /\ view' = view /\ ckpt' = ckpt
    BY <1>2 DEF Resume, TypeOK, Running
  <2>2. TypeOK /\ CallInv /\ RunInv /\ Extends /\ call[r].kind = "idle"
    BY <1>0
  <2>3. QED
    BY <2>1, <2>2, ArrivalRunInv
<1>6. LockInv' /\ RefundOnce'
  BY <1>0, MayRefundStable DEF LockInv, RefundOnce, TypeOK, Resume
<1>7. QED
  BY <1>1, <1>3, <1>4, <1>5, <1>6

LEMMA AskRefundInv ==
  ASSUME IInv, NEW r \in Requests, NEW c \in Customers, NEW o \in Orders, AskRefund(r, c, o)
  PROVE  IInv'
<1> USE WorkflowAssumption DEF IInv, store, run
<1>0. TypeOK /\ CallInv /\ Extends /\ call[r].kind = "idle"
  BY DEF AskRefund, Extends, TypeOK, CallInv
<1>1. TypeOK'
  BY DEF TypeOK, AskRefund, Calls, Serving
<1>2. /\ call' = [call EXCEPT ![r] = [kind |-> "refund", actor |-> c, order |-> o]]
      /\ call'[r].kind = "refund"
  BY DEF AskRefund, TypeOK
<1>3. CallInv'
  <2>1. ASSUME NEW s \in Requests, s # r
        PROVE  RunsGraph(s)' => meta'[Workflow(s)'] # NoMeta
    BY <1>0, <1>2, <2>1, CallTypes DEF CallInv, RunsGraph, Resumes, Workflow, AskRefund, TypeOK
  <2>2. QED
    BY <1>0, <1>2, <2>1 DEF CallInv, AskRefund, RunsGraph, Resumes, Workflow, TypeOK
<1>4. AttemptInv'
  BY DEF AttemptInv, AskRefund, TypeOK
<1>5. RunInv'
  <2>1. /\ \A s \in Requests \ {r} : call'[s] = call[s] /\ pc'[s] = pc[s]
        /\ pc'[r] \notin Running
        /\ view' = view /\ ckpt' = ckpt
    BY <1>2 DEF AskRefund, TypeOK, Running
  <2>2. TypeOK /\ CallInv /\ RunInv /\ Extends /\ call[r].kind = "idle"
    BY <1>0
  <2>3. QED
    BY <2>1, <2>2, ArrivalRunInv
<1>6. LockInv' /\ RefundOnce'
  BY <1>0, MayRefundStable DEF LockInv, RefundOnce, TypeOK, AskRefund
<1>7. QED
  BY <1>1, <1>3, <1>4, <1>5, <1>6

-----------------------------------------------------------------------------
(* Steps of a request that already arrived leave calls and workflows alone *)

(* No request learns or forgets what it was asked.                         *)
SameCalls == call' = call /\ meta' = meta

LEMMA CallInvKept ==
  ASSUME CallInv, SameCalls, NEW r \in Requests,
         pc[r] # "idle", pc'[r] \notin {"idle", "waiting", "reading"},
         pc'[r] = "checked" => Resumes(r), pc'[r] = "graph" => RunsGraph(r),
         \A s \in Requests \ {r} : pc'[s] = pc[s],
         dirty' \subseteq dirty \cup {r}, r \in dirty' => RunsGraph(r),
         \A w \in Workflows : meta[w] = NoMeta => ckpt'[w] = ckpt[w]
  PROVE  CallInv'
BY DEF CallInv, SameCalls, RunsGraph, Resumes, Workflow

LEMMA GroundedSuccessor ==
  ASSUME NEW g \in GraphState, NEW w \in Workflows, Grounded(g, w),
         g.node = "propose_refund" => (g.decision # "none" \/ g.escalation # "none")
  PROVE  Grounded([g EXCEPT !.node = Successor(g, meta[w].intent)], w)
<1>1. PICK n : n = Successor(g, meta[w].intent)
  OBVIOUS
<1>2. n = "propose_refund" => meta[w].intent = "refund" /\ g.policy
  BY <1>1 DEF Successor, AfterRoute, AfterEvidence, AfterProposal, AfterConfirmation,
              AfterExecution, AfterResponse
<1>3. n = "confirmation" => g.node = "propose_refund" /\ g.escalation = "none"
  BY <1>1 DEF Successor, AfterRoute, AfterEvidence, AfterProposal, AfterConfirmation,
              AfterExecution, AfterResponse
<1>4. Grounded([g EXCEPT !.node = n], w)
  BY <1>2, <1>3 DEF Grounded, GraphState
<1>5. QED
  BY <1>1, <1>4

LEMMA RunInvKept ==
  ASSUME TypeOK, CallInv, RunInv, SameCalls, NEW r \in Requests, RunsGraph(r),
         NEW g, view' = [view EXCEPT ![r] = g], Grounded(g, Workflow(r)),
         \A s \in Requests \ {r} : pc'[s] = pc[s], pc[r] \in Running,
         pc'[r] = "update" => /\ OrderOf(r) \in Orders /\ ActorOf(r) = Owner[OrderOf(r)]
                              /\ g.decision = "confirm",
         ckpt' = ckpt
  PROVE  RunInv'
<1>1. \A w \in Workflows : Grounded(ckpt[w], w)'
  BY DEF RunInv, SameCalls, Grounded, Authorised, Authorises
<1>2. ASSUME NEW s \in Requests
      PROVE  /\ RunsGraph(s)' => Grounded(view[s], Workflow(s))'
             /\ ~RunsGraph(s)' => view'[s] = FreshState
  <2>1. CASE s = r
    BY <2>1 DEF TypeOK, SameCalls, Grounded, Authorised, Authorises, RunsGraph, Resumes, Workflow
  <2>2. CASE s # r
    <3>1. view'[s] = view[s] /\ call'[s] = call[s]
      BY <2>2 DEF TypeOK, SameCalls
    <3>2. RunsGraph(s) => Grounded(view[s], Workflow(s))
      BY DEF RunInv
    <3>3. Grounded(view[s], Workflow(s)) => Grounded(view[s], Workflow(s))'
      BY <3>1 DEF SameCalls, Grounded, Authorised, Authorises, Workflow
    <3>4. (RunsGraph(s)' <=> RunsGraph(s)) /\ (~RunsGraph(s) => view[s] = FreshState)
      BY <3>1 DEF RunInv, RunsGraph, Resumes
    <3>5. QED
      BY <3>1, <3>2, <3>3, <3>4
  <2>3. QED
    BY <2>1, <2>2
<1>3. ASSUME NEW s \in Requests
      PROVE  /\ pc'[s] \in Running /\ call'[s].kind = "confirm" => Authorises(s, Workflow(s))'
             /\ pc'[s] = "update" => /\ OrderOf(s)' \in Orders /\ ActorOf(s)' = Owner[OrderOf(s)']
                                     /\ RunsGraph(s)' => view'[s].decision = "confirm"
  <2>1. CASE s = r
    BY <2>1 DEF RunInv, TypeOK, SameCalls, Authorises, RunsGraph, Resumes, Workflow, OrderOf,
                ActorOf
  <2>2. CASE s # r
    BY <2>2 DEF RunInv, TypeOK, SameCalls, Authorises, RunsGraph, Resumes, Workflow, OrderOf,
                ActorOf
  <2>3. QED
    BY <2>1, <2>2
<1>4. QED
  BY <1>1, <1>2, <1>3 DEF RunInv

(* A step that leaves every run where it is; it may write checkpoints.     *)
LEMMA RunInvSame ==
  ASSUME RunInv, SameCalls, view' = view, pc' = pc,
         \A w \in Workflows : Grounded(ckpt[w], w)'
  PROVE  RunInv'
<1>1. ASSUME NEW s \in Requests
      PROVE  /\ (RunsGraph(s)' <=> RunsGraph(s)) /\ Workflow(s)' = Workflow(s)
             /\ OrderOf(s)' = OrderOf(s) /\ ActorOf(s)' = ActorOf(s)
             /\ call'[s] = call[s] /\ view'[s] = view[s] /\ pc'[s] = pc[s]
  BY DEF SameCalls, RunsGraph, Resumes, Workflow, OrderOf, ActorOf
<1>2. ASSUME NEW s \in Requests
      PROVE  Authorises(s, Workflow(s)) => Authorises(s, Workflow(s))'
  BY <1>1 DEF SameCalls, Authorises
<1>3. ASSUME NEW s \in Requests, RunsGraph(s)
      PROVE  Grounded(view[s], Workflow(s))'
  <2>1. Grounded(view[s], Workflow(s))
    BY <1>3 DEF RunInv
  <2>2. Authorised(Workflow(s)) => Authorised(Workflow(s))'
    BY <1>1 DEF SameCalls, Authorised, Authorises
  <2>3. meta'[Workflow(s)'] = meta[Workflow(s)] /\ view'[s] = view[s]
    BY <1>1 DEF SameCalls
  <2>4. QED
    BY <2>1, <2>2, <2>3 DEF Grounded
<1>4. ASSUME NEW s \in Requests
      PROVE  /\ ~RunsGraph(s)' => view'[s] = FreshState
             /\ pc'[s] \in Running /\ call'[s].kind = "confirm" => Authorises(s, Workflow(s))'
             /\ pc'[s] = "update" => /\ OrderOf(s)' \in Orders /\ ActorOf(s)' = Owner[OrderOf(s)']
                                     /\ RunsGraph(s)' => view'[s].decision = "confirm"
  BY <1>1, <1>2 DEF RunInv
<1>5. QED
  BY <1>1, <1>3, <1>4 DEF RunInv

LEMMA CheckpointsKept ==
  ASSUME RunInv, SameCalls, ckpt' = ckpt, NEW w \in Workflows
  PROVE  Grounded(ckpt[w], w)'
<1>1. Grounded(ckpt[w], w) /\ meta'[w] = meta[w] /\ ckpt'[w] = ckpt[w]
  BY DEF RunInv, SameCalls
<1>2. Authorised(w) => Authorised(w)'
  BY DEF SameCalls, Authorised, Authorises
<1>3. QED
  BY <1>1, <1>2 DEF Grounded

(* The successor of a node is another node, and no retrying node is        *)
(* entered twice.                                                          *)
LEMMA SuccessorRank ==
  ASSUME NEW g \in GraphState, NEW i,
         g.node = "retrieve_policy" => (g.policy \/ g.escalation # "none")
  PROVE  /\ Rank(g.node) <= Rank(Successor(g, i))
         /\ Successor(g, i) \in RetryNodes => Rank(g.node) < Rank(Successor(g, i))
BY DEF Successor, AfterRoute, AfterEvidence, AfterProposal, AfterConfirmation, AfterExecution,
       AfterResponse, Rank, RetryNodes, Nodes, GraphState

LEMMA AttemptsKept ==
  ASSUME TypeOK, AttemptInv, NEW r \in Requests, NEW g \in GraphState, Complete(r, g),
         g.node = view[r].node,
         g.node = "retrieve_policy" => (g.policy \/ g.escalation # "none"),
         \A s \in Requests \ {r} : pc'[s] = pc[s], pc'[r] \in {"graph", "update"},
         attempts' = attempts \/ (/\ g.node \in RetryNodes
                                  /\ attempts' = [attempts EXCEPT ![r][g.node] = @ + 1])
  PROVE  AttemptInv' /\ attempts' \in [Requests -> [RetryNodes -> 0 .. MaxNodeAttempts]]
<1>1. PICK n \in Nodes : n = Successor(g, meta[Workflow(r)].intent)
  BY SuccessorNode
<1>2. view'[r].node = n
  BY <1>1 DEF Complete, TypeOK, GraphState
<1>3. Rank(g.node) <= Rank(n) /\ (n \in RetryNodes => Rank(g.node) < Rank(n))
  BY <1>1, SuccessorRank
<1>4. \A s \in Requests \ {r} : view'[s] = view[s] /\ attempts'[s] = attempts[s]
  BY DEF Complete, TypeOK
<1>5. \A m \in RetryNodes : attempts[r][m] \in 0 .. MaxNodeAttempts
  BY DEF TypeOK
<1>6. \A m \in RetryNodes :
        /\ attempts'[r][m] = attempts[r][m] \/ (m = g.node /\ attempts'[r][m] = attempts[r][m] + 1)
  BY DEF TypeOK
<1>7. attempts' \in [Requests -> [RetryNodes -> 0 .. MaxNodeAttempts]]
  <2>1. g.node \in RetryNodes => attempts[r][g.node] + 1 \in 0 .. MaxNodeAttempts
    BY <1>5 DEF AttemptInv, MaxNodeAttempts
  <2>2. attempts \in [Requests -> [RetryNodes -> 0 .. MaxNodeAttempts]]
    BY DEF TypeOK
  <2>3. ASSUME g.node \in RetryNodes, attempts' = [attempts EXCEPT ![r][g.node] = @ + 1]
        PROVE  attempts' \in [Requests -> [RetryNodes -> 0 .. MaxNodeAttempts]]
    <3>1. [attempts[r] EXCEPT ![g.node] = @ + 1] \in [RetryNodes -> 0 .. MaxNodeAttempts]
      BY <2>1, <2>2, <2>3
    <3>2. attempts' = [attempts EXCEPT ![r] = [attempts[r] EXCEPT ![g.node] = @ + 1]]
      BY <2>2, <2>3
    <3>3. QED
      BY <2>2, <3>1, <3>2
  <2>4. QED
    BY <2>2, <2>3
<1>8. ASSUME NEW m \in RetryNodes
      PROVE  /\ attempts'[r][m] > 0 => Rank(m) <= Rank(n)
             /\ n = m => attempts'[r][m] < MaxNodeAttempts
  <2>1. attempts[r][m] > 0 => Rank(m) <= Rank(g.node)
    BY DEF AttemptInv
  <2>2. Rank(m) \in Nat /\ Rank(n) \in Nat /\ Rank(g.node) \in Nat
    BY DEF Rank
  <2>3. attempts'[r][m] > 0 => Rank(m) <= Rank(g.node)
    BY <1>5, <1>6, <2>1, <2>2
  <2>4. n = m => attempts'[r][m] = 0
    BY <1>3, <1>5, <1>7, <2>2, <2>3
  <2>5. QED
    BY <1>3, <2>2, <2>3, <2>4 DEF MaxNodeAttempts
<1>9. QED
  BY <1>2, <1>4, <1>7, <1>8 DEF AttemptInv

LEMMA LocksKept ==
  ASSUME LockInv, RefundOnce, SameCalls, status' = status, refunders' = refunders,
         \A o \in Orders : rowLock'[o] \in {Free, rowLock[o]}
  PROVE  LockInv' /\ RefundOnce'
BY DEF LockInv, RefundOnce, SameCalls, MayRefund, OrderOf, ActorOf, RunsGraph, Resumes, Workflow,
       Authorised, Authorises

-----------------------------------------------------------------------------
(* Graph nodes                                                             *)

(* Whatever node completes with delta g: it is enough that g is grounded   *)
(* and that nothing but the graph state and the tickets moves.             *)
LEMMA NodeStep ==
  ASSUME IInv, NEW r \in Requests, pc[r] = "graph", NEW g \in GraphState, Complete(r, g),
         NodeFrame, pc' = pc, status' = status, rowLock' = rowLock, refunders' = refunders,
         tickets' \subseteq Requests, ticket' \subseteq Requests, consent' \subseteq Workflows,
         g.node = view[r].node, Grounded(g, Workflow(r)),
         g.node = "retrieve_policy" => (g.policy \/ g.escalation # "none"),
         g.node = "propose_refund" => (g.decision # "none" \/ g.escalation # "none"),
         attempts' = attempts \/ (/\ g.node \in RetryNodes
                                  /\ attempts' = [attempts EXCEPT ![r][g.node] = @ + 1])
  PROVE  IInv'
<1>0. /\ TypeOK /\ CallInv /\ AttemptInv /\ RunInv /\ LockInv /\ RefundOnce
      /\ SameCalls /\ RunsGraph(r)
  BY DEF IInv, NodeFrame, SameCalls, CallInv
<1>1. PICK w \in Workflows : w = Workflow(r)
  BY <1>0, CallTypes
<1>2. AttemptInv' /\ attempts' \in [Requests -> [RetryNodes -> 0 .. MaxNodeAttempts]]
  BY <1>0, AttemptsKept
<1>3. TypeOK'
  BY <1>0, <1>2, CompleteType DEF TypeOK, NodeFrame
<1>4. CallInv'
  BY <1>0 DEF CallInv, SameCalls, Complete, NodeFrame, RunsGraph, Resumes, Workflow
<1>5. PICK h : h = [g EXCEPT !.node = Successor(g, meta[w].intent)]
  OBVIOUS
<1>6. Grounded(h, Workflow(r)) /\ view' = [view EXCEPT ![r] = h]
  BY <1>1, <1>5, GroundedSuccessor DEF Complete
<1>7. RunInv'
  BY <1>0, <1>6, RunInvKept DEF Running, NodeFrame
<1>8. LockInv' /\ RefundOnce'
  BY <1>0, LocksKept
<1>9. QED
  BY <1>2, <1>3, <1>4, <1>7, <1>8 DEF IInv

(* What every node may rely on when it runs in request r.                  *)
LEMMA AtNode ==
  ASSUME IInv, NEW r \in Requests, pc[r] = "graph"
  PROVE  /\ view[r] \in GraphState /\ RunsGraph(r)
         /\ Workflow(r) \in Workflows /\ Grounded(view[r], Workflow(r))
         /\ meta[Workflow(r)] \in Metas
<1>1. RunsGraph(r) /\ meta[Workflow(r)] # NoMeta
  BY DEF IInv, CallInv
<1>2. QED
  BY <1>1, CallTypes DEF IInv, TypeOK, RunInv

LEMMA EscalationGrounded ==
  ASSUME NEW g \in GraphState, NEW w \in Workflows, Grounded(g, w)
  PROVE  /\ EscalationDelta(g) \in GraphState /\ Grounded(EscalationDelta(g), w)
         /\ EscalationDelta(g).node = g.node /\ EscalationDelta(g).escalation # "none"
<1>1. PICK h : h = EscalationDelta(g)
  OBVIOUS
<1>2. h \in GraphState
  BY <1>1, EscalationType
<1>3. /\ h.node = g.node /\ h.order = g.order /\ h.policy = g.policy /\ h.decision = g.decision
      /\ h.escalation = "pending" /\ h.status = "escalating"
  BY <1>1 DEF EscalationDelta, GraphState
<1>4. Grounded(h, w)
  BY <1>3 DEF Grounded
<1>5. QED
  BY <1>1, <1>2, <1>3, <1>4

LEMMA AttemptedInv ==
  ASSUME IInv, NEW r \in Requests, NEW n \in RetryNodes, NEW g \in GraphState,
         Attempted(r, n, g), g.node = n, Grounded(g, Workflow(r)),
         n = "retrieve_policy" => (g.policy \/ g.escalation # "none")
  PROVE  IInv'
<1>1. pc[r] = "graph" /\ view[r].node = n /\ n # "propose_refund"
  BY DEF Attempted, At, RetryNodes
<1>2. QED
  BY <1>1, NodeStep DEF Attempted, store, IInv, TypeOK

LEMMA RouteInv ==
  ASSUME IInv, NEW r \in Requests, RouteNode(r)
  PROVE  IInv'
<1>1. pc[r] = "graph" /\ view[r].node = "route"
  BY DEF RouteNode, Attempted, At
<1>2. PICK g : g = view[r]
  OBVIOUS
<1>3. g \in GraphState /\ Workflow(r) \in Workflows /\ Grounded(g, Workflow(r))
  BY <1>1, <1>2, AtNode
<1>4. CASE Attempted(r, "route", [g EXCEPT !.status = "routed"])
  <2>1. [g EXCEPT !.status = "routed"] \in GraphState
    BY <1>3 DEF GraphState, GraphStatus
  <2>2. Grounded([g EXCEPT !.status = "routed"], Workflow(r))
    BY <1>3 DEF Grounded, GraphState
  <2>3. QED
    BY <1>1, <1>2, <1>3, <1>4, <2>1, <2>2, AttemptedInv DEF RetryNodes, GraphState
<1>5. CASE Attempted(r, "route", EscalationDelta(g))
  BY <1>1, <1>2, <1>3, <1>5, EscalationGrounded, AttemptedInv DEF RetryNodes
<1>6. QED
  BY <1>2, <1>4, <1>5 DEF RouteNode

LEMMA TransientInv ==
  ASSUME IInv, NEW r \in Requests, NEW n \in RetryNodes, Transient(r, n)
  PROVE  IInv'
<1>1. pc[r] = "graph" /\ view[r].node = n /\ n # "propose_refund"
  BY DEF Transient, At, RetryNodes
<1>2. PICK g : g = view[r]
  OBVIOUS
<1>3. g \in GraphState /\ Workflow(r) \in Workflows /\ Grounded(g, Workflow(r))
  BY <1>1, <1>2, AtNode
<1>4. CASE attempts'[r][n] < MaxNodeAttempts
  <2>1. UNCHANGED <<view, dirty, store, pc, consent>> /\ NodeFrame /\ SameCalls
    BY <1>4 DEF Transient, NodeFrame, SameCalls
  <2>2. TypeOK'
    BY <1>4, <2>1 DEF Transient, IInv, TypeOK, NodeFrame, store, MaxNodeAttempts
  <2>3. CallInv' /\ RunInv'
    <3>1. CallInv'
      BY <2>1 DEF IInv, CallInv, NodeFrame, RunsGraph, Resumes, Workflow
    <3>2. QED
      BY <2>1, <3>1, RunInvSame, CheckpointsKept DEF IInv, NodeFrame
  <2>4. AttemptInv'
    <3>1. /\ attempts' = [attempts EXCEPT ![r][n] = @ + 1]
          /\ attempts \in [Requests -> [RetryNodes -> 0 .. MaxNodeAttempts]]
      BY DEF Transient, IInv, TypeOK
    <3>2. \A s \in Requests, m \in RetryNodes :
            attempts'[s][m] = attempts[s][m] \/ (s = r /\ m = n)
      BY <3>1
    <3>3. Rank(n) <= Rank(view[r].node)
      BY <1>1 DEF Rank
    <3>4. view' = view /\ pc' = pc
      BY <2>1
    <3>5. QED
      BY <1>1, <1>4, <3>2, <3>3, <3>4 DEF IInv, AttemptInv
  <2>5. LockInv' /\ RefundOnce'
    BY <2>1, LocksKept DEF IInv, store
  <2>6. QED
    BY <2>2, <2>3, <2>4, <2>5 DEF IInv
<1>5. CASE ~(attempts'[r][n] < MaxNodeAttempts)
  <2>1. /\ EscalationDelta(g) \in GraphState /\ Grounded(EscalationDelta(g), Workflow(r))
        /\ EscalationDelta(g).node = n /\ EscalationDelta(g).escalation # "none"
    BY <1>1, <1>2, <1>3, EscalationGrounded
  <2>2. Attempted(r, n, EscalationDelta(g))
    BY <1>2, <1>5 DEF Transient, Attempted
  <2>3. QED
    BY <2>1, <2>2, AttemptedInv
<1>6. QED
  BY <1>4, <1>5

LEMMA RetrieveOrderInv ==
  ASSUME IInv, NEW r \in Requests, RetrieveOrder(r)
  PROVE  IInv'
<1>1. pc[r] = "graph" /\ view[r].node = "retrieve_order"
  BY DEF RetrieveOrder, At
<1>2. PICK g \in GraphState, w \in Workflows : g = view[r] /\ w = Workflow(r)
  BY <1>1, AtNode
<1>3. Grounded(g, w) /\ RunsGraph(r) /\ meta[w] \in Metas
  BY <1>1, <1>2, AtNode
<1>4. /\ EscalationDelta(g) \in GraphState /\ Grounded(EscalationDelta(g), w)
      /\ EscalationDelta(g).node = "retrieve_order" /\ EscalationDelta(g).escalation # "none"
  BY <1>1, <1>2, <1>3, EscalationGrounded
<1>5. CASE OrderOf(r) = NoOrder
  <2>1. Complete(r, EscalationDelta(g)) /\ NodeFrame /\ UNCHANGED <<store, pc, consent, attempts>>
    BY <1>2, <1>5 DEF RetrieveOrder
  <2>2. QED
    BY <1>1, <1>2, <1>4, <2>1, NodeStep DEF store, IInv, TypeOK
<1>6. CASE OrderOf(r) # NoOrder /\ AccessError(OrderOf(r), ActorOf(r)) # "none"
  <2>1. Attempted(r, "retrieve_order", EscalationDelta(g))
    BY <1>2, <1>6 DEF RetrieveOrder
  <2>2. QED
    BY <1>2, <1>4, <2>1, AttemptedInv DEF RetryNodes
<1>7. CASE OrderOf(r) # NoOrder /\ AccessError(OrderOf(r), ActorOf(r)) = "none"
  <2>1. PICK o \in Orders : o = OrderOf(r)
    BY <1>2, <1>3, <1>7 DEF OrderOf, Metas
  <2>2. /\ meta[w].order = o /\ meta[w].actor = Owner[o] /\ status[o] # "absent"
        /\ status[o] \in OrderStatus
    BY <1>2, <1>3, <1>7, <2>1 DEF AccessError, OrderOf, ActorOf, IInv, TypeOK
  <2>3. status[o] = "delivered" => InitialStatus[o] = "delivered"
    BY DEF IInv, RefundOnce
  <2>4. PICK h : h = [g EXCEPT !.order = status[o], !.status = "evidence_ready"]
    OBVIOUS
  <2>5. h \in GraphState /\ h.node = "retrieve_order"
    <3>1. status[o] \in OrderStatus \cup {"none"} /\ "evidence_ready" \in GraphStatus
      BY <2>2 DEF GraphStatus
    <3>2. h \in GraphState
      BY <2>4, <3>1 DEF GraphState
    <3>3. QED
      BY <1>1, <1>2, <2>4, <3>2 DEF GraphState
  <2>6. Grounded(h, w)
    BY <1>3, <2>1, <2>2, <2>3, <2>4 DEF Grounded, GraphState, OrderStatus
  <2>7. Attempted(r, "retrieve_order", h)
    BY <1>2, <1>7, <2>1, <2>4 DEF RetrieveOrder
  <2>8. QED
    BY <1>2, <2>5, <2>6, <2>7, AttemptedInv DEF RetryNodes
<1>8. QED
  BY <1>5, <1>6, <1>7

LEMMA RetrievePolicyInv ==
  ASSUME IInv, NEW r \in Requests, RetrievePolicy(r)
  PROVE  IInv'
<1>1. pc[r] = "graph" /\ view[r].node = "retrieve_policy"
  BY DEF RetrievePolicy, Attempted, At
<1>2. PICK g \in GraphState, w \in Workflows : g = view[r] /\ w = Workflow(r)
  BY <1>1, AtNode
<1>3. Grounded(g, w)
  BY <1>1, <1>2, AtNode
<1>4. PICK h : /\ h \in {EscalationDelta(g), [g EXCEPT !.policy = TRUE, !.status = "evidence_ready"]}
               /\ Attempted(r, "retrieve_policy", h)
  BY <1>2 DEF RetrievePolicy
<1>5. /\ h \in GraphState /\ h.node = "retrieve_policy" /\ (h.policy \/ h.escalation # "none")
      /\ Grounded(h, w)
  <2>1. CASE h = EscalationDelta(g)
    BY <1>1, <1>2, <1>3, <2>1, EscalationGrounded
  <2>2. CASE h = [g EXCEPT !.policy = TRUE, !.status = "evidence_ready"]
    <3>1. h \in GraphState
      BY <2>2 DEF GraphState, GraphStatus
    <3>2. /\ h.node = g.node /\ h.order = g.order /\ h.policy = TRUE /\ h.decision = g.decision
          /\ h.status = "evidence_ready"
      BY <2>2 DEF GraphState
    <3>3. Grounded(h, w)
      BY <1>3, <3>2 DEF Grounded
    <3>4. QED
      BY <1>1, <1>2, <3>1, <3>2, <3>3
  <2>3. QED
    BY <1>4, <2>1, <2>2
<1>6. QED
  BY <1>2, <1>4, <1>5, AttemptedInv DEF RetryNodes

LEMMA ProposeInv ==
  ASSUME IInv, NEW r \in Requests, ProposeRefund(r)
  PROVE  IInv'
<1>1. pc[r] = "graph" /\ view[r].node = "propose_refund"
  BY DEF ProposeRefund, At
<1>2. PICK g \in GraphState, w \in Workflows : g = view[r] /\ w = Workflow(r)
  BY <1>1, AtNode
<1>3. Grounded(g, w)
  BY <1>1, <1>2, AtNode
<1>4. PICK h : /\ Complete(r, h)
               /\ h = IF g.order \in Refundable
                      THEN [g EXCEPT !.decision = "pending", !.status = "awaiting_confirmation"]
                      ELSE EscalationDelta(g)
  BY <1>2 DEF ProposeRefund
<1>5. /\ h \in GraphState /\ h.node = "propose_refund" /\ Grounded(h, w)
      /\ h.decision # "none" \/ h.escalation # "none"
  <2>1. CASE g.order \in Refundable
    <3>1. h = [g EXCEPT !.decision = "pending", !.status = "awaiting_confirmation"]
      BY <1>4, <2>1
    <3>2. h \in GraphState
      BY <3>1 DEF GraphState, GraphStatus
    <3>3. /\ h.node = g.node /\ h.order = g.order /\ h.policy = g.policy
          /\ h.decision = "pending" /\ h.status = "awaiting_confirmation"
      BY <3>1 DEF GraphState
    <3>4. g.order = "delivered" /\ g.node = "propose_refund"
      BY <1>1, <1>2, <2>1 DEF Refundable
    <3>5. Grounded(h, w)
      BY <1>3, <3>3, <3>4 DEF Grounded
    <3>6. QED
      BY <3>2, <3>3, <3>4, <3>5
  <2>2. CASE g.order \notin Refundable
    BY <1>1, <1>2, <1>3, <1>4, <2>2, EscalationGrounded
  <2>3. QED
    BY <2>1, <2>2
<1>6. UNCHANGED <<store, pc, consent, attempts>> /\ NodeFrame
  BY DEF ProposeRefund
<1>7. QED
  BY <1>1, <1>2, <1>4, <1>5, <1>6, NodeStep DEF store, IInv, TypeOK

LEMMA InterruptInv ==
  ASSUME IInv, NEW r \in Requests, Interrupt(r)
  PROVE  IInv'
<1>1. pc[r] = "graph" /\ view[r].node = "confirmation"
  BY DEF Interrupt, At
<1>2. PICK g \in GraphState, w \in Workflows : g = view[r] /\ w = Workflow(r)
  BY <1>1, AtNode
<1>3. PICK h : h = [g EXCEPT !.interrupted = TRUE]
  OBVIOUS
<1>4. /\ view' = [view EXCEPT ![r] = h] /\ dirty' = dirty \cup {r}
      /\ UNCHANGED <<store, pc, consent, attempts>> /\ NodeFrame /\ SameCalls
  BY <1>2, <1>3 DEF Interrupt, NodeFrame, SameCalls
<1>5. h \in GraphState /\ Grounded(h, w) /\ RunsGraph(r) /\ h.node = view[r].node
  BY <1>1, <1>2, <1>3, AtNode DEF Grounded, GraphState
<1>6. TypeOK'
  BY <1>4, <1>5 DEF IInv, TypeOK, NodeFrame, store
<1>7. CallInv'
  BY <1>4, <1>5 DEF IInv, CallInv, NodeFrame, RunsGraph, Resumes, Workflow
<1>8. AttemptInv'
  BY <1>4, <1>5 DEF IInv, TypeOK, AttemptInv
<1>9. RunInv'
  BY <1>1, <1>2, <1>4, <1>5, RunInvKept DEF IInv, Running, NodeFrame
<1>10. LockInv' /\ RefundOnce'
  BY <1>4, LocksKept DEF IInv, store
<1>11. QED
  BY <1>6, <1>7, <1>8, <1>9, <1>10 DEF IInv

LEMMA ConfirmationInv ==
  ASSUME IInv, NEW r \in Requests, ConfirmationNode(r)
  PROVE  IInv'
<1>1. pc[r] = "graph" /\ view[r].node = "confirmation" /\ Resumes(r)
  BY DEF ConfirmationNode, At
<1>2. PICK g \in GraphState, w \in Workflows : g = view[r] /\ w = Workflow(r)
  BY <1>1, AtNode
<1>3. Grounded(g, w)
  BY <1>1, <1>2, AtNode
<1>4. PICK h : /\ Complete(r, h)
               /\ h = [g EXCEPT !.decision = call[r].kind, !.interrupted = FALSE,
                        !.status = IF call[r].kind = "confirm" THEN "confirmed" ELSE "rejected"]
  BY <1>2 DEF ConfirmationNode
<1>5. call[r].kind = "confirm" => Authorised(w)
  BY <1>1, <1>2 DEF IInv, RunInv, Authorised, Running
<1>6. h \in GraphState /\ h.node = "confirmation"
  <2>1. call[r].kind \in {"confirm", "reject"}
    BY <1>1 DEF Resumes
  <2>2. PICK k \in {"confirm", "reject"}, t \in {"confirmed", "rejected"} :
          h = [g EXCEPT !.decision = k, !.interrupted = FALSE, !.status = t]
    BY <1>4, <2>1
  <2>3. h \in GraphState
    BY <2>2 DEF GraphState, GraphStatus
  <2>4. h.node = g.node
    BY <2>2 DEF GraphState
  <2>5. QED
    BY <1>1, <1>2, <2>3, <2>4
<1>7. Grounded(h, w)
  <2>1. /\ h.node = g.node /\ h.order = g.order /\ h.policy = g.policy
        /\ h.decision = call[r].kind /\ h.status \in {"confirmed", "rejected"}
    BY <1>4 DEF GraphState
  <2>2. g.node = "confirmation"
    BY <1>1, <1>2
  <2>3. call[r].kind # "none"
    BY <1>1 DEF Resumes
  <2>4. QED
    BY <1>3, <1>5, <2>1, <2>2, <2>3 DEF Grounded
<1>8. UNCHANGED <<store, pc, attempts>> /\ NodeFrame
  BY DEF ConfirmationNode
<1>9. consent' \subseteq Workflows
  BY <1>2 DEF ConfirmationNode, IInv, TypeOK
<1>10. QED
  BY <1>1, <1>2, <1>4, <1>6, <1>7, <1>8, <1>9, NodeStep DEF store, IInv, TypeOK

LEMMA RejectInv ==
  ASSUME IInv, NEW r \in Requests, RejectNode(r)
  PROVE  IInv'
<1>1. pc[r] = "graph" /\ view[r].node = "reject"
  BY DEF RejectNode, At
<1>2. PICK g \in GraphState, w \in Workflows : g = view[r] /\ w = Workflow(r)
  BY <1>1, AtNode
<1>3. PICK h : Complete(r, h) /\ h = [g EXCEPT !.status = "rejected"]
  BY <1>2 DEF RejectNode
<1>4. h \in GraphState /\ h.node = "reject" /\ Grounded(h, w)
  BY <1>1, <1>2, <1>3, AtNode DEF Grounded, GraphState, GraphStatus
<1>5. UNCHANGED <<store, pc, consent, attempts>> /\ NodeFrame
  BY DEF RejectNode
<1>6. QED
  BY <1>1, <1>2, <1>3, <1>4, <1>5, NodeStep DEF store, IInv, TypeOK

LEMMA RespondInv ==
  ASSUME IInv, NEW r \in Requests, Respond(r)
  PROVE  IInv'
<1>1. pc[r] = "graph" /\ view[r].node = "respond"
  BY DEF Respond, Attempted, At
<1>2. PICK g \in GraphState, w \in Workflows : g = view[r] /\ w = Workflow(r)
  BY <1>1, AtNode
<1>3. PICK h : /\ Attempted(r, "respond", h)
               /\ h = [g EXCEPT !.status = "completed"] \/ h = EscalationDelta(g)
  BY <1>2 DEF Respond
<1>4. h \in GraphState /\ h.node = "respond" /\ Grounded(h, w)
  <2>1. Grounded(g, w)
    BY <1>1, <1>2, AtNode
  <2>2. CASE h = [g EXCEPT !.status = "completed"]
    BY <1>1, <1>2, <2>1, <2>2 DEF Grounded, GraphState, GraphStatus
  <2>3. CASE h = EscalationDelta(g)
    BY <1>1, <1>2, <2>1, <2>3, EscalationGrounded
  <2>4. QED
    BY <1>3, <2>2, <2>3
<1>5. QED
  BY <1>2, <1>3, <1>4, AttemptedInv DEF RetryNodes

LEMMA EscalateInv ==
  ASSUME IInv, NEW r \in Requests, Escalate(r)
  PROVE  IInv'
<1>1. pc[r] = "graph" /\ view[r].node = "escalate"
  BY DEF Escalate, At
<1>2. PICK g \in GraphState, w \in Workflows : g = view[r] /\ w = Workflow(r)
  BY <1>1, AtNode
<1>3. PICK h : Complete(r, h) /\ h = [g EXCEPT !.escalation = "completed", !.status = "escalated"]
  BY <1>2 DEF Escalate
<1>4. h \in GraphState /\ h.node = "escalate" /\ Grounded(h, w)
  <2>1. Grounded(g, w)
    BY <1>1, <1>2, AtNode
  <2>2. h \in GraphState /\ h.node = "escalate"
    BY <1>1, <1>2, <1>3 DEF GraphState, GraphStatus
  <2>3. Grounded(h, w)
    BY <1>3, <2>1, <2>2 DEF Grounded, GraphState
  <2>4. QED
    BY <2>2, <2>3
<1>5. /\ UNCHANGED <<status, rowLock, refunders, pc, consent, attempts>> /\ NodeFrame
      /\ tickets' \subseteq Requests /\ ticket' \subseteq Requests
  BY DEF Escalate, IInv, TypeOK
<1>6. QED
  BY <1>1, <1>2, <1>3, <1>4, <1>5, NodeStep DEF IInv, TypeOK

-----------------------------------------------------------------------------
(* Refunding                                                               *)

(* A request that may go on to the UPDATE: its order, and who asks for it. *)
LEMMA ReadPasses ==
  ASSUME TypeOK, NEW r \in Requests, OrderOf(r) \in Orders, ReadError(r) = "none"
  PROVE  ActorOf(r) = Owner[OrderOf(r)]
BY DEF ReadError, AccessError

(* A step that moves one request on and leaves every graph state alone.    *)
LEMMA RunInvMoved ==
  ASSUME TypeOK, CallInv, RunInv, SameCalls, view' = view, ckpt' = ckpt, NEW r \in Requests,
         \A s \in Requests \ {r} : pc'[s] = pc[s],
         pc'[r] = "update" => /\ OrderOf(r) \in Orders /\ ActorOf(r) = Owner[OrderOf(r)]
                              /\ RunsGraph(r) => view[r].decision = "confirm",
         pc'[r] \in Running /\ call[r].kind = "confirm" =>
           pc[r] \in Running \/ Authorises(r, Workflow(r))
  PROVE  RunInv'
<1>1. /\ \A w \in Workflows : Grounded(ckpt[w], w)'
      /\ \A s \in Requests : RunsGraph(s)' => Grounded(view[s], Workflow(s))'
      /\ \A s \in Requests : ~RunsGraph(s)' => view'[s] = FreshState
  BY DEF RunInv, SameCalls, Grounded, Authorised, Authorises, RunsGraph, Resumes, Workflow
<1>2. ASSUME NEW s \in Requests
      PROVE  /\ pc'[s] \in Running /\ call'[s].kind = "confirm" => Authorises(s, Workflow(s))'
             /\ pc'[s] = "update" => /\ OrderOf(s)' \in Orders
                                     /\ ActorOf(s)' = Owner[OrderOf(s)']
                                     /\ RunsGraph(s)' => view'[s].decision = "confirm"
  <2>1. /\ (Authorises(s, Workflow(s))' <=> Authorises(s, Workflow(s)))
        /\ OrderOf(s)' = OrderOf(s) /\ ActorOf(s)' = ActorOf(s)
        /\ (RunsGraph(s)' <=> RunsGraph(s)) /\ view'[s] = view[s] /\ call'[s] = call[s]
    BY DEF SameCalls, Authorises, OrderOf, ActorOf, RunsGraph, Resumes, Workflow
  <2>2. s # r => pc'[s] = pc[s]
    OBVIOUS
  <2>3. QED
    BY <2>1, <2>2 DEF RunInv
<1>3. QED
  BY <1>1, <1>2 DEF RunInv

(* A request moves to its UPDATE and changes nothing else.                 *)
LEMMA ToUpdate ==
  ASSUME IInv, NEW r \in Requests, pc[r] \in {"graph", "reading"},
         pc' = [pc EXCEPT ![r] = "update"], OrderOf(r) \in Orders,
         ActorOf(r) = Owner[OrderOf(r)], RunsGraph(r) => view[r].decision = "confirm",
         UNCHANGED <<store, run, meta, expired, call, told, aborts>>
  PROVE  IInv'
<1>1. SameCalls /\ TypeOK /\ CallInv /\ AttemptInv /\ RunInv /\ LockInv /\ RefundOnce
  BY DEF SameCalls, IInv
<1>2. TypeOK'
  BY <1>1 DEF TypeOK, store, run, Serving
<1>3. CallInv'
  BY <1>1, CallInvKept DEF TypeOK, store, run, CallInv
<1>4. AttemptInv'
  BY <1>1 DEF TypeOK, store, run, AttemptInv
<1>5. RunInv'
  <2>1. pc[r] = "reading" => call[r].kind = "refund"
    BY <1>1 DEF CallInv
  <2>2. call[r].kind = "confirm" => pc[r] \in Running
    BY <2>1 DEF Running
  <2>3. view' = view /\ ckpt' = ckpt /\ \A s \in Requests \ {r} : pc'[s] = pc[s]
    BY <1>1 DEF run, TypeOK
  <2>4. QED
    BY <1>1, <2>2, <2>3, RunInvMoved
<1>6. LockInv' /\ RefundOnce'
  BY <1>1, LocksKept DEF store
<1>7. QED
  BY <1>2, <1>3, <1>4, <1>5, <1>6 DEF IInv

LEMMA ExecuteReadInv ==
  ASSUME IInv, NEW r \in Requests, ExecuteRead(r)
  PROVE  IInv'
<1>1. pc[r] = "graph" /\ view[r].node = "execute_refund"
  BY DEF ExecuteRead, At
<1>2. PICK g \in GraphState, w \in Workflows : g = view[r] /\ w = Workflow(r)
  BY <1>1, AtNode
<1>3. Grounded(g, w) /\ RunsGraph(r)
  BY <1>1, <1>2, AtNode
<1>4. UNCHANGED <<store, consent, attempts>> /\ NodeFrame
  BY DEF ExecuteRead
<1>5. CASE g.decision # "confirm"
  <2>1. PICK h : Complete(r, h) /\ h = [g EXCEPT !.status = "rejected"]
    BY <1>2, <1>5 DEF ExecuteRead
  <2>2. h \in GraphState /\ h.node = "execute_refund" /\ Grounded(h, w)
    BY <1>1, <1>2, <1>3, <2>1 DEF Grounded, GraphState, GraphStatus
  <2>3. pc' = pc
    BY <1>2, <1>5 DEF ExecuteRead
  <2>4. QED
    BY <1>1, <1>2, <1>4, <2>1, <2>2, <2>3, NodeStep DEF store, IInv, TypeOK
<1>6. CASE g.decision = "confirm" /\ ReadError(r) = "none"
  <2>1. OrderOf(r) \in Orders
    BY <1>2, <1>3, <1>6 DEF Grounded, OrderOf
  <2>2. pc' = [pc EXCEPT ![r] = "update"] /\ UNCHANGED <<view, dirty>>
    BY <1>2, <1>6 DEF ExecuteRead
  <2>3. ActorOf(r) = Owner[OrderOf(r)]
    BY <1>6, <2>1, ReadPasses DEF IInv
  <2>4. QED
    BY <1>1, <1>2, <1>4, <1>6, <2>1, <2>2, <2>3, ToUpdate DEF store, run, NodeFrame
<1>7. CASE g.decision = "confirm" /\ ReadError(r) # "none"
  <2>1. Complete(r, EscalationDelta(g)) /\ pc' = pc
    BY <1>2, <1>7 DEF ExecuteRead
  <2>2. QED
    BY <1>1, <1>2, <1>3, <1>4, <2>1, EscalationGrounded, NodeStep DEF store, IInv, TypeOK
<1>8. QED
  BY <1>5, <1>6, <1>7

(* The order of a request at its UPDATE, and that it may refund it.        *)
LEMMA AtUpdate ==
  ASSUME IInv, NEW r \in Requests, pc[r] = "update"
  PROVE  OrderOf(r) \in Orders /\ MayRefund(r, OrderOf(r))
<1>1. /\ OrderOf(r) \in Orders /\ ActorOf(r) = Owner[OrderOf(r)]
      /\ RunsGraph(r) => view[r].decision = "confirm"
  BY DEF IInv, RunInv
<1>2. call[r].kind # "idle"
  BY DEF IInv, CallInv
<1>3. RunsGraph(r) => Authorised(Workflow(r))
  BY <1>1 DEF IInv, RunInv, Grounded
<1>4. QED
  BY <1>1, <1>2, <1>3 DEF MayRefund

(* The conditional UPDATE of a request that may refund its order.          *)
LEMMA UpdateRowInv ==
  ASSUME IInv, NEW r \in Requests, pc[r] = "update", rowLock[OrderOf(r)] = Free,
         UpdateRow(r), SameCalls
  PROVE  /\ LockInv' /\ RefundOnce'
         /\ status' \in [Orders -> OrderStatus] /\ rowLock' \in [Orders -> Requests \cup {Free}]
         /\ refunders' \in [Orders -> SUBSET Requests]
<1>1. PICK o \in Orders : o = OrderOf(r)
  BY AtUpdate
<1>2. MayRefund(r, o)
  BY <1>1, AtUpdate
<1>3. \A s \in Requests, p \in Orders : MayRefund(s, p)' <=> MayRefund(s, p)
  BY DEF SameCalls, MayRefund, OrderOf, ActorOf, RunsGraph, Resumes, Workflow, Authorised,
         Authorises
<1>4. CASE ~Matches(r)
  BY <1>4, LocksKept DEF UpdateRow, IInv, TypeOK
<1>5. ASSUME Matches(r)
      PROVE  status[o] = "delivered" /\ refunders[o] = {} /\ InitialStatus[o] = "delivered"
  BY <1>1, <1>5 DEF Matches, IInv, RefundOnce
<1>6. CASE Matches(r) /\ SharedService
  <2>1. /\ status' = [status EXCEPT ![o] = "refunded"] /\ rowLock' = rowLock
        /\ refunders' = [refunders EXCEPT ![o] = @ \cup {r}]
    BY <1>1, <1>6 DEF UpdateRow, TakeEffect
  <2>2. RefundOnce'
    BY <1>5, <1>6, <2>1 DEF IInv, RefundOnce, TypeOK
  <2>3. LockInv'
    <3>1. ASSUME NEW p \in Orders, NEW s \in refunders'[p]
          PROVE  MayRefund(s, p)'
      BY <1>2, <1>3, <2>1, <3>1 DEF IInv, TypeOK, LockInv
    <3>2. ASSUME NEW p \in Orders, rowLock'[p] # Free
          PROVE  MayRefund(rowLock[p], p)' /\ status'[p] = "delivered" /\ refunders'[p] = {}
      BY <1>1, <1>3, <2>1, <3>2 DEF IInv, TypeOK, LockInv
    <3>3. QED
      BY <2>1, <3>1, <3>2 DEF LockInv
  <2>4. QED
    BY <2>1, <2>2, <2>3 DEF IInv, TypeOK, OrderStatus
<1>7. CASE Matches(r) /\ ~SharedService
  <2>1. /\ rowLock' = [rowLock EXCEPT ![o] = r] /\ status' = status /\ refunders' = refunders
    BY <1>1, <1>7 DEF UpdateRow
  <2>2. RefundOnce'
    BY <2>1 DEF IInv, RefundOnce
  <2>3. LockInv'
    <3>1. ASSUME NEW p \in Orders, rowLock'[p] # Free
          PROVE  MayRefund(rowLock[p], p)' /\ status[p] = "delivered" /\ refunders[p] = {}
      <4>1. CASE p = o
        <5>1. rowLock'[p] = r
          BY <2>1, <4>1 DEF IInv, TypeOK
        <5>2. MayRefund(r, p)'
          BY <1>2, <1>3, <4>1
        <5>3. QED
          BY <1>5, <1>7, <4>1, <5>1, <5>2
      <4>2. CASE p # o
        BY <1>3, <2>1, <3>1, <4>2 DEF IInv, TypeOK, LockInv
      <4>3. QED
        BY <4>1, <4>2
    <3>2. QED
      BY <1>3, <2>1, <3>1 DEF IInv, TypeOK, LockInv
  <2>4. QED
    BY <2>1, <2>2, <2>3 DEF IInv, TypeOK
<1>8. QED
  BY <1>4, <1>6, <1>7

LEMMA ExecuteUpdateInv ==
  ASSUME IInv, NEW r \in Requests, ExecuteUpdate(r)
  PROVE  IInv'
<1>1. pc[r] = "update" /\ RunsGraph(r) /\ rowLock[OrderOf(r)] = Free /\ SameCalls
  BY DEF ExecuteUpdate, NodeFrame, SameCalls
<1>2. PICK g \in GraphState, w \in Workflows : g = view[r] /\ w = Workflow(r)
  BY <1>1, CallTypes DEF IInv, TypeOK
<1>3. /\ Grounded(g, w) /\ g.decision = "confirm" /\ OrderOf(r) \in Orders
      /\ ActorOf(r) = Owner[OrderOf(r)]
  BY <1>1, <1>2 DEF IInv, RunInv
<1>4. PICK h : /\ Complete(r, h)
               /\ h = IF Matches(r) THEN [g EXCEPT !.order = "refunded", !.status = "completed"]
                      ELSE EscalationDelta(g)
  BY <1>2 DEF ExecuteUpdate
<1>5. h \in GraphState /\ Grounded(h, w) /\ h.node = g.node
  <2>1. CASE Matches(r)
    <3>1. h \in GraphState /\ h.node = g.node
      BY <1>2, <1>4, <2>1 DEF GraphState, GraphStatus, OrderStatus
    <3>2. Grounded(h, w)
      BY <1>2, <1>3, <1>4, <2>1 DEF Grounded, GraphState
    <3>3. QED
      BY <3>1, <3>2
  <2>2. CASE ~Matches(r)
    BY <1>2, <1>3, <1>4, <2>2, EscalationGrounded
  <2>3. QED
    BY <2>1, <2>2
<1>6. g.node = "propose_refund" \/ g.node = "retrieve_policy" => g.policy /\ h.policy /\ h.decision # "none"
  BY <1>2, <1>3, <1>4 DEF Grounded, EscalationDelta, GraphState
<1>7. PICK k : k = [h EXCEPT !.node = Successor(h, meta[w].intent)]
  OBVIOUS
<1>8. /\ view' = [view EXCEPT ![r] = k] /\ Grounded(k, w)
      /\ pc' = [pc EXCEPT ![r] = "graph"] /\ attempts' = attempts
      /\ UNCHANGED <<tickets, ticket, consent>> /\ NodeFrame
  BY <1>2, <1>4, <1>5, <1>6, <1>7, GroundedSuccessor DEF Complete, ExecuteUpdate
<1>9. /\ LockInv' /\ RefundOnce'
      /\ status' \in [Orders -> OrderStatus] /\ rowLock' \in [Orders -> Requests \cup {Free}]
      /\ refunders' \in [Orders -> SUBSET Requests]
  BY <1>1, UpdateRowInv DEF ExecuteUpdate
<1>10. TypeOK'
  BY <1>4, <1>5, <1>8, <1>9, CompleteType DEF IInv, TypeOK, NodeFrame, Serving
<1>11. CallInv'
  BY <1>1, <1>4, <1>8, CallInvKept DEF IInv, TypeOK, NodeFrame, Complete
<1>12. AttemptInv'
  BY <1>2, <1>4, <1>5, <1>6, <1>8, AttemptsKept DEF IInv, TypeOK
<1>13. RunInv'
  BY <1>1, <1>2, <1>8, RunInvKept DEF IInv, TypeOK, Running, NodeFrame
<1>14. QED
  BY <1>9, <1>10, <1>11, <1>12, <1>13 DEF IInv

LEMMA DirectReadInv ==
  ASSUME IInv, NEW r \in Requests, DirectRead(r)
  PROVE  IInv'
<1>1. /\ pc[r] = "reading" /\ call[r].kind = "refund" /\ ~RunsGraph(r)
      /\ UNCHANGED <<store, run, meta, expired, call, aborts>>
  BY DEF DirectRead, IInv, CallInv, RunsGraph, Resumes
<1>2. OrderOf(r) \in Orders
  BY <1>1, CallTypes DEF IInv, OrderOf
<1>3. CASE ReadError(r) = "none"
  BY <1>1, <1>2, <1>3, ReadPasses, ToUpdate DEF DirectRead, IInv
<1>4. CASE ReadError(r) # "none"
  <2>1. pc' = [pc EXCEPT ![r] = "done"] /\ told' = [told EXCEPT ![r] = ReadError(r)]
    BY <1>4 DEF DirectRead, Refuse
  <2>2. ReadError(r) \in Refusals
    BY <1>4 DEF ReadError, AccessError, Refusals
  <2>3. SameCalls /\ view' = view /\ ckpt' = ckpt /\ \A s \in Requests \ {r} : pc'[s] = pc[s]
    BY <1>1, <2>1 DEF SameCalls, run, IInv, TypeOK
  <2>4. TypeOK'
    BY <1>1, <2>1, <2>2 DEF IInv, TypeOK, store, run
  <2>5. CallInv' /\ AttemptInv'
    BY <1>1, <2>1, <2>3, CallInvKept DEF IInv, TypeOK, run, AttemptInv, CallInv
  <2>6. RunInv'
    BY <2>1, <2>3, RunInvMoved DEF IInv, TypeOK, Running
  <2>7. LockInv' /\ RefundOnce'
    BY <1>1, <2>3, LocksKept DEF IInv, store
  <2>8. QED
    BY <2>4, <2>5, <2>6, <2>7 DEF IInv
<1>5. QED
  BY <1>3, <1>4

LEMMA DirectUpdateInv ==
  ASSUME IInv, NEW r \in Requests, DirectUpdate(r)
  PROVE  IInv'
<1>1. /\ pc[r] = "update" /\ ~RunsGraph(r) /\ rowLock[OrderOf(r)] = Free /\ SameCalls
      /\ UNCHANGED <<tickets, ticket, run, meta, expired, call, aborts>>
  BY DEF DirectUpdate, SameCalls
<1>2. PICK p \in {"answered", "done"} : pc' = [pc EXCEPT ![r] = p]
  BY DEF DirectUpdate
<1>3. PICK t \in {"refunded", "invalid_transition"} : told' = [told EXCEPT ![r] = t]
  BY DEF DirectUpdate
<1>4. view' = view /\ ckpt' = ckpt /\ \A s \in Requests \ {r} : pc'[s] = pc[s]
  BY <1>1, <1>2 DEF run, IInv, TypeOK
<1>5. /\ LockInv' /\ RefundOnce'
      /\ status' \in [Orders -> OrderStatus] /\ rowLock' \in [Orders -> Requests \cup {Free}]
      /\ refunders' \in [Orders -> SUBSET Requests]
  BY <1>1, UpdateRowInv DEF DirectUpdate
<1>6. TypeOK'
  BY <1>1, <1>2, <1>3, <1>5 DEF IInv, TypeOK, run, Serving, Refusals
<1>7. CallInv' /\ AttemptInv'
  <2>1. pc'[r] = p /\ dirty' = dirty /\ attempts' = attempts
    BY <1>1, <1>2 DEF IInv, TypeOK, run
  <2>2. r \notin dirty
    BY <1>1 DEF IInv, CallInv
  <2>3. CallInv'
    BY <1>1, <1>4, <2>1, <2>2, CallInvKept DEF IInv
  <2>4. AttemptInv'
    BY <1>1, <1>4, <2>1 DEF IInv, AttemptInv
  <2>5. QED
    BY <2>3, <2>4
<1>8. RunInv'
  BY <1>1, <1>2, <1>4, RunInvMoved DEF IInv, TypeOK, Running
<1>9. QED
  BY <1>5, <1>6, <1>7, <1>8 DEF IInv

-----------------------------------------------------------------------------
(* Resuming, checkpoints, answers and the end of the session               *)

LEMMA InspectInv ==
  ASSUME IInv, NEW r \in Requests, Inspect(r)
  PROVE  IInv'
<1>1. pc[r] = "waiting" /\ Resumes(r) /\ SameCalls /\ UNCHANGED <<store, run, meta, expired, call, aborts>>
  BY DEF Inspect, IInv, CallInv, SameCalls
<1>2. PICK w \in Workflows : w = Workflow(r)
  BY <1>1, CallTypes DEF IInv, RunsGraph
<1>3. PICK p \in {"checked", "done"} : pc' = [pc EXCEPT ![r] = p]
  BY DEF Inspect, Refuse
<1>4. p = "checked" => Refusal(r) = "none"
  BY <1>1, <1>3 DEF Inspect, Refuse, IInv, TypeOK
<1>5. Refusal(r) \in Refusals \cup {"none"}
  BY DEF Refusal, Refusals
<1>6. p = "checked" /\ call[r].kind = "confirm" => Authorises(r, Workflow(r))
  BY <1>4 DEF Refusal, Authorises, Workflow
<1>7. TypeOK'
  BY <1>1, <1>3, <1>5 DEF Inspect, Refuse, IInv, TypeOK, store, run, Serving
<1>8. view' = view /\ ckpt' = ckpt /\ \A s \in Requests \ {r} : pc'[s] = pc[s]
  BY <1>1, <1>3 DEF run, IInv, TypeOK
<1>9. CallInv' /\ AttemptInv'
  <2>1. CallInv'
    BY <1>1, <1>3, <1>8, CallInvKept DEF IInv, TypeOK, run, CallInv
  <2>2. \A n \in RetryNodes : ~(attempts[r][n] > 0)
    BY <1>1 DEF IInv, AttemptInv
  <2>3. AttemptInv'
    BY <1>1, <1>8, <2>2 DEF IInv, run, AttemptInv
  <2>4. QED
    BY <2>1, <2>3
<1>10. RunInv'
  BY <1>1, <1>3, <1>6, <1>8, RunInvMoved DEF IInv, TypeOK, Running
<1>11. LockInv' /\ RefundOnce'
  BY <1>1, LocksKept DEF IInv, store
<1>12. QED
  BY <1>7, <1>9, <1>10, <1>11 DEF IInv

LEMMA LoadInv ==
  ASSUME IInv, NEW r \in Requests, Load(r)
  PROVE  IInv'
<1>1. /\ pc[r] = "checked" /\ Resumes(r) /\ RunsGraph(r) /\ SameCalls
      /\ UNCHANGED <<store, ckpt, dirty, attempts, consent, meta, expired, call, told, aborts>>
  BY DEF Load, IInv, CallInv, SameCalls, RunsGraph
<1>2. PICK w \in Workflows : w = Workflow(r)
  BY <1>1, CallTypes DEF IInv
<1>3. PICK g \in GraphState : g = ckpt[w] /\ Grounded(g, w)
  BY DEF IInv, TypeOK, RunInv
<1>4. pc' = [pc EXCEPT ![r] = "graph"] /\ view' = [view EXCEPT ![r] = g]
  BY <1>2, <1>3 DEF Load
<1>5. TypeOK'
  BY <1>1, <1>4 DEF IInv, TypeOK, store, Serving
<1>6. CallInv'
  BY <1>1, <1>4, CallInvKept DEF IInv, TypeOK, CallInv
<1>7. AttemptInv'
  <2>1. \A n \in RetryNodes : attempts[r][n] = 0
    BY <1>1 DEF IInv, AttemptInv, TypeOK
  <2>2. QED
    BY <1>1, <1>4, <2>1 DEF IInv, TypeOK, AttemptInv, MaxNodeAttempts
<1>8. RunInv'
  BY <1>1, <1>2, <1>3, <1>4, RunInvKept DEF IInv, TypeOK, Running
<1>9. LockInv' /\ RefundOnce'
  BY <1>1, LocksKept DEF IInv, store
<1>10. QED
  BY <1>5, <1>6, <1>7, <1>8, <1>9 DEF IInv

LEMMA PersistInv ==
  ASSUME IInv, NEW r \in Requests, Persist(r)
  PROVE  IInv'
<1>1. /\ r \in dirty /\ RunsGraph(r) /\ SameCalls /\ dirty' = dirty \ {r}
      /\ UNCHANGED <<store, view, attempts, consent, meta, expired, pc, call, told, aborts>>
  BY DEF Persist, IInv, CallInv, SameCalls
<1>2. PICK w \in Workflows : w = Workflow(r) /\ meta[w] # NoMeta
  BY <1>1, CallTypes DEF IInv, CallInv
<1>3. PICK g \in GraphState : g = view[r] /\ Grounded(g, w) /\ ckpt' = [ckpt EXCEPT ![w] = g]
  BY <1>1, <1>2 DEF Persist, IInv, TypeOK, RunInv
<1>4. TypeOK'
  BY <1>1, <1>3 DEF IInv, TypeOK, store
<1>5. CallInv'
  BY <1>1, <1>2, <1>3 DEF IInv, TypeOK, CallInv, RunsGraph, Resumes, Workflow
<1>6. AttemptInv'
  BY <1>1 DEF IInv, AttemptInv
<1>7. RunInv'
  <2>1. ASSUME NEW v \in Workflows
        PROVE  Grounded(ckpt[v], v)'
    <3>1. PICK h : h = ckpt'[v] /\ Grounded(h, v)
      BY <1>3 DEF IInv, TypeOK, RunInv
    <3>2. QED
      BY <1>1, <3>1 DEF Grounded, Authorised, Authorises, SameCalls
  <2>2. QED
    BY <1>1, <2>1, RunInvSame DEF IInv
<1>8. LockInv' /\ RefundOnce'
  BY <1>1, LocksKept DEF IInv, store
<1>9. QED
  BY <1>4, <1>5, <1>6, <1>7, <1>8 DEF IInv

(* A request leaves the graph or the server and takes nothing with it but  *)
(* its own locks, its ticket and its answer.                               *)
LEMMA LeaveStep ==
  ASSUME IInv, NEW r \in Requests, pc[r] \in Serving,
         NEW p \in {"answered", "done", "dead"}, pc' = [pc EXCEPT ![r] = p],
         SameCalls, UNCHANGED <<view, ckpt, attempts, consent, expired>>,
         dirty' \subseteq dirty, aborts' \in 0 .. MaxAborts,
         told' \in [Requests -> GraphStatus \cup Refusals \cup {"none", "refunded"}],
         tickets' \subseteq Requests, ticket' \subseteq Requests
  PROVE  CallInv' /\ AttemptInv' /\ RunInv'
         /\ (status' \in [Orders -> OrderStatus] /\ refunders' \in [Orders -> SUBSET Requests]
             /\ rowLock' \in [Orders -> Requests \cup {Free}] => TypeOK')
<1>1. \A s \in Requests \ {r} : pc'[s] = pc[s]
  BY DEF IInv, TypeOK
<1>2. CallInv'
  <2>1. CallInv /\ pc[r] # "idle" /\ pc'[r] = p /\ (r \in dirty' => RunsGraph(r))
    BY DEF IInv, TypeOK, CallInv, Serving
  <2>2. dirty' \subseteq dirty \cup {r} /\ ckpt' = ckpt
    OBVIOUS
  <2>3. QED
    BY <1>1, <2>1, <2>2, CallInvKept
<1>3. AttemptInv'
  BY DEF IInv, TypeOK, AttemptInv
<1>4. RunInv'
  BY <1>1, RunInvMoved DEF IInv, TypeOK, Running
<1>5. QED
  BY <1>2, <1>3, <1>4 DEF IInv, TypeOK, SameCalls, Serving

LEMMA AnswerInv ==
  ASSUME IInv, NEW r \in Requests, Answer(r)
  PROVE  IInv'
<1>1. /\ pc[r] = "graph" /\ pc' = [pc EXCEPT ![r] = "answered"] /\ SameCalls
      /\ UNCHANGED <<store, run, meta, expired, call, aborts>>
  BY DEF Answer, SameCalls
<1>2. Workflow(r) \in Workflows
  BY <1>1, AtNode
<1>3. told' \in [Requests -> GraphStatus \cup Refusals \cup {"none", "refunded"}]
  BY <1>2 DEF Answer, IInv, TypeOK, GraphState
<1>4. CallInv' /\ AttemptInv' /\ RunInv' /\ TypeOK'
  BY <1>1, <1>3, LeaveStep DEF IInv, TypeOK, store, run, Serving
<1>5. LockInv' /\ RefundOnce'
  BY <1>1, LocksKept DEF IInv, store
<1>6. QED
  BY <1>4, <1>5 DEF IInv

LEMMA CommitInv ==
  ASSUME IInv, NEW r \in Requests, Commit(r)
  PROVE  IInv'
<1>1. /\ pc[r] = "answered" /\ pc' = [pc EXCEPT ![r] = "done"] /\ SameCalls /\ Release(r)
      /\ status' = [o \in Orders |-> IF Holds(r, o) THEN "refunded" ELSE status[o]]
      /\ refunders' = [o \in Orders |-> IF Holds(r, o) THEN refunders[o] \cup {r} ELSE refunders[o]]
      /\ tickets' \subseteq Requests /\ ticket' \subseteq Requests
      /\ UNCHANGED <<run, meta, expired, call, told, aborts>>
  BY DEF Commit, SameCalls, IInv, TypeOK
<1>2. /\ status' \in [Orders -> OrderStatus] /\ refunders' \in [Orders -> SUBSET Requests]
      /\ rowLock' \in [Orders -> Requests \cup {Free}]
  BY <1>1 DEF IInv, TypeOK, OrderStatus, Release
<1>3. CallInv' /\ AttemptInv' /\ RunInv' /\ TypeOK'
  BY <1>1, <1>2, LeaveStep DEF IInv, TypeOK, run, Serving
<1>4. \A s \in Requests, o \in Orders : MayRefund(s, o)' <=> MayRefund(s, o)
  BY <1>1 DEF SameCalls, MayRefund, OrderOf, ActorOf, RunsGraph, Resumes, Workflow, Authorised,
              Authorises
<1>5. ASSUME NEW o \in Orders, Holds(r, o)
      PROVE  MayRefund(r, o) /\ refunders[o] = {} /\ status[o] = "delivered"
  BY <1>5, WorkflowAssumption DEF Holds, IInv, LockInv
<1>6. RefundOnce'
  BY <1>1, <1>5 DEF IInv, RefundOnce
<1>7. ASSUME NEW o \in Orders
      PROVE  /\ \A s \in refunders'[o] : MayRefund(s, o)'
             /\ rowLock'[o] # Free => /\ MayRefund(rowLock[o], o)'
                                      /\ status'[o] = "delivered" /\ refunders'[o] = {}
  <2>1. CASE Holds(r, o)
    <3>1. refunders'[o] = {r} /\ rowLock'[o] = Free
      BY <1>1, <1>5, <2>1 DEF Release
    <3>2. QED
      BY <1>4, <1>5, <2>1, <3>1
  <2>2. CASE ~Holds(r, o)
    <3>1. refunders'[o] = refunders[o] /\ rowLock'[o] = rowLock[o] /\ status'[o] = status[o]
      BY <1>1, <2>2 DEF Release
    <3>2. QED
      BY <1>4, <3>1 DEF IInv, TypeOK, LockInv
  <2>3. QED
    BY <2>1, <2>2
<1>8. QED
  BY <1>3, <1>6, <1>7 DEF IInv, LockInv

LEMMA AbortInv ==
  ASSUME IInv, NEW r \in Requests, Abort(r)
  PROVE  IInv'
<1>1. /\ pc[r] \in Serving /\ pc' = [pc EXCEPT ![r] = "dead"] /\ SameCalls /\ Release(r)
      /\ ticket' \subseteq Requests /\ dirty' \subseteq dirty
      /\ UNCHANGED <<status, refunders, tickets, ckpt, view, attempts, consent, expired, told>>
  BY DEF Abort, SameCalls, IInv, TypeOK
<1>2. rowLock' \in [Orders -> Requests \cup {Free}] /\ \A o \in Orders : rowLock'[o] \in {Free, rowLock[o]}
  BY <1>1 DEF IInv, TypeOK, Release
<1>3. aborts' \in 0 .. MaxAborts
  BY WorkflowAssumption DEF Abort, IInv, TypeOK
<1>4. CallInv' /\ AttemptInv' /\ RunInv' /\ TypeOK'
  BY <1>1, <1>2, <1>3, LeaveStep DEF IInv, TypeOK
<1>5. LockInv' /\ RefundOnce'
  BY <1>1, <1>2, LocksKept DEF IInv
<1>6. QED
  BY <1>4, <1>5 DEF IInv

LEMMA ExpireInv ==
  ASSUME IInv, NEW w \in Workflows, Expire(w)
  PROVE  IInv'
<1>1. SameCalls /\ pc' = pc /\ UNCHANGED <<store, run, told, aborts>>
  BY DEF Expire, SameCalls
<1>2. TypeOK'
  BY DEF Expire, IInv, TypeOK, store, run
<1>3. CallInv' /\ AttemptInv' /\ RunInv'
  <2>1. CallInv'
    BY <1>1 DEF IInv, CallInv, SameCalls, run, RunsGraph, Resumes, Workflow
  <2>2. AttemptInv'
    BY <1>1 DEF IInv, AttemptInv, run
  <2>3. QED
    BY <1>1, <2>1, <2>2, RunInvSame, CheckpointsKept DEF IInv, run
<1>4. LockInv' /\ RefundOnce'
  BY <1>1, LocksKept DEF IInv, store
<1>5. QED
  BY <1>2, <1>3, <1>4 DEF IInv

-----------------------------------------------------------------------------
(* The invariant and what it implies                                       *)

LEMMA StutterInv == IInv /\ UNCHANGED vars => IInv'
<1> SUFFICES ASSUME IInv, UNCHANGED vars PROVE IInv'
  OBVIOUS
<1> USE DEF IInv, vars
<1>1. TypeOK'
  BY DEF TypeOK
<1>2. CallInv' /\ AttemptInv'
  BY DEF CallInv, AttemptInv, RunsGraph, Resumes, Workflow
<1>3. SameCalls /\ view' = view /\ ckpt' = ckpt /\ UNCHANGED store
  BY DEF SameCalls, store
<1>4. RunInv'
  BY <1>3, RunInvSame, CheckpointsKept
<1>5. LockInv' /\ RefundOnce'
  BY <1>3, LocksKept
<1>6. QED
  BY <1>1, <1>2, <1>4, <1>5

LEMMA GraphStepInv ==
  ASSUME IInv, NEW r \in Requests, GraphStep(r)
  PROVE  IInv'
BY RouteInv, RetrieveOrderInv, RetrievePolicyInv, ProposeInv, InterruptInv, ConfirmationInv,
   RejectInv, RespondInv, EscalateInv, ExecuteReadInv, ExecuteUpdateInv, TransientInv DEF GraphStep

(* Every step keeps the invariant.                                         *)
LEMMA NextInv == IInv /\ [Next]_vars => IInv'
<1> SUFFICES ASSUME IInv, [Next]_vars
             PROVE  IInv'
  OBVIOUS
<1>1. ASSUME NEW r \in Requests, Arrive(r)
      PROVE  IInv'
  BY <1>1, StartInv, ResumeInv, AskRefundInv DEF Arrive
<1>2. ASSUME NEW r \in Requests, Serve(r)
      PROVE  IInv'
  BY <1>2, InspectInv, LoadInv, GraphStepInv, DirectReadInv, DirectUpdateInv, PersistInv,
     AnswerInv, CommitInv DEF Serve
<1>3. CASE UNCHANGED vars
  BY <1>3, StutterInv
<1>4. QED
  BY <1>1, <1>2, <1>3, AbortInv, ExpireInv DEF Next

(* IInv holds in every reachable state, for any requests, workflows and    *)
(* orders: the induction behind the theorems below.                        *)
THEOREM Invariance == Spec => []IInv
BY InitInv, NextInv, PTL DEF Spec

(* The state keeps its types; in particular no node is tried more often    *)
(* than MAX_NODE_ATTEMPTS and no request reports an unknown outcome.       *)
THEOREM TypeCorrect == Spec => []TypeOK
<1>1. IInv => TypeOK
  BY DEF IInv
<1>2. QED
  BY Invariance, <1>1, PTL

(* However confirmations, direct refunds, commits and aborts interleave,   *)
(* an order is refunded once, and only if it was delivered.                *)
THEOREM RefundsOnce == Spec => []RefundOnce
<1>1. IInv => RefundOnce
  BY DEF IInv
<1>2. QED
  BY Invariance, <1>1, PTL

(* No refund takes effect without the owner, or without a confirm call of  *)
(* the workflow's actor when a workflow executed it.                       *)
THEOREM RefundsAuthorised == Spec => []RefundIsAuthorised
<1>1. IInv => RefundIsAuthorised
  BY DEF IInv, LockInv, MayRefund, RefundIsAuthorised, Authorised
<1>2. QED
  BY Invariance, <1>1, PTL

(* A confirmation is only ever asked for with the evidence it rests on.    *)
THEOREM ProposalsGrounded == Spec => []ProposalIsGrounded
<1>1. IInv => ProposalIsGrounded
  BY DEF IInv, RunInv, Grounded, ProposalIsGrounded
<1>2. QED
  BY Invariance, <1>1, PTL

-----------------------------------------------------------------------------
(* Outcomes: the invariants behind the reports and the final states        *)

InGraph == {"graph", "update"}

(* Who may still move a workflow, and what its request must have done.     *)
FlowInv ==
  /\ \A w \in expired : meta[w] # NoMeta
  /\ \A r \in dirty : pc[r] \in InGraph
  /\ \A r \in Requests : told[r] # "none" => pc[r] \in {"answered", "done", "dead"}
  /\ \A r \in Requests : pc[r] = "update" /\ RunsGraph(r) => view[r].node = "execute_refund"
  /\ \A r, s \in Requests :
       call[s].kind = "start" /\ RunsGraph(r) /\ Workflow(r) = Workflow(s)
         => r = s \/ (Resumes(r) /\ told[s] # "none")

(* Requests that share the service run a workflow one at a time, and each  *)
(* continues the checkpoint the one before it left.                        *)
OneRunner ==
  \A r, s \in Requests :
    RunsGraph(r) /\ RunsGraph(s) /\ Workflow(r) = Workflow(s)
      /\ pc[r] \in Running /\ pc[s] \in Running => r = s
InStep(r) == IF r \in dirty THEN ckpt[Workflow(r)].node # "end"
             ELSE view[r] = ckpt[Workflow(r)]
SharedInv ==
  SharedService =>
    /\ \A o \in Orders : rowLock[o] = Free
    /\ OneRunner
    /\ \A r \in Requests : RunsGraph(r) /\ pc[r] \in InGraph => InStep(r)

(* The refund or the ticket a state reports, committed or in a session     *)
(* that still can commit.                                                  *)
RefundUnderWay(w) ==
  /\ meta[w].order \in Orders
  /\ \/ status[meta[w].order] = "refunded"
     \/ \E r \in Requests : RunsGraph(r) /\ Workflow(r) = w /\ rowLock[meta[w].order] = r
TicketUnderWay(w) ==
  \E r \in tickets \cup ticket : RunsGraph(r) /\ Workflow(r) = w
Stored(g, w) ==
  /\ g.node = "respond" => meta[w].intent # "refund"
  /\ g.status = "completed" /\ meta[w].intent = "refund" => RefundUnderWay(w)
  /\ g.status = "escalated" => TicketUnderWay(w)
Holding == InGraph \cup {"answered"}
ReportInv ==
  /\ \A o \in Orders : rowLock[o] # Free => pc[rowLock[o]] \in Holding
  /\ \A r \in ticket : pc[r] \in Holding
  /\ \A r \in tickets \cup ticket : RunsGraph(r)
  /\ aborts = 0 => \A w \in Workflows : Stored(ckpt[w], w)
  /\ aborts = 0 => \A r \in Requests : RunsGraph(r) => Stored(view[r], Workflow(r))

(* A workflow that refunded has nothing left to do but to report it.       *)
Past(g) == g.node \in {"escalate", "end"} /\ g.status \in {"completed", "escalating", "escalated"}
RefundedInv ==
  SharedService /\ aborts = 0 =>
    \A w \in Workflows : RefundsBy(w) # {} =>
      /\ \A r \in Requests : RunsGraph(r) /\ Workflow(r) = w /\ pc[r] \in InGraph => Past(view[r])
      /\ Past(ckpt[w]) \/ \E r \in dirty : Workflow(r) = w

(* What one step of the graph does, whichever node it runs.                *)
NodeEffect(r) ==
  /\ pc[r] \in InGraph /\ RunsGraph(r)
  /\ pc' = [pc EXCEPT ![r] = pc'[r]] /\ pc'[r] \in InGraph
  /\ UNCHANGED <<call, meta, expired, told, aborts, ckpt>>
  /\ pc'[r] = "update" => view'[r].node = "execute_refund"
  /\ view' = [view EXCEPT ![r] = view'[r]]
  /\ \/ view'[r] = view[r] /\ dirty' = dirty
     \/ view[r].node # "end" /\ dirty' = dirty \cup {r}
  /\ view'[r].node = "respond" => view[r].node = "respond" \/ meta[Workflow(r)].intent # "refund"
  /\ view'[r].status = "completed" =>
       \/ view[r].status = "completed" \/ view[r].node = "respond"
       \/ OrderOf(r) \in Orders /\ (status'[OrderOf(r)] = "refunded" \/ rowLock'[OrderOf(r)] = r)
  /\ view'[r].status = "escalated" => view[r].status = "escalated" \/ r \in tickets' \cup ticket'
  /\ Past(view[r]) /\ pc[r] = "graph" => Past(view'[r])
  /\ tickets \subseteq tickets' /\ ticket \subseteq ticket'
  /\ tickets' \subseteq tickets \cup {r} /\ ticket' \subseteq ticket \cup {r}
  /\ \A o \in Orders : status[o] = "refunded" => status'[o] = "refunded"
  /\ \A o \in Orders : rowLock'[o] = rowLock[o] \/ (~SharedService /\ rowLock[o] = Free /\ rowLock'[o] = r)
  /\ \/ refunders' = refunders
     \/ /\ pc[r] = "update" /\ Past(view'[r])
        /\ \A o \in Orders : refunders'[o] \subseteq refunders[o] \cup {r}

LEMMA CompletedView ==
  ASSUME TypeOK, NEW r \in Requests, NEW g \in GraphState, Complete(r, g), g.node = view[r].node
  PROVE  /\ view' = [view EXCEPT ![r] = view'[r]] /\ dirty' = dirty \cup {r}
         /\ view'[r].status = g.status
         /\ view'[r].node = "respond" => meta[Workflow(r)].intent # "refund"
         /\ g.node \in {"execute_refund", "escalate", "end"} => view'[r].node \in {"escalate", "end"}
<1>1. PICK n : n = Successor(g, meta[Workflow(r)].intent)
  OBVIOUS
<1>2. view' = [view EXCEPT ![r] = [g EXCEPT !.node = n]] /\ dirty' = dirty \cup {r}
  BY <1>1 DEF Complete
<1>3. view'[r] = [g EXCEPT !.node = n]
  BY <1>2 DEF TypeOK
<1>4. view'[r].status = g.status /\ view'[r].node = n
  BY <1>3 DEF GraphState
<1>5. n = "respond" => meta[Workflow(r)].intent # "refund"
  BY <1>1 DEF Successor, AfterRoute, AfterEvidence, AfterProposal, AfterConfirmation,
              AfterExecution, AfterResponse
<1>6. g.node \in {"execute_refund", "escalate", "end"} => n \in {"escalate", "end"}
  BY <1>1 DEF Successor, AfterExecution
<1>7. QED
  BY <1>2, <1>3, <1>4, <1>5, <1>6

(* A node that touches no order: its delta decides all of the effect.      *)
LEMMA PlainEffect ==
  ASSUME IInv, NEW r \in Requests, pc[r] = "graph", NEW g \in GraphState, Complete(r, g),
         g.node = view[r].node, g.node # "end", NodeFrame, pc' = pc,
         UNCHANGED <<status, rowLock, refunders>>,
         tickets \subseteq tickets', ticket \subseteq ticket',
         tickets' \subseteq tickets \cup {r}, ticket' \subseteq ticket \cup {r},
         g.status = "completed" => g.node = "respond",
         g.status = "escalated" => r \in tickets' \cup ticket',
         g.node \in {"execute_refund", "escalate"} =>
           g.status \in {"rejected", "escalating", "escalated"},
         g.node = "escalate" => g.status = "escalated"
  PROVE  NodeEffect(r)
<1>1. /\ view' = [view EXCEPT ![r] = view'[r]] /\ dirty' = dirty \cup {r}
      /\ view'[r].status = g.status
      /\ view'[r].node = "respond" => meta[Workflow(r)].intent # "refund"
      /\ g.node \in {"execute_refund", "escalate", "end"} => view'[r].node \in {"escalate", "end"}
  BY CompletedView DEF IInv
<1>2. RunsGraph(r) /\ pc[r] \in InGraph
  BY DEF IInv, CallInv, InGraph
<1>3. Past(view[r]) => Past(view'[r])
  BY <1>1 DEF Past
<1>4. pc' = [pc EXCEPT ![r] = pc'[r]]
  BY DEF IInv, TypeOK
<1>5. QED
  BY <1>1, <1>2, <1>3, <1>4 DEF NodeEffect, NodeFrame

LEMMA EscalatingDelta ==
  ASSUME NEW g \in GraphState
  PROVE  /\ EscalationDelta(g) \in GraphState /\ EscalationDelta(g).node = g.node
         /\ EscalationDelta(g).status = "escalating"
BY EscalationType DEF EscalationDelta, GraphState

LEMMA AttemptedEffect ==
  ASSUME IInv, NEW r \in Requests, NEW n \in RetryNodes, NEW g \in GraphState,
         Attempted(r, n, g), g.node = n, g.status # "escalated",
         g.status = "completed" => n = "respond"
  PROVE  NodeEffect(r)
<1>1. pc[r] = "graph" /\ view[r].node = n /\ UNCHANGED <<status, rowLock, refunders, tickets, ticket>>
  BY DEF Attempted, At, store
<1>2. QED
  BY <1>1, PlainEffect DEF Attempted, RetryNodes

LEMMA ScriptedNodesEffect ==
  ASSUME IInv, NEW r \in Requests, RouteNode(r) \/ Respond(r)
  PROVE  NodeEffect(r)
<1>1. PICK g \in GraphState : g = view[r]
  BY DEF IInv, TypeOK
<1>2. {"route", "respond"} \subseteq RetryNodes
  BY DEF RetryNodes
<1>3. CASE Attempted(r, "route", [g EXCEPT !.status = "routed"]) \/ Attempted(r, "route", EscalationDelta(g))
  <2>1. g.node = "route"
    BY <1>1, <1>3 DEF Attempted, At
  <2>2. PICK h : /\ h \in {[g EXCEPT !.status = "routed"], EscalationDelta(g)}
                 /\ Attempted(r, "route", h)
    BY <1>3
  <2>3. h \in GraphState /\ h.node = "route" /\ h.status \in {"routed", "escalating"}
    BY <2>1, <2>2, EscalatingDelta DEF GraphState, GraphStatus
  <2>4. QED
    BY <1>2, <2>2, <2>3, AttemptedEffect
<1>4. CASE Attempted(r, "respond", [g EXCEPT !.status = "completed"]) \/ Attempted(r, "respond", EscalationDelta(g))
  <2>1. g.node = "respond"
    BY <1>1, <1>4 DEF Attempted, At
  <2>2. PICK h : /\ h \in {[g EXCEPT !.status = "completed"], EscalationDelta(g)}
                 /\ Attempted(r, "respond", h)
    BY <1>4
  <2>3. h \in GraphState /\ h.node = "respond" /\ h.status \in {"completed", "escalating"}
    BY <2>1, <2>2, EscalatingDelta DEF GraphState, GraphStatus
  <2>4. QED
    BY <1>2, <2>2, <2>3, AttemptedEffect
<1>5. QED
  BY <1>1, <1>3, <1>4 DEF RouteNode, Respond

LEMMA TransientEffect ==
  ASSUME IInv, NEW r \in Requests, NEW n \in RetryNodes, Transient(r, n)
  PROVE  NodeEffect(r)
<1>1. /\ pc[r] = "graph" /\ view[r].node = n /\ n # "end" /\ NodeFrame /\ pc' = pc
      /\ UNCHANGED <<status, rowLock, refunders, tickets, ticket>>
  BY DEF Transient, At, store, RetryNodes
<1>2. CASE Complete(r, EscalationDelta(view[r]))
  <2>1. view[r] \in GraphState
    BY DEF IInv, TypeOK
  <2>2. PICK g \in GraphState : g = EscalationDelta(view[r]) /\ g.node = n /\ g.status = "escalating"
    BY <1>1, <2>1, EscalatingDelta
  <2>3. QED
    BY <1>1, <1>2, <2>2, PlainEffect DEF RetryNodes
<1>3. CASE view' = view /\ dirty' = dirty
  <2>1. RunsGraph(r) /\ pc[r] \in InGraph
    BY <1>1 DEF IInv, CallInv, InGraph
  <2>2. /\ pc' = [pc EXCEPT ![r] = pc'[r]] /\ view' = [view EXCEPT ![r] = view'[r]]
        /\ pc'[r] = "graph"
    BY <1>1, <1>3 DEF IInv, TypeOK
  <2>3. QED
    BY <1>1, <1>3, <2>1, <2>2 DEF NodeEffect, NodeFrame
<1>4. QED
  BY <1>2, <1>3 DEF Transient

LEMMA EvidenceEffect ==
  ASSUME IInv, NEW r \in Requests, RetrieveOrder(r) \/ RetrievePolicy(r)
  PROVE  NodeEffect(r)
<1>1. PICK g \in GraphState : g = view[r]
  BY DEF IInv, TypeOK
<1>2. {"retrieve_order", "retrieve_policy"} \subseteq RetryNodes
  BY DEF RetryNodes
<1>3. CASE RetrievePolicy(r)
  <2>1. PICK h : /\ h \in {EscalationDelta(g), [g EXCEPT !.policy = TRUE, !.status = "evidence_ready"]}
                 /\ Attempted(r, "retrieve_policy", h)
    BY <1>1, <1>3 DEF RetrievePolicy
  <2>2. g.node = "retrieve_policy"
    BY <1>1, <2>1 DEF Attempted, At
  <2>3. h \in GraphState /\ h.node = "retrieve_policy" /\ h.status \in {"evidence_ready", "escalating"}
    BY <2>1, <2>2, EscalatingDelta DEF GraphState, GraphStatus
  <2>4. QED
    BY <1>2, <2>1, <2>3, AttemptedEffect
<1>4. CASE RetrieveOrder(r) /\ OrderOf(r) # NoOrder
  <2>1. PICK h : /\ h \in {EscalationDelta(g),
                           [g EXCEPT !.order = status[OrderOf(r)], !.status = "evidence_ready"]}
                 /\ Attempted(r, "retrieve_order", h)
    BY <1>1, <1>4 DEF RetrieveOrder
  <2>2. g.node = "retrieve_order"
    BY <1>1, <2>1 DEF Attempted, At
  <2>3. OrderOf(r) \in Orders
    <3>1. pc[r] = "graph"
      BY <2>1 DEF Attempted, At
    <3>2. RunsGraph(r) /\ meta[Workflow(r)] \in Metas
      BY <3>1, AtNode
    <3>3. QED
      BY <1>4, <3>2 DEF OrderOf, Metas
  <2>4. status[OrderOf(r)] \in OrderStatus
    BY <2>3 DEF IInv, TypeOK
  <2>5. h \in GraphState /\ h.node = "retrieve_order" /\ h.status \in {"evidence_ready", "escalating"}
    BY <2>1, <2>2, <2>4, EscalatingDelta DEF GraphState, GraphStatus
  <2>6. QED
    BY <1>2, <2>1, <2>5, AttemptedEffect
<1>5. CASE RetrieveOrder(r) /\ OrderOf(r) = NoOrder
  <2>1. /\ pc[r] = "graph" /\ g.node = "retrieve_order" /\ Complete(r, EscalationDelta(g))
        /\ NodeFrame /\ pc' = pc /\ UNCHANGED <<status, rowLock, refunders, tickets, ticket>>
    BY <1>1, <1>5 DEF RetrieveOrder, At, store
  <2>2. PICK h \in GraphState : h = EscalationDelta(g) /\ h.node = g.node /\ h.status = "escalating"
    BY EscalatingDelta
  <2>3. QED
    BY <1>1, <2>1, <2>2, PlainEffect
<1>6. QED
  BY <1>3, <1>4, <1>5

LEMMA DecisionEffect ==
  ASSUME IInv, NEW r \in Requests,
         ProposeRefund(r) \/ ConfirmationNode(r) \/ RejectNode(r) \/ Escalate(r)
  PROVE  NodeEffect(r)
<1>1. PICK g \in GraphState : g = view[r]
  BY DEF IInv, TypeOK
<1>2. PICK h : /\ Complete(r, h)
               /\ \/ /\ g.node = "propose_refund"
                     /\ h \in {EscalationDelta(g), [g EXCEPT !.decision = "pending",
                                                            !.status = "awaiting_confirmation"]}
                  \/ /\ g.node = "confirmation" /\ call[r].kind \in {"confirm", "reject"}
                     /\ h = [g EXCEPT !.decision = call[r].kind, !.interrupted = FALSE,
                                      !.status = IF call[r].kind = "confirm" THEN "confirmed"
                                                 ELSE "rejected"]
                  \/ g.node = "reject" /\ h = [g EXCEPT !.status = "rejected"]
                  \/ /\ g.node = "escalate" /\ r \in tickets' \cup ticket'
                     /\ h = [g EXCEPT !.escalation = "completed", !.status = "escalated"]
  <2>1. CASE ProposeRefund(r)
    BY <1>1, <2>1 DEF ProposeRefund, At
  <2>2. CASE ConfirmationNode(r)
    BY <1>1, <2>2 DEF ConfirmationNode, At, Resumes
  <2>3. CASE RejectNode(r)
    BY <1>1, <2>3 DEF RejectNode, At
  <2>4. CASE Escalate(r)
    BY <1>1, <2>4 DEF Escalate, At
  <2>5. QED
    BY <2>1, <2>2, <2>3, <2>4
<1>3. /\ h \in GraphState /\ h.node = g.node /\ h.status # "completed"
      /\ h.node = "escalate" <=> h.status = "escalated"
      /\ h.node \in {"propose_refund", "confirmation", "reject", "escalate"}
  <2>1. CASE h = EscalationDelta(g) /\ g.node = "propose_refund"
    BY <2>1, EscalatingDelta
  <2>2. CASE g.node = "propose_refund" /\ h # EscalationDelta(g)
    <3>1. h = [g EXCEPT !.decision = "pending", !.status = "awaiting_confirmation"]
      BY <1>2, <2>2
    <3>2. QED
      BY <2>2, <3>1 DEF GraphState, GraphStatus
  <2>3. CASE g.node = "confirmation"
    <3>1. PICK k \in {"confirm", "reject"}, st \in {"confirmed", "rejected"} :
            h = [g EXCEPT !.decision = k, !.interrupted = FALSE, !.status = st]
      BY <1>2, <2>3
    <3>2. QED
      BY <2>3, <3>1 DEF GraphState, GraphStatus
  <2>4. CASE g.node = "reject"
    <3>1. h = [g EXCEPT !.status = "rejected"]
      BY <1>2, <2>4
    <3>2. QED
      BY <2>4, <3>1 DEF GraphState, GraphStatus
  <2>5. CASE g.node = "escalate"
    <3>1. h = [g EXCEPT !.escalation = "completed", !.status = "escalated"]
      BY <1>2, <2>5
    <3>2. QED
      BY <2>5, <3>1 DEF GraphState, GraphStatus
  <2>6. QED
    BY <1>2, <2>1, <2>2, <2>3, <2>4, <2>5
<1>4. /\ pc[r] = "graph" /\ NodeFrame /\ pc' = pc /\ UNCHANGED <<status, rowLock, refunders>>
      /\ tickets \subseteq tickets' /\ ticket \subseteq ticket'
      /\ tickets' \subseteq tickets \cup {r} /\ ticket' \subseteq ticket \cup {r}
  BY DEF ProposeRefund, ConfirmationNode, RejectNode, Escalate, At, store
<1>5. h.status = "escalated" => r \in tickets' \cup ticket'
  BY <1>2, <1>3
<1>6. QED
  BY <1>1, <1>2, <1>3, <1>4, <1>5, PlainEffect

LEMMA InterruptEffect ==
  ASSUME IInv, NEW r \in Requests, Interrupt(r)
  PROVE  NodeEffect(r)
<1>1. /\ pc[r] = "graph" /\ view[r].node = "confirmation" /\ NodeFrame /\ pc' = pc
      /\ UNCHANGED <<status, rowLock, refunders, tickets, ticket>> /\ dirty' = dirty \cup {r}
  BY DEF Interrupt, At, store
<1>2. RunsGraph(r) /\ pc[r] \in InGraph /\ pc' = [pc EXCEPT ![r] = pc'[r]]
  BY <1>1 DEF IInv, TypeOK, CallInv, InGraph
<1>3. view'[r] = [view[r] EXCEPT !.interrupted = TRUE] /\ view' = [view EXCEPT ![r] = view'[r]]
  BY DEF Interrupt, IInv, TypeOK
<1>4. view'[r].node = "confirmation" /\ view'[r].status = view[r].status
  BY <1>1, <1>3 DEF IInv, TypeOK, GraphState
<1>5. QED
  BY <1>1, <1>2, <1>3, <1>4 DEF NodeEffect, NodeFrame, Past

LEMMA ExecuteReadEffect ==
  ASSUME IInv, NEW r \in Requests, ExecuteRead(r)
  PROVE  NodeEffect(r)
<1>1. /\ pc[r] = "graph" /\ view[r].node = "execute_refund" /\ NodeFrame
      /\ UNCHANGED <<status, rowLock, refunders, tickets, ticket>>
  BY DEF ExecuteRead, At, store
<1>2. PICK g \in GraphState : g = view[r]
  BY DEF IInv, TypeOK
<1>3. CASE pc' = [pc EXCEPT ![r] = "update"] /\ UNCHANGED <<view, dirty>>
  <2>1. RunsGraph(r) /\ pc[r] \in InGraph
    BY <1>1 DEF IInv, CallInv, InGraph
  <2>2. /\ pc' = [pc EXCEPT ![r] = pc'[r]] /\ view' = [view EXCEPT ![r] = view'[r]]
        /\ pc'[r] = "update"
    BY <1>1, <1>3 DEF IInv, TypeOK
  <2>3. QED
    BY <1>1, <1>3, <2>1, <2>2 DEF NodeEffect, NodeFrame, InGraph
<1>4. CASE /\ pc' = pc
           /\ Complete(r, [g EXCEPT !.status = "rejected"]) \/ Complete(r, EscalationDelta(g))
  <2>1. PICK h : h \in {[g EXCEPT !.status = "rejected"], EscalationDelta(g)} /\ Complete(r, h)
    BY <1>4
  <2>2. h \in GraphState /\ h.node = "execute_refund" /\ h.status \in {"rejected", "escalating"}
    BY <1>1, <1>2, <2>1, EscalatingDelta DEF GraphState, GraphStatus
  <2>3. QED
    BY <1>1, <1>4, <2>1, <2>2, PlainEffect
<1>5. QED
  BY <1>2, <1>3, <1>4 DEF ExecuteRead

LEMMA ExecuteUpdateEffect ==
  ASSUME IInv, FlowInv, NEW r \in Requests, ExecuteUpdate(r)
  PROVE  NodeEffect(r)
<1>1. /\ pc[r] = "update" /\ RunsGraph(r) /\ rowLock[OrderOf(r)] = Free /\ NodeFrame
      /\ pc' = [pc EXCEPT ![r] = "graph"] /\ UpdateRow(r) /\ UNCHANGED <<tickets, ticket>>
  BY DEF ExecuteUpdate
<1>2. PICK o \in Orders : o = OrderOf(r)
  BY <1>1 DEF IInv, RunInv
<1>3. PICK g \in GraphState : g = view[r]
  BY DEF IInv, TypeOK
<1>4. g.node = "execute_refund"
  BY <1>1, <1>3 DEF FlowInv
<1>5. PICK h : /\ Complete(r, h)
               /\ h = IF Matches(r) THEN [g EXCEPT !.order = "refunded", !.status = "completed"]
                      ELSE EscalationDelta(g)
  BY <1>3 DEF ExecuteUpdate
<1>6. /\ Complete(r, h) /\ h \in GraphState /\ h.node = "execute_refund"
      /\ h.status = IF Matches(r) THEN "completed" ELSE "escalating"
  <2>1. CASE Matches(r)
    BY <1>4, <1>5, <2>1 DEF GraphState, GraphStatus, OrderStatus
  <2>2. CASE ~Matches(r)
    BY <1>4, <1>5, <2>2, EscalatingDelta
  <2>3. QED
    BY <2>1, <2>2
<1>7. /\ view' = [view EXCEPT ![r] = view'[r]] /\ dirty' = dirty \cup {r}
      /\ view'[r].status = h.status /\ view'[r].node \in {"escalate", "end"}
  BY <1>3, <1>4, <1>6, CompletedView DEF IInv
<1>8. /\ \A p \in Orders : status[p] = "refunded" => status'[p] = "refunded"
      /\ \A p \in Orders : \/ rowLock'[p] = rowLock[p]
                           \/ ~SharedService /\ rowLock[p] = Free /\ rowLock'[p] = r
      /\ \A p \in Orders : refunders'[p] \subseteq refunders[p] \cup {r}
      /\ Matches(r) => status'[o] = "refunded" \/ rowLock'[o] = r
  <2>1. CASE ~Matches(r)
    BY <1>1, <2>1 DEF UpdateRow
  <2>2. CASE Matches(r) /\ SharedService
    <3>1. /\ status' = [status EXCEPT ![o] = "refunded"] /\ rowLock' = rowLock
          /\ refunders' = [refunders EXCEPT ![o] = @ \cup {r}]
      BY <1>1, <1>2, <2>2 DEF UpdateRow, TakeEffect
    <3>2. QED
      BY <3>1 DEF IInv, TypeOK
  <2>3. CASE Matches(r) /\ ~SharedService
    <3>1. status' = status /\ refunders' = refunders /\ rowLock' = [rowLock EXCEPT ![o] = r]
      BY <1>1, <1>2, <2>3 DEF UpdateRow
    <3>2. QED
      BY <1>1, <1>2, <2>3, <3>1 DEF IInv, TypeOK
  <2>4. QED
    BY <2>1, <2>2, <2>3
<1>9. pc' = [pc EXCEPT ![r] = pc'[r]] /\ pc'[r] = "graph"
  BY <1>1 DEF IInv, TypeOK
<1>10. QED
  BY <1>1, <1>2, <1>3, <1>4, <1>6, <1>7, <1>8, <1>9 DEF NodeEffect, NodeFrame, InGraph, Past

LEMMA GraphStepEffect ==
  ASSUME IInv, FlowInv, NEW r \in Requests, GraphStep(r)
  PROVE  NodeEffect(r)
BY ScriptedNodesEffect, EvidenceEffect, DecisionEffect, InterruptEffect, ExecuteReadEffect,
   ExecuteUpdateEffect, TransientEffect DEF GraphStep

-----------------------------------------------------------------------------
(* Each step keeps the outcome invariants                                  *)

Outcomes == FlowInv /\ SharedInv /\ ReportInv /\ RefundedInv
FullInv == IInv /\ Outcomes

LEMMA Distinct ==
  ASSUME TypeOK, NEW r \in Requests, NEW p, pc' = [pc EXCEPT ![r] = p]
  PROVE  pc'[r] = p /\ \A s \in Requests \ {r} : pc'[s] = pc[s]
BY DEF TypeOK

(* Calls and workflows are the same before and after.                      *)
LEMMA SameRequests ==
  ASSUME SameCalls, NEW s \in Requests
  PROVE  /\ RunsGraph(s)' <=> RunsGraph(s)
         /\ Resumes(s)' <=> Resumes(s)
         /\ Workflow(s)' = Workflow(s) /\ OrderOf(s)' = OrderOf(s) /\ call'[s] = call[s]
BY DEF SameCalls, RunsGraph, Resumes, Workflow, OrderOf

(* A refund or a ticket stays under way until it is committed.             *)
StoreGrows ==
  /\ \A o \in Orders : status[o] = "refunded" => status'[o] = "refunded"
  /\ \A o \in Orders : rowLock'[o] = rowLock[o] \/ rowLock[o] = Free \/ status'[o] = "refunded"
  /\ tickets \cup ticket \subseteq tickets' \cup ticket'

LEMMA StoredKept ==
  ASSUME SameCalls, NEW w \in Workflows, NEW g, Stored(g, w), StoreGrows,
         tickets \cup ticket \subseteq Requests
  PROVE  Stored(g, w)'
<1>1. meta'[w] = meta[w]
  BY DEF SameCalls
<1>2. TicketUnderWay(w) => TicketUnderWay(w)'
  BY SameRequests DEF TicketUnderWay, StoreGrows
<1>3. RefundUnderWay(w) => RefundUnderWay(w)'
  BY <1>1, SameRequests, WorkflowAssumption DEF RefundUnderWay, StoreGrows
<1>4. QED
  BY <1>1, <1>2, <1>3 DEF Stored

(* The states a step does not touch go on reporting what is stored.        *)
LEMMA ReportsKept ==
  ASSUME TypeOK, ReportInv, SameCalls, StoreGrows, aborts' = 0 => aborts = 0,
         \A w \in Workflows :
           \/ ckpt'[w] = ckpt[w]
           \/ \E s \in Requests : RunsGraph(s) /\ Workflow(s) = w /\ ckpt'[w] = view[s],
         \A s \in Requests :
           view'[s] = view[s] \/ (aborts = 0 /\ RunsGraph(s) => Stored(view[s], Workflow(s))'),
         \A o \in Orders : rowLock'[o] # Free => pc'[rowLock'[o]] \in Holding,
         \A s \in ticket' : pc'[s] \in Holding, \A s \in tickets' \cup ticket' : RunsGraph(s)
  PROVE  ReportInv'
<1>1. tickets \cup ticket \subseteq Requests
  BY DEF TypeOK
<1>2. ASSUME aborts = 0, NEW w \in Workflows
      PROVE  Stored(ckpt[w], w)'
  <2>1. CASE ckpt'[w] = ckpt[w]
    <3>1. PICK g : g = ckpt[w]
      OBVIOUS
    <3>2. Stored(g, w)'
      BY <1>1, <1>2, <3>1, StoredKept DEF ReportInv
    <3>3. QED
      BY <2>1, <3>1, <3>2
  <2>2. ASSUME NEW s \in Requests, RunsGraph(s), Workflow(s) = w, ckpt'[w] = view[s]
        PROVE  Stored(ckpt[w], w)'
    <3>1. PICK g : g = view[s]
      OBVIOUS
    <3>2. Stored(g, w)
      BY <1>2, <2>2, <3>1 DEF ReportInv
    <3>3. Stored(g, w)'
      BY <1>1, <3>2, StoredKept
    <3>4. QED
      BY <2>2, <3>1, <3>3
  <2>3. QED
    BY <2>1, <2>2
<1>3. ASSUME aborts = 0, NEW s \in Requests, RunsGraph(s)'
      PROVE  Stored(view[s], Workflow(s))'
  <2>1. CASE view'[s] = view[s]
    <3>1. PICK w \in Workflows : w = Workflow(s)
      BY <1>3, SameRequests, CallTypes
    <3>2. PICK g : g = view[s]
      OBVIOUS
    <3>3. Stored(g, w)
      BY <1>3, <3>1, <3>2, SameRequests DEF ReportInv
    <3>4. Stored(g, w)'
      BY <1>1, <3>3, StoredKept
    <3>5. view[s]' = g /\ Workflow(s)' = w
      BY <2>1, <3>1, <3>2, SameRequests
    <3>6. QED
      BY <3>4, <3>5
  <2>2. CASE view'[s] # view[s]
    BY <1>3, <2>2, SameRequests
  <2>3. QED
    BY <2>1, <2>2
<1>4. \A s \in tickets' \cup ticket' : RunsGraph(s)'
  BY DEF SameCalls, RunsGraph, Resumes
<1>5. QED
  BY <1>2, <1>3, <1>4 DEF ReportInv

LEMMA NodeFlow ==
  ASSUME IInv, FlowInv, NEW r \in Requests, NodeEffect(r)
  PROVE  FlowInv' /\ SameCalls
<1>1. /\ SameCalls /\ TypeOK /\ pc[r] \in InGraph /\ pc'[r] \in InGraph /\ RunsGraph(r)
      /\ expired' = expired /\ told' = told /\ dirty' \subseteq dirty \cup {r}
  BY DEF NodeEffect, SameCalls, IInv
<1>2. \A s \in Requests \ {r} : pc'[s] = pc[s] /\ view'[s] = view[s]
  BY <1>1 DEF NodeEffect, TypeOK
<1>3. \A w \in expired' : meta'[w] # NoMeta
  BY <1>1 DEF FlowInv, SameCalls
<1>4. \A s \in dirty' : pc'[s] \in InGraph
  BY <1>1, <1>2 DEF FlowInv, TypeOK
<1>5. \A s \in Requests : told'[s] # "none" => pc'[s] \in {"answered", "done", "dead"}
  BY <1>1, <1>2 DEF FlowInv, InGraph
<1>6. \A s \in Requests : pc'[s] = "update" /\ RunsGraph(s)' => view'[s].node = "execute_refund"
  BY <1>1, <1>2, SameRequests DEF FlowInv, NodeEffect
<1>7. \A s, t \in Requests :
        call'[t].kind = "start" /\ RunsGraph(s)' /\ Workflow(s)' = Workflow(t)'
          => s = t \/ (Resumes(s)' /\ told'[t] # "none")
  BY <1>1, SameRequests DEF FlowInv
<1>8. QED
  BY <1>1, <1>3, <1>4, <1>5, <1>6, <1>7 DEF FlowInv

LEMMA NodeShared ==
  ASSUME IInv, FlowInv, SharedInv, NEW r \in Requests, NodeEffect(r)
  PROVE  SharedInv'
<1>1. SUFFICES ASSUME SharedService
               PROVE  SharedInv'
  BY DEF SharedInv
<1>2. /\ SameCalls /\ TypeOK /\ pc[r] \in InGraph /\ pc'[r] \in InGraph /\ RunsGraph(r)
      /\ ckpt' = ckpt
  BY NodeFlow DEF NodeEffect, IInv
<1>3. \A s \in Requests \ {r} : pc'[s] = pc[s] /\ view'[s] = view[s] /\ (s \in dirty' <=> s \in dirty)
  BY <1>2 DEF NodeEffect, TypeOK
<1>4. \A o \in Orders : rowLock'[o] = Free
  BY <1>1 DEF NodeEffect, SharedInv
<1>5. OneRunner'
  <2>1. \A s \in Requests : pc'[s] \in Running => pc[s] \in Running
    BY <1>2, <1>3 DEF InGraph, Running
  <2>2. OneRunner
    BY <1>1 DEF SharedInv
  <2>3. QED
    BY <1>2, <2>1, <2>2, SameRequests DEF OneRunner
<1>6. ASSUME NEW s \in Requests, RunsGraph(s)', pc'[s] \in InGraph
      PROVE  InStep(s)'
  <2>1. RunsGraph(s) /\ pc[s] \in InGraph /\ Workflow(s)' = Workflow(s)
    BY <1>2, <1>3, <1>6, SameRequests
  <2>2. InStep(s)
    BY <1>1, <2>1 DEF SharedInv
  <2>3. CASE s # r
    BY <1>2, <1>3, <2>1, <2>2, <2>3 DEF InStep
  <2>4. CASE s = r /\ view'[r] = view[r] /\ dirty' = dirty
    BY <1>2, <2>1, <2>2, <2>4 DEF InStep
  <2>5. CASE s = r /\ view[r].node # "end" /\ dirty' = dirty \cup {r}
    BY <1>2, <2>1, <2>2, <2>5 DEF InStep
  <2>6. QED
    BY <2>3, <2>4, <2>5 DEF NodeEffect
<1>7. QED
  BY <1>4, <1>5, <1>6 DEF SharedInv

LEMMA NodeReport ==
  ASSUME IInv, FlowInv, ReportInv, NEW r \in Requests, NodeEffect(r)
  PROVE  ReportInv'
<1>1. /\ SameCalls /\ TypeOK /\ pc[r] \in InGraph /\ pc'[r] \in InGraph /\ RunsGraph(r)
      /\ ckpt' = ckpt /\ aborts' = aborts
  BY NodeFlow DEF NodeEffect, IInv
<1>2. PICK w \in Workflows : w = Workflow(r)
  BY <1>1, CallTypes
<1>3. \A s \in Requests \ {r} : pc'[s] = pc[s] /\ view'[s] = view[s]
  BY <1>1 DEF NodeEffect, TypeOK
<1>4. StoreGrows
  BY DEF NodeEffect, StoreGrows
<1>5. ASSUME aborts = 0
      PROVE  Stored(view[r], w)'
  <2>1. Stored(view[r], w)
    BY <1>1, <1>2, <1>5 DEF ReportInv
  <2>2. PICK g, h : g = view[r] /\ h = view'[r]
    OBVIOUS
  <2>3. Stored(g, w) /\ meta'[w] = meta[w]
    BY <1>1, <2>1, <2>2 DEF SameCalls
  <2>4. Stored(g, w)'
    BY <1>1, <1>4, <2>3, StoredKept DEF TypeOK
  <2>5. h.node = "respond" => meta[w].intent # "refund"
    BY <1>2, <2>2, <2>3 DEF NodeEffect, Stored
  <2>6. ASSUME h.status = "completed", meta[w].intent = "refund"
        PROVE  RefundUnderWay(w)'
    <3>1. CASE g.status = "completed"
      BY <2>3, <2>4, <2>6, <3>1 DEF Stored
    <3>2. CASE g.status # "completed"
      <4>1. g.node # "respond"
        BY <2>3, <2>6 DEF Stored
      <4>2. OrderOf(r) \in Orders /\ (status'[OrderOf(r)] = "refunded" \/ rowLock'[OrderOf(r)] = r)
        BY <2>2, <2>6, <3>2, <4>1 DEF NodeEffect
      <4>3. OrderOf(r) = meta'[w].order /\ RunsGraph(r)' /\ Workflow(r)' = w
        BY <1>1, <1>2, <2>3, SameRequests DEF OrderOf
      <4>4. QED
        BY <4>2, <4>3 DEF RefundUnderWay
    <3>3. QED
      BY <3>1, <3>2
  <2>7. ASSUME h.status = "escalated"
        PROVE  TicketUnderWay(w)'
    <3>1. CASE g.status = "escalated"
      BY <2>4, <3>1 DEF Stored
    <3>2. CASE g.status # "escalated"
      <4>1. r \in tickets' \cup ticket'
        BY <2>2, <2>7, <3>2 DEF NodeEffect
      <4>2. RunsGraph(r)' /\ Workflow(r)' = w
        BY <1>1, <1>2, SameRequests
      <4>3. QED
        BY <4>1, <4>2 DEF TicketUnderWay
    <3>3. QED
      BY <3>1, <3>2
  <2>8. Stored(h, w)'
    BY <2>3, <2>5, <2>6, <2>7 DEF Stored
  <2>9. QED
    BY <2>2, <2>8
<1>6. \A o \in Orders : rowLock'[o] # Free => pc'[rowLock'[o]] \in Holding
  <2>1. pc[r] \in Holding /\ pc'[r] \in Holding
    BY <1>1 DEF Holding
  <2>2. \A o \in Orders : rowLock[o] # Free => rowLock[o] \in Requests /\ pc[rowLock[o]] \in Holding
    BY <1>1 DEF ReportInv, TypeOK
  <2>3. QED
    BY <1>3, <2>1, <2>2 DEF NodeEffect
<1>7. (\A s \in ticket' : pc'[s] \in Holding) /\ (\A s \in tickets' \cup ticket' : RunsGraph(s))
  BY <1>1, <1>3 DEF NodeEffect, ReportInv, TypeOK, Holding
<1>8. QED
  <2>1. Stored(view[r], Workflow(r))' <=> Stored(view[r], w)'
    BY <1>1, <1>2, SameRequests
  <2>2. QED
    BY <1>1, <1>3, <1>4, <1>5, <1>6, <1>7, <2>1, ReportsKept

(* The refunds of a workflow, when no call changes.                        *)
LEMMA RefundsKept ==
  ASSUME SameCalls, TypeOK, refunders' = refunders, NEW w \in Workflows
  PROVE  RefundsBy(w)' = RefundsBy(w)
BY DEF SameCalls, RefundsBy, RunsGraph, Resumes, Workflow

LEMMA NodeRefunded ==
  ASSUME IInv, FlowInv, SharedInv, RefundedInv, NEW r \in Requests, NodeEffect(r)
  PROVE  RefundedInv'
<1>1. /\ SameCalls /\ TypeOK /\ pc[r] \in InGraph /\ pc'[r] \in InGraph /\ RunsGraph(r)
      /\ ckpt' = ckpt /\ aborts' = aborts /\ dirty \subseteq dirty'
  BY NodeFlow DEF NodeEffect, IInv
<1>2. \A s \in Requests \ {r} : pc'[s] = pc[s] /\ view'[s] = view[s]
  BY <1>1 DEF NodeEffect, TypeOK
<1>3. SUFFICES ASSUME SharedService, aborts = 0, NEW w \in Workflows, RefundsBy(w)' # {}
               PROVE  /\ \A s \in Requests : RunsGraph(s)' /\ Workflow(s)' = w /\ pc'[s] \in InGraph
                                               => Past(view'[s])
                      /\ Past(ckpt'[w]) \/ \E s \in dirty' : Workflow(s)' = w
  BY <1>1 DEF RefundedInv
<1>4. \A s \in Requests : RunsGraph(s) /\ Workflow(s) = w /\ pc[s] \in InGraph /\ Workflow(r) = w => s = r
  BY <1>1, <1>3 DEF SharedInv, OneRunner, InGraph, Running
<1>5. CASE RefundsBy(w) # {}
  <2>1. /\ \A s \in Requests : RunsGraph(s) /\ Workflow(s) = w /\ pc[s] \in InGraph => Past(view[s])
        /\ Past(ckpt[w]) \/ \E s \in dirty : Workflow(s) = w
    BY <1>3, <1>5 DEF RefundedInv
  <2>2. Workflow(r) = w => Past(view'[r])
    <3>1. Workflow(r) = w => pc[r] = "graph"
      BY <1>1, <2>1 DEF InGraph, FlowInv, Past
    <3>2. QED
      BY <1>1, <2>1, <3>1 DEF NodeEffect
  <2>3. dirty \subseteq Requests
    BY <1>1 DEF TypeOK
  <2>4. QED
    BY <1>1, <1>2, <2>1, <2>2, <2>3, SameRequests
<1>6. CASE RefundsBy(w) = {}
  <2>1. refunders' # refunders
    BY <1>1, <1>3, <1>6, RefundsKept
  <2>2. Past(view'[r]) /\ \A o \in Orders : refunders'[o] \subseteq refunders[o] \cup {r}
    BY <2>1 DEF NodeEffect
  <2>3. PICK o \in Orders : \E s \in refunders'[o] : RunsGraph(s)' /\ Workflow(s)' = w
    BY <1>3 DEF RefundsBy
  <2>4. PICK s \in refunders'[o] : RunsGraph(s)' /\ Workflow(s)' = w
    BY <2>3
  <2>5. s = r
    <3>1. s \in Requests /\ (s \in refunders[o] => s = r)
      BY <1>1, <1>6, <2>2, <2>4, SameRequests DEF RefundsBy, TypeOK
    <3>2. QED
      BY <2>2, <2>4, <3>1
  <2>6. Workflow(r) = w
    BY <1>1, <2>4, <2>5, SameRequests
  <2>7. r \in dirty'
    <3>1. Past(view[r]) => pc[r] # "update"
      BY <1>1 DEF FlowInv, Past
    <3>2. view'[r] # view[r]
      BY <2>1, <2>2, <3>1 DEF NodeEffect
    <3>3. QED
      BY <3>2 DEF NodeEffect
  <2>8. QED
    BY <1>1, <1>2, <1>4, <2>2, <2>6, <2>7, SameRequests
<1>7. QED
  BY <1>5, <1>6

LEMMA GraphStepOutcomes ==
  ASSUME FullInv, NEW r \in Requests, GraphStep(r)
  PROVE  Outcomes'
BY GraphStepEffect, NodeFlow, NodeShared, NodeReport, NodeRefunded DEF FullInv, Outcomes

-----------------------------------------------------------------------------
(* Steps beside the graph                                                  *)

(* Requests are checked, answered, committed or refused; no graph moves.   *)
LEMMA AsideStep ==
  ASSUME FullInv, SameCalls, UNCHANGED <<ckpt, view, dirty, aborts>>, StoreGrows,
         \A w \in expired' : meta[w] # NoMeta,
         \A s \in Requests :
           /\ s \in dirty => pc'[s] \in InGraph
           /\ told'[s] # "none" => pc'[s] \in {"answered", "done", "dead"}
           /\ told[s] # "none" => told'[s] # "none"
           /\ RunsGraph(s) /\ pc'[s] \in InGraph => pc[s] = pc'[s],
         \A o \in Orders : rowLock'[o] # Free => pc'[rowLock'[o]] \in Holding,
         \A s \in ticket' : pc'[s] \in Holding, \A s \in tickets' \cup ticket' : RunsGraph(s),
         SharedService => /\ OneRunner' /\ \A o \in Orders : rowLock'[o] = Free
                          /\ refunders' = refunders \/ \A w \in Workflows : RefundsBy(w)' = RefundsBy(w)
  PROVE  Outcomes'
<1>1. TypeOK /\ FlowInv /\ SharedInv /\ ReportInv /\ RefundedInv /\ dirty \subseteq Requests
  BY DEF FullInv, Outcomes, IInv, TypeOK
<1>2. \A s, t \in Requests :
        call'[t].kind = "start" /\ RunsGraph(s)' /\ Workflow(s)' = Workflow(t)'
          => s = t \/ (Resumes(s)' /\ told'[t] # "none")
  BY <1>1, SameRequests DEF FlowInv
<1>3. FlowInv'
  <2>1. /\ \A w \in expired' : meta'[w] # NoMeta
        /\ \A s \in dirty' : pc'[s] \in InGraph
        /\ \A s \in Requests : told'[s] # "none" => pc'[s] \in {"answered", "done", "dead"}
    BY <1>1 DEF SameCalls
  <2>2. \A s \in Requests : pc'[s] = "update" /\ RunsGraph(s)' => view'[s].node = "execute_refund"
    BY <1>1, SameRequests DEF FlowInv, InGraph
  <2>3. QED
    BY <1>2, <2>1, <2>2 DEF FlowInv
<1>4. SharedInv'
  BY <1>1, SameRequests DEF SharedInv, InStep
<1>5. ReportInv'
  BY <1>1, ReportsKept
<1>6. RefundedInv'
  <2>1. SharedService => \A w \in Workflows : RefundsBy(w)' = RefundsBy(w)
    BY <1>1, RefundsKept
  <2>2. \A s \in Requests : Workflow(s)' = Workflow(s) /\ (RunsGraph(s)' <=> RunsGraph(s))
    BY SameRequests
  <2>3. QED
    BY <1>1, <2>1, <2>2 DEF RefundedInv
<1>7. QED
  BY <1>3, <1>4, <1>5, <1>6 DEF Outcomes

LEMMA RunnersKept ==
  ASSUME SharedInv, SameCalls, SharedService,
         \A s \in Requests : RunsGraph(s) /\ pc'[s] \in Running => pc[s] \in Running
  PROVE  OneRunner'
BY SameRequests DEF SharedInv, OneRunner

LEMMA StillOutcomes ==
  ASSUME FullInv, UNCHANGED vars \/ \E w \in Workflows : Expire(w)
  PROVE  Outcomes'
<1>1. /\ SameCalls /\ UNCHANGED <<store, ckpt, view, dirty, pc, told, aborts>>
      /\ \A w \in expired' : w \in expired \/ meta[w] # NoMeta
  BY DEF vars, Expire, SameCalls, store, run
<1>2. FlowInv /\ SharedInv /\ ReportInv /\ (\A w \in expired' : meta[w] # NoMeta) /\ StoreGrows
      /\ dirty \subseteq Requests
  BY <1>1 DEF FullInv, Outcomes, FlowInv, StoreGrows, store, IInv, TypeOK
<1>3. SharedService => OneRunner' /\ (\A o \in Orders : rowLock'[o] = Free) /\ refunders' = refunders
  BY <1>1, <1>2, RunnersKept DEF SharedInv, store
<1>4. /\ \A s \in Requests :
           /\ s \in dirty => pc'[s] \in InGraph
           /\ told'[s] # "none" => pc'[s] \in {"answered", "done", "dead"}
           /\ told[s] # "none" => told'[s] # "none"
           /\ RunsGraph(s) /\ pc'[s] \in InGraph => pc[s] = pc'[s]
      /\ \A o \in Orders : rowLock'[o] # Free => pc'[rowLock'[o]] \in Holding
      /\ (\A s \in ticket' : pc'[s] \in Holding) /\ \A s \in tickets' \cup ticket' : RunsGraph(s)
  BY <1>1, <1>2 DEF FlowInv, ReportInv, store
<1>5. QED
  BY <1>1, <1>2, <1>3, <1>4, AsideStep

(* A request that moves on by itself, leaving the database alone.          *)
LEMMA MoveOutcomes ==
  ASSUME FullInv, SameCalls, UNCHANGED <<store, ckpt, view, dirty, aborts, expired>>,
         NEW r \in Requests, NEW p, pc' = [pc EXCEPT ![r] = p], r \notin dirty, pc[r] \in Serving,
         \A s \in Requests \ {r} : told'[s] = told[s], told[r] # "none" => told'[r] # "none",
         told'[r] # "none" => p \in {"answered", "done"},
         RunsGraph(r) => p \notin InGraph,
         p \in Holding \/ (r \notin ticket /\ \A o \in Orders : rowLock[o] # r),
         SharedService => OneRunner'
  PROVE  Outcomes'
<1>1. TypeOK /\ FlowInv /\ SharedInv /\ ReportInv /\ StoreGrows /\ dirty \subseteq Requests
      /\ ticket \subseteq Requests
  BY DEF FullInv, Outcomes, IInv, TypeOK, StoreGrows, store
<1>2. pc'[r] = p /\ \A s \in Requests \ {r} : pc'[s] = pc[s]
  BY <1>1, Distinct
<1>3. SharedService => (\A o \in Orders : rowLock'[o] = Free) /\ refunders' = refunders
  BY <1>1 DEF SharedInv, store
<1>4. \A s \in Requests :
        /\ s \in dirty => pc'[s] \in InGraph
        /\ told'[s] # "none" => pc'[s] \in {"answered", "done", "dead"}
        /\ told[s] # "none" => told'[s] # "none"
        /\ RunsGraph(s) /\ pc'[s] \in InGraph => pc[s] = pc'[s]
  BY <1>1, <1>2 DEF FlowInv
<1>5. \A o \in Orders : rowLock'[o] # Free => pc'[rowLock'[o]] \in Holding
  <2>1. \A o \in Orders : rowLock[o] # Free => rowLock[o] \in Requests /\ pc[rowLock[o]] \in Holding
    BY <1>1 DEF ReportInv, TypeOK
  <2>2. QED
    BY <1>2, <2>1 DEF store
<1>6. (\A s \in ticket' : pc'[s] \in Holding) /\ \A s \in tickets' \cup ticket' : RunsGraph(s)
  BY <1>1, <1>2 DEF ReportInv, store
<1>7. \A w \in expired' : meta[w] # NoMeta
  BY <1>1 DEF FlowInv
<1>8. QED
  BY <1>1, <1>3, <1>4, <1>5, <1>6, <1>7, AsideStep

LEMMA InspectOutcomes ==
  ASSUME FullInv, NEW r \in Requests, Inspect(r)
  PROVE  Outcomes'
<1>1. /\ pc[r] = "waiting" /\ LockFree(r) /\ SameCalls
      /\ UNCHANGED <<store, ckpt, view, dirty, aborts, expired>>
      /\ \/ pc' = [pc EXCEPT ![r] = "checked"] /\ told' = told
         \/ pc' = [pc EXCEPT ![r] = "done"] /\ told' = [told EXCEPT ![r] = Refusal(r)] /\ Refusal(r) # "none"
  BY DEF Inspect, Refuse, SameCalls, run
<1>2. /\ TypeOK /\ CallInv /\ FlowInv /\ SharedInv /\ ReportInv /\ Resumes(r) /\ told[r] = "none"
      /\ r \notin dirty
  BY <1>1 DEF FullInv, Outcomes, IInv, CallInv, FlowInv, InGraph
<1>3. PICK p \in {"checked", "done"} : /\ pc' = [pc EXCEPT ![r] = p]
                                       /\ told'[r] # "none" => p = "done"
  BY <1>1, <1>2
<1>4. r \notin ticket /\ \A o \in Orders : rowLock[o] # r
  BY <1>1, <1>2, WorkflowAssumption DEF ReportInv, Holding, InGraph
<1>5. \A s \in Requests \ {r} : told'[s] = told[s]
  BY <1>1, <1>2 DEF TypeOK
<1>6. ASSUME SharedService
      PROVE  OneRunner'
  <2>1. /\ pc'[r] = p /\ \A s \in Requests \ {r} : pc'[s] = pc[s]
    BY <1>2, <1>3, Distinct
  <2>2. ASSUME NEW s \in Requests \ {r}, RunsGraph(s), Workflow(s) = Workflow(r), pc[s] \in Running
        PROVE  FALSE
    <3>1. ~Resumes(s)
      BY <1>1, <1>6, <2>2 DEF LockFree
    <3>2. call[s].kind = "start"
      BY <2>2, <3>1 DEF RunsGraph
    <3>3. told[s] # "none"
      BY <1>2, <2>2, <3>2 DEF FlowInv, RunsGraph
    <3>4. QED
      BY <1>2, <2>2, <3>3 DEF FlowInv, Running
  <2>3. OneRunner
    BY <1>2, <1>6 DEF SharedInv
  <2>4. QED
    BY <1>1, <2>1, <2>2, <2>3, SameRequests DEF OneRunner
<1>7. p \notin InGraph /\ pc[r] \in Serving
  BY <1>1 DEF InGraph, Serving
<1>8. QED
  BY <1>1, <1>2, <1>3, <1>4, <1>5, <1>6, <1>7, MoveOutcomes

LEMMA AnswerOutcomes ==
  ASSUME FullInv, NEW r \in Requests, Answer(r)
  PROVE  Outcomes'
<1>1. /\ pc[r] = "graph" /\ r \notin dirty /\ SameCalls /\ pc' = [pc EXCEPT ![r] = "answered"]
      /\ told' = [told EXCEPT ![r] = ckpt[Workflow(r)].status]
      /\ UNCHANGED <<store, ckpt, view, dirty, aborts, expired>>
  BY DEF Answer, SameCalls, run
<1>2. TypeOK /\ FlowInv /\ SharedInv /\ told[r] = "none"
  BY <1>1 DEF FullInv, Outcomes, IInv, FlowInv
<1>3. \A s \in Requests \ {r} : told'[s] = told[s] /\ pc'[s] = pc[s]
  BY <1>1, <1>2 DEF TypeOK
<1>4. pc'[r] = "answered" /\ "answered" \in Holding /\ "answered" \notin InGraph /\ pc[r] \in Serving
  BY <1>1, <1>2, Distinct DEF Holding, InGraph, Serving
<1>5. SharedService => OneRunner'
  <2>1. \A s \in Requests : pc'[s] \in Running => pc[s] \in Running
    BY <1>3, <1>4 DEF Running
  <2>2. QED
    BY <1>1, <1>2, <2>1, RunnersKept
<1>6. PICK p : p = "answered"
  OBVIOUS
<1>7. QED
  BY <1>1, <1>2, <1>3, <1>4, <1>5, <1>6, MoveOutcomes

LEMMA DirectReadOutcomes ==
  ASSUME FullInv, NEW r \in Requests, DirectRead(r)
  PROVE  Outcomes'
<1>1. /\ pc[r] = "reading" /\ SameCalls /\ UNCHANGED <<store, ckpt, view, dirty, aborts, expired>>
      /\ \/ pc' = [pc EXCEPT ![r] = "update"] /\ told' = told
         \/ pc' = [pc EXCEPT ![r] = "done"] /\ told' = [told EXCEPT ![r] = ReadError(r)]
  BY DEF DirectRead, Refuse, SameCalls, run
<1>2. /\ TypeOK /\ FlowInv /\ SharedInv /\ ReportInv /\ ~RunsGraph(r) /\ told[r] = "none"
      /\ r \notin dirty
  BY <1>1 DEF FullInv, Outcomes, IInv, CallInv, FlowInv, InGraph, RunsGraph, Resumes
<1>3. PICK p \in {"update", "done"} : /\ pc' = [pc EXCEPT ![r] = p]
                                      /\ told'[r] # "none" => p = "done"
  BY <1>1, <1>2
<1>4. r \notin ticket /\ \A o \in Orders : rowLock[o] # r
  BY <1>1, <1>2, WorkflowAssumption DEF ReportInv, Holding, InGraph
<1>5. \A s \in Requests \ {r} : told'[s] = told[s] /\ pc'[s] = pc[s]
  BY <1>1, <1>2 DEF TypeOK
<1>6. SharedService => OneRunner'
  BY <1>1, <1>2, <1>5, RunnersKept
<1>7. pc[r] \in Serving
  BY <1>1 DEF Serving
<1>8. QED
  BY <1>1, <1>2, <1>3, <1>4, <1>5, <1>6, <1>7, MoveOutcomes

LEMMA DirectUpdateOutcomes ==
  ASSUME FullInv, NEW r \in Requests, DirectUpdate(r)
  PROVE  Outcomes'
<1>1. /\ pc[r] = "update" /\ ~RunsGraph(r) /\ rowLock[OrderOf(r)] = Free /\ SameCalls /\ UpdateRow(r)
      /\ UNCHANGED <<tickets, ticket, ckpt, view, dirty, aborts, expired>>
      /\ pc' = [pc EXCEPT ![r] = IF Matches(r) THEN "answered" ELSE "done"]
      /\ told' = [told EXCEPT ![r] = IF Matches(r) THEN "refunded" ELSE "invalid_transition"]
  BY DEF DirectUpdate, SameCalls, run
<1>2. /\ TypeOK /\ FlowInv /\ SharedInv /\ ReportInv /\ LockInv /\ told[r] = "none"
      /\ OrderOf(r) \in Orders /\ r \notin dirty
  BY <1>1 DEF FullInv, Outcomes, IInv, FlowInv, RunInv, CallInv
<1>3. PICK p \in {"answered", "done"} :
        /\ pc'[r] = p /\ (p = "answered" <=> Matches(r)) /\ told'[r] # "none"
        /\ \A s \in Requests \ {r} : pc'[s] = pc[s] /\ told'[s] = told[s]
  BY <1>1, <1>2 DEF TypeOK
<1>4. PICK o \in Orders : o = OrderOf(r)
  BY <1>2
<1>5. \A q \in Orders : rowLock[q] # r
  BY <1>1, <1>2, <1>4, WorkflowAssumption DEF LockInv, MayRefund
<1>6. /\ \A q \in Orders : status[q] = "refunded" => status'[q] = "refunded"
      /\ \A q \in Orders : rowLock'[q] = rowLock[q] \/ (~SharedService /\ rowLock[q] = Free /\ rowLock'[q] = r /\ p = "answered")
      /\ \A q \in Orders : refunders'[q] \subseteq refunders[q] \cup {r} /\ refunders[q] \subseteq refunders'[q]
  <2>1. CASE ~Matches(r)
    BY <1>1, <2>1 DEF UpdateRow
  <2>2. CASE Matches(r) /\ SharedService
    <3>1. /\ status' = [status EXCEPT ![o] = "refunded"] /\ rowLock' = rowLock
          /\ refunders' = [refunders EXCEPT ![o] = @ \cup {r}]
      BY <1>1, <1>4, <2>2 DEF UpdateRow, TakeEffect
    <3>2. QED
      BY <1>2, <3>1 DEF TypeOK
  <2>3. CASE Matches(r) /\ ~SharedService
    <3>1. status' = status /\ refunders' = refunders /\ rowLock' = [rowLock EXCEPT ![o] = r]
      BY <1>1, <1>4, <2>3 DEF UpdateRow
    <3>2. QED
      BY <1>1, <1>2, <1>3, <1>4, <2>3, <3>1 DEF TypeOK
  <2>4. QED
    BY <2>1, <2>2, <2>3
<1>7. \A w \in Workflows : RefundsBy(w)' = RefundsBy(w)
  <2>1. ~RunsGraph(r)' /\ \A s \in Requests : (RunsGraph(s)' <=> RunsGraph(s)) /\ Workflow(s)' = Workflow(s)
    BY <1>1, SameRequests
  <2>2. \A q \in Orders : refunders[q] \subseteq Requests
    BY <1>2 DEF TypeOK
  <2>3. ASSUME NEW w \in Workflows
        PROVE  RefundsBy(w)' = RefundsBy(w)
    <3>1. ASSUME NEW s
          PROVE  s \in RefundsBy(w)' <=> s \in RefundsBy(w)
      BY <1>1, <1>6, <2>1, <2>2 DEF RefundsBy
    <3>2. QED
      BY <3>1 DEF RefundsBy
  <2>4. QED
    BY <2>3
<1>8. StoreGrows /\ \A w \in expired' : meta[w] # NoMeta
  BY <1>1, <1>2, <1>6 DEF StoreGrows, FlowInv
<1>9. \A s \in Requests :
        /\ s \in dirty => pc'[s] \in InGraph
        /\ told'[s] # "none" => pc'[s] \in {"answered", "done", "dead"}
        /\ told[s] # "none" => told'[s] # "none"
        /\ RunsGraph(s) /\ pc'[s] \in InGraph => pc[s] = pc'[s]
  BY <1>1, <1>2, <1>3 DEF FlowInv
<1>10. \A q \in Orders : rowLock'[q] # Free => pc'[rowLock'[q]] \in Holding
  <2>1. \A q \in Orders : rowLock[q] # Free => rowLock[q] \in Requests /\ pc[rowLock[q]] \in Holding
    BY <1>2 DEF ReportInv, TypeOK
  <2>2. QED
    BY <1>3, <1>5, <1>6, <2>1 DEF Holding
<1>11. (\A s \in ticket' : pc'[s] \in Holding) /\ \A s \in tickets' \cup ticket' : RunsGraph(s)
  BY <1>1, <1>2, <1>3 DEF ReportInv, TypeOK
<1>12. SharedService => OneRunner' /\ \A q \in Orders : rowLock'[q] = Free
  <2>1. SharedService => \A q \in Orders : rowLock'[q] = Free
    BY <1>2, <1>6 DEF SharedInv
  <2>2. \A s \in Requests : RunsGraph(s) /\ pc'[s] \in Running => pc[s] \in Running
    BY <1>1, <1>3
  <2>3. QED
    BY <1>1, <1>2, <2>1, <2>2, RunnersKept
<1>13. QED
  BY <1>1, <1>7, <1>8, <1>9, <1>10, <1>11, <1>12, AsideStep

LEMMA CommitOutcomes ==
  ASSUME FullInv, NEW r \in Requests, Commit(r)
  PROVE  Outcomes'
<1>1. /\ pc[r] = "answered" /\ pc' = [pc EXCEPT ![r] = "done"] /\ Release(r) /\ SameCalls
      /\ status' = [o \in Orders |-> IF Holds(r, o) THEN "refunded" ELSE status[o]]
      /\ refunders' = [o \in Orders |-> IF Holds(r, o) THEN refunders[o] \cup {r} ELSE refunders[o]]
      /\ tickets' = tickets \cup (ticket \cap {r}) /\ ticket' = ticket \ {r}
      /\ UNCHANGED <<ckpt, view, dirty, aborts, expired, told>>
  BY DEF Commit, SameCalls, run
<1>2. /\ TypeOK /\ FlowInv /\ SharedInv /\ ReportInv
  BY DEF FullInv, Outcomes, IInv
<1>3. pc'[r] = "done" /\ \A s \in Requests \ {r} : pc'[s] = pc[s]
  BY <1>1, <1>2, Distinct
<1>4. \A o \in Orders : /\ rowLock'[o] = IF rowLock[o] = r THEN Free ELSE rowLock[o]
                        /\ rowLock[o] = r => status'[o] = "refunded"
                        /\ status[o] = "refunded" => status'[o] = "refunded"
  BY <1>1 DEF Release, Holds
<1>5. StoreGrows /\ \A w \in expired' : meta[w] # NoMeta
  BY <1>1, <1>2, <1>4 DEF StoreGrows, FlowInv
<1>6. \A s \in Requests :
        /\ s \in dirty => pc'[s] \in InGraph
        /\ told'[s] # "none" => pc'[s] \in {"answered", "done", "dead"}
        /\ told[s] # "none" => told'[s] # "none"
        /\ RunsGraph(s) /\ pc'[s] \in InGraph => pc[s] = pc'[s]
  BY <1>1, <1>2, <1>3 DEF FlowInv, InGraph
<1>7. \A o \in Orders : rowLock'[o] # Free => pc'[rowLock'[o]] \in Holding
  <2>1. \A o \in Orders : rowLock[o] # Free => rowLock[o] \in Requests /\ pc[rowLock[o]] \in Holding
    BY <1>2 DEF ReportInv, TypeOK
  <2>2. QED
    BY <1>3, <1>4, <2>1
<1>8. (\A s \in ticket' : pc'[s] \in Holding) /\ \A s \in tickets' \cup ticket' : RunsGraph(s)
  BY <1>1, <1>2, <1>3 DEF ReportInv, TypeOK
<1>9. ASSUME SharedService
      PROVE  OneRunner' /\ (\A o \in Orders : rowLock'[o] = Free) /\ refunders' = refunders
  <2>1. \A o \in Orders : rowLock[o] = Free /\ ~Holds(r, o)
    BY <1>2, <1>9, WorkflowAssumption DEF SharedInv, Holds
  <2>2. refunders' = refunders
    BY <1>1, <1>2, <2>1 DEF TypeOK
  <2>3. \A s \in Requests : pc'[s] \in Running => pc[s] \in Running
    BY <1>3 DEF Running
  <2>4. QED
    BY <1>1, <1>2, <1>4, <1>9, <2>1, <2>2, <2>3, RunnersKept
<1>10. QED
  BY <1>1, <1>5, <1>6, <1>7, <1>8, <1>9, AsideStep

LEMMA LoadOutcomes ==
  ASSUME FullInv, NEW r \in Requests, Load(r)
  PROVE  Outcomes'
<1>1. /\ pc[r] = "checked" /\ pc' = [pc EXCEPT ![r] = "graph"] /\ SameCalls
      /\ view' = [view EXCEPT ![r] = ckpt[Workflow(r)]]
      /\ UNCHANGED <<status, rowLock, tickets, ticket, refunders, ckpt, dirty, expired, told, aborts>>
  BY DEF Load, SameCalls, store
<1>2. /\ TypeOK /\ FlowInv /\ SharedInv /\ ReportInv /\ RefundedInv
      /\ Resumes(r) /\ RunsGraph(r) /\ told[r] = "none" /\ r \notin dirty /\ dirty \subseteq Requests
  BY <1>1 DEF FullInv, Outcomes, IInv, TypeOK, CallInv, FlowInv, InGraph, RunsGraph
<1>3. PICK w \in Workflows : w = Workflow(r)
  BY <1>2, CallTypes
<1>4. /\ pc'[r] = "graph" /\ view'[r] = ckpt[w]
      /\ \A s \in Requests \ {r} : pc'[s] = pc[s] /\ view'[s] = view[s]
  BY <1>1, <1>2, <1>3 DEF TypeOK
<1>5. FlowInv'
  <2>1. /\ \A v \in expired' : meta'[v] # NoMeta
        /\ \A s \in dirty' : pc'[s] \in InGraph
        /\ \A s \in Requests : told'[s] # "none" => pc'[s] \in {"answered", "done", "dead"}
    BY <1>1, <1>2, <1>4 DEF SameCalls, FlowInv
  <2>2. \A s \in Requests : pc'[s] = "update" /\ RunsGraph(s)' => view'[s].node = "execute_refund"
    BY <1>1, <1>2, <1>4, SameRequests DEF FlowInv
  <2>3. \A s, t \in Requests :
          call'[t].kind = "start" /\ RunsGraph(s)' /\ Workflow(s)' = Workflow(t)'
            => s = t \/ (Resumes(s)' /\ told'[t] # "none")
    BY <1>1, <1>2, SameRequests DEF FlowInv
  <2>4. QED
    BY <2>1, <2>2, <2>3 DEF FlowInv
<1>6. SharedInv'
  <2>1. SUFFICES ASSUME SharedService
                 PROVE  SharedInv'
    BY DEF SharedInv
  <2>2. OneRunner'
    BY <1>1, <1>2, <1>4, <2>1, RunnersKept DEF Running
  <2>3. ASSUME NEW s \in Requests, RunsGraph(s)', pc'[s] \in InGraph
        PROVE  InStep(s)'
    BY <1>1, <1>2, <1>3, <1>4, <2>1, <2>3, SameRequests DEF SharedInv, InStep
  <2>4. QED
    BY <1>1, <1>2, <2>1, <2>2, <2>3 DEF SharedInv
<1>7. ReportInv'
  <2>1. StoreGrows
    BY <1>1 DEF StoreGrows
  <2>2. ASSUME aborts = 0
        PROVE  Stored(view[r], Workflow(r))'
    <3>1. PICK g : g = ckpt[w]
      OBVIOUS
    <3>2. Stored(g, w)
      BY <1>2, <2>2, <3>1 DEF ReportInv
    <3>3. Stored(g, w)'
      BY <1>1, <1>2, <2>1, <3>2, StoredKept DEF TypeOK
    <3>4. view[r]' = g /\ Workflow(r)' = w
      BY <1>1, <1>3, <1>4, <3>1, SameRequests
    <3>5. QED
      BY <3>3, <3>4
  <2>3. /\ \A o \in Orders : rowLock'[o] # Free => pc'[rowLock'[o]] \in Holding
        /\ \A s \in ticket' : pc'[s] \in Holding
        /\ \A s \in tickets' \cup ticket' : RunsGraph(s)
    <3>1. \A o \in Orders : rowLock[o] # Free => rowLock[o] \in Requests /\ pc[rowLock[o]] \in Holding
      BY <1>2 DEF ReportInv, TypeOK
    <3>2. "graph" \in Holding
      BY DEF Holding, InGraph
    <3>3. QED
      BY <1>1, <1>2, <1>4, <3>1, <3>2 DEF ReportInv, TypeOK
  <2>4. \A s \in Requests :
          view'[s] = view[s] \/ (aborts = 0 /\ RunsGraph(s) => Stored(view[s], Workflow(s))')
    BY <1>4, <2>2
  <2>5. QED
    BY <1>1, <1>2, <2>1, <2>3, <2>4, ReportsKept
<1>8. RefundedInv'
  <2>1. SUFFICES ASSUME SharedService, aborts = 0, NEW v \in Workflows, RefundsBy(v) # {}
                 PROVE  /\ \A s \in Requests : RunsGraph(s)' /\ Workflow(s)' = v /\ pc'[s] \in InGraph
                                                 => Past(view'[s])
                        /\ Past(ckpt'[v]) \/ \E s \in dirty' : Workflow(s)' = v
    BY <1>1, <1>2, RefundsKept DEF RefundedInv
  <2>2. /\ \A s \in Requests : RunsGraph(s) /\ Workflow(s) = v /\ pc[s] \in InGraph => Past(view[s])
        /\ Past(ckpt[v]) \/ \E s \in dirty : Workflow(s) = v
    BY <1>2, <2>1 DEF RefundedInv
  <2>3. Workflow(r) = v => Past(view'[r])
    <3>1. ASSUME NEW s \in dirty, Workflow(s) = v, Workflow(r) = v
          PROVE  FALSE
      <4>1. pc[s] \in Running /\ pc[r] \in Running /\ RunsGraph(s) /\ s \in Requests
        BY <1>1, <1>2 DEF FlowInv, InGraph, Running, FullInv, IInv, CallInv
      <4>2. QED
        BY <1>2, <2>1, <3>1, <4>1 DEF SharedInv, OneRunner
    <3>2. QED
      BY <1>3, <1>4, <2>2, <3>1
  <2>4. QED
    BY <1>1, <1>2, <1>4, <2>2, <2>3, SameRequests
<1>9. QED
  BY <1>5, <1>6, <1>7, <1>8 DEF Outcomes

LEMMA PersistOutcomes ==
  ASSUME FullInv, NEW r \in Requests, Persist(r)
  PROVE  Outcomes'
<1>1. /\ r \in dirty /\ pc[r] \in InGraph /\ SameCalls
      /\ ckpt' = [ckpt EXCEPT ![Workflow(r)] = view[r]] /\ dirty' = dirty \ {r}
      /\ UNCHANGED <<status, rowLock, tickets, ticket, refunders, view, expired, pc, told, aborts>>
  BY DEF Persist, SameCalls, store, InGraph
<1>2. /\ TypeOK /\ FlowInv /\ SharedInv /\ ReportInv /\ RefundedInv
      /\ RunsGraph(r) /\ dirty \subseteq Requests
  BY <1>1 DEF FullInv, Outcomes, IInv, TypeOK, CallInv
<1>3. PICK w \in Workflows : w = Workflow(r)
  BY <1>2, CallTypes
<1>4. ckpt'[w] = view[r] /\ \A v \in Workflows \ {w} : ckpt'[v] = ckpt[v]
  BY <1>1, <1>2, <1>3 DEF TypeOK
<1>5. FlowInv'
  <2>1. \A s, t \in Requests :
          call'[t].kind = "start" /\ RunsGraph(s)' /\ Workflow(s)' = Workflow(t)'
            => s = t \/ (Resumes(s)' /\ told'[t] # "none")
    BY <1>1, <1>2, SameRequests DEF FlowInv
  <2>2. \A s \in Requests : pc'[s] = "update" /\ RunsGraph(s)' => view'[s].node = "execute_refund"
    BY <1>1, <1>2, SameRequests DEF FlowInv
  <2>3. QED
    BY <1>1, <1>2, <2>1, <2>2 DEF FlowInv, SameCalls
<1>6. SharedInv'
  <2>1. SUFFICES ASSUME SharedService
                 PROVE  SharedInv'
    BY DEF SharedInv
  <2>2. OneRunner'
    BY <1>1, <1>2, <2>1, RunnersKept
  <2>3. ASSUME NEW s \in Requests, RunsGraph(s)', pc'[s] \in InGraph
        PROVE  InStep(s)'
    <3>1. RunsGraph(s) /\ pc[s] \in InGraph /\ Workflow(s)' = Workflow(s) /\ InStep(s)
      BY <1>1, <1>2, <2>1, <2>3, SameRequests DEF SharedInv
    <3>2. CASE s = r
      BY <1>1, <1>3, <1>4, <3>1, <3>2 DEF InStep
    <3>3. CASE s # r
      <4>1. Workflow(s) # w /\ Workflow(s) \in Workflows
        BY <1>1, <1>2, <1>3, <2>1, <3>1, <3>3, CallTypes DEF SharedInv, OneRunner, InGraph, Running
      <4>2. ckpt'[Workflow(s)] = ckpt[Workflow(s)]
        BY <1>4, <4>1
      <4>3. QED
        BY <1>1, <3>1, <3>3, <4>2 DEF InStep
    <3>4. QED
      BY <3>2, <3>3
  <2>4. QED
    BY <1>1, <1>2, <2>1, <2>2, <2>3 DEF SharedInv
<1>7. ReportInv'
  <2>1. StoreGrows
    BY <1>1 DEF StoreGrows
  <2>2. \A v \in Workflows :
          \/ ckpt'[v] = ckpt[v]
          \/ \E s \in Requests : RunsGraph(s) /\ Workflow(s) = v /\ ckpt'[v] = view[s]
    BY <1>2, <1>3, <1>4
  <2>3. /\ \A o \in Orders : rowLock'[o] # Free => pc'[rowLock'[o]] \in Holding
        /\ \A s \in ticket' : pc'[s] \in Holding
        /\ \A s \in tickets' \cup ticket' : RunsGraph(s)
    BY <1>1, <1>2 DEF ReportInv
  <2>4. QED
    BY <1>1, <1>2, <2>1, <2>2, <2>3, ReportsKept
<1>8. RefundedInv'
  <2>1. SUFFICES ASSUME SharedService, aborts = 0, NEW v \in Workflows, RefundsBy(v) # {}
                 PROVE  /\ \A s \in Requests : RunsGraph(s)' /\ Workflow(s)' = v /\ pc'[s] \in InGraph
                                                 => Past(view'[s])
                        /\ Past(ckpt'[v]) \/ \E s \in dirty' : Workflow(s)' = v
    BY <1>1, <1>2, RefundsKept DEF RefundedInv
  <2>2. /\ \A s \in Requests : RunsGraph(s) /\ Workflow(s) = v /\ pc[s] \in InGraph => Past(view[s])
        /\ Past(ckpt[v]) \/ \E s \in dirty : Workflow(s) = v
    BY <1>2, <2>1 DEF RefundedInv
  <2>3. CASE v = w
    BY <1>1, <1>2, <1>3, <1>4, <2>2, <2>3, SameRequests
  <2>4. CASE v # w
    <3>1. \A s \in dirty : Workflow(s) = v => s # r /\ Workflow(s)' = v
      BY <1>1, <1>2, <1>3, <2>4, SameRequests
    <3>2. QED
      BY <1>1, <1>2, <1>4, <2>2, <2>4, <3>1, SameRequests
  <2>5. QED
    BY <2>3, <2>4
<1>9. QED
  BY <1>5, <1>6, <1>7, <1>8 DEF Outcomes

LEMMA AbortOutcomes ==
  ASSUME FullInv, NEW r \in Requests, Abort(r)
  PROVE  Outcomes'
<1>1. /\ pc' = [pc EXCEPT ![r] = "dead"] /\ Release(r) /\ SameCalls /\ aborts' = aborts + 1
      /\ ticket' = ticket \ {r} /\ dirty' = dirty \ {r}
      /\ UNCHANGED <<status, refunders, tickets, ckpt, view, expired, told>>
  BY DEF Abort, SameCalls
<1>2. /\ TypeOK /\ FlowInv /\ SharedInv /\ ReportInv /\ dirty \subseteq Requests
      /\ ticket \subseteq Requests
  BY DEF FullInv, Outcomes, IInv, TypeOK
<1>3. pc'[r] = "dead" /\ \A s \in Requests \ {r} : pc'[s] = pc[s]
  BY <1>1, <1>2, Distinct
<1>4. \A o \in Orders : rowLock'[o] = IF rowLock[o] = r THEN Free ELSE rowLock[o]
  BY <1>1 DEF Release, Holds
<1>5. aborts' # 0
  BY <1>1, <1>2 DEF TypeOK
<1>6. FlowInv'
  <2>1. \A s, t \in Requests :
          call'[t].kind = "start" /\ RunsGraph(s)' /\ Workflow(s)' = Workflow(t)'
            => s = t \/ (Resumes(s)' /\ told'[t] # "none")
    BY <1>1, <1>2, SameRequests DEF FlowInv
  <2>2. \A s \in Requests : pc'[s] = "update" /\ RunsGraph(s)' => view'[s].node = "execute_refund"
    BY <1>1, <1>2, <1>3, SameRequests DEF FlowInv
  <2>3. \A s \in dirty' : pc'[s] \in InGraph
    BY <1>1, <1>2, <1>3 DEF FlowInv
  <2>4. \A s \in Requests : told'[s] # "none" => pc'[s] \in {"answered", "done", "dead"}
    BY <1>1, <1>2, <1>3 DEF FlowInv
  <2>5. QED
    BY <1>1, <1>2, <2>1, <2>2, <2>3, <2>4 DEF FlowInv, SameCalls
<1>7. SharedInv'
  <2>1. SUFFICES ASSUME SharedService
                 PROVE  SharedInv'
    BY DEF SharedInv
  <2>2. OneRunner'
    BY <1>1, <1>2, <1>3, <2>1, RunnersKept DEF Running
  <2>3. ASSUME NEW s \in Requests, RunsGraph(s)', pc'[s] \in InGraph
        PROVE  InStep(s)'
    <3>1. s # r
      BY <1>3, <2>3 DEF InGraph
    <3>2. RunsGraph(s) /\ pc[s] \in InGraph /\ Workflow(s)' = Workflow(s)
      BY <1>1, <1>3, <2>3, <3>1, SameRequests
    <3>3. InStep(s)
      BY <1>2, <2>1, <3>2 DEF SharedInv
    <3>4. QED
      BY <1>1, <3>1, <3>2, <3>3 DEF InStep
  <2>4. \A o \in Orders : rowLock'[o] = Free
    BY <1>2, <1>4, <2>1 DEF SharedInv
  <2>5. QED
    BY <2>2, <2>3, <2>4 DEF SharedInv
<1>8. ReportInv'
  <2>1. \A o \in Orders : rowLock'[o] # Free => pc'[rowLock'[o]] \in Holding
    <3>1. \A o \in Orders : rowLock[o] # Free => rowLock[o] \in Requests /\ pc[rowLock[o]] \in Holding
      BY <1>2 DEF ReportInv, TypeOK
    <3>2. QED
      BY <1>3, <1>4, <3>1
  <2>2. \A s \in ticket' : pc'[s] \in Holding
    BY <1>1, <1>2, <1>3 DEF ReportInv
  <2>3. \A s \in tickets' \cup ticket' : RunsGraph(s)'
    BY <1>1, <1>2, SameRequests DEF ReportInv, TypeOK
  <2>4. QED
    BY <1>5, <2>1, <2>2, <2>3 DEF ReportInv
<1>9. RefundedInv'
  BY <1>5 DEF RefundedInv
<1>10. QED
  BY <1>6, <1>7, <1>8, <1>9 DEF Outcomes

-----------------------------------------------------------------------------
(* Arrivals                                                                *)

LEMMA StoredExtends ==
  ASSUME TypeOK, CallInv, ReportInv, Extends, UNCHANGED store, NEW w \in Workflows, NEW g,
         Stored(g, w), meta[w] # NoMeta \/ g = FreshState
  PROVE  Stored(g, w)'
<1>1. CASE g = FreshState
  BY <1>1 DEF Stored, FreshState
<1>2. CASE meta[w] # NoMeta
  <2>1. meta'[w] = meta[w]
    BY <1>2 DEF Extends
  <2>2. \A s \in Requests : RunsGraph(s) => call[s].kind # "idle" /\ RunsGraph(s)' /\ Workflow(s)' = Workflow(s)
    BY CallTypes, CallStable
  <2>3. tickets \cup ticket \subseteq Requests
    BY DEF TypeOK
  <2>4. RefundUnderWay(w) => RefundUnderWay(w)'
    BY <2>1, <2>2 DEF RefundUnderWay, store
  <2>5. TicketUnderWay(w) => TicketUnderWay(w)'
    BY <2>2, <2>3 DEF TicketUnderWay, store
  <2>6. QED
    BY <2>1, <2>4, <2>5 DEF Stored
<1>3. QED
  BY <1>1, <1>2

(* A request arrives: it starts a workflow nobody names yet, or it may     *)
(* resume one whose start was answered.                                    *)
LEMMA ArrivalOutcomes ==
  ASSUME FullInv, Extends, NEW r \in Requests, call[r].kind = "idle",
         \A s \in Requests \ {r} : call'[s] = call[s] /\ pc'[s] = pc[s],
         UNCHANGED <<store, ckpt, view, told, aborts>>,
         \A w \in expired' : meta'[w] # NoMeta,
         \/ /\ call'[r].kind = "start" /\ pc'[r] = "graph" /\ dirty' = dirty \cup {r}
            /\ Workflow(r)' \in Workflows /\ meta[Workflow(r)'] = NoMeta
         \/ /\ call'[r].kind # "start" /\ pc'[r] \notin Running /\ dirty' = dirty
            /\ RunsGraph(r)' => Resumes(r)' /\ \E s \in Requests :
                 /\ call[s].kind = "start" /\ Workflow(s) = Workflow(r)' /\ told[s] # "none"
  PROVE  Outcomes'
<1>1. /\ TypeOK /\ CallInv /\ RunInv /\ LockInv /\ FlowInv /\ SharedInv /\ ReportInv /\ RefundedInv
      /\ dirty \subseteq Requests /\ tickets \subseteq Requests /\ ticket \subseteq Requests
  BY DEF FullInv, Outcomes, IInv, TypeOK
<1>2. /\ pc[r] = "idle" /\ ~RunsGraph(r) /\ r \notin dirty /\ view[r] = FreshState /\ told[r] = "none"
  BY <1>1 DEF CallInv, RunsGraph, Resumes, RunInv, FlowInv
<1>3. ASSUME NEW s \in Requests, s # r
      PROVE  /\ RunsGraph(s)' <=> RunsGraph(s)
             /\ Resumes(s)' <=> Resumes(s)
             /\ Workflow(s)' = Workflow(s)
             /\ RunsGraph(s) => meta[Workflow(s)] # NoMeta /\ Workflow(s) \in Workflows
  BY <1>1, <1>3, CallTypes DEF RunsGraph, Resumes, Workflow, CallInv
<1>4. FlowInv'
  <2>1. ASSUME NEW s \in Requests, NEW t \in Requests, call'[t].kind = "start", RunsGraph(s)',
               Workflow(s)' = Workflow(t)', s # t
        PROVE  Resumes(s)' /\ told'[t] # "none"
    <3>1. CASE s # r /\ t # r
      BY <1>1, <1>3, <2>1, <3>1 DEF FlowInv
    <3>2. CASE t = r
      BY <1>3, <2>1, <3>2
    <3>3. CASE s = r
      <4>1. t # r /\ call[t].kind = "start" /\ RunsGraph(t) /\ Workflow(t)' = Workflow(t)
        BY <1>3, <2>1, <3>3 DEF RunsGraph
      <4>2. call'[r].kind # "start"
        BY <1>3, <2>1, <3>3, <4>1
      <4>3. PICK u \in Requests : /\ call[u].kind = "start" /\ Workflow(u) = Workflow(r)'
                                  /\ told[u] # "none"
        BY <2>1, <3>3, <4>2
      <4>4. u = t
        BY <1>1, <2>1, <3>3, <4>1, <4>3 DEF FlowInv, RunsGraph, Resumes
      <4>5. QED
        BY <2>1, <3>3, <4>2, <4>3, <4>4
    <3>4. QED
      BY <3>1, <3>2, <3>3
  <2>2. \A s \in dirty' : pc'[s] \in InGraph
    BY <1>1, <1>2 DEF FlowInv, InGraph
  <2>3. \A s \in Requests : told'[s] # "none" => pc'[s] \in {"answered", "done", "dead"}
    BY <1>1, <1>2 DEF FlowInv
  <2>4. \A s \in Requests : pc'[s] = "update" /\ RunsGraph(s)' => view'[s].node = "execute_refund"
    BY <1>1, <1>2, <1>3 DEF FlowInv, Running
  <2>5. QED
    BY <2>1, <2>2, <2>3, <2>4 DEF FlowInv
<1>5. SharedInv'
  <2>1. SUFFICES ASSUME SharedService
                 PROVE  SharedInv'
    BY DEF SharedInv
  <2>2. OneRunner'
    <3>1. SUFFICES ASSUME NEW s \in Requests, NEW t \in Requests, RunsGraph(s)', RunsGraph(t)',
                          Workflow(s)' = Workflow(t)', pc'[s] \in Running, pc'[t] \in Running, s # t
                   PROVE  FALSE
      BY DEF OneRunner
    <3>2. CASE s # r /\ t # r
      BY <1>1, <1>3, <2>1, <3>1, <3>2 DEF SharedInv, OneRunner
    <3>3. CASE s = r \/ t = r
      BY <1>3, <3>1, <3>3
    <3>4. QED
      BY <3>2, <3>3
  <2>3. ASSUME NEW s \in Requests, RunsGraph(s)', pc'[s] \in InGraph
        PROVE  InStep(s)'
    <3>1. CASE s = r
      BY <1>1, <2>3, <3>1 DEF InStep, CallInv, FreshState, InGraph, Running
    <3>2. CASE s # r
      BY <1>1, <1>3, <2>1, <2>3, <3>2 DEF SharedInv, InStep
    <3>3. QED
      BY <3>1, <3>2
  <2>4. QED
    BY <1>1, <2>1, <2>2, <2>3 DEF SharedInv, store
<1>6. ReportInv'
  <2>1. \A s \in tickets \cup ticket : s # r
    BY <1>1, <1>2 DEF ReportInv
  <2>2. \A o \in Orders : rowLock[o] # Free => rowLock[o] # r /\ rowLock[o] \in Requests
    BY <1>1 DEF LockInv, MayRefund, TypeOK
  <2>3. /\ \A o \in Orders : rowLock'[o] # Free => pc'[rowLock'[o]] \in Holding
        /\ \A s \in ticket' : pc'[s] \in Holding
        /\ \A s \in tickets' \cup ticket' : RunsGraph(s)'
    BY <1>1, <1>3, <2>1, <2>2 DEF ReportInv, store
  <2>4. ASSUME aborts = 0, NEW w \in Workflows
        PROVE  Stored(ckpt[w], w)'
    <3>1. PICK g : g = ckpt[w]
      OBVIOUS
    <3>2. Stored(g, w)'
      BY <1>1, <2>4, <3>1, StoredExtends DEF ReportInv, CallInv
    <3>3. QED
      BY <3>1, <3>2
  <2>5. ASSUME aborts = 0, NEW s \in Requests, RunsGraph(s)'
        PROVE  Stored(view[s], Workflow(s))'
    <3>1. CASE s = r
      BY <1>2, <3>1 DEF Stored, FreshState
    <3>2. CASE s # r
      <4>1. RunsGraph(s) /\ meta[Workflow(s)] # NoMeta
        BY <1>3, <2>5, <3>2
      <4>2. PICK w \in Workflows : w = Workflow(s)
        BY <1>3, <2>5, <3>2
      <4>3. PICK g : g = view[s]
        OBVIOUS
      <4>4. Stored(g, w)
        BY <1>1, <2>5, <4>1, <4>2, <4>3 DEF ReportInv
      <4>5. Stored(g, w)'
        BY <1>1, <4>1, <4>2, <4>4, StoredExtends
      <4>6. view[s]' = g /\ Workflow(s)' = w
        BY <1>3, <3>2, <4>2, <4>3
      <4>7. QED
        BY <4>5, <4>6
    <3>3. QED
      BY <3>1, <3>2
  <2>6. QED
    BY <2>3, <2>4, <2>5 DEF ReportInv
<1>7. RefundedInv'
  <2>1. SUFFICES ASSUME SharedService, aborts = 0, NEW w \in Workflows, RefundsBy(w)' # {}
                 PROVE  /\ \A s \in Requests : RunsGraph(s)' /\ Workflow(s)' = w /\ pc'[s] \in InGraph
                                                 => Past(view'[s])
                        /\ Past(ckpt'[w]) \/ \E s \in dirty' : Workflow(s)' = w
    BY DEF RefundedInv
  <2>2. \A o \in Orders : refunders[o] \subseteq Requests /\ r \notin refunders[o]
    BY <1>1 DEF LockInv, MayRefund, TypeOK
  <2>3. PICK o \in Orders : \E s \in refunders[o] : RunsGraph(s)' /\ Workflow(s)' = w
    BY <2>1 DEF RefundsBy, store
  <2>4. PICK s \in refunders[o] : RunsGraph(s)' /\ Workflow(s)' = w
    BY <2>3
  <2>5. RunsGraph(s) /\ Workflow(s) = w /\ meta[w] # NoMeta
    BY <1>3, <2>2, <2>4
  <2>6. RefundsBy(w) # {}
    BY <2>4, <2>5 DEF RefundsBy
  <2>7. /\ \A t \in Requests : RunsGraph(t) /\ Workflow(t) = w /\ pc[t] \in InGraph => Past(view[t])
        /\ Past(ckpt[w]) \/ \E t \in dirty : Workflow(t) = w
    BY <1>1, <2>1, <2>6 DEF RefundedInv
  <2>8. ASSUME NEW t \in Requests, RunsGraph(t)', Workflow(t)' = w, pc'[t] \in InGraph
        PROVE  Past(view'[t])
    <3>1. t # r
      BY <2>5, <2>8 DEF InGraph, Running
    <3>2. QED
      BY <1>3, <2>7, <2>8, <3>1
  <2>9. Past(ckpt'[w]) \/ \E t \in dirty' : Workflow(t)' = w
    BY <1>1, <1>2, <1>3, <2>7
  <2>10. QED
    BY <2>8, <2>9
<1>8. QED
  BY <1>4, <1>5, <1>6, <1>7 DEF Outcomes

LEMMA ArriveOutcomes ==
  ASSUME FullInv, NEW r \in Requests, Arrive(r)
  PROVE  Outcomes'
<1>1. TypeOK /\ CallInv /\ FlowInv
  BY DEF FullInv, Outcomes, IInv
<1>2. ASSUME NEW w \in Workflows, NEW c \in Customers, NEW o \in Orders \cup {NoOrder},
             NEW i \in Intents, Start(r, w, c, o, i)
      PROVE  Outcomes'
  <2>1. /\ Extends /\ call[r].kind = "idle" /\ meta[w] = NoMeta
        /\ UNCHANGED <<store, ckpt, view, told, aborts>>
    BY <1>1, <1>2 DEF Start, Extends, CallInv
  <2>2. /\ call'[r] = [kind |-> "start", wf |-> w] /\ pc'[r] = "graph" /\ dirty' = dirty \cup {r}
        /\ \A s \in Requests \ {r} : call'[s] = call[s] /\ pc'[s] = pc[s]
    BY <1>1, <1>2 DEF Start, TypeOK
  <2>3. meta'[w] # NoMeta
    BY <1>1, <1>2, WorkflowAssumption DEF Start, TypeOK, NoMeta, AllIntents
  <2>4. \A v \in expired' : meta'[v] # NoMeta
    BY <1>1, <1>2, <2>1, <2>3 DEF Start, FlowInv, Extends, TypeOK
  <2>5. call'[r].kind = "start" /\ Workflow(r)' = w
    BY <2>2 DEF Workflow
  <2>6. QED
    BY <2>1, <2>2, <2>4, <2>5, ArrivalOutcomes
<1>3. ASSUME NEW kind \in {"confirm", "reject"}, NEW w \in Workflows, NEW c \in Customers,
             NEW b \in BOOLEAN, Resume(r, kind, w, c, b)
      PROVE  Outcomes'
  <2>1. /\ Extends /\ call[r].kind = "idle" /\ Known(w) /\ meta' = meta
        /\ UNCHANGED <<store, ckpt, view, dirty, expired, told, aborts>>
    BY <1>1, <1>3 DEF Resume, Extends, CallInv, run
  <2>2. /\ call'[r] = [kind |-> kind, wf |-> w, actor |-> c, sameId |-> b] /\ pc'[r] = "waiting"
        /\ \A s \in Requests \ {r} : call'[s] = call[s] /\ pc'[s] = pc[s]
    BY <1>1, <1>3 DEF Resume, TypeOK
  <2>3. call'[r].kind # "start" /\ Workflow(r)' = w /\ Resumes(r)' /\ pc'[r] \notin Running
    BY <2>2 DEF Workflow, Resumes, Running
  <2>4. \A v \in expired' : meta'[v] # NoMeta
    BY <1>1, <2>1 DEF FlowInv
  <2>5. \E s \in Requests : /\ call[s].kind = "start" /\ Workflow(s) = Workflow(r)'
                            /\ told[s] # "none"
    BY <2>1, <2>3 DEF Known, Workflow
  <2>6. QED
    BY <2>1, <2>2, <2>3, <2>4, <2>5, ArrivalOutcomes
<1>4. ASSUME NEW c \in Customers, NEW o \in Orders, AskRefund(r, c, o)
      PROVE  Outcomes'
  <2>1. /\ Extends /\ call[r].kind = "idle" /\ meta' = meta
        /\ UNCHANGED <<store, ckpt, view, dirty, expired, told, aborts>>
    BY <1>1, <1>4 DEF AskRefund, Extends, CallInv, run
  <2>2. /\ call'[r] = [kind |-> "refund", actor |-> c, order |-> o] /\ pc'[r] = "reading"
        /\ \A s \in Requests \ {r} : call'[s] = call[s] /\ pc'[s] = pc[s]
    BY <1>1, <1>4 DEF AskRefund, TypeOK
  <2>3. call'[r].kind # "start" /\ ~RunsGraph(r)' /\ pc'[r] \notin Running
    BY <2>2 DEF RunsGraph, Resumes, Running
  <2>4. \A v \in expired' : meta'[v] # NoMeta
    BY <1>1, <2>1 DEF FlowInv
  <2>5. QED
    BY <2>1, <2>2, <2>3, <2>4, ArrivalOutcomes
<1>5. QED
  BY <1>2, <1>3, <1>4 DEF Arrive

LEMMA InitOutcomes == Init => Outcomes
<1> SUFFICES ASSUME Init PROVE Outcomes
  OBVIOUS
<1> USE DEF Init
<1>1. FlowInv
  BY DEF FlowInv, RunsGraph, Resumes
<1>2. SharedInv
  BY DEF SharedInv, OneRunner, RunsGraph, Resumes
<1>3. ReportInv
  BY DEF ReportInv, Stored, FreshState, RunsGraph, Resumes
<1>4. RefundedInv
  BY DEF RefundedInv, RefundsBy
<1>5. QED
  BY <1>1, <1>2, <1>3, <1>4 DEF Outcomes

LEMMA NextOutcomes == FullInv /\ [Next]_vars => Outcomes'
<1> SUFFICES ASSUME FullInv, [Next]_vars
             PROVE  Outcomes'
  OBVIOUS
<1>1. ASSUME NEW r \in Requests, Serve(r)
      PROVE  Outcomes'
  BY <1>1, InspectOutcomes, LoadOutcomes, GraphStepOutcomes, DirectReadOutcomes,
     DirectUpdateOutcomes, PersistOutcomes, AnswerOutcomes, CommitOutcomes DEF Serve
<1>2. QED
  BY <1>1, ArriveOutcomes, AbortOutcomes, StillOutcomes DEF Next

(* The outcome invariants hold in every reachable state.                   *)
THEOREM OutcomesHold == Spec => []Outcomes
<1>1. Init => Outcomes
  BY InitOutcomes
<1>2. IInv /\ Outcomes /\ [Next]_vars => Outcomes'
  BY NextOutcomes DEF FullInv
<1>3. QED
  BY <1>1, <1>2, Invariance, PTL DEF Spec

(* As long as no request died before its session committed, what a quiet   *)
(* workflow reports is in the database, in both deployments and however    *)
(* many requests race for its order: the refund its checkpoint claims, and *)
(* the ticket behind an escalation.                                        *)
THEOREM ReportsStored == Spec => [](aborts = 0 => ReportIsStored)
<1>1. IInv /\ Outcomes => (aborts = 0 => ReportIsStored)
  <2>1. SUFFICES ASSUME IInv, Outcomes, aborts = 0, NEW w \in Workflows, Quiet(w)
                 PROVE  /\ meta[w].intent = "refund" /\ ckpt[w].status = "completed"
                             => status[meta[w].order] = "refunded"
                        /\ ckpt[w].status = "escalated" => TicketsBy(w) # {}
    BY DEF ReportIsStored, CompletedIsRefunded
  <2>2. Stored(ckpt[w], w) /\ ReportInv /\ TypeOK
    BY <2>1 DEF Outcomes, ReportInv, IInv
  <2>3. \A r \in Requests : RunsGraph(r) /\ Workflow(r) = w => pc[r] \notin Holding
    BY <2>1 DEF Quiet, Holding, InGraph, Serving
  <2>4. RefundUnderWay(w) => status[meta[w].order] = "refunded"
    BY <2>2, <2>3, WorkflowAssumption DEF RefundUnderWay, ReportInv
  <2>5. TicketUnderWay(w) => TicketsBy(w) # {}
    BY <2>2, <2>3 DEF TicketUnderWay, TicketsBy, ReportInv, TypeOK
  <2>6. QED
    BY <2>2, <2>4, <2>5 DEF Stored
<1>2. QED
  BY <1>1, Invariance, OutcomesHold, PTL

(* In the deployment that shares the service, a workflow that reports      *)
(* "rejected" refunded nothing.                                            *)
THEOREM RejectionsHold == ASSUME SharedService PROVE Spec => []RejectionHolds
<1>1. IInv /\ Outcomes => RejectionHolds
  <2>1. SUFFICES ASSUME IInv, Outcomes, aborts = 0, NEW w \in Workflows, Quiet(w),
                        ckpt[w].status = "rejected", RefundsBy(w) # {}
                 PROVE  FALSE
    BY DEF RejectionHolds
  <2>2. Past(ckpt[w]) \/ \E r \in dirty : Workflow(r) = w
    BY <2>1 DEF Outcomes, RefundedInv
  <2>3. \A r \in dirty : r \in Requests /\ RunsGraph(r) /\ pc[r] \in Serving
    BY <2>1 DEF Outcomes, FlowInv, InGraph, Serving, IInv, TypeOK, CallInv
  <2>4. QED
    BY <2>1, <2>2, <2>3 DEF Quiet, Past
<1>2. QED
  BY <1>1, Invariance, OutcomesHold, PTL

(* In the deployment that shares the service, a finished workflow keeps    *)
(* its outcome: WorkflowService._lock and the checks of _resume let one    *)
(* run at a time continue the latest checkpoint, and none one that ended.  *)
THEOREM OutcomesFinal == ASSUME SharedService PROVE Spec => OutcomeIsFinal
<1>1. IInv /\ Outcomes /\ [Next]_vars
        => [\A w \in Workflows : ckpt[w].node = "end" => ckpt'[w] = ckpt[w]]_vars
  <2>1. SUFFICES ASSUME IInv, Outcomes, Next, NEW w \in Workflows, ckpt[w].node = "end"
                 PROVE  ckpt'[w] = ckpt[w]
    BY DEF vars
  <2>2. CASE ckpt' = ckpt
    BY <2>2
  <2>3. ASSUME NEW r \in Requests, Persist(r)
        PROVE  ckpt'[w] = ckpt[w]
    <3>1. /\ r \in dirty /\ pc[r] \in InGraph /\ RunsGraph(r)
          /\ ckpt' = [ckpt EXCEPT ![Workflow(r)] = view[r]]
      BY <2>1, <2>3 DEF Persist, InGraph, IInv, CallInv
    <3>2. Workflow(r) # w
      BY <2>1, <3>1 DEF Outcomes, SharedInv, InStep
    <3>3. QED
      BY <2>1, <3>1, <3>2 DEF IInv, TypeOK
  <2>4. ASSUME NEW r \in Requests, GraphStep(r)
        PROVE  ckpt' = ckpt
    BY <2>1, <2>4, GraphStepEffect DEF NodeEffect, Outcomes
  <2>5. ASSUME NEW r \in Requests, Arrive(r) \/ Abort(r) \/ Inspect(r) \/ Load(r) \/ DirectRead(r)
                                   \/ DirectUpdate(r) \/ Answer(r) \/ Commit(r)
        PROVE  ckpt' = ckpt
    BY <2>5 DEF Arrive, Start, Resume, AskRefund, Abort, Inspect, Load, DirectRead, DirectUpdate,
                Answer, Commit, run
  <2>6. ASSUME NEW v \in Workflows, Expire(v)
        PROVE  ckpt' = ckpt
    BY <2>6 DEF Expire, run
  <2>7. QED
    BY <2>1, <2>2, <2>3, <2>4, <2>5, <2>6 DEF Next, Serve
<1>2. QED
  BY <1>1, Invariance, OutcomesHold, PTL DEF Spec, OutcomeIsFinal

LEMMA ConsentStep ==
  ASSUME NEW r \in Requests, GraphStep(r)
  PROVE  consent' \subseteq consent \cup {Workflow(r)}
<1>1. CASE \/ RouteNode(r) \/ RetrieveOrder(r) \/ RetrievePolicy(r) \/ Respond(r)
  BY <1>1 DEF RouteNode, RetrieveOrder, RetrievePolicy, Respond, Attempted
<1>2. CASE \/ ProposeRefund(r) \/ Interrupt(r) \/ ConfirmationNode(r) \/ RejectNode(r) \/ Escalate(r)
  BY <1>2 DEF ProposeRefund, Interrupt, ConfirmationNode, RejectNode, Escalate
<1>3. CASE ExecuteRead(r) \/ ExecuteUpdate(r) \/ \E n \in RetryNodes : Transient(r, n)
  BY <1>3 DEF ExecuteRead, ExecuteUpdate, Transient
<1>4. QED
  BY <1>1, <1>2, <1>3 DEF GraphStep

(* A step that runs no graph of w and lets no request of w into one.       *)
LEMMA FrozenKept ==
  ASSUME NEW w \in Workflows, Frozen(w), expired \subseteq expired',
         \A r \in Requests : RunsGraph(r)' /\ Workflow(r)' = w /\ pc'[r] \in Running
                               => RunsGraph(r) /\ Workflow(r) = w /\ pc[r] \in Running
  PROVE  Frozen(w)'
BY DEF Frozen

(* Once its deadline has passed with no accepted request under way, a      *)
(* workflow is left alone: no interleaving of late decisions changes its   *)
(* checkpoint or its consent, in either deployment.                        *)
THEOREM ExpiredFrozen == Spec => ExpiredIsFrozen
<1>1. IInv /\ Outcomes /\ [Next]_vars
        => [\A w \in Workflows : Frozen(w) =>
              Frozen(w)' /\ ckpt'[w] = ckpt[w] /\ (w \in consent' => w \in consent)]_vars
  <2>1. SUFFICES ASSUME IInv, Outcomes, Next, NEW w \in Workflows, Frozen(w)
                 PROVE  Frozen(w)' /\ ckpt'[w] = ckpt[w] /\ (w \in consent' => w \in consent)
    BY DEF vars
  <2>2. /\ TypeOK /\ CallInv /\ FlowInv /\ w \in expired /\ meta[w] # NoMeta
        /\ \A r \in Requests : RunsGraph(r) /\ Workflow(r) = w => pc[r] \notin Running
    BY <2>1 DEF IInv, Outcomes, FlowInv, Frozen
  <2>3. ASSUME NEW r \in Requests, Arrive(r)
        PROVE  Frozen(w)' /\ ckpt' = ckpt /\ consent' = consent
    <3>1. PICK p : /\ pc' = [pc EXCEPT ![r] = p] /\ ckpt' = ckpt /\ consent' = consent
                   /\ expired \subseteq expired' /\ \A s \in Requests \ {r} : call'[s] = call[s]
                   /\ RunsGraph(r)' /\ p \in Running => Workflow(r)' # w
      <4>1. ASSUME NEW v \in Workflows, NEW c \in Customers, NEW o \in Orders \cup {NoOrder},
                   NEW i \in Intents, Start(r, v, c, o, i)
            PROVE  /\ pc' = [pc EXCEPT ![r] = "graph"] /\ ckpt' = ckpt /\ consent' = consent
                   /\ expired \subseteq expired' /\ \A s \in Requests \ {r} : call'[s] = call[s]
                   /\ Workflow(r)' # w
        BY <2>2, <4>1 DEF Start, TypeOK, Workflow
      <4>2. ASSUME NEW kind \in {"confirm", "reject"}, NEW v \in Workflows, NEW c \in Customers,
                   NEW b \in BOOLEAN, Resume(r, kind, v, c, b)
            PROVE  /\ pc' = [pc EXCEPT ![r] = "waiting"] /\ ckpt' = ckpt /\ consent' = consent
                   /\ expired \subseteq expired' /\ \A s \in Requests \ {r} : call'[s] = call[s]
        BY <2>2, <4>2 DEF Resume, TypeOK, run
      <4>3. ASSUME NEW c \in Customers, NEW o \in Orders, AskRefund(r, c, o)
            PROVE  /\ pc' = [pc EXCEPT ![r] = "reading"] /\ ckpt' = ckpt /\ consent' = consent
                   /\ expired \subseteq expired' /\ \A s \in Requests \ {r} : call'[s] = call[s]
        BY <2>2, <4>3 DEF AskRefund, TypeOK, run
      <4>4. "waiting" \notin Running /\ "reading" \notin Running
        BY DEF Running
      <4>5. CASE \E v \in Workflows, c \in Customers, o \in Orders \cup {NoOrder}, i \in Intents :
                   Start(r, v, c, o, i)
        BY <4>1, <4>5
      <4>6. CASE \E kind \in {"confirm", "reject"}, v \in Workflows, c \in Customers, b \in BOOLEAN :
                   Resume(r, kind, v, c, b)
        BY <4>2, <4>4, <4>6
      <4>7. CASE \E c \in Customers, o \in Orders : AskRefund(r, c, o)
        BY <4>3, <4>4, <4>7
      <4>8. QED
        BY <2>3, <4>5, <4>6, <4>7 DEF Arrive
    <3>2. pc'[r] = p /\ \A s \in Requests \ {r} : pc'[s] = pc[s]
      BY <2>2, <3>1, Distinct
    <3>3. \A s \in Requests \ {r} : (RunsGraph(s)' <=> RunsGraph(s)) /\ Workflow(s)' = Workflow(s)
      BY <3>1 DEF RunsGraph, Resumes, Workflow
    <3>4. QED
      BY <2>1, <3>1, <3>2, <3>3, FrozenKept
  <2>4. ASSUME NEW r \in Requests, GraphStep(r)
        PROVE  Frozen(w)' /\ ckpt' = ckpt /\ (w \in consent' => w \in consent)
    <3>1. NodeEffect(r)
      BY <2>1, <2>4, GraphStepEffect DEF Outcomes
    <3>2. /\ ckpt' = ckpt /\ expired' = expired /\ SameCalls /\ RunsGraph(r) /\ pc[r] \in Running
          /\ pc' = [pc EXCEPT ![r] = pc'[r]]
      BY <3>1 DEF NodeEffect, SameCalls, InGraph, Running
    <3>3. Workflow(r) # w
      BY <2>2, <3>2
    <3>4. Frozen(w)'
      BY <2>1, <2>2, <3>2, <3>3, FrozenKept, SameRequests, Distinct
    <3>5. QED
      BY <2>4, <3>2, <3>3, <3>4, ConsentStep
  <2>5. ASSUME NEW r \in Requests, Inspect(r) \/ Load(r) \/ DirectRead(r) \/ DirectUpdate(r)
                                   \/ Answer(r) \/ Commit(r) \/ Abort(r)
        PROVE  Frozen(w)' /\ ckpt' = ckpt /\ consent' = consent
    <3>1. /\ SameCalls /\ ckpt' = ckpt /\ consent' = consent /\ expired' = expired
      BY <2>5 DEF Inspect, Load, DirectRead, DirectUpdate, Answer, Commit, Abort, SameCalls, run
    <3>2. PICK p : /\ pc' = [pc EXCEPT ![r] = p]
                   /\ p \in Running => ~RunsGraph(r) \/ Workflow(r) # w \/ pc[r] \in Running
      <4>1. CASE Inspect(r)
        BY <2>2, <4>1 DEF Inspect, Refuse, Refusal, Running
      <4>2. CASE Load(r)
        BY <4>2 DEF Load, Running
      <4>3. CASE DirectRead(r) \/ DirectUpdate(r)
        BY <2>2, <4>3 DEF DirectRead, Refuse, DirectUpdate, CallInv, RunsGraph, Resumes
      <4>4. CASE Answer(r) \/ Commit(r) \/ Abort(r)
        BY <4>4 DEF Answer, Commit, Abort, Running
      <4>5. QED
        BY <2>5, <4>1, <4>2, <4>3, <4>4
    <3>3. pc'[r] = p /\ \A s \in Requests \ {r} : pc'[s] = pc[s]
      BY <2>2, <3>2, Distinct
    <3>4. QED
      BY <2>1, <2>2, <3>1, <3>2, <3>3, FrozenKept, SameRequests
  <2>6. ASSUME NEW r \in Requests, Persist(r)
        PROVE  Frozen(w)' /\ ckpt'[w] = ckpt[w] /\ consent' = consent
    <3>1. /\ SameCalls /\ expired' = expired /\ consent' = consent /\ pc' = pc
          /\ ckpt' = [ckpt EXCEPT ![Workflow(r)] = view[r]] /\ RunsGraph(r) /\ pc[r] \in Running
      BY <2>2, <2>6 DEF Persist, SameCalls, CallInv, Running
    <3>2. Workflow(r) # w
      BY <2>2, <3>1
    <3>3. QED
      BY <2>1, <2>2, <3>1, <3>2, FrozenKept, SameRequests DEF TypeOK
  <2>7. ASSUME NEW v \in Workflows, Expire(v)
        PROVE  Frozen(w)' /\ ckpt' = ckpt /\ consent' = consent
    <3>1. SameCalls /\ expired \subseteq expired' /\ pc' = pc /\ ckpt' = ckpt /\ consent' = consent
      BY <2>7 DEF Expire, SameCalls, run
    <3>2. QED
      BY <2>1, <3>1, FrozenKept, SameRequests
  <2>8. QED
    BY <2>1, <2>3, <2>4, <2>5, <2>6, <2>7 DEF Next, Serve
<1>2. QED
  BY <1>1, Invariance, OutcomesHold, PTL DEF Spec, ExpiredIsFrozen
=============================================================================
