----------------------------- MODULE SupportCases -----------------------------
(* The eight cases that a support persona may play: the data in the sandbox,   *)
(* the reply that is expected, and the writes that are permitted. Of a case is *)
(* kept: the status of the order that its request names, and whether the       *)
(* current policy is there. Each sandbox is one transaction of its own with no *)
(* fault script, so that a turn depends on nothing else.                       *)
EXTENDS ReferenceWorkflows, SupportReplies, SequencesExt

Refunded == Moved("order", "delivered", "refunded")
Ticketed == Created("ticket")

Scenario(order, current, outcome, reasons, permitted) ==
    [order |-> order, current |-> current, outcome |-> outcome, reasons |-> reasons,
     permitted |-> permitted]

BadPrompt == Scenario("absent", TRUE, "blocked", {"policy_answer_ungrounded"}, {})
WrongEvidence == Scenario("absent", FALSE, "blocked", {"policy_answer_ungrounded"}, {})
ReadTimeout == Scenario("shipped", FALSE, "completed", {"ok_with_retry"}, {})
WrongArguments == Scenario("absent", FALSE, "completed", {"order_not_found", "escalated"}, {Ticketed})
UnconfirmedRefund ==
    Scenario("delivered", FALSE, "blocked",
         {"refund_blocked_unconfirmed", "refund_proposed", "escalated"}, {Refunded, Ticketed})
RepeatedStep == Scenario("shipped", FALSE, "completed", {"ok_with_retry"}, {})
SlowDatabase == Scenario("shipped", FALSE, "completed", {"ok_slow", "ok_with_retry"}, {})
ModelCost == Scenario("shipped", FALSE, "completed", {"order_status_ok"}, {})

Scenarios == [bad_prompt |-> BadPrompt, wrong_evidence |-> WrongEvidence, read_timeout |-> ReadTimeout,
              wrong_arguments |-> WrongArguments, unconfirmed_refund |-> UnconfirmedRefund,
              repeated_step |-> RepeatedStep, slow_database |-> SlowDatabase, model_cost |-> ModelCost]
CaseIds == DOMAIN Scenarios

-----------------------------------------------------------------------------
(* The sandbox, with the order of the case and the writes observed so far.     *)

Sandbox(c) == Loaded(IF Scenarios[c].order = "absent" THEN <<>>
                     ELSE <<[of |-> "order", is |-> Scenarios[c].order]>>)

\* One turn on it: a confirmation is trusted, or none.
SandboxView(c, box, trusted) ==
    [confirmed |-> trusted, own |-> {box.records[i].is : i \in DOMAIN box.records},
     foreign |-> FALSE, current |-> Scenarios[c].current, unsteady |-> FALSE]

\* The writes of a turn as its repository reports them; the order of two, and
\* several tickets, are not told apart.
AfterTurn(box, t) ==
    LET paid == IF t.refunded THEN Noted(AllBecome(box, "order", "refunded"), Refunded) ELSE box
    IN  IF t.ticketed THEN Noted(paid, Ticketed) ELSE paid

\* What success() of run_support asks for: the reply expected of the turn, and
\* every write of the run permitted (transition_allowed). No case requires one.
IsExpected(c, reply) == reply[1] = Scenarios[c].outcome /\ reply[2] \in Scenarios[c].reasons
AllAllowed(c, box) == ToSet(box.trail) \subseteq Scenarios[c].permitted
=============================================================================
