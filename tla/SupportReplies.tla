---------------------------- MODULE SupportReplies ----------------------------
(* What one turn of the support agent may come to, whatever its model does:    *)
(* the reply that its caller reads, and whether the turn refunded an order or  *)
(* opened a ticket. The caller sees of a turn no more than this.               *)

\* outcome and reason_code of the responses; an exception leaves the turn with neither.
Replies ==
    {<<"failed", "model_error">>}
    \cup {"escalated"} \X {"escalated", "escalated_missing_reference", "refund_blocked_missing_reference"}
    \cup {"completed"} \X {"order_status_ok", "ok_with_retry", "order_not_found", "policy_answer",
                           "refund_confirmed", "refund_proposed"}
    \cup {"blocked"} \X {"policy_answer_ungrounded", "tool_error", "order_not_found",
                         "refund_blocked_unconfirmed", "refund_blocked_forbidden",
                         "refund_blocked_ineligible"}
    \cup {<<"raised", "none">>}

Unanswered == [reply |-> <<"none", "none">>, refunded |-> FALSE, ticketed |-> FALSE]

\* What a turn depends on: whether the request is confirmed outside the model,
\* the statuses of the customer's orders and whether others have orders, whether
\* the accepted policy is there, and whether anything else (another session, a
\* fault) can come in between.
Views == [confirmed : BOOLEAN, own : SUBSET {"absent", "processing", "shipped", "delivered", "refunded"},
          foreign : BOOLEAN, current : BOOLEAN, unsteady : BOOLEAN]

Says(t, reasons) == t.reply[2] \in reasons

\* A reply that reports a success is about what happened in this turn, and one
\* that reports a failure about what could happen. A blocked reply does not rule
\* out a refund: the order that the routing names may be another one.
Earned(t, view) ==
    /\ t.refunded => view.confirmed /\ "delivered" \in view.own
    /\ Says(t, {"refund_confirmed"}) => t.refunded
    /\ Says(t, {"refund_proposed"}) => ~view.confirmed /\ "delivered" \in view.own
    /\ t.reply[1] = "escalated" => t.ticketed
    /\ Says(t, {"tool_error"}) => ~t.ticketed
    /\ t.reply = <<"completed", "order_not_found">> => ~t.refunded
    /\ Says(t, {"order_status_ok", "ok_with_retry"}) => view.own \ {"absent"} # {}
    /\ Says(t, {"policy_answer"}) => view.current /\ ~t.refunded
    /\ Says(t, {"escalated_missing_reference", "refund_blocked_missing_reference"}) => ~t.refunded
    /\ Says(t, {"refund_blocked_ineligible"}) =>
         t.refunded \/ view.own \cap {"processing", "shipped", "refunded"} # {} \/ view.unsteady
    /\ Says(t, {"refund_blocked_forbidden"}) => view.foreign
    /\ Says(t, {"ok_with_retry"}) \/ t.reply[1] = "raised" => view.unsteady

Results(view) == {t \in [reply : Replies, refunded : BOOLEAN, ticketed : BOOLEAN] : Earned(t, view)}
=============================================================================
