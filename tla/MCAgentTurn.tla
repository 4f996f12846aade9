---------------------------- MODULE MCAgentTurn ----------------------------
(* Instances of the agent turn for TLC.                                    *)
EXTENDS AgentTurn

MCOrders == {"delivered1", "delivered2", "other1"}
MCMine == {"delivered1", "delivered2"}
MCInitialStatus == [o \in MCOrders |-> "delivered"]
MCContended == {"delivered1"}

Once(tool, kind) == [tool |-> tool, order |-> AnyOrder, kind |-> kind, repeat |-> FALSE]
Always(tool, kind) == [Once(tool, kind) EXCEPT !.repeat = TRUE]

(* No faults; a read that fails once, or for good; faults around a refund. *)
MCScripts ==
  {<<>>,
   <<Once("get_order_status", "timeout")>>,
   <<[Once("get_order_status", "delay") EXCEPT !.order = "delivered2"],
     Always("get_order_status", "timeout"), Once("confirm_refund", "malformed")>>,
   <<Once("confirm_refund", "timeout"), Once("escalate", "timeout")>>,
   <<Once("get_policy", "timeout"), Always("escalate", "malformed")>>}
NoScripts == {<<>>}
=============================================================================
