---------------------------- MODULE MCLabCommands ---------------------------
EXTENDS LabCommands

Fault(kind, tool, arg, repeat) == [kind |-> kind, tool |-> tool, arg |-> arg, repeat |-> repeat]

\* Beside each workflow's own one-shot timeout: two calls that fail near the
\* limit, a fault that never ends, a delay in front of a fault for one argument,
\* and a kind that the injection does not know.
MCScripts ==
    {<<Fault("timeout", "get_fare", "reviewed", FALSE),
       Fault("transient_error", "get_fare", "any", FALSE),
       Fault("timeout", "hold_booking", "any", FALSE)>>,
     <<Fault("delay", "open_triage_issue", "any", FALSE),
       Fault("timeout", "open_triage_issue", "any", TRUE)>>,
     <<Fault("delay", "provisional_credit", "any", TRUE),
       Fault("timeout", "provisional_credit", "other", FALSE)>>,
     <<Fault("malformed_response", "approve_return", "any", FALSE)>>}

\* A refund that has to be made, with a budget of tokens, and an escalation, with
\* a budget of money.
Refund == [outcome |-> "completed", reasons |-> {"refund_confirmed"}, confirmed |-> TRUE,
           eligible |-> {"request_refund"}, required |-> {[kind |-> "refund_executed", on |-> "order"]},
           permitted |-> {[kind |-> "refund_executed", on |-> "order"]},
           policy |-> "none", grounded |-> "unset", latency |-> 5, tokens |-> 5, cost |-> NoBudget,
           model |-> "m1", prompt |-> "p1", other |-> "o1"]
Escalate == [outcome |-> "escalated", reasons |-> {"escalation_created"}, confirmed |-> FALSE,
             eligible |-> {"escalate"}, required |-> {},
             permitted |-> {[kind |-> "ticket_created", on |-> "any"]},
             policy |-> "v1", grounded |-> "unset", latency |-> NoBudget, tokens |-> NoBudget, cost |-> 2,
             model |-> "m1", prompt |-> "p1", other |-> "o1"]
OtherModel == [Refund EXCEPT !.model = "m3"]
OtherPolicy == [Refund EXCEPT !.other = "o2"]
MCCohorts ==
    [suite |-> {<<Refund, Escalate>>, <<Refund, OtherModel>>, <<Escalate, OtherPolicy>>},
     cohort |-> {<<Refund, Escalate>>, <<Refund, OtherModel>>},
     lab |-> {<<>>, <<Refund, Escalate>>, <<Refund, Refund, Refund>>, <<Refund, OtherModel>>}]

Refunds == [aborted |-> "none", outcome |-> "completed", reason |-> "refund_confirmed",
            forbidden |-> FALSE, tools |-> {"request_refund"},
            mutations |-> {[kind |-> "refund_executed", on |-> "order"]},
            policy |-> "none", grounded |-> "unset", latency |-> 1, tokens |-> 2, cost |-> 1,
            retries |-> 0]
Escalates == [Refunds EXCEPT !.outcome = "escalated", !.reason = "escalation_created",
              !.tools = {"escalate"}, !.mutations = {[kind |-> "ticket_created", on |-> "other"]},
              !.policy = "v1"]
MCBehaviours ==
    {Refunds, Escalates,
     [Refunds EXCEPT !.tokens = 0, !.cost = Unmeasured],
     [Refunds EXCEPT !.cost = 2, !.retries = 1],
     [Refunds EXCEPT !.forbidden = TRUE,
                     !.mutations = @ \cup {[kind |-> "refund_executed", on |-> "other"]}],
     [Escalates EXCEPT !.mutations = {}, !.grounded = "yes", !.cost = Unmeasured],
     [Refunds EXCEPT !.outcome = "failed", !.reason = "tool_error", !.mutations = {}, !.cost = 0],
     [Refunds EXCEPT !.aborted = "missing_coverage", !.outcome = "failed", !.reason = "tool_error",
                     !.mutations = {}, !.latency = Unmeasured, !.tokens = 0, !.cost = Unmeasured]}

\* A catalog, and one each with no simulation, two of a name, a flow nobody
\* registered, a profile that does not exist, two profiles of a name, and a file
\* that is no mapping.
Home == [id |-> "home", url |-> "DATABASE_URL", required |-> {"DATABASE_URL", "MODEL_API_KEY"}, model |-> "any"]
Bench == [id |-> "bench", url |-> "LAB_URL", required |-> {}, model |-> "m1"]
File(id, plugin, profile) ==
    [id |-> id, read |-> TRUE, secret |-> FALSE,
     scenarios |-> <<[id |-> id, plugin |-> plugin, profile |-> profile, turns |-> 5]>>]
Good == [environments |-> [read |-> TRUE, secret |-> FALSE, profiles |-> <<Home, Bench>>],
         files |-> <<File("refund", "refund", "home"), File("flight", "flight", "bench")>>]
MCCatalogs ==
    {Good, [Good EXCEPT !.files = <<>>],
     [Good EXCEPT !.files[2].scenarios[1].id = "refund"],
     [Good EXCEPT !.files[2].scenarios[1].plugin = "unknown"],
     [Good EXCEPT !.files[1].scenarios[1].profile = "unknown"],
     [Good EXCEPT !.environments.profiles[2].id = "home"],
     [Good EXCEPT !.environments.read = FALSE, !.environments.profiles = <<>>]}

\* A machine that is ready, and some that are not.
Ready == [set |-> {"LAB_URL", "DATABASE_URL", "MODEL_API_KEY"},
          scheme |-> [v \in {"DATABASE_URL", "LAB_URL"} |-> "postgresql"],
          model |-> "m1", database |-> "head", writable |-> TRUE]
MCMachines ==
    {Ready, [Ready EXCEPT !.set = {}, !.model = "m2"],
     [Ready EXCEPT !.database = "behind"],
     [Ready EXCEPT !.database = "down", !.writable = FALSE],
     [Ready EXCEPT !.scheme["LAB_URL"] = "mysql", !.database = "behind"]}
MCEventKinds == {[category |-> "dialog", text |-> "x"], [category |-> "errors", text |-> "y"],
                 [category |-> "none", text |-> "y"]}
=============================================================================
