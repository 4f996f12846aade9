-------------------------- MODULE ReferenceCommand --------------------------
(* One process of the command line: it runs one command on one workflow, and   *)
(* the workflow's repository is a singleton of the module that registers it.   *)
EXTENDS SupportCases

VARIABLES command,   \* "reference" (both reviewed sides), "simulate" (a persona), "setup", "compare"
          workflow,  \* the workflow named on the command line
          repo       \* the repository of that workflow

Commands == {"reference", "simulate", "setup", "compare"}
\* A repository that was never seeded, or was destroyed, has no state.
Destroyed == [records |-> <<>>, trail |-> <<>>, open |-> FALSE]

\* seed copies the approved state and forgets the trail; reset seeds again.
Seeded == Loaded(Seed(workflow))

CommandInit ==
    /\ command \in Commands
    /\ workflow \in Workflows
    /\ repo = Destroyed

\* destroy discards state and trail; it raises only in a test's repository,
\* which then keeps both.
Destroy(ok) == repo' = IF ok THEN Destroyed ELSE repo

\* What calls that ran, in their order, make of a workflow's approved seed.
Replay(w, calls) ==
    LET after[n \in 0 .. Len(calls)] ==
            IF n = 0 THEN Loaded(Seed(w))
                     ELSE RunTool(w, calls[n][1], calls[n][2], after[n - 1]).repo
    IN  after[Len(calls)]

Record == [of : {"booking", "incident", "issue", "appeal", "return_request", "refund",
                 "worker_record", "dispute", "intake_case", "order"},
           is : Statuses \cup {"shipped", "delivered", "refunded"}]
Transition == Resources \X Statuses \X Statuses \cup {Refunded, Ticketed}
Repositories == [records : Seq(Record), trail : Seq(Transition), open : BOOLEAN]
=============================================================================
