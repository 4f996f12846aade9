----------------------------- MODULE PersonaRun -----------------------------
(* The command that lets a persona talk to a reference workflow, or to the     *)
(* support agent: the turns of the conversation, the agent that works on the   *)
(* workflow's repository or in the case's sandbox, the approval it asks for,   *)
(* and the report, the event log and the clean-up that end every run, also one *)
(* that fails or is interrupted.                                               *)
(*                                                                             *)
(* All models are hosted: what they answer is a choice of the environment.    *)
(* Of a text only what the code reads in it is kept: whether it has the words  *)
(* of an approval request, and whether it has those that end a conversation.   *)
EXTENDS ReferenceCommand

CONSTANTS MaxTurns,    \* max_turns of the command (1 to 50)
          MaxChoices   \* choices of the business agent per turn, 8 in the code

ASSUME PersonaAssumption == MaxTurns \in Nat \ {0} /\ MaxChoices \in Nat \ {0}

VARIABLES case,       \* the case of a support persona, or "none" for a reference persona
          phase,      \* where the run is
          turn,       \* the turn of the conversation, from 1
          wording,    \* outer approval_pending: the last answer asked for approval
          trusted,    \* trusted_confirmation of this turn
          confirmed,  \* confirmed: some action of this run was approved
          pending,    \* pending_action: the call that waits for approval, or NoAction
          executed,   \* executed_tools, with their arguments
          chosen,     \* choices made in this turn
          expected,   \* latest: the support agent's last reply is one that the case expects
          ends,       \* the last answer has words that end the conversation
          report,     \* end_reason of the report on disk, or "none"
          log,        \* the JSONL log from the end of the conversation on
          raising,    \* the exception on its way out: "none", "error", "cancelled"
          notified,   \* the failure of the renderer was reported
          told,       \* how the process ended
          lost,       \* history: writing an artifact failed
          asked,      \* history: the call that the last answer asked to approve
          approved    \* history: the calls approved, and what had been asked

personaVars == <<case, phase, turn, wording, trusted, confirmed, pending, executed, chosen, expected,
                 ends, report, log, raising, notified, told, lost, asked, approved>>

NoAction == <<"none", "none">>
ExecutedTools == {executed[i][1] : i \in DOMAIN executed}

OfSupport == case # "none"

PersonaInit ==
    /\ case \in CaseIds \cup {"none"}
    /\ phase = "idle"
    /\ expected = FALSE
    /\ turn = 1
    /\ wording = FALSE /\ trusted = FALSE /\ confirmed = FALSE
    /\ pending = NoAction
    /\ executed = <<>>
    /\ chosen = 0
    /\ ends = FALSE
    /\ report = "none"
    /\ log = <<>>
    /\ raising = "none"
    /\ lost = FALSE
    /\ notified = FALSE
    /\ told = "nothing"
    /\ asked = NoAction
    /\ approved = {}

-----------------------------------------------------------------------------
(* Events: the JSONL sink raises when the log cannot be written, at any event; *)
(* a renderer that raises is isolated, and its first failure is one more event *)
(* in the log. The log is kept from the end of the conversation on: before it  *)
(* a notice would only stand earlier in it.                                    *)

Logged(events) ==
    \/ log' = log \o events /\ UNCHANGED notified
    \/ /\ ~notified
       /\ \E i \in DOMAIN events : log' = log \o InsertAt(events, i + 1, "notice")
       /\ notified' = TRUE

\* What a step of the conversation leaves alone.
InTheMiddle == UNCHANGED <<command, workflow, case, report, told>>
Unended == InTheMiddle /\ UNCHANGED expected
Quiet == UNCHANGED <<log, notified, lost>>
\* An artifact is not written: the exception replaces the one under way.
Lost == raising' = "error" /\ lost' = TRUE

-----------------------------------------------------------------------------
(* PersonaConversation.run: the persona's side.                                *)

\* The repository or the sandbox is seeded, and the start of the run is logged
\* before the conversation's own error handling.
Opened == IF OfSupport THEN Sandbox(case) ELSE Seeded
Start ==
    /\ command = "simulate" /\ phase = "idle"
    /\ repo' = Opened
    /\ \/ phase' = "persona" /\ UNCHANGED <<raising, lost>>
       \/ phase' = "cleanup" /\ Lost
    /\ Unended
    /\ UNCHANGED <<turn, wording, trusted, confirmed, pending, executed, chosen, ends, log, notified,
                   asked, approved>>

\* The sandbox is a transaction on a database: before there is a conversation,
\* opening or seeding it may fail, or be interrupted.
SandboxUnready ==
    /\ command = "simulate" /\ phase = "idle" /\ OfSupport
    /\ repo' \in {Destroyed, Opened}
    /\ phase' = "cleanup" /\ raising' \in {"error", "cancelled"}
    /\ Unended /\ Quiet
    /\ UNCHANGED <<turn, wording, trusted, confirmed, pending, executed, chosen, ends, asked, approved>>

TrustWheneverTyped(typed) == typed
Trust(typed) == wording /\ typed

\* The persona answers; only a typed action is an approval, and when one was
\* asked for and none is given the persona is asked once more.
PersonaTurn ==
    /\ phase \in {"persona", "persona_again"}
    /\ \E typed \in BOOLEAN :
         IF wording /\ ~typed /\ phase = "persona"
           THEN phase' = "persona_again" /\ UNCHANGED trusted
           ELSE phase' = "agent" /\ trusted' = Trust(typed)
    /\ Unended /\ Quiet
    /\ UNCHANGED <<repo, turn, wording, confirmed, pending, executed, chosen, ends, raising, asked, approved>>

-----------------------------------------------------------------------------
(* agent_turn: the business agent's side.                                      *)

NeedsConfirmation(t) == /\ Contract(workflow).gated
                        /\ t \in Contract(workflow).protected \cup WritingTools(workflow)
RequiredDone == \A t \in Contract(workflow).required : \E i \in DOMAIN repo.trail : repo.trail[i] = t

\* run_tool: the call is noted as executed, unless the tool raises.
Runs(c) ==
    LET result == RunTool(workflow, c[1], c[2], repo)
    IN  IF result.raised
          THEN /\ phase' = "failed" /\ raising' = "error"
               /\ UNCHANGED <<repo, executed>>
          ELSE /\ repo' = result.repo
               /\ executed' = Append(executed, c)
               /\ phase' = "choose"
               /\ UNCHANGED raising

\* A trusted confirmation runs the pending action before the agent chooses.
AgentBegins ==
    /\ phase = "agent" /\ ~OfSupport
    /\ chosen' = 0
    /\ IF trusted /\ pending # NoAction
         THEN /\ confirmed' = TRUE
              /\ pending' = NoAction
              /\ approved' = approved \cup {[given |-> pending, asked |-> asked]}
              /\ Runs(pending)
         ELSE phase' = "choose" /\ UNCHANGED <<repo, confirmed, pending, executed, raising, approved>>
    /\ Unended /\ Quiet
    /\ UNCHANGED <<turn, wording, trusted, ends, asked>>

Choosing == phase = "choose" /\ chosen < MaxChoices

\* A wish to end is granted when the required transitions are observed and the
\* gate was passed; the message is the model's, whatever its words.
AgentEnds ==
    /\ Choosing
    /\ RequiredDone /\ (Contract(workflow).gated => confirmed)
    /\ wording' \in BOOLEAN /\ ends' \in BOOLEAN /\ asked' = NoAction
    /\ phase' = "answered"
    /\ Unended /\ Quiet
    /\ UNCHANGED <<repo, turn, trusted, confirmed, pending, executed, chosen, raising, approved>>

\* A wish to end too early, a tool that was used, or one that does not exist,
\* which it may name at any time, costs a choice.
AgentIsRefused ==
    /\ Choosing
    /\ chosen' = chosen + 1
    /\ Unended /\ Quiet
    /\ UNCHANGED <<repo, phase, turn, wording, trusted, confirmed, pending, executed, ends,
                   raising, asked, approved>>

\* A tool that needs a confirmation there was none of yet: the agent asks.
AgentAsks ==
    /\ Choosing /\ ~confirmed
    /\ \E t \in Tools(workflow) \ ExecutedTools : \E a \in ArgsOf(t) :
         NeedsConfirmation(t) /\ pending' = <<t, a>>
    /\ wording' = TRUE /\ ends' = FALSE /\ asked' = pending'
    /\ phase' = "answered"
    /\ Unended /\ Quiet
    /\ UNCHANGED <<repo, turn, trusted, confirmed, executed, chosen, raising, approved>>

AgentUses ==
    /\ Choosing
    /\ chosen' = chosen + 1
    /\ \E t \in Tools(workflow) \ ExecutedTools : \E a \in ArgsOf(t) :
         (NeedsConfirmation(t) => confirmed) /\ Runs(<<t, a>>)
    /\ Unended /\ Quiet
    /\ UNCHANGED <<turn, wording, trusted, confirmed, pending, ends, asked, approved>>

AgentGivesUp ==
    /\ phase = "choose" /\ chosen = MaxChoices
    /\ wording' = FALSE /\ ends' = FALSE /\ asked' = NoAction
    /\ phase' = "answered"
    /\ Unended /\ Quiet
    /\ UNCHANGED <<repo, turn, trusted, confirmed, pending, executed, chosen, raising, approved>>

\* One turn of the support agent in the sandbox (module SupportTurn). The message
\* is the model's, but for the replies that the application words; an event of
\* the agent's own run that cannot be written counts as a failure of the model.
Consent == <<"confirm_refund", "reviewed">>
WordedByCode == {"model_error", "refund_confirmed", "escalated_missing_reference",
                 "refund_blocked_missing_reference"}
SupportAnswers ==
    /\ phase = "agent" /\ OfSupport
    /\ \E t \in Results(SandboxView(case, repo, trusted)) :
         /\ repo' = AfterTurn(repo, t)
         /\ expected' = IsExpected(case, t.reply)
         /\ wording' \in BOOLEAN /\ ends' \in BOOLEAN
         /\ Says(t, WordedByCode) => ~wording' /\ ~ends'
         /\ lost' \in (IF Says(t, {"model_error"}) THEN {lost, TRUE} ELSE {lost})
    /\ asked' = IF wording' THEN Consent ELSE NoAction
    /\ approved' = IF trusted THEN approved \cup {[given |-> Consent, asked |-> asked]} ELSE approved
    /\ phase' = "answered"
    /\ InTheMiddle
    /\ UNCHANGED <<turn, trusted, confirmed, pending, executed, chosen, raising, log, notified>>

-----------------------------------------------------------------------------
(* The end of a turn and of the run.                                           *)

\* success(): the goal counts as reached when the repository shows it.
VerifiedByOutcome ==
    IF OfSupport THEN expected /\ AllAllowed(case, repo)
    ELSE Observed(workflow, repo).outcome = Contract(workflow).outcome
WorkflowVerified ==
    /\ Observed(workflow, repo).outcome = Contract(workflow).outcome
    /\ RequiredDone
    /\ \A i \in DOMAIN repo.trail : repo.trail[i] \in Contract(workflow).permitted
    /\ Contract(workflow).gated => confirmed
Verified == IF OfSupport THEN expected /\ AllAllowed(case, repo) ELSE WorkflowVerified
EndReason == CASE Verified -> "state_verified_success"
               [] ~Verified /\ ends -> "agent_end"
               [] ~Verified /\ ~ends /\ turn = MaxTurns -> "max_turns"
               [] OTHER -> "none"

NextTurnUncounted == phase' = "persona" /\ UNCHANGED turn
NextTurn == phase' = "persona" /\ turn' = turn + 1

\* A report is built from the turns so far, and written.
Reports(reason) == report' = reason /\ UNCHANGED <<raising, lost>>

\* The answer is judged; the report of a conversation that ended is written,
\* outside the block that handles failures.
Judge ==
    /\ phase = "answered"
    /\ IF EndReason = "none"
         THEN NextTurn /\ UNCHANGED <<report, raising, lost>>
         ELSE /\ phase' = "cleanup" /\ UNCHANGED turn
              /\ \/ Reports(EndReason)
                 \/ Lost /\ UNCHANGED report
    /\ UNCHANGED <<command, workflow, case, repo, wording, trusted, confirmed, pending, executed, chosen,
                   expected, ends, log, notified, told, asked, approved>>

\* A call of a model fails, or Ctrl-C cancels the task while it waits for one;
\* or an event of the conversation cannot be written.
Fails(exception) ==
    /\ phase' = "failed" /\ raising' = exception
    /\ Unended
    /\ UNCHANGED <<repo, turn, wording, trusted, confirmed, pending, executed, chosen, ends, log,
                   notified, asked, approved>>
\* An interrupt inside a turn of the support agent leaves its writes to the roll-back.
Awaiting == phase \in {"persona", "persona_again", "choose"} \/ (OfSupport /\ phase = "agent")
ModelFails == Awaiting /\ Fails("error") /\ UNCHANGED lost
Interrupted == Awaiting /\ Fails("cancelled") /\ UNCHANGED lost
EventFails == (Awaiting \/ phase \in {"agent", "answered"}) /\ Fails("error") /\ lost' = TRUE

\* The partial report of a run that failed or was interrupted, and its event.
PartialReport ==
    /\ phase = "failed"
    /\ phase' = "cleanup"
    /\ \/ Reports(raising) /\ Logged(<<"error">>)
       \/ report' \in {raising, report} /\ Lost /\ UNCHANGED <<log, notified>>
    /\ UNCHANGED <<command, workflow, case, repo, turn, wording, trusted, confirmed, pending, executed,
                   chosen, expected, ends, told, asked, approved>>

\* The finally block: the repository goes, then the log says so, then it is
\* done, unless no report was written. A clean-up that fails raises.
ClosingAlways == <<"cleanup", "done">>
Closing == IF report = "none" THEN <<"cleanup">> ELSE <<"cleanup", "done">>
CleanupSucceeds ==
    /\ Destroy(TRUE)
    /\ \/ Logged(Closing) /\ UNCHANGED <<raising, lost>>
       \/ \E n \in DOMAIN Closing : Lost /\ Logged(SubSeq(Closing, 1, n - 1))
CleanupFailsSilently == repo.open /\ Destroy(FALSE) /\ Logged(Closing) /\ UNCHANGED <<raising, lost>>
CleanupFails ==
    /\ repo.open /\ Destroy(FALSE)
    /\ raising' = "error"
    /\ \/ Logged(<<"cleanup_failed">>) /\ UNCHANGED lost
       \/ lost' = TRUE /\ UNCHANGED <<log, notified>>
Cleanup ==
    /\ phase = "cleanup"
    /\ CleanupSucceeds \/ CleanupFails
    /\ phase' = "exit"
    /\ UNCHANGED <<command, workflow, case, turn, wording, trusted, confirmed, pending, executed, chosen,
                   expected, ends, report, told, asked, approved>>

Marks(event) == \E i \in DOMAIN log : log[i] = event

\* What the process tells of an interrupt is read from the log.
CleanupStatus == CASE Marks("cleanup") -> "complete"
                   [] ~Marks("cleanup") /\ Marks("cleanup_failed") -> "cleanup_failed"
                   [] OTHER -> "unknown"
Exit ==
    /\ phase = "exit"
    /\ told' = CASE raising = "none" -> "result" [] raising = "error" -> "traceback"
                 [] raising = "cancelled" -> CleanupStatus
    /\ phase' = "closed"
    /\ UNCHANGED <<command, workflow, case, repo, turn, wording, trusted, confirmed, pending, executed,
                   chosen, expected, ends, report, log, raising, notified, lost, asked, approved>>

PersonaStep ==
    \/ Start \/ PersonaTurn
    \/ AgentBegins \/ AgentEnds \/ AgentIsRefused \/ AgentAsks \/ AgentUses \/ AgentGivesUp
    \/ SupportAnswers
    \/ Judge \/ PartialReport \/ Cleanup \/ Exit
PersonaFault == SandboxUnready \/ ModelFails \/ Interrupted \/ EventFails

PersonaEnded == command = "simulate" => phase = "closed"

-----------------------------------------------------------------------------
(* What the command promises.                                                  *)

Calls == (UNION {Tools(w) : w \in Workflows}) \X Args \cup {Consent}
PersonaTypeOK ==
    /\ case \in CaseIds \cup {"none"} /\ expected \in BOOLEAN
    /\ phase \in {"idle", "persona", "persona_again", "agent", "choose", "answered", "failed",
                  "cleanup", "exit", "closed"}
    /\ turn \in 1..MaxTurns /\ chosen \in 0..MaxChoices
    /\ {wording, trusted, confirmed, ends, notified} \subseteq BOOLEAN
    /\ pending \in Calls \cup {NoAction} /\ asked \in Calls \cup {NoAction}
    /\ executed \in Seq(Calls)
    /\ report \in {"none", "state_verified_success", "agent_end", "max_turns", "error", "cancelled"}
    /\ log \in Seq({"error", "cleanup", "cleanup_failed", "done", "notice"})
    /\ raising \in {"none", "error", "cancelled"} /\ lost \in BOOLEAN
    /\ told \in {"nothing", "result", "traceback", "complete", "cleanup_failed", "unknown"}
    /\ approved \subseteq [given : Calls, asked : Calls \cup {NoAction}]

\* Consent is for what was just asked: an approval counts for the call that the
\* answer right before it named, and no sensitive tool of a gated workflow runs
\* before the first call so approved. The support agent refunds once, and never
\* unless an approval was asked for in words and then typed.
ConsentMatches ==
    LET sensitive == {i \in DOMAIN executed : NeedsConfirmation(executed[i][1])}
        refunds == {i \in DOMAIN repo.trail : repo.trail[i] = Refunded}
    IN  /\ \A p \in approved : p.given = p.asked
        /\ \A i \in sensitive : (\A j \in sensitive : i <= j) =>
             \E p \in approved : p.given = executed[i]
        /\ OfSupport => /\ \A i, j \in refunds : i = j
                        /\ refunds # {} => approved # {}

\* A run is reported as successful only when the calls that ran, each tool once,
\* took the seeded repository where the contract wants it, by permitted
\* transitions, and past the gate; or, in the sandbox, when the reply is the
\* expected one and true of an order that is where the permitted writes took it.
GoalIsObserved ==
    /\ \A i, j \in DOMAIN executed : executed[i][1] = executed[j][1] => i = j
    /\ command = "simulate" /\ repo.open /\ ~OfSupport => repo = Replay(workflow, executed)
    /\ report = "state_verified_success" /\ OfSupport /\ repo.open =>
         /\ expected /\ AllAllowed(case, repo)
         /\ repo.records = IF Refunded \in ToSet(repo.trail)
                             THEN AllBecome(Sandbox(case), "order", "refunded").records
                             ELSE Sandbox(case).records
    /\ report = "state_verified_success" /\ ~OfSupport =>
         /\ Observed(workflow, Replay(workflow, executed)).outcome = Contract(workflow).outcome
         /\ Contract(workflow).required \subseteq ToSet(Replay(workflow, executed).trail)
         /\ ToSet(Replay(workflow, executed).trail) \subseteq Contract(workflow).permitted
         /\ Contract(workflow).gated => approved # {}

\* Report, log and the last words tell one story, whatever failed: an error is
\* logged for the partial reports alone; the log is closed by one "done", after
\* the clean-up, exactly when there is a report and the repository is gone (unless
\* a write failed, which cuts either short); a renderer that fails adds one notice
\* and nothing else; and who is told after Ctrl-C that clean-up is complete can
\* rely on it. Of a sandbox interrupted before the
\* conversation there is no report.
Place(event) == {i \in DOMAIN log : log[i] = event}
ReportAndLogAgree ==
    /\ Marks("error") => report \in {"error", "cancelled"}
    /\ report \in {"error", "cancelled"} => Marks("error") \/ lost
    /\ \A e \in {"notice", "done"} : \A i, j \in Place(e) : i = j
    /\ \A d \in Place("done") :
         /\ report # "none" /\ repo = Destroyed
         /\ \E c \in Place("cleanup") : c < d
         /\ \A i \in DOMAIN log : i > d => log[i] = "notice"
    /\ phase \in {"exit", "closed"} /\ ~lost /\ report # "none" /\ repo = Destroyed
         => Marks("done")
    /\ told = "complete" => /\ repo = Destroyed
                            /\ report = "cancelled" \/ (OfSupport /\ report = "none" /\ turn = 1)
=============================================================================
