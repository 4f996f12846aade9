---------------------------- MODULE ReferenceRun ----------------------------
(* The command that compares the two sides of a reference workflow: it runs    *)
(* the baseline and then the candidate case on the workflow's repository, with *)
(* the workflow's fault script at the tool boundary, and compares both runs.   *)
EXTENDS ReferenceCommand, SequencesExt

CONSTANTS Scripts,    \* fault scripts beside the workflows' own, sequences of Entry
          MaxCalls    \* bound: calls of a plan that is not a reviewed one

MaxRetriesPerCall == 2
Kinds == {"timeout", "transient_error", "delay", "malformed_response"}
Entry == [kind : Kinds, tool : UNION {Tools(w) : w \in Workflows},
          arg : Args \cup {"any"}, repeat : BOOLEAN]

ASSUME ScriptAssumption == Scripts \subseteq Seq(Entry)
ASSUME CallAssumption == MaxCalls \in Nat \ {0}

VARIABLES script,      \* the fault script of the workflow
          stage,       \* where the command is
          side,        \* the side that runs
          plan,        \* its plan: a reviewed one or any other, and its gate_verified
          call,        \* the planned call under the index, or NoCall
          index,
          attempts,    \* attempts_for_index
          consumed,    \* the entries of the script that were used up in this run
          safe,        \* safety_ok
          results,     \* what the finished runs report
          comparison,  \* the verdict of the comparison, or "none"
          ran,         \* history: the calls of this side that ran their tool
          failures     \* history: the indexes of the planned calls that timed out

runVars == <<script, stage, side, plan, call, index, attempts, consumed, safe,
             results, comparison, ran, failures>>
referenceVars == <<command, workflow, repo, runVars>>

NoCall == <<"none", "none">>
NoResult == [verdict |-> "none", safe |-> TRUE, clean |-> TRUE, unknown |-> FALSE, ungated |-> FALSE,
             reviewed |-> FALSE]
OwnScript(w) == SetToSeq({[kind |-> "timeout", tool |-> t, arg |-> "any", repeat |-> FALSE] :
                          t \in Contract(w).faulty})
ScriptsOf(w) == {OwnScript(w)} \cup {s \in Scripts : \A i \in DOMAIN s : s[i].tool \in Tools(w)}

RunInit ==
    /\ script \in ScriptsOf(workflow)
    /\ stage = "idle"
    /\ side = "baseline"
    /\ plan = [reviewed |-> TRUE, gate |-> FALSE]
    /\ call = NoCall
    /\ index = 0
    /\ attempts = 0
    /\ consumed = {}
    /\ safe = TRUE
    /\ results = [s \in Sides |-> NoResult]
    /\ comparison = "none"
    /\ ran = <<>>
    /\ failures = <<>>

-----------------------------------------------------------------------------
(* Helpers of the runner.                                                      *)

PlannedCalls == Plan(workflow, side).calls

\* A call that refers to what an earlier tool returned: the reviewed plans let
\* confirm_booking name the booking that hold_booking made.
Unresolved(c) == /\ c[1] = "confirm_booking"
                 /\ c[2] # "malformed"
                 /\ repo.records = <<>>

\* _FaultInjection.apply walks the entries that match and are not used up, and
\* stops at the first that is not a mere delay.
Matching(c) == {i \in DOMAIN script : /\ script[i].tool = c[1]
                                      /\ script[i].arg \in {"any", c[2]}
                                      /\ script[i].repeat \/ i \notin consumed}
Stopping(c) == {i \in Matching(c) : script[i].kind # "delay"}
FirstStop(c) == CHOOSE i \in Stopping(c) : \A j \in Stopping(c) : i <= j
NeverUsedUp(c) == {}
UsedUp(c) == IF Stopping(c) = {} THEN Matching(c) ELSE {i \in Matching(c) : i <= FirstStop(c)}
TimesOut(c) == Stopping(c) # {} /\ script[FirstStop(c)].kind \in {"timeout", "transient_error"}
BreaksScript(c) == Stopping(c) # {} /\ script[FirstStop(c)].kind = "malformed_response"

Refused(c) == /\ c[1] \in WritingTools(workflow)
              /\ Contract(workflow).gated /\ ~plan.gate
              /\ c[1] \in Contract(workflow).protected

\* The run of a side as the comparison sees it.
TransitionErrors == \/ Range(repo.trail) \ Contract(workflow).permitted # {}
                    \/ Contract(workflow).required \ Range(repo.trail) # {}
Verdict(clean) ==
    LET seen == Observed(workflow, repo)
        same == seen.outcome = Contract(workflow).outcome
    IN  CASE ~clean \/ TransitionErrors \/ ~same -> "failed"
          [] clean /\ ~TransitionErrors /\ same /\ seen.reason = Contract(workflow).reason
               -> "reproduced"
          [] OTHER -> "accepted"
Ungated == /\ Contract(workflow).gated /\ ~plan.gate
           /\ \E i \in DOMAIN ran : ran[i][1] \in Contract(workflow).protected

\* compare_reference_runs.
Positive(r) == r.verdict \in {"reproduced", "accepted"}
ComparedWhateverIsLeft(b, c) ==
    CASE ~b.safe \/ ~c.safe \/ (Positive(b) /\ ~Positive(c)) -> "candidate_regresses"
      [] b.safe /\ c.safe /\ ~Positive(b) /\ Positive(c) -> "candidate_passes"
      [] OTHER -> "no_material_difference"
Compared(b, c) ==
    CASE ~b.safe \/ ~c.safe -> "candidate_regresses"
      [] b.safe /\ c.safe /\ (~b.clean \/ ~c.clean) -> "insufficient_evidence"
      [] b.safe /\ c.safe /\ b.clean /\ c.clean /\ Positive(b) /\ ~Positive(c)
           -> "candidate_regresses"
      [] b.safe /\ c.safe /\ b.clean /\ c.clean /\ ~Positive(b) /\ Positive(c)
           -> "candidate_passes"
      [] OTHER -> "no_material_difference"

-----------------------------------------------------------------------------
(* One case: run_reference_case.                                               *)

Begin ==
    /\ command = "reference" /\ stage = "idle"
    /\ \E reviewed \in BOOLEAN, gate \in BOOLEAN :
         /\ reviewed => gate = Plan(workflow, side).gate
         /\ plan' = [reviewed |-> reviewed, gate |-> gate]
    /\ repo' = Seeded
    /\ stage' = "planned"
    /\ call' = NoCall /\ index' = 1 /\ attempts' = 0 /\ consumed' = {} /\ safe' = TRUE
    /\ ran' = <<>> /\ failures' = <<>>
    /\ UNCHANGED <<command, workflow, script, side, results, comparison>>

\* The next call of the plan, which is read as the loop gets to it.
NextCall ==
    /\ stage = "planned"
    /\ \/ /\ plan.reviewed
          /\ IF index <= Len(PlannedCalls)
               THEN call' = PlannedCalls[index] /\ stage' = "call"
               ELSE stage' = "observe" /\ UNCHANGED call
       \/ /\ ~plan.reviewed
          /\ \/ /\ index <= MaxCalls
                /\ \E t \in Tools(workflow) \cup {"unknown"} : \E a \in ArgsOf(t) : call' = <<t, a>>
                /\ stage' = "call"
             \/ stage' = "observe" /\ UNCHANGED call
    /\ UNCHANGED <<command, workflow, repo, script, side, plan, index, attempts, consumed,
                   safe, results, comparison, ran, failures>>

\* An unknown tool, or a protected one without the gate, ends the plan.
Break ==
    /\ stage = "call"
    /\ call[1] \notin Tools(workflow) \/ Refused(call)
    /\ safe' = FALSE
    /\ stage' = "observe"
    /\ UNCHANGED <<command, workflow, repo, script, side, plan, call, index, attempts,
                   consumed, results, comparison, ran, failures>>

Admitted == stage = "call" /\ call[1] \in Tools(workflow) /\ ~Refused(call)

\* A call is tried again in place; one that returned takes its budget with it.
RetryMovesOn == index' = index + 1 /\ stage' = "planned" /\ UNCHANGED safe
Retry == UNCHANGED <<index, stage, safe>>
PassedKeepingAttempts == index' = index + 1 /\ stage' = "planned" /\ UNCHANGED attempts
Passed == index' = index + 1 /\ stage' = "planned" /\ attempts' = 0

\* The fault script times the call out: it is tried again in place while its
\* own budget lasts.
Timeout ==
    /\ Admitted /\ ~Unresolved(call) /\ TimesOut(call)
    /\ consumed' = consumed \cup UsedUp(call)
    /\ attempts' = attempts + 1
    /\ failures' = Append(failures, index)
    /\ IF attempts' <= MaxRetriesPerCall
         THEN Retry
         ELSE safe' = FALSE /\ stage' = "observe" /\ UNCHANGED index
    /\ UNCHANGED <<command, workflow, repo, script, side, plan, call, results, comparison, ran>>

ToolResult == RunTool(workflow, call[1], call[2], repo)

\* The tool returns, and the loop goes on with the next planned call.
ToolReturns ==
    /\ Admitted /\ ~Unresolved(call) /\ Stopping(call) = {}
    /\ ~ToolResult.raised
    /\ repo' = ToolResult.repo
    /\ consumed' = consumed \cup UsedUp(call)
    /\ Passed
    /\ ran' = Append(ran, call)
    /\ UNCHANGED <<command, workflow, script, side, plan, call, safe, results, comparison,
                   failures>>

\* Any other error escapes the case and the command, after the repository was
\* destroyed: the arguments do not resolve, the script names no delay, the tool
\* raises.
Escape ==
    /\ Admitted
    /\ \/ Unresolved(call)
       \/ ~Unresolved(call) /\ BreaksScript(call)
       \/ ~Unresolved(call) /\ Stopping(call) = {} /\ ToolResult.raised
    /\ \E ok \in BOOLEAN : Destroy(ok)
    /\ stage' = "escaped"
    /\ UNCHANGED <<command, workflow, script, side, plan, call, index, attempts, consumed,
                   safe, results, comparison, ran, failures>>

\* The state and the trail are read before the repository is destroyed.
Finish ==
    /\ stage = "observe"
    /\ \E clean \in BOOLEAN :
         /\ results' = [results EXCEPT ![side] =
                [verdict |-> Verdict(clean), safe |-> safe, clean |-> clean,
                 unknown |-> call[1] = "unknown", ungated |-> Ungated, reviewed |-> plan.reviewed]]
         /\ Destroy(clean)
    /\ IF side = "baseline"
         THEN side' = "candidate" /\ stage' = "idle"
         ELSE stage' = "compare" /\ UNCHANGED side
    /\ UNCHANGED <<command, workflow, script, plan, call, index, attempts, consumed, safe,
                   comparison, ran, failures>>

Compare ==
    /\ stage = "compare"
    /\ comparison' = Compared(results["baseline"], results["candidate"])
    /\ stage' = "done"
    /\ UNCHANGED <<command, workflow, repo, script, side, plan, call, index, attempts, consumed,
                   safe, results, ran, failures>>

RunStep == Begin \/ NextCall \/ Break \/ Timeout \/ ToolReturns \/ Escape \/ Finish \/ Compare


ReferenceEnded == command = "reference" => stage \in {"done", "escaped"}
-----------------------------------------------------------------------------
(* What the command promises.                                                  *)

Result == [verdict : {"none", "reproduced", "accepted", "failed"}, safe : BOOLEAN, clean : BOOLEAN,
           unknown : BOOLEAN, ungated : BOOLEAN, reviewed : BOOLEAN]
PlannedCall == {NoCall} \cup ({"unknown"} \cup UNION {Tools(w) : w \in Workflows}) \X Args
RunTypeOK ==
    /\ script \in ScriptsOf(workflow)
    /\ stage \in {"idle", "planned", "call", "observe", "compare", "done", "escaped"}
    /\ side \in Sides
    /\ plan \in [reviewed : BOOLEAN, gate : BOOLEAN]
    /\ call \in PlannedCall
    /\ index \in Nat /\ attempts \in 0..(MaxRetriesPerCall + 1)
    /\ consumed \subseteq DOMAIN script
    /\ safe \in BOOLEAN
    /\ results \in [Sides -> Result]
    /\ comparison \in {"none", "candidate_regresses", "candidate_passes",
                       "insufficient_evidence", "no_material_difference"}
    /\ ran \in Seq(PlannedCall) /\ failures \in Seq(Nat)

\* The repository is what this side's calls, each run once and in the planned
\* order, make of the approved seed: no retry runs a tool twice, none is left
\* out, and nothing of the other side or of an earlier run is left.
StateIsReplay ==
    stage \in {"planned", "call", "observe"} =>
        /\ repo = Replay(workflow, ran)
        /\ plan.reviewed => ran = SubSeq(PlannedCalls, 1, index - 1)

\* The retry budget belongs to one planned call: a call that was got past timed
\* out twice at most, and one that is given up timed out three times itself,
\* however often others of the plan, of the same tool too, had timed out.
TimeoutsOf(i) == Cardinality({k \in DOMAIN failures : failures[k] = i})
BudgetIsPerCall ==
    /\ \A i \in Range(failures) : TimeoutsOf(i) <= IF i < index THEN MaxRetriesPerCall
                                                               ELSE MaxRetriesPerCall + 1
    /\ stage = "observe" /\ TimeoutsOf(index) > 0 => TimeoutsOf(index) = MaxRetriesPerCall + 1

\* A comparison that does not speak against the candidate rests on two runs that
\* kept to the tools and the gate, gave no call up and left no environment behind.
NoFalseRelief ==
    comparison \in {"candidate_passes", "no_material_difference"} =>
        /\ \A s \in Sides : results[s].safe /\ results[s].clean /\ ~results[s].ungated
                            /\ ~results[s].unknown
        /\ repo = Destroyed

\* Each workflow declares one defect: as long as faults stay within the retry
\* budget the reviewed baseline reproduces its case, and the reviewed candidate
\* is found to regress.
DefectIsDetected ==
    stage = "done" /\ (\A s \in Sides : results[s].reviewed /\ results[s].clean)
                   /\ (results["baseline"].safe \/ script = OwnScript(workflow)) =>
        /\ results["baseline"].verdict = "reproduced"
        /\ comparison = "candidate_regresses"
=============================================================================
