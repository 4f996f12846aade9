-------------------------- MODULE LabCommandsProofs --------------------------
(* Proofs about the commands of the command line, for any fault scripts, plans,*)
(* personas and bounds.                                                        *)
EXTENDS LabCommands, SuiteComparisonProofs, SequenceTheorems

-----------------------------------------------------------------------------
(* The reference command: its invariant                                        *)

(* Types, as far as the proofs need them; another command does not touch this  *)
(* one's state.                                                                *)
RunTypes ==
    /\ command \in Commands /\ workflow \in Workflows
    /\ stage \in {"idle", "planned", "call", "observe", "compare", "done", "escaped"}
    /\ side \in Sides
    /\ plan \in [reviewed : BOOLEAN, gate : BOOLEAN]
    /\ call \in PlannedCall
    /\ index \in Nat /\ attempts \in Nat
    /\ stage \in {"planned", "call"} => index > 0
    /\ safe \in BOOLEAN
    /\ results \in [Sides -> Result]
    /\ ran \in Seq(PlannedCall) /\ failures \in Seq(Nat)
    /\ command # "reference" => stage = "idle"
    /\ command # "simulate" => phase = "idle"

(* The calls of this side that ran, and the one that is tried again, were let  *)
(* through: they are of a known tool and not behind a gate that was not passed.*)
LetThrough(c) == c[1] \in Tools(workflow) /\ ~Refused(c)
CallInv ==
    /\ \A i \in DOMAIN ran : LetThrough(ran[i])
    /\ stage \in {"planned", "call"} => safe
    /\ stage \in {"planned", "observe"} /\ safe => call[1] # "unknown"
    /\ stage = "call" /\ attempts > 0 => LetThrough(call)

(* How often each planned call timed out, and what the counter says of the one *)
(* under the index.                                                            *)
BudgetInv ==
    /\ \A k \in DOMAIN failures : failures[k] <= index
    /\ \A i \in 0 .. index : i < index => TimeoutsOf(i) <= MaxRetriesPerCall
    /\ TimeoutsOf(index) <= MaxRetriesPerCall + 1
    /\ stage \in {"planned", "call"} => TimeoutsOf(index) = attempts /\ attempts <= MaxRetriesPerCall
    /\ stage = "planned" => attempts = 0
    /\ stage = "observe" => TimeoutsOf(index) \in {0, MaxRetriesPerCall + 1}

(* What the finished runs report, and what a verdict on them rests on.         *)
VerdictInv ==
    /\ \A s \in Sides : results[s].safe => ~results[s].unknown /\ ~results[s].ungated
    /\ stage = "done" => comparison = Compared(results["baseline"], results["candidate"])
    /\ stage # "done" => comparison = "none"
    /\ stage \in {"compare", "done"} /\ results["candidate"].clean => repo = Destroyed
    /\ stage = "compare" => side = "candidate"

RunInv == RunTypes /\ CallInv /\ BudgetInv /\ VerdictInv

-----------------------------------------------------------------------------
(* What the workflows declare.                                                 *)

(* Every protected tool writes, so that the gate is asked about it; no tool is *)
(* called "unknown".                                                           *)
LEMMA Declared ==
  ASSUME NEW w \in Workflows
  PROVE  /\ Contract(w).protected \subseteq WritingTools(w)
         /\ "unknown" \notin Tools(w)
BY DEF Workflows, Contract, WritingTools, SafeTools, Tools,
   FlightContract, FlightWrites, FlightReads, IncidentContract, IncidentWrites, IncidentReads,
   TriageContract, TriageWrites, TriageReads, ClaimsContract, ClaimsWrites, ClaimsReads,
   ReturnsContract, ReturnsWrites, ReturnsReads, OnboardingContract, OnboardingWrites, OnboardingReads,
   DisputesContract, DisputesWrites, DisputesReads

(* Short sequences of calls are sequences of calls.                            *)
LEMMA Short ==
  ASSUME NEW T, NEW a \in T, NEW b \in T, NEW c \in T, NEW d \in T, NEW e \in T
  PROVE  /\ <<a, b>> \in Seq(T) /\ <<a, b, c>> \in Seq(T)
         /\ <<a, b, c, d>> \in Seq(T) /\ <<a, b, c, d, e>> \in Seq(T)
OBVIOUS

(* The reviewed plans are sequences of calls of the workflow's own tools.      *)
LEMMA Planned ==
  ASSUME NEW w \in Workflows, NEW s \in Sides
  PROVE  Plan(w, s).calls \in Seq(Tools(w) \X Args)
<1> DEFINE T == Tools(w) \X Args
<1>1. CASE w = "flight_booking"
  <2>1. /\ <<"search_flights", "reviewed">> \in T
        /\ <<"get_fare", "reviewed">> \in T
        /\ <<"hold_booking", "reviewed">> \in T
        /\ <<"confirm_booking", "reviewed">> \in T
        /\ <<"confirm_booking", "other">> \in T
    BY <1>1 DEF Tools, SafeTools, WritingTools, Args, FlightWrites, FlightReads
  <2> HIDE DEF T
  <2>2. QED
    BY <2>1, <1>1, Short DEF Plan, FlightPlan, T, Sides
<1>2. CASE w = "incident_response"
  <2>1. /\ <<"get_service_status", "reviewed">> \in T
        /\ <<"find_runbook", "reviewed">> \in T
        /\ <<"ack_incident", "reviewed">> \in T
        /\ <<"run_remediation_step", "reviewed">> \in T
        /\ <<"page_on_call", "reviewed">> \in T
    BY <1>2 DEF Tools, SafeTools, WritingTools, Args, IncidentWrites, IncidentReads
  <2> HIDE DEF T
  <2>2. QED
    BY <2>1, <1>2, Short DEF Plan, IncidentPlan, T, Sides
<1>3. CASE w = "ci_triage"
  <2>1. /\ <<"read_failing_checks", "reviewed">> \in T
        /\ <<"read_test_logs", "reviewed">> \in T
        /\ <<"search_known_issues", "reviewed">> \in T
        /\ <<"open_triage_issue", "reviewed">> \in T
        /\ <<"create_fix_branch", "reviewed">> \in T
    BY <1>3 DEF Tools, SafeTools, WritingTools, Args, TriageWrites, TriageReads
  <2> HIDE DEF T
  <2>2. QED
    BY <2>1, <1>3, Short DEF Plan, TriagePlan, T, Sides
<1>4. CASE w = "claims_denial"
  <2>1. /\ <<"get_claim", "reviewed">> \in T
        /\ <<"retrieve_policy", "reviewed">> \in T
        /\ <<"get_clinical_notes", "reviewed">> \in T
        /\ <<"save_appeal_draft", "reviewed">> \in T
        /\ <<"submit_appeal", "reviewed">> \in T
        /\ <<"retrieve_policy", "other">> \in T
        /\ <<"save_appeal_draft", "other">> \in T
        /\ <<"submit_appeal", "other">> \in T
    BY <1>4 DEF Tools, SafeTools, WritingTools, Args, ClaimsWrites, ClaimsReads
  <2> HIDE DEF T
  <2>2. QED
    BY <2>1, <1>4, Short DEF Plan, ClaimsPlan, T, Sides
<1>5. CASE w = "returns_resolution"
  <2>1. /\ <<"get_order", "reviewed">> \in T
        /\ <<"verify_order_ownership", "reviewed">> \in T
        /\ <<"get_return_policy", "reviewed">> \in T
        /\ <<"approve_return", "reviewed">> \in T
        /\ <<"process_refund", "reviewed">> \in T
    BY <1>5 DEF Tools, SafeTools, WritingTools, Args, ReturnsWrites, ReturnsReads
  <2> HIDE DEF T
  <2>2. QED
    BY <2>1, <1>5, Short DEF Plan, ReturnsPlan, T, Sides
<1>6. CASE w = "onboarding"
  <2>1. /\ <<"get_candidate", "reviewed">> \in T
        /\ <<"get_position", "reviewed">> \in T
        /\ <<"select_checklist", "reviewed">> \in T
        /\ <<"create_worker_record", "reviewed">> \in T
        /\ <<"complete_task", "reviewed">> \in T
        /\ <<"select_checklist", "other">> \in T
        /\ <<"complete_task", "other">> \in T
    BY <1>6 DEF Tools, SafeTools, WritingTools, Args, OnboardingWrites, OnboardingReads
  <2> HIDE DEF T
  <2>2. QED
    BY <2>1, <1>6, Short DEF Plan, OnboardingPlan, T, Sides
<1>7. CASE w = "disputes"
  <2>1. /\ <<"get_account", "reviewed">> \in T
        /\ <<"get_transaction", "reviewed">> \in T
        /\ <<"get_fraud_signals", "reviewed">> \in T
        /\ <<"open_dispute", "reviewed">> \in T
        /\ <<"provisional_credit", "reviewed">> \in T
        /\ <<"provisional_credit", "other">> \in T
    BY <1>7 DEF Tools, SafeTools, WritingTools, Args, DisputesWrites, DisputesReads
  <2> HIDE DEF T
  <2>2. QED
    BY <2>1, <1>7, Short DEF Plan, DisputesPlan, T, Sides
<1>8. QED
  BY <1>1, <1>2, <1>3, <1>4, <1>5, <1>6, <1>7 DEF Workflows

(* A persona's steps belong to its own command.                                *)
LEMMA PersonaActs ==
  ASSUME PersonaStep \/ PersonaFault
  PROVE  command' = command /\ workflow' = workflow /\ (phase = "idle" => command = "simulate")
<1> USE DEF InTheMiddle, Unended
<1>1. CASE Start \/ SandboxUnready
  BY <1>1 DEF Start, SandboxUnready
<1>2. CASE PersonaTurn \/ Judge \/ PartialReport \/ Cleanup \/ Exit
  BY <1>2 DEF PersonaTurn, Judge, PartialReport, Cleanup, Exit
<1>3. CASE AgentBegins \/ AgentEnds \/ AgentIsRefused \/ AgentAsks \/ AgentUses \/ AgentGivesUp
  BY <1>3 DEF AgentBegins, AgentEnds, AgentIsRefused, AgentAsks, AgentUses, AgentGivesUp, Choosing
<1>4. CASE SupportAnswers
  BY <1>4 DEF SupportAnswers
<1>5. CASE ModelFails \/ Interrupted \/ EventFails
  BY <1>5 DEF ModelFails, Interrupted, EventFails, Fails, Awaiting
<1>6. QED
  BY <1>1, <1>2, <1>3, <1>4, <1>5 DEF PersonaStep, PersonaFault

(* No other command touches the state of the reference command.                *)
LEMMA OthersActs ==
  ASSUME RunTypes, [Next]_vars, ~ReferenceCommandStep
  PROVE  /\ command' = command /\ workflow' = workflow /\ runVars' = runVars
         /\ command # "simulate" => repo' = repo /\ phase' = phase
<1>1. CASE SimulateStep \/ SimulateFault
  BY <1>1, PersonaActs DEF SimulateStep, SimulateFault, RunTypes
<1>2. CASE SetupStep \/ SetupInput \/ CompareStep
  BY <1>2 DEF SetupStep, SetupInput, CompareStep, personaVars
<1>3. CASE Ended \/ UNCHANGED vars
  BY <1>3 DEF Ended, vars, personaVars
<1>4. QED
  BY <1>1, <1>2, <1>3 DEF Next

(* What no step of this command touches stays.  A step that leaves the whole  *)
(* command's state alone keeps its invariant.                                 *)
LEMMA OthersKeep ==
  ASSUME RunInv, [Next]_vars, ~ReferenceCommandStep
  PROVE  RunInv'
<1>1. /\ command' = command /\ workflow' = workflow /\ runVars' = runVars
      /\ command # "simulate" => repo' = repo /\ phase' = phase
  BY OthersActs DEF RunInv
<1>2. /\ script' = script /\ stage' = stage /\ side' = side /\ plan' = plan /\ call' = call
      /\ index' = index /\ attempts' = attempts /\ safe' = safe /\ results' = results
      /\ comparison' = comparison /\ ran' = ran /\ failures' = failures
  BY <1>1 DEF runVars
<1>3. RunTypes'
  BY <1>1, <1>2 DEF RunInv, RunTypes
<1>4. CallInv'
  BY <1>1, <1>2 DEF RunInv, CallInv, LetThrough, Refused
<1>5. BudgetInv'
  BY <1>2 DEF RunInv, BudgetInv, TimeoutsOf
<1>6. VerdictInv'
  <2>1. stage' \in {"compare", "done"} => repo' = repo
    BY <1>1, <1>2 DEF RunInv, RunTypes
  <2>2. QED
    BY <1>2, <2>1 DEF RunInv, VerdictInv, Compared, Positive
<1>7. QED
  BY <1>3, <1>4, <1>5, <1>6 DEF RunInv

(* How often a number stands in a list; one more entry counts for its own.     *)
Times(s, j) == Cardinality({k \in DOMAIN s : s[k] = j})

(* The places of a number in a list are finitely many.                        *)
LEMMA TimesFinite ==
  ASSUME NEW s \in Seq(Nat), NEW j
  PROVE  IsFiniteSet({k \in DOMAIN s : s[k] = j}) /\ Times(s, j) \in Nat
<1> DEFINE K == {k \in DOMAIN s : s[k] = j}
<1>1. IsFiniteSet(1 .. Len(s)) /\ K \subseteq 1 .. Len(s)
  BY FS_Interval
<1> HIDE DEF K
<1>2. IsFiniteSet(K) /\ Cardinality(K) \in Nat
  BY <1>1, FS_Subset, FS_CardinalityType
<1>3. QED
  BY <1>2 DEF K, Times

(* Appending an entry counts it once, for its own number only.                *)
LEMMA OneMore ==
  ASSUME NEW s \in Seq(Nat), NEW i \in Nat, NEW j
  PROVE  Times(Append(s, i), j) = Times(s, j) + (IF i = j THEN 1 ELSE 0)
<1> DEFINE K == {k \in DOMAIN s : s[k] = j}
           M == {k \in DOMAIN Append(s, i) : Append(s, i)[k] = j}
           n == Len(s) + 1
<1>1. /\ n \notin K /\ DOMAIN Append(s, i) = DOMAIN s \cup {n} /\ Append(s, i)[n] = i
      /\ \A k \in DOMAIN s : Append(s, i)[k] = s[k]
  BY AppendProperties
<1>2. M = IF i = j THEN K \cup {n} ELSE K
  BY <1>1
<1>3. IsFiniteSet(K) /\ Cardinality(K) \in Nat
  BY TimesFinite DEF Times
<1> HIDE DEF K, M, n
<1>4. Cardinality(K \cup {n}) = Cardinality(K) + 1
  BY <1>1, <1>3, FS_AddElement
<1>5. Cardinality(M) = Cardinality(K) + (IF i = j THEN 1 ELSE 0)
  BY <1>2, <1>3, <1>4
<1>6. QED
  BY <1>5 DEF K, M, Times

(* A number that is not in the list does not count.                           *)
LEMMA NeverTimedOut ==
  ASSUME NEW s \in Seq(Nat), NEW j, \A k \in DOMAIN s : s[k] # j
  PROVE  Times(s, j) = 0
<1>1. {k \in DOMAIN s : s[k] = j} = {}
  OBVIOUS
<1>2. QED
  BY <1>1, FS_EmptySet DEF Times

(* What the budget says of the lists of time-outs.                             *)
LEMMA BudgetOf ==
  ASSUME NEW i
  PROVE  TimeoutsOf(i) = Times(failures, i)
BY DEF TimeoutsOf, Times

(* The same after a step.                                                     *)
LEMMA BudgetNext ==
  ASSUME NEW i
  PROVE  TimeoutsOf(i)' = Times(failures', i)
BY DEF TimeoutsOf, Times

(* An environment opened for a side starts with nothing called and nothing    *)
(* timed out.                                                                 *)
LEMMA BeginKeeps ==
  ASSUME RunInv, Begin, phase' = phase
  PROVE  RunInv'
<1> USE DEF RunInv
<1>1. /\ command' = command /\ workflow' = workflow /\ side' = side
      /\ results' = results /\ comparison' = comparison
      /\ stage' = "planned" /\ stage = "idle" /\ call' = NoCall /\ index' = 1 /\ attempts' = 0
      /\ safe' = TRUE /\ ran' = <<>> /\ failures' = <<>>
      /\ plan' \in [reviewed : BOOLEAN, gate : BOOLEAN] /\ command = "reference"
  BY DEF Begin
<1>2. RunTypes'
  BY <1>1 DEF RunTypes, PlannedCall
<1>3. CallInv'
  BY <1>1 DEF CallInv, NoCall
<1>4. BudgetInv'
  <2>1. \A i : TimeoutsOf(i)' = 0
    <3> TAKE i
    <3>1. failures' \in Seq(Nat) /\ \A k \in DOMAIN failures' : failures'[k] # i
      BY <1>1
    <3>2. QED
      BY <3>1, NeverTimedOut, BudgetNext
  <2>2. QED
    BY <1>1, <2>1 DEF BudgetInv, MaxRetriesPerCall
<1>5. VerdictInv'
  BY <1>1 DEF VerdictInv
<1>6. QED
  BY <1>2, <1>3, <1>4, <1>5

(* The next call, or none, comes with a counter of its own.                   *)
LEMMA NextCallKeeps ==
  ASSUME RunInv, NextCall, phase' = phase
  PROVE  RunInv'
<1> USE DEF RunInv
<1>1. /\ command' = command /\ workflow' = workflow /\ side' = side /\ plan' = plan /\ index' = index
      /\ attempts' = attempts /\ safe' = safe /\ results' = results /\ comparison' = comparison
      /\ ran' = ran /\ failures' = failures /\ stage = "planned"
      /\ \/ stage' = "call"
         \/ stage' = "observe" /\ call' = call
  BY DEF NextCall
<1>2. call' \in PlannedCall
  <2>1. CASE plan.reviewed /\ index <= Len(PlannedCalls)
    <3>1. PlannedCalls \in Seq(Tools(workflow) \X Args) /\ index \in Nat
      BY Planned DEF PlannedCalls, RunTypes
    <3>2. index # 0 => PlannedCalls[index] \in Tools(workflow) \X Args
      BY <2>1, <3>1
    <3>3. QED
      BY <2>1, <3>2 DEF NextCall, PlannedCall, RunTypes
  <2>2. CASE ~plan.reviewed
    <3>1. \A t : ArgsOf(t) \subseteq Args
      BY DEF ArgsOf, Args
    <3>2. QED
      BY <2>2, <3>1, <1>1 DEF NextCall, PlannedCall, RunTypes
  <2>3. QED
    BY <2>1, <2>2, <1>1 DEF NextCall, RunTypes
<1>3. RunTypes'
  BY <1>1, <1>2 DEF RunTypes
<1>4. CallInv'
  BY <1>1 DEF CallInv, LetThrough, Refused, BudgetInv
<1>5. BudgetInv'
  BY <1>1 DEF BudgetInv, TimeoutsOf
<1>6. VerdictInv'
  BY <1>1 DEF VerdictInv
<1>7. QED
  BY <1>3, <1>4, <1>5, <1>6

(* A run that leaves its tools or its gate ends unsafe.                       *)
LEMMA BreakKeeps ==
  ASSUME RunInv, Break, phase' = phase
  PROVE  RunInv'
<1> USE DEF RunInv
<1>1. /\ command' = command /\ workflow' = workflow /\ side' = side /\ plan' = plan /\ index' = index
      /\ call' = call
      /\ attempts' = attempts /\ results' = results /\ comparison' = comparison
      /\ ran' = ran /\ failures' = failures /\ stage = "call"
      /\ stage' = "observe" /\ safe' = FALSE /\ ~LetThrough(call)
  BY DEF Break, LetThrough
<1>3. RunTypes'
  BY <1>1 DEF RunTypes
<1>4. CallInv'
  BY <1>1 DEF CallInv, LetThrough, Refused
<1>5. BudgetInv'
  BY <1>1 DEF BudgetInv, TimeoutsOf, CallInv, RunTypes
<1>6. VerdictInv'
  BY <1>1 DEF VerdictInv
<1>7. QED
  BY <1>3, <1>4, <1>5, <1>6

(* A time-out counts for the call under the index, whether it is tried again  *)
(* or given up.                                                               *)
LEMMA TimeoutKeeps ==
  ASSUME RunInv, Timeout, phase' = phase
  PROVE  RunInv'
<1> USE DEF RunInv
<1>1. /\ command' = command /\ workflow' = workflow /\ side' = side /\ plan' = plan /\ index' = index
      /\ call' = call
      /\ attempts' = attempts + 1 /\ results' = results /\ comparison' = comparison
      /\ ran' = ran /\ failures' = Append(failures, index) /\ stage = "call"
      /\ LetThrough(call)
      /\ \/ attempts + 1 <= MaxRetriesPerCall /\ stage' = "call" /\ safe' = safe
         \/ attempts + 1 > MaxRetriesPerCall /\ stage' = "observe" /\ safe' = FALSE
  BY DEF Timeout, Retry, Admitted, LetThrough, MaxRetriesPerCall, RunTypes
<1>2. index \in Nat /\ attempts \in Nat /\ failures \in Seq(Nat) /\ attempts <= MaxRetriesPerCall
  BY <1>1 DEF RunTypes, BudgetInv
<1>3. RunTypes'
  <2>1. failures' \in Seq(Nat) /\ attempts' \in Nat
    BY <1>1, <1>2
  <2>2. QED
    BY <1>1, <2>1 DEF RunTypes
<1>4. CallInv'
  <2>1. LetThrough(call)' /\ \A i \in DOMAIN ran' : LetThrough(ran[i])'
    BY <1>1 DEF CallInv, LetThrough, Refused
  <2>2. safe = TRUE
    BY <1>1 DEF CallInv, RunTypes
  <2>3. (stage' = "call" /\ safe' = TRUE) \/ (stage' = "observe" /\ safe' = FALSE)
    BY <1>1, <2>2
  <2>4. QED
    BY <1>1, <2>1, <2>3 DEF CallInv
<1>5. BudgetInv'
  <2>1. \A i : TimeoutsOf(i)' = TimeoutsOf(i) + (IF index = i THEN 1 ELSE 0)
    BY <1>1, <1>2, OneMore, BudgetOf, BudgetNext
  <2>2. \A k \in DOMAIN failures' : failures'[k] <= index
    BY <1>1, <1>2, AppendProperties DEF BudgetInv
  <2>3. \A i : TimeoutsOf(i) \in Nat
    BY <1>2, TimesFinite DEF TimeoutsOf, Times
  <2>4. \A i \in 0 .. index : i < index => TimeoutsOf(i)' <= MaxRetriesPerCall
    <3> TAKE i \in 0 .. index
    <3>1. i < index => TimeoutsOf(i)' = TimeoutsOf(i)
      BY <1>2, <2>1, <2>3
    <3>2. QED
      BY <3>1 DEF BudgetInv
  <2>5. TimeoutsOf(index)' = attempts + 1
    BY <1>1, <2>1 DEF BudgetInv
  <2>6. QED
    BY <1>1, <1>2, <2>2, <2>4, <2>5 DEF BudgetInv, MaxRetriesPerCall
<1>6. VerdictInv'
  BY <1>1 DEF VerdictInv
<1>7. QED
  BY <1>3, <1>4, <1>5, <1>6

(* A call that returns is listed, and its counter goes back.                  *)
LEMMA ToolReturnsKeeps ==
  ASSUME RunInv, ToolReturns, phase' = phase
  PROVE  RunInv'
<1> USE DEF RunInv
<1>1. /\ command' = command /\ workflow' = workflow /\ side' = side /\ plan' = plan /\ index' = index + 1
      /\ call' = call /\ safe' = safe
      /\ attempts' = 0 /\ results' = results /\ comparison' = comparison
      /\ ran' = Append(ran, call) /\ failures' = failures /\ stage = "call"
      /\ LetThrough(call) /\ stage' = "planned"
  BY DEF ToolReturns, Passed, Admitted, LetThrough
<1>2. index \in Nat /\ failures \in Seq(Nat) /\ ran \in Seq(PlannedCall) /\ call \in PlannedCall
      /\ workflow \in Workflows
  BY DEF RunTypes
<1>3. RunTypes'
  <2>1. ran' \in Seq(PlannedCall) /\ index' \in Nat
    BY <1>1, <1>2
  <2>2. QED
    BY <1>1, <2>1 DEF RunTypes
<1>4. CallInv'
  <2>1. \A i \in DOMAIN ran' : LetThrough(ran'[i])
    BY <1>1, <1>2, AppendProperties DEF CallInv
  <2>2. call[1] # "unknown"
    BY <1>1, <1>2, Declared DEF LetThrough
  <2>3. QED
    BY <1>1, <2>1, <2>2 DEF CallInv, LetThrough, Refused
<1>5. BudgetInv'
  <2>1. \A i : TimeoutsOf(i)' = TimeoutsOf(i)
    BY <1>1 DEF TimeoutsOf
  <2>2. TimeoutsOf(index + 1) = 0
    <3>1. \A k \in DOMAIN failures : failures[k] # index + 1
      BY <1>2 DEF BudgetInv
    <3>2. QED
      BY <1>2, <3>1, NeverTimedOut DEF TimeoutsOf, Times
  <2>3. \A k \in DOMAIN failures : failures[k] <= index + 1
    BY <1>2 DEF BudgetInv
  <2>4. \A i \in 0 .. index + 1 : i < index + 1 => TimeoutsOf(i) <= MaxRetriesPerCall
    BY <1>1, <1>2 DEF BudgetInv
  <2>5. QED
    BY <1>1, <2>1, <2>2, <2>3, <2>4 DEF BudgetInv, MaxRetriesPerCall
<1>6. VerdictInv'
  BY <1>1 DEF VerdictInv
<1>7. QED
  BY <1>3, <1>4, <1>5, <1>6

(* A failure that escapes leaves no verdict behind.                           *)
LEMMA EscapeKeeps ==
  ASSUME RunInv, Escape, phase' = phase
  PROVE  RunInv'
<1> USE DEF RunInv
<1>1. /\ command' = command /\ workflow' = workflow /\ side' = side /\ plan' = plan /\ index' = index
      /\ call' = call /\ safe' = safe
      /\ attempts' = attempts /\ results' = results /\ comparison' = comparison
      /\ ran' = ran /\ failures' = failures /\ stage = "call" /\ stage' = "escaped"
  BY DEF Escape, Admitted
<1>3. RunTypes'
  BY <1>1 DEF RunTypes
<1>4. CallInv'
  BY <1>1 DEF CallInv, LetThrough, Refused
<1>5. BudgetInv'
  BY <1>1 DEF BudgetInv, TimeoutsOf
<1>6. VerdictInv'
  BY <1>1 DEF VerdictInv
<1>7. QED
  BY <1>3, <1>4, <1>5, <1>6

(* The observer's result of a side says what its run did.                     *)
LEMMA FinishKeeps ==
  ASSUME RunInv, Finish, phase' = phase
  PROVE  RunInv'
<1> USE DEF RunInv
<1> DEFINE Of(clean) ==
      [verdict |-> Verdict(clean), safe |-> safe, clean |-> clean,
       unknown |-> call[1] = "unknown", ungated |-> Ungated, reviewed |-> plan.reviewed]
<1>1. PICK clean \in BOOLEAN : results' = [results EXCEPT ![side] = Of(clean)] /\ Destroy(clean)
  BY DEF Finish
<1>2. /\ command' = command /\ workflow' = workflow /\ plan' = plan /\ index' = index
      /\ call' = call /\ safe' = safe
      /\ attempts' = attempts /\ comparison' = comparison
      /\ ran' = ran /\ failures' = failures /\ stage = "observe"
      /\ \/ side = "baseline" /\ side' = "candidate" /\ stage' = "idle"
         \/ side = "candidate" /\ side' = side /\ stage' = "compare"
  BY DEF Finish, RunTypes, Sides
<1>3. Of(clean) \in Result
  BY DEF Result, Verdict, Ungated, RunTypes
<1>4. RunTypes'
  BY <1>1, <1>2, <1>3 DEF RunTypes, Sides
<1>5. CallInv'
  BY <1>2 DEF CallInv, LetThrough, Refused
<1>6. BudgetInv'
  BY <1>2 DEF BudgetInv, TimeoutsOf
<1>7. VerdictInv'
  <2>1. safe => call[1] # "unknown"
    BY <1>2 DEF CallInv
  <2>2. ~Ungated
    BY Declared DEF Ungated, CallInv, LetThrough, Refused, RunTypes
  <2>3. Of(clean).safe => ~Of(clean).unknown /\ ~Of(clean).ungated
    BY <2>1, <2>2
  <2>4. Of(clean).clean = clean
    OBVIOUS
  <2> HIDE DEF Of
  <2>5. \A s \in Sides : results'[s] = IF s = side THEN Of(clean) ELSE results[s]
    BY <1>1 DEF RunTypes
  <2>6. stage' = "compare" => results'["candidate"].clean = clean
    BY <1>2, <2>4, <2>5 DEF Sides
  <2>7. stage' # "done" /\ (stage' = "compare" => side' = "candidate") /\ comparison' = "none"
    BY <1>2 DEF VerdictInv
  <2>8. stage' = "compare" /\ results'["candidate"].clean => repo' = Destroyed
    BY <1>1, <2>6 DEF Destroy
  <2>9. QED
    BY <2>3, <2>5, <2>7, <2>8 DEF VerdictInv
<1>8. QED
  BY <1>4, <1>5, <1>6, <1>7

(* The verdict is that of the two results.                                    *)
LEMMA CompareKeeps ==
  ASSUME RunInv, Compare, phase' = phase
  PROVE  RunInv'
<1> USE DEF RunInv
<1>1. /\ command' = command /\ workflow' = workflow /\ side' = side /\ plan' = plan /\ index' = index
      /\ call' = call /\ safe' = safe /\ repo' = repo
      /\ attempts' = attempts /\ results' = results
      /\ ran' = ran /\ failures' = failures /\ stage = "compare" /\ stage' = "done"
      /\ comparison' = Compared(results["baseline"], results["candidate"])
  BY DEF Compare
<1>3. RunTypes'
  BY <1>1 DEF RunTypes
<1>4. CallInv'
  BY <1>1 DEF CallInv, LetThrough, Refused
<1>5. BudgetInv'
  BY <1>1 DEF BudgetInv, TimeoutsOf
<1>6. VerdictInv'
  BY <1>1 DEF VerdictInv, Compared, Positive
<1>7. QED
  BY <1>3, <1>4, <1>5, <1>6

(* The invariant holds before the command begins.                             *)
LEMMA RunStarts ==
  ASSUME Init
  PROVE  RunInv
<1>1. /\ command \in Commands /\ workflow \in Workflows /\ phase = "idle"
      /\ stage = "idle" /\ side = "baseline" /\ plan = [reviewed |-> TRUE, gate |-> FALSE]
      /\ call = NoCall /\ index = 0 /\ attempts = 0 /\ safe = TRUE
      /\ results = [s \in Sides |-> NoResult] /\ comparison = "none" /\ ran = <<>> /\ failures = <<>>
  BY DEF Init, CommandInit, RunInit, PersonaInit
<1>2. NoResult \in Result /\ NoResult.safe /\ ~NoResult.unknown /\ ~NoResult.ungated
  BY DEF NoResult, Result
<1>3. RunTypes
  BY <1>1, <1>2 DEF RunTypes, PlannedCall, Sides
<1>4. CallInv
  BY <1>1 DEF CallInv, NoCall
<1>5. BudgetInv
  <2>1. failures \in Seq(Nat) /\ \A k \in DOMAIN failures : failures[k] # 0
    BY <1>1
  <2>2. TimeoutsOf(0) = 0
    BY <2>1, NeverTimedOut, BudgetOf
  <2>3. QED
    BY <1>1, <2>2 DEF BudgetInv, MaxRetriesPerCall
<1>6. VerdictInv
  BY <1>1, <1>2 DEF VerdictInv
<1>7. QED
  BY <1>3, <1>4, <1>5, <1>6 DEF RunInv

(* Every step of every command keeps it.                                      *)
LEMMA RunKeeps ==
  ASSUME RunInv, [Next]_vars
  PROVE  RunInv'
<1>1. CASE ReferenceCommandStep
  <2>1. phase' = phase
    BY <1>1 DEF ReferenceCommandStep, personaVars
  <2>2. RunStep
    BY <1>1 DEF ReferenceCommandStep
  <2>3. QED
    BY <2>1, <2>2, BeginKeeps, NextCallKeeps, BreakKeeps, TimeoutKeeps, ToolReturnsKeeps,
       EscapeKeeps, FinishKeeps, CompareKeeps DEF RunStep
<1>2. QED
  BY <1>1, OthersKeep

(* The invariant of the reference command holds whatever command runs.         *)
THEOREM RunInvariance == Spec => []RunInv
<1>1. Init => RunInv
  BY RunStarts
<1>2. RunInv /\ [Next]_vars => RunInv'
  BY RunKeeps
<1>3. QED
  BY <1>1, <1>2, PTL DEF Spec

(* The retry budget belongs to one planned call, however often others of the   *)
(* plan, of the same tool too, had timed out, for any fault script and plan.   *)
THEOREM BudgetsPerCall == Spec => []BudgetIsPerCall
<1>1. RunInv => BudgetIsPerCall
  <2> SUFFICES ASSUME RunInv
               PROVE  BudgetIsPerCall
    OBVIOUS
  <2>1. ASSUME NEW i \in Range(failures)
        PROVE  TimeoutsOf(i) <= IF i < index THEN MaxRetriesPerCall ELSE MaxRetriesPerCall + 1
    <3>1. PICK k \in DOMAIN failures : i = failures[k]
      BY DEF Range
    <3>2. failures \in Seq(Nat) /\ index \in Nat
      BY DEF RunInv, RunTypes
    <3>3. i \in 0 .. index
      BY <3>1, <3>2 DEF RunInv, BudgetInv
    <3>4. QED
      BY <3>2, <3>3 DEF RunInv, BudgetInv
  <2>2. stage = "observe" /\ TimeoutsOf(index) > 0 => TimeoutsOf(index) = MaxRetriesPerCall + 1
    BY DEF RunInv, BudgetInv
  <2>3. QED
    BY <2>1, <2>2 DEF BudgetIsPerCall
<1>2. QED
  BY <1>1, RunInvariance, PTL

(* A comparison that does not speak against the candidate rests on two runs    *)
(* that kept to the tools and the gate, gave no call up and left no            *)
(* environment behind.                                                         *)
THEOREM ReliefsReal == Spec => []NoFalseRelief
<1>1. RunInv => NoFalseRelief
  <2> SUFFICES ASSUME RunInv, comparison \in {"candidate_passes", "no_material_difference"}
               PROVE  /\ \A s \in Sides : results[s].safe /\ results[s].clean /\ ~results[s].ungated
                                          /\ ~results[s].unknown
                      /\ repo = Destroyed
    BY DEF NoFalseRelief
  <2>1. stage = "done" /\ comparison = Compared(results["baseline"], results["candidate"])
    BY DEF RunInv, VerdictInv, Compared
  <2>2. /\ results["baseline"].safe /\ results["candidate"].safe
        /\ results["baseline"].clean /\ results["candidate"].clean
    BY <2>1 DEF Compared
  <2>3. QED
    BY <2>1, <2>2 DEF RunInv, VerdictInv, Sides
<1>2. QED
  BY <1>1, RunInvariance, PTL

(* f lists the repositories that the first m calls leave, one after another.   *)
Passes(w, calls, m, f) ==
    f = [n \in 0 .. m |-> IF n = 0 THEN Loaded(Seed(w))
                          ELSE RunTool(w, calls[n][1], calls[n][2], f[n - 1]).repo]

(* The states that the first n calls lead through exist.                      *)
LEMMA PassesExist ==
  ASSUME NEW w, NEW calls, NEW m \in Nat
  PROVE  \E f : Passes(w, calls, m, f)
<1> DEFINE S == {k \in Nat : \E f : Passes(w, calls, k, f)}
<1>1. 0 \in S
  <2>1. Passes(w, calls, 0, [n \in 0 .. 0 |-> Loaded(Seed(w))])
    BY DEF Passes
  <2>2. QED
    BY <2>1
<1>2. ASSUME NEW k \in S \cap Nat
      PROVE  k + 1 \in S
  <2>1. PICK f : Passes(w, calls, k, f)
    BY <1>2
  <2> DEFINE g == [n \in 0 .. k + 1 |->
                     IF n <= k THEN f[n]
                     ELSE RunTool(w, calls[n][1], calls[n][2], f[k]).repo]
             h == [n \in 0 .. k + 1 |-> IF n = 0 THEN Loaded(Seed(w))
                     ELSE RunTool(w, calls[n][1], calls[n][2], g[n - 1]).repo]
  <2>2. ASSUME NEW n \in 0 .. k + 1
        PROVE  g[n] = IF n = 0 THEN Loaded(Seed(w))
                      ELSE RunTool(w, calls[n][1], calls[n][2], g[n - 1]).repo
    <3>1. CASE n = 0
      BY <2>1, <3>1 DEF Passes
    <3>2. CASE n # 0 /\ n <= k
      <4>1. n \in 0 .. k /\ n - 1 \in 0 .. k
        BY <3>2
      <4>2. f[n] = RunTool(w, calls[n][1], calls[n][2], f[n - 1]).repo
        BY <2>1, <3>2, <4>1 DEF Passes
      <4>3. QED
        BY <3>2, <4>1, <4>2
    <3>3. CASE n = k + 1
      BY <3>3
    <3>4. QED
      BY <3>1, <3>2, <3>3
  <2>3. g = h
    BY <2>2
  <2>4. Passes(w, calls, k + 1, g)
    BY <2>3 DEF Passes
  <2>5. QED
    BY <2>4
<1>3. m \in S
  <2> HIDE DEF S
  <2>1. QED
    BY <1>1, <1>2, Induction
<1>4. QED
  BY <1>3

(* The replay is the last of them.                                            *)
LEMMA ReplayPasses ==
  ASSUME NEW w, NEW calls, Len(calls) \in Nat
  PROVE  \E f : Passes(w, calls, Len(calls), f) /\ Replay(w, calls) = f[Len(calls)]
<1>1. PICK f : Passes(w, calls, Len(calls), f)
  BY PassesExist
<1> DEFINE g == CHOOSE f1 : Passes(w, calls, Len(calls), f1)
<1>2. Passes(w, calls, Len(calls), g)
  BY <1>1
<1>3. Replay(w, calls) = g[Len(calls)]
  BY DEF Replay, Passes
<1>4. QED
  BY <1>2, <1>3

(* What the calls that two lists share leave is the same.                      *)
LEMMA PassesAgree ==
  ASSUME NEW w, NEW c, NEW d, NEW j \in Nat, NEW k \in Nat, NEW m \in Nat, m <= j, m <= k,
         \A n \in 1 .. m : c[n] = d[n],
         NEW f, Passes(w, c, j, f), NEW g, Passes(w, d, k, g)
  PROVE  f[m] = g[m]
<1> DEFINE S == {n \in Nat : n <= m => f[n] = g[n]}
<1>1. 0 \in S
  BY DEF Passes
<1>2. ASSUME NEW n \in S \cap Nat
      PROVE  n + 1 \in S
  <2>1. SUFFICES ASSUME n + 1 <= m
                 PROVE  f[n + 1] = g[n + 1]
    OBVIOUS
  <2>2. f[n] = g[n] /\ c[n + 1] = d[n + 1]
    BY <1>2, <2>1
  <2>3. /\ f[n + 1] = RunTool(w, c[n + 1][1], c[n + 1][2], f[(n + 1) - 1]).repo
        /\ g[n + 1] = RunTool(w, d[n + 1][1], d[n + 1][2], g[(n + 1) - 1]).repo
    <3>1. n + 1 \in 0 .. j /\ n + 1 \in 0 .. k /\ n + 1 # 0
      BY <2>1
    <3>2. QED
      BY <3>1 DEF Passes
  <2>4. QED
    BY <2>2, <2>3
<1>3. m \in S
  <2> HIDE DEF S
  <2>1. QED
    BY <1>1, <1>2, Induction
<1>4. QED
  BY <1>3

(* No calls leave the seed.                                                   *)
LEMMA ReplayNone ==
  ASSUME NEW w
  PROVE  Replay(w, <<>>) = Loaded(Seed(w))
<1>1. PICK f : Passes(w, <<>>, 0, f) /\ Replay(w, <<>>) = f[0]
  BY ReplayPasses
<1>2. QED
  BY <1>1 DEF Passes

(* One more call changes what the earlier ones left.                          *)
LEMMA ReplayOneMore ==
  ASSUME NEW w, NEW T, NEW calls \in Seq(T), NEW c \in T
  PROVE  Replay(w, Append(calls, c)) = RunTool(w, c[1], c[2], Replay(w, calls)).repo
<1> DEFINE m == Len(calls)
           d == Append(calls, c)
<1>1. m \in Nat /\ Len(d) = m + 1 /\ d[m + 1] = c /\ \A n \in 1 .. m : calls[n] = d[n]
  BY AppendProperties
<1> HIDE DEF d
<1>2. PICK f : Passes(w, calls, m, f) /\ Replay(w, calls) = f[m]
  BY <1>1, ReplayPasses
<1>3. PICK g : Passes(w, d, m + 1, g) /\ Replay(w, d) = g[m + 1]
  <2>1. Len(d) \in Nat
    BY <1>1
  <2>2. QED
    BY <1>1, <2>1, ReplayPasses
<1> HIDE DEF m
<1>4. f[m] = g[m]
  <2>1. m \in Nat /\ m + 1 \in Nat /\ m <= m /\ m <= m + 1
    BY <1>1
  <2>2. Passes(w, calls, m, f) /\ Passes(w, d, m + 1, g)
    BY <1>2, <1>3
  <2>3. \A n \in 1 .. m : calls[n] = d[n]
    BY <1>1
  <2>4. QED
    BY <2>1, <2>2, <2>3, PassesAgree
<1>5. g[m + 1] = RunTool(w, c[1], c[2], g[(m + 1) - 1]).repo
  <2>1. m + 1 \in 0 .. m + 1 /\ m + 1 # 0
    BY <1>1
  <2>2. QED
    BY <2>1, <1>1, <1>3 DEF Passes
<1>6. (m + 1) - 1 = m
  BY <1>1
<1>7. QED
  BY <1>2, <1>3, <1>4, <1>5, <1>6 DEF d

(* The repository is what this side's calls make of the seed, and a reviewed   *)
(* plan has run up to the index.                                               *)
ReplayInv ==
    stage \in {"planned", "call", "observe"} =>
        /\ repo = Replay(workflow, ran)
        /\ plan.reviewed => /\ ran = SubSeq(PlannedCalls, 1, index - 1)
                            /\ index - 1 <= Len(PlannedCalls)
                            /\ stage = "call" => /\ index <= Len(PlannedCalls)
                                                 /\ call = PlannedCalls[index]

(* The plan of this workflow and side is a list of its tools' calls.          *)
LEMMA PlannedHere ==
  ASSUME RunTypes
  PROVE  PlannedCalls \in Seq(Tools(workflow) \X Args) /\ Len(PlannedCalls) \in Nat
<1>1. PlannedCalls \in Seq(Tools(workflow) \X Args)
  BY Planned DEF RunTypes, PlannedCalls
<1>2. QED
  BY <1>1, LenProperties

(* One more call of a plan.                                                    *)
LEMMA PlanGoesOn ==
  ASSUME NEW T, NEW s \in Seq(T), NEW i \in 1 .. Len(s)
  PROVE  Append(SubSeq(s, 1, i - 1), s[i]) = SubSeq(s, 1, (i + 1) - 1)
<1> DEFINE p == SubSeq(s, 1, i - 1)
           q == SubSeq(s, 1, (i + 1) - 1)
<1>1. p \in Seq(T) /\ Len(p) = i - 1 /\ \A k \in 1 .. i - 1 : p[k] = s[k]
  BY SubSeqProperties
<1>2. q \in Seq(T) /\ Len(q) = i /\ \A k \in 1 .. i : q[k] = s[k]
  BY SubSeqProperties
<1> HIDE DEF p, q
<1>3. /\ Append(p, s[i]) \in Seq(T) /\ Len(Append(p, s[i])) = i
      /\ \A k \in 1 .. i : Append(p, s[i])[k] = IF k = i THEN s[i] ELSE p[k]
  <2>1. s[i] \in T
    OBVIOUS
  <2>2. QED
    BY <1>1, <2>1, AppendProperties
<1>4. \A k \in 1 .. i : Append(p, s[i])[k] = q[k]
  BY <1>1, <1>2, <1>3
<1>5. Append(p, s[i]) = q
  BY <1>2, <1>3, <1>4, SeqEqual
<1>6. QED
  BY <1>5 DEF p, q

(* A step appends the call it ran to the list and applies it to the           *)
(* repository, or does neither.                                               *)
LEMMA ReplayKeeps ==
  ASSUME RunInv, ReplayInv, [Next]_vars
  PROVE  ReplayInv'
<1> USE DEF RunInv
<1>1. CASE ~ReferenceCommandStep
  <2>1. /\ workflow' = workflow /\ runVars' = runVars /\ command' = command
        /\ command # "simulate" => repo' = repo
    BY <1>1, OthersActs
  <2>2. stage' = stage /\ side' = side /\ plan' = plan /\ call' = call /\ index' = index /\ ran' = ran
    BY <2>1 DEF runVars
  <2>3. stage # "idle" => repo' = repo
    BY <2>1 DEF RunTypes
  <2>4. QED
    BY <2>1, <2>2, <2>3 DEF ReplayInv, PlannedCalls
<1>2. CASE Begin
  <2>1. /\ workflow' = workflow /\ side' = side /\ stage' = "planned" /\ index' = 1
        /\ ran' = <<>> /\ repo' = Seeded
    BY <1>2 DEF Begin
  <2>2. repo' = Replay(workflow', ran')
    BY <2>1, ReplayNone DEF Seeded
  <2>3. SubSeq(PlannedCalls, 1, 1 - 1) = <<>> /\ 1 - 1 <= Len(PlannedCalls)
    BY PlannedHere, SubSeqEmpty
  <2>4. QED
    BY <2>1, <2>2, <2>3 DEF ReplayInv, PlannedCalls
<1>3. CASE NextCall
  <2>1. /\ workflow' = workflow /\ side' = side /\ plan' = plan /\ index' = index
        /\ ran' = ran /\ repo' = repo /\ stage = "planned"
        /\ plan.reviewed => \/ index <= Len(PlannedCalls) /\ call' = PlannedCalls[index] /\ stage' = "call"
                            \/ stage' = "observe"
        /\ stage' \in {"call", "observe"}
    BY <1>3 DEF NextCall
  <2>2. QED
    BY <2>1 DEF ReplayInv, PlannedCalls
<1>4. CASE Break \/ Timeout
  <2>1. /\ workflow' = workflow /\ side' = side /\ plan' = plan /\ index' = index /\ call' = call
        /\ ran' = ran /\ repo' = repo /\ stage = "call"
        /\ stage' \in {"call", "observe"}
    BY <1>4 DEF Break, Timeout, Retry, Admitted
  <2>2. QED
    BY <2>1 DEF ReplayInv, PlannedCalls
<1>5. CASE ToolReturns
  <2>1. /\ workflow' = workflow /\ side' = side /\ plan' = plan /\ index' = index + 1 /\ call' = call
        /\ ran' = Append(ran, call) /\ stage = "call" /\ stage' = "planned"
        /\ repo' = RunTool(workflow, call[1], call[2], repo).repo
    BY <1>5 DEF ToolReturns, Passed, Admitted, ToolResult
  <2>2. repo' = Replay(workflow', ran')
    <3>1. ran \in Seq(PlannedCall) /\ call \in PlannedCall
      BY DEF RunTypes
    <3>2. Replay(workflow, Append(ran, call)) = RunTool(workflow, call[1], call[2], Replay(workflow, ran)).repo
      BY <3>1, ReplayOneMore
    <3>3. QED
      BY <2>1, <3>2 DEF ReplayInv
  <2>3. plan.reviewed => /\ ran' = SubSeq(PlannedCalls, 1, (index + 1) - 1)
                         /\ (index + 1) - 1 <= Len(PlannedCalls)
    <3> SUFFICES ASSUME plan.reviewed
                 PROVE  /\ Append(ran, call) = SubSeq(PlannedCalls, 1, (index + 1) - 1)
                        /\ (index + 1) - 1 <= Len(PlannedCalls)
      BY <2>1
    <3>1. /\ index <= Len(PlannedCalls) /\ call = PlannedCalls[index]
          /\ ran = SubSeq(PlannedCalls, 1, index - 1)
      BY <2>1 DEF ReplayInv
    <3>2. index \in Nat /\ index > 0
      BY <2>1 DEF RunTypes
    <3>3. index \in 1 .. Len(PlannedCalls)
      BY <3>1, <3>2, PlannedHere
    <3>4. QED
      BY <3>1, <3>2, <3>3, PlannedHere, PlanGoesOn
  <2>4. QED
    BY <2>1, <2>2, <2>3 DEF ReplayInv, PlannedCalls
<1>6. CASE Escape \/ Finish \/ Compare
  BY <1>6 DEF Escape, Finish, Compare, ReplayInv
<1>7. QED
  BY <1>1, <1>2, <1>3, <1>4, <1>5, <1>6 DEF ReferenceCommandStep, RunStep

(* The state of a run is what its calls make of the seed, each once and in     *)
(* their order, for any fault script and plan.                                 *)
THEOREM StatesReplayed == Spec => []StateIsReplay
<1>1. Init => ReplayInv
  BY DEF Init, RunInit, ReplayInv
<1>2. RunInv /\ ReplayInv /\ [Next]_vars => ReplayInv'
  BY ReplayKeeps
<1>3. ReplayInv => StateIsReplay
  BY DEF ReplayInv, StateIsReplay
<1>4. QED
  BY <1>1, <1>2, <1>3, RunInvariance, PTL DEF Spec

(* The repository after the n-th call of a plan.                               *)
LEMMA ReplayStep ==
  ASSUME NEW w, NEW calls, Len(calls) \in Nat
  PROVE  \E f : /\ f[0] = Loaded(Seed(w))
                /\ \A n \in 1 .. Len(calls) :
                     f[n] = RunTool(w, calls[n][1], calls[n][2], f[n - 1]).repo
                /\ Replay(w, calls) = f[Len(calls)]
<1>1. PICK f : Passes(w, calls, Len(calls), f) /\ Replay(w, calls) = f[Len(calls)]
  BY ReplayPasses
<1>2. f[0] = Loaded(Seed(w))
  BY <1>1 DEF Passes
<1>3. ASSUME NEW n \in 1 .. Len(calls)
      PROVE  f[n] = RunTool(w, calls[n][1], calls[n][2], f[n - 1]).repo
  BY <1>1 DEF Passes
<1>4. QED
  BY <1>1, <1>2, <1>3

-----------------------------------------------------------------------------
(* What the tools make of a repository: the records and the trail.             *)

Words == Resources \cup Statuses \cup {"intake_case", "order", "ticket", "shipped", "delivered", "refunded"}
Records == [of : Words, is : Words]
Steps == Words \X Words \X Words
Boxes == [records : Seq(Records), trail : Seq(Steps), open : BOOLEAN]

(* A transition that is noted is appended to the trail.                        *)
LEMMA OnNoted ==
  ASSUME NEW r \in Boxes, NEW x \in Steps
  PROVE  /\ Noted(r, x) \in Boxes /\ Noted(r, x).records = r.records
         /\ Noted(r, x).trail = Append(r.trail, x) /\ Noted(r, x).open = r.open
<1>1. Append(r.trail, x) \in Seq(Steps)
  BY DEF Boxes
<1>2. QED
  BY <1>1 DEF Boxes, Noted

(* A record that is added is the last one, and its creation is noted.          *)
LEMMA OnAdded ==
  ASSUME NEW r \in Boxes, NEW res \in Words, NEW word \in Words
  PROVE  /\ Added(r, res, word) \in Boxes
         /\ Added(r, res, word).records = Append(r.records, [of |-> res, is |-> word])
         /\ Added(r, res, word).trail = Append(r.trail, Created(res))
<1>1. Append(r.trail, Created(res)) \in Seq(Steps) /\ Append(r.records, [of |-> res, is |-> word]) \in Seq(Records)
  <2>1. r.trail \in Seq(Steps) /\ r.records \in Seq(Records)
    BY DEF Boxes
  <2>2. Created(res) \in Steps /\ [of |-> res, is |-> word] \in Records
    <3>1. "" \in Words /\ "created" \in Words
      BY DEF Words, Statuses
    <3>2. [of |-> res, is |-> word] \in Records
      BY DEF Records
    <3>3. Created(res) \in Steps
      BY <3>1 DEF Steps, Created
    <3>4. QED
      BY <3>2, <3>3
  <2>3. QED
    BY <2>1, <2>2
<1>2. QED
  BY <1>1 DEF Boxes, Added

(* All records of a resource change their status, the others none.             *)
LEMMA OnAll ==
  ASSUME NEW r \in Boxes, NEW res \in Words, NEW after \in Words
  PROVE  /\ AllBecome(r, res, after) \in Boxes
         /\ Len(AllBecome(r, res, after).records) = Len(r.records)
         /\ \A i \in 1 .. Len(r.records) :
              /\ AllBecome(r, res, after).records[i].of = r.records[i].of
              /\ r.records[i].of = res => AllBecome(r, res, after).records[i].is = after
              /\ r.records[i].of # res => AllBecome(r, res, after).records[i].is = r.records[i].is
         /\ AllBecome(r, res, after).trail = r.trail /\ AllBecome(r, res, after).open = r.open
<1> DEFINE s == [i \in DOMAIN r.records |-> IF r.records[i].of = res THEN [r.records[i] EXCEPT !.is = after]
                                            ELSE r.records[i]]
<1>1. r.records \in Seq(Records) /\ DOMAIN r.records = 1 .. Len(r.records) /\ Len(r.records) \in Nat
  BY DEF Boxes
<1>2. ASSUME NEW i \in 1 .. Len(r.records)
      PROVE  /\ s[i].of = r.records[i].of
             /\ s[i].is = IF r.records[i].of = res THEN after ELSE r.records[i].is
             /\ s[i] \in Records
  <2>1. r.records[i] \in Records
    BY <1>1
  <2>2. s[i] = IF r.records[i].of = res THEN [r.records[i] EXCEPT !.is = after] ELSE r.records[i]
    BY <1>1
  <2>3. QED
    BY <2>1, <2>2 DEF Records
<1>3. s \in Seq(Records) /\ Len(s) = Len(r.records)
  <2>1. s = [i \in 1 .. Len(r.records) |-> s[i]]
    BY <1>1
  <2> HIDE DEF s
  <2>2. s \in [1 .. Len(r.records) -> Records]
    BY <1>2, <2>1
  <2>3. QED
    BY <1>1, <2>2, IsASeq, LenProperties
<1>4. /\ AllBecome(r, res, after).records = s /\ AllBecome(r, res, after) \in Boxes
      /\ AllBecome(r, res, after).trail = r.trail /\ AllBecome(r, res, after).open = r.open
  <2> HIDE DEF s
  <2>1. AllBecome(r, res, after) = [r EXCEPT !.records = s]
    BY DEF AllBecome, s
  <2>2. QED
    BY <1>3, <2>1 DEF Boxes
<1>5. QED
  BY <1>2, <1>3, <1>4

(* The last record changes its status, which is noted, where there is one.     *)
LEMMA OnLast ==
  ASSUME NEW r \in Boxes, NEW res \in Words, NEW after \in Words, Len(r.records) = 1
  PROVE  /\ LastBecomes(r, res, after) \in Boxes
         /\ Len(LastBecomes(r, res, after).records) = 1
         /\ LastBecomes(r, res, after).records[1] = [of |-> r.records[1].of, is |-> after]
         /\ LastBecomes(r, res, after).trail = Append(r.trail, Moved(res, r.records[1].is, after))
<1> DEFINE s == [r.records EXCEPT ![1].is = after]
           q == [r EXCEPT !.records = s]
<1>1. r.records \in Seq(Records) /\ r.records[1] \in Records
  BY DEF Boxes
<1>2. s \in Seq(Records) /\ Len(s) = 1 /\ s[1] = [of |-> r.records[1].of, is |-> after]
  BY <1>1 DEF Records
<1> HIDE DEF s
<1>3. q \in Boxes /\ q.records = s /\ q.trail = r.trail
  BY <1>2 DEF Boxes
<1>4. Moved(res, r.records[1].is, after) \in Steps
  BY <1>1 DEF Moved, Steps, Records
<1>5. LastBecomes(r, res, after) = Noted(q, Moved(res, r.records[1].is, after))
  BY DEF LastBecomes, s
<1> HIDE DEF q
<1>6. QED
  BY <1>2, <1>3, <1>4, <1>5, OnNoted

(* A repository of no record, of one and of two, with the transitions seen.    *)
None(r, seen) == r \in Boxes /\ Len(r.records) = 0 /\ Range(r.trail) = seen
One(r, of, is, seen) ==
    r \in Boxes /\ Len(r.records) = 1 /\ r.records[1] = [of |-> of, is |-> is] /\ Range(r.trail) = seen
Two(r, of, is, of2, is2, seen) ==
    /\ r \in Boxes /\ Len(r.records) = 2 /\ Range(r.trail) = seen
    /\ r.records[1] = [of |-> of, is |-> is] /\ r.records[2] = [of |-> of2, is |-> is2]

(* One more entry is one more member.                                          *)
LEMMA RangeAppend ==
  ASSUME NEW T, NEW s \in Seq(T), NEW x \in T
  PROVE  Range(Append(s, x)) = Range(s) \cup {x}
<1> DEFINE t == Append(s, x)
<1>1. DOMAIN t = DOMAIN s \cup {Len(s) + 1} /\ t[Len(s) + 1] = x /\ \A i \in DOMAIN s : t[i] = s[i]
  BY AppendProperties
<1> HIDE DEF t
<1>2. Range(t) = Range(s) \cup {x}
  BY <1>1 DEF Range
<1>3. QED
  BY <1>2 DEF t

(* How the tools lead from one such repository to the next.                    *)
LEMMA AddToNone ==
  ASSUME NEW r, NEW seen, NEW res \in Words, NEW word \in Words, None(r, seen)
  PROVE  One(Added(r, res, word), res, word, seen \cup {Created(res)})
<1> DEFINE q == Added(r, res, word)
<1>1. /\ q \in Boxes /\ q.records = Append(r.records, [of |-> res, is |-> word])
      /\ q.trail = Append(r.trail, Created(res)) /\ Created(res) \in Steps
  BY OnAdded DEF None, Created, Steps, Words, Statuses
<1>2. r.records \in Seq(Records) /\ r.trail \in Seq(Steps) /\ [of |-> res, is |-> word] \in Records
  BY DEF None, Boxes, Records
<1> HIDE DEF q
<1>3. Len(q.records) = 1 /\ q.records[1] = [of |-> res, is |-> word]
  <2>1. Len(r.records) = 0
    BY DEF None
  <2>2. QED
    BY <1>1, <1>2, <2>1, AppendProperties
<1>4. Range(q.trail) = seen \cup {Created(res)}
  BY <1>1, <1>2, RangeAppend DEF None
<1>5. QED
  BY <1>1, <1>3, <1>4 DEF One, q

LEMMA AddToOne ==
  ASSUME NEW r, NEW seen, NEW of, NEW is, NEW res \in Words, NEW word \in Words, One(r, of, is, seen)
  PROVE  Two(Added(r, res, word), of, is, res, word, seen \cup {Created(res)})
<1> DEFINE q == Added(r, res, word)
<1>1. /\ q \in Boxes /\ q.records = Append(r.records, [of |-> res, is |-> word])
      /\ q.trail = Append(r.trail, Created(res)) /\ Created(res) \in Steps
  BY OnAdded DEF One, Created, Steps, Words, Statuses
<1>2. r.records \in Seq(Records) /\ r.trail \in Seq(Steps) /\ [of |-> res, is |-> word] \in Records
  BY DEF One, Boxes, Records
<1> HIDE DEF q
<1>3. Len(q.records) = 2 /\ q.records[1] = [of |-> of, is |-> is] /\ q.records[2] = [of |-> res, is |-> word]
  <2>1. Len(r.records) = 1 /\ r.records[1] = [of |-> of, is |-> is]
    BY DEF One
  <2>2. QED
    BY <1>1, <1>2, <2>1, AppendProperties
<1>4. Range(q.trail) = seen \cup {Created(res)}
  BY <1>1, <1>2, RangeAppend DEF One
<1>5. QED
  BY <1>1, <1>3, <1>4 DEF Two, q

LEMMA LastOfOne ==
  ASSUME NEW r, NEW seen, NEW of \in Words, NEW is \in Words, NEW res \in Words, NEW after \in Words, One(r, of, is, seen)
  PROVE  One(LastBecomes(r, res, after), of, after, seen \cup {Moved(res, is, after)})
<1> DEFINE q == LastBecomes(r, res, after)
<1>0. r \in Boxes /\ Len(r.records) = 1 /\ r.records[1].is = is /\ r.records[1].of = of
  BY DEF One
<1>1. /\ q \in Boxes /\ Len(q.records) = 1 /\ q.records[1] = [of |-> of, is |-> after]
      /\ q.trail = Append(r.trail, Moved(res, is, after)) /\ Moved(res, is, after) \in Steps
  BY <1>0, OnLast DEF Moved, Steps
<1>2. r.trail \in Seq(Steps)
  BY <1>0 DEF Boxes
<1> HIDE DEF q
<1>4. Range(q.trail) = seen \cup {Moved(res, is, after)}
  BY <1>1, <1>2, RangeAppend DEF One
<1>5. QED
  BY <1>1, <1>4 DEF One, q

LEMMA AllOfOne ==
  ASSUME NEW r, NEW seen, NEW res \in Words, NEW is \in Words, NEW after \in Words, NEW x \in Steps, One(r, res, is, seen)
  PROVE  One(Noted(AllBecome(r, res, after), x), res, after, seen \cup {x})
<1> DEFINE p == AllBecome(r, res, after)
           q == Noted(p, x)
<1>a. r \in Boxes
  BY DEF One
<1>0. r \in Boxes /\ Len(r.records) = 1 /\ r.records[1].of = res /\ r.trail \in Seq(Steps)
  BY DEF One, Boxes
<1>1. /\ p \in Boxes /\ Len(p.records) = 1 /\ p.records[1] = [of |-> res, is |-> after]
      /\ p.trail = r.trail
  <2>1. /\ p \in Boxes /\ Len(p.records) = 1 /\ p.trail = r.trail
        /\ p.records[1].of = res /\ p.records[1].is = after
    <3>1. 1 \in 1 .. Len(r.records)
      BY <1>0
    <3>2. p \in Boxes /\ Len(p.records) = Len(r.records) /\ p.trail = r.trail
      BY <1>a, OnAll
    <3>3. \A i \in 1 .. Len(r.records) :
            /\ p.records[i].of = r.records[i].of
            /\ r.records[i].of = res => p.records[i].is = after
            /\ r.records[i].of # res => p.records[i].is = r.records[i].is
      BY <1>a, OnAll, Zenon
    <3> HIDE DEF p
    <3>4. /\ p.records[1].of = r.records[1].of
          /\ r.records[1].of = res => p.records[1].is = after
          /\ r.records[1].of # res => p.records[1].is = r.records[1].is
      BY <3>1, <3>3
    <3>5. QED
      BY <1>0, <3>2, <3>3, <3>4
  <2> HIDE DEF p
  <2>2. p.records[1] \in Records
    BY <2>1 DEF Boxes
  <2>3. QED
    BY <2>1, <2>2 DEF Records
<1> HIDE DEF p
<1>2. q \in Boxes /\ q.records = p.records /\ q.trail = Append(r.trail, x)
  BY <1>1, OnNoted
<1> HIDE DEF q
<1>4. Range(q.trail) = seen \cup {x}
  BY <1>0, <1>2, RangeAppend DEF One
<1>5. QED
  BY <1>1, <1>2, <1>4 DEF One, p, q

(* What the observers ask of such repositories.                                *)
LEMMA SeenOfNone ==
  ASSUME NEW r, NEW seen, None(r, seen), NEW res, NEW word
  PROVE  ~Holds(r, res, word) /\ ~HasAny(r, res) /\ r.records = <<>>
<1>1. r.records \in Seq(Records) /\ Len(r.records) = 0
  BY DEF None, Boxes
<1>2. QED
  BY <1>1 DEF Holds, HasAny

LEMMA SeenOfOne ==
  ASSUME NEW r, NEW seen, NEW of, NEW is, One(r, of, is, seen), NEW res, NEW word
  PROVE  /\ Holds(r, res, word) <=> res = of /\ word = is
         /\ HasAny(r, res) <=> res = of
         /\ r.records # <<>>
<1>1. r.records \in Seq(Records) /\ Len(r.records) = 1 /\ r.records[1] = [of |-> of, is |-> is]
  BY DEF One, Boxes
<1>2. DOMAIN r.records = {1}
  BY <1>1
<1>3. r.records[1] = [of |-> res, is |-> word] <=> res = of /\ word = is
  BY <1>1
<1>4. r.records[1].of = of
  BY <1>1
<1>5. QED
  BY <1>1, <1>2, <1>3, <1>4 DEF Holds, HasAny

LEMMA SeenOfTwo ==
  ASSUME NEW r, NEW seen, NEW of, NEW is, NEW of2, NEW is2, Two(r, of, is, of2, is2, seen),
         NEW res, NEW word
  PROVE  /\ Holds(r, res, word) <=> (res = of /\ word = is) \/ (res = of2 /\ word = is2)
         /\ HasAny(r, res) <=> res = of \/ res = of2
         /\ r.records # <<>>
<1>1. /\ r.records \in Seq(Records) /\ Len(r.records) = 2
      /\ r.records[1] = [of |-> of, is |-> is] /\ r.records[2] = [of |-> of2, is |-> is2]
  BY DEF Two, Boxes
<1>2. DOMAIN r.records = {1, 2}
  BY <1>1
<1>3. /\ r.records[1] = [of |-> res, is |-> word] <=> res = of /\ word = is
      /\ r.records[2] = [of |-> res, is |-> word] <=> res = of2 /\ word = is2
  BY <1>1
<1>4. r.records[1].of = of /\ r.records[2].of = of2
  BY <1>1
<1>5. QED
  BY <1>1, <1>2, <1>3, <1>4 DEF Holds, HasAny

(* The seeds.                                                                  *)
LEMMA SeedNone == None(Loaded(<<>>), {})
<1>1. Loaded(<<>>) \in Boxes
  BY DEF Loaded, Boxes
<1>2. Range(Loaded(<<>>).trail) = {}
  BY DEF Loaded, Range
<1>3. QED
  BY <1>1, <1>2 DEF None, Loaded

LEMMA SeedOne ==
  ASSUME NEW of \in Words, NEW is \in Words
  PROVE  One(Loaded(<<[of |-> of, is |-> is]>>), of, is, {})
<1>1. [of |-> of, is |-> is] \in Records
  BY DEF Records
<1>2. <<[of |-> of, is |-> is]>> \in Seq(Records)
  BY <1>1
<1>3. Loaded(<<[of |-> of, is |-> is]>>) \in Boxes
  BY <1>2 DEF Loaded, Boxes
<1>4. Range(Loaded(<<[of |-> of, is |-> is]>>).trail) = {}
  BY DEF Loaded, Range
<1>5. QED
  BY <1>3, <1>4 DEF One, Loaded

(* The second of two records changes its status, and a transition is noted.    *)
LEMMA NotedOfTwo ==
  ASSUME NEW r, NEW seen, NEW of \in Words, NEW is \in Words, NEW res \in Words, NEW was \in Words,
         NEW after \in Words, NEW x \in Steps, Two(r, of, is, res, was, seen), of # res
  PROVE  Two(Noted(AllBecome(r, res, after), x), of, is, res, after, seen \cup {x})
<1> DEFINE p == AllBecome(r, res, after)
           q == Noted(p, x)
<1>a. r \in Boxes
  BY DEF Two
<1>0. /\ Len(r.records) = 2 /\ r.records[1].of = of /\ r.records[1].is = is /\ r.records[2].of = res
      /\ r.trail \in Seq(Steps)
  BY DEF Two, Boxes
<1>1. /\ p \in Boxes /\ Len(p.records) = 2 /\ p.trail = r.trail
      /\ p.records[1] = [of |-> of, is |-> is] /\ p.records[2] = [of |-> res, is |-> after]
  <2>1. 1 \in 1 .. Len(r.records) /\ 2 \in 1 .. Len(r.records)
    BY <1>0
  <2>2. p \in Boxes /\ Len(p.records) = Len(r.records) /\ p.trail = r.trail
    BY <1>a, OnAll
  <2>3. \A i \in 1 .. Len(r.records) :
          /\ p.records[i].of = r.records[i].of
          /\ r.records[i].of = res => p.records[i].is = after
          /\ r.records[i].of # res => p.records[i].is = r.records[i].is
    <3> HIDE DEF q
    <3>1. r \in Boxes /\ res \in Words /\ after \in Words
      BY <1>a
    <3>2. QED
      BY <3>1, OnAll, Zenon
  <2> HIDE DEF p
  <2>4. /\ p.records[1].of = of /\ p.records[1].is = is
        /\ p.records[2].of = res /\ p.records[2].is = after
    BY <1>0, <2>1, <2>3
  <2>5. p.records[1] \in Records /\ p.records[2] \in Records
    BY <1>0, <2>2 DEF Boxes
  <2>6. QED
    BY <1>0, <2>2, <2>4, <2>5 DEF Records
<1> HIDE DEF p
<1>2. q \in Boxes /\ q.records = p.records /\ q.trail = Append(r.trail, x)
  BY <1>1, OnNoted
<1> HIDE DEF q
<1>4. Range(q.trail) = seen \cup {x}
  BY <1>0, <1>2, RangeAppend DEF Two
<1>5. QED
  BY <1>1, <1>2, <1>4 DEF Two, p, q

(* A run that left what the contract asks for.                                 *)
Achieved(w, r) ==
    /\ Range(r.trail) \subseteq Contract(w).permitted
    /\ Contract(w).required \subseteq Range(r.trail)
    /\ Observed(w, r).outcome = Contract(w).outcome
    /\ Observed(w, r).reason = Contract(w).reason

(* Each reviewed baseline, call by call.                                       *)
LEMMA FlightAchieves == Achieved("flight_booking", Replay("flight_booking", Plan("flight_booking", "baseline").calls))
<1> DEFINE w == "flight_booking"
           calls == Plan(w, "baseline").calls
<1>1. /\ Len(calls) = 4 /\ calls[1] = <<"search_flights", "reviewed">> /\ calls[2] = <<"get_fare", "reviewed">>
      /\ calls[3] = <<"hold_booking", "reviewed">> /\ calls[4] = <<"confirm_booking", "reviewed">>
  BY DEF Plan, FlightPlan
<1> HIDE DEF calls
<1>2. PICK f : /\ f[0] = Loaded(Seed(w))
               /\ \A n \in 1 .. Len(calls) : f[n] = RunTool(w, calls[n][1], calls[n][2], f[n - 1]).repo
               /\ Replay(w, calls) = f[Len(calls)]
  <2>1. Len(calls) \in Nat
    BY <1>1
  <2>2. QED
    BY <2>1, ReplayStep, Zenon
<1>3. /\ f[1] = FlightTool("search_flights", "reviewed", f[0]).repo
      /\ f[2] = FlightTool("get_fare", "reviewed", f[1]).repo
      /\ f[3] = FlightTool("hold_booking", "reviewed", f[2]).repo
      /\ f[4] = FlightTool("confirm_booking", "reviewed", f[3]).repo
      /\ Replay(w, calls) = f[4]
  BY <1>1, <1>2 DEF RunTool
<1>4. None(f[0], {})
  BY <1>2, SeedNone DEF Seed, FlightSeed
<1>5. f[1] = f[0] /\ f[2] = f[1]
  BY <1>3 DEF FlightTool, Returns
<1>6. "booking" \in Words /\ "held" \in Words /\ "confirmed" \in Words
  BY DEF Words, Resources, Statuses
<1>7. f[3] = Added(f[2], "booking", "held")
  BY <1>3, <1>4, <1>5, SeenOfNone DEF FlightTool, Returns
<1>8. One(f[3], "booking", "held", {} \cup {Created("booking")})
  BY <1>4, <1>5, <1>6, <1>7, AddToNone
<1>9. f[4] = LastBecomes(f[3], "booking", "confirmed")
  <2>1. Len(f[3].records) = 1 /\ f[3].records[1].is = "held"
    BY <1>8 DEF One
  <2>2. ASSUME NEW r, Len(r.records) = 1, r.records[1].is = "held"
        PROVE  FlightTool("confirm_booking", "reviewed", r).repo = LastBecomes(r, "booking", "confirmed")
    BY <2>2 DEF FlightTool, Returns
  <2>3. QED
    BY <1>3, <2>1, <2>2
<1>10. One(f[4], "booking", "confirmed", ({} \cup {Created("booking")}) \cup {Moved("booking", "held", "confirmed")})
  BY <1>6, <1>8, <1>9, LastOfOne
<1>11. Holds(f[4], "booking", "confirmed")
  BY <1>10, SeenOfOne
<1>12. Achieved(w, f[4])
  BY <1>10, <1>11 DEF Achieved, One, Contract, FlightContract, Observed, FlightObserved, Seen
<1>13. QED
  BY <1>3, <1>12 DEF calls

LEMMA IncidentAchieves ==
  Achieved("incident_response", Replay("incident_response", Plan("incident_response", "baseline").calls))
<1> DEFINE w == "incident_response"
           calls == Plan(w, "baseline").calls
<1>1. /\ Len(calls) = 4 /\ calls[1][1] = "get_service_status" /\ calls[2][1] = "find_runbook"
      /\ calls[3][1] = "ack_incident" /\ calls[4][1] = "run_remediation_step"
  BY DEF Plan, IncidentPlan
<1> HIDE DEF calls
<1>2. PICK f : /\ f[0] = Loaded(Seed(w))
               /\ \A n \in 1 .. Len(calls) : f[n] = RunTool(w, calls[n][1], calls[n][2], f[n - 1]).repo
               /\ Replay(w, calls) = f[Len(calls)]
  <2>1. Len(calls) \in Nat
    BY <1>1
  <2>2. QED
    BY <2>1, ReplayStep, Zenon
<1>3. /\ f[1] = IncidentTool("get_service_status", f[0]).repo
      /\ f[2] = IncidentTool("find_runbook", f[1]).repo
      /\ f[3] = IncidentTool("ack_incident", f[2]).repo
      /\ f[4] = IncidentTool("run_remediation_step", f[3]).repo
      /\ Replay(w, calls) = f[4]
  BY <1>1, <1>2 DEF RunTool
<1>6. "incident" \in Words /\ "triggered" \in Words /\ "acknowledged" \in Words /\ "mitigated" \in Words
  BY DEF Words, Resources, Statuses
<1>4. One(f[0], "incident", "triggered", {})
  BY <1>2, <1>6, SeedOne DEF Seed, IncidentSeed
<1>5. f[1] = f[0] /\ f[2] = f[1]
  BY <1>3 DEF IncidentTool, Returns
<1>7. f[3] = LastBecomes(f[2], "incident", "acknowledged") /\ f[4] = LastBecomes(f[3], "incident", "mitigated")
  BY <1>3 DEF IncidentTool, Returns
<1>8. One(f[3], "incident", "acknowledged", {} \cup {Moved("incident", "triggered", "acknowledged")})
  BY <1>4, <1>5, <1>6, <1>7, LastOfOne
<1>10. One(f[4], "incident", "mitigated", ({} \cup {Moved("incident", "triggered", "acknowledged")})
                                            \cup {Moved("incident", "acknowledged", "mitigated")})
  BY <1>6, <1>7, <1>8, LastOfOne
<1>11. Holds(f[4], "incident", "mitigated") /\ ~Holds(f[4], "incident", "acknowledged")
  BY <1>10, SeenOfOne
<1>12. Achieved(w, f[4])
  <2>1. Observed(w, f[4]).outcome = "completed" /\ Observed(w, f[4]).reason = "mitigated"
    BY <1>11 DEF Observed, IncidentObserved, Seen
  <2>2. /\ Contract(w).outcome = "completed" /\ Contract(w).reason = "mitigated"
        /\ Contract(w).required = {Moved("incident", "triggered", "acknowledged"),
                                   Moved("incident", "acknowledged", "mitigated")}
        /\ Contract(w).required \subseteq Contract(w).permitted
    BY DEF Contract, IncidentContract
  <2>3. Range(f[4].trail) = Contract(w).required
    BY <1>10, <2>2 DEF One
  <2>4. QED
    BY <2>1, <2>2, <2>3 DEF Achieved
<1>13. QED
  BY <1>3, <1>12 DEF calls

LEMMA TriageAchieves == Achieved("ci_triage", Replay("ci_triage", Plan("ci_triage", "baseline").calls))
<1> DEFINE w == "ci_triage"
           calls == Plan(w, "baseline").calls
<1>1. /\ Len(calls) = 4 /\ calls[1][1] = "read_failing_checks" /\ calls[2][1] = "read_test_logs"
      /\ calls[3][1] = "search_known_issues" /\ calls[4][1] = "open_triage_issue"
  BY DEF Plan, TriagePlan
<1> HIDE DEF calls
<1>2. PICK f : /\ f[0] = Loaded(Seed(w))
               /\ \A n \in 1 .. Len(calls) : f[n] = RunTool(w, calls[n][1], calls[n][2], f[n - 1]).repo
               /\ Replay(w, calls) = f[Len(calls)]
  <2>1. Len(calls) \in Nat
    BY <1>1
  <2>2. QED
    BY <2>1, ReplayStep, Zenon
<1>3. /\ f[1] = TriageTool("read_failing_checks", f[0]).repo
      /\ f[2] = TriageTool("read_test_logs", f[1]).repo
      /\ f[3] = TriageTool("search_known_issues", f[2]).repo
      /\ f[4] = TriageTool("open_triage_issue", f[3]).repo
      /\ Replay(w, calls) = f[4]
  BY <1>1, <1>2 DEF RunTool
<1>6. "issue" \in Words /\ "flaky-test" \in Words /\ "flaky" \in Words
  BY DEF Words, Resources, Statuses
<1>4. One(f[0], "issue", "flaky-test", {})
  BY <1>2, <1>6, SeedOne DEF Seed, TriageSeed
<1>5. f[1] = f[0] /\ f[2] = f[1] /\ f[3] = f[2]
  BY <1>3 DEF TriageTool, Returns
<1>7. f[4] = Added(f[3], "issue", "flaky")
  BY <1>3 DEF TriageTool, Returns
<1>8. Two(f[4], "issue", "flaky-test", "issue", "flaky", {} \cup {Created("issue")})
  BY <1>4, <1>5, <1>6, <1>7, AddToOne
<1>11. Holds(f[4], "issue", "flaky")
  BY <1>8, SeenOfTwo
<1>12. Achieved(w, f[4])
  BY <1>8, <1>11 DEF Achieved, Two, Contract, TriageContract, Observed, TriageObserved, Seen
<1>13. QED
  BY <1>3, <1>12 DEF calls

LEMMA ClaimsAchieve == Achieved("claims_denial", Replay("claims_denial", Plan("claims_denial", "baseline").calls))
<1> DEFINE w == "claims_denial"
           calls == Plan(w, "baseline").calls
<1>1. /\ Len(calls) = 5 /\ calls[1][1] = "get_claim" /\ calls[2][1] = "retrieve_policy"
      /\ calls[3][1] = "get_clinical_notes" /\ calls[4][1] = "save_appeal_draft"
      /\ calls[5][1] = "submit_appeal"
  BY DEF Plan, ClaimsPlan
<1> HIDE DEF calls
<1>2. PICK f : /\ f[0] = Loaded(Seed(w))
               /\ \A n \in 1 .. Len(calls) : f[n] = RunTool(w, calls[n][1], calls[n][2], f[n - 1]).repo
               /\ Replay(w, calls) = f[Len(calls)]
  <2>1. Len(calls) \in Nat
    BY <1>1
  <2>2. QED
    BY <2>1, ReplayStep, Zenon
<1>3. /\ f[1] = ClaimsTool("get_claim", f[0]).repo
      /\ f[2] = ClaimsTool("retrieve_policy", f[1]).repo
      /\ f[3] = ClaimsTool("get_clinical_notes", f[2]).repo
      /\ f[4] = ClaimsTool("save_appeal_draft", f[3]).repo
      /\ f[5] = ClaimsTool("submit_appeal", f[4]).repo
      /\ Replay(w, calls) = f[5]
  BY <1>1, <1>2 DEF RunTool
<1>4. None(f[0], {})
  BY <1>2, SeedNone DEF Seed, ClaimsSeed
<1>5. f[1] = f[0] /\ f[2] = f[1] /\ f[3] = f[2]
  BY <1>3 DEF ClaimsTool, Returns
<1>6. "appeal" \in Words /\ "draft" \in Words /\ "submitted" \in Words
      /\ Moved("appeal", "draft", "submitted") \in Steps
  BY DEF Words, Resources, Statuses, Steps, Moved
<1>7. f[4] = Added(f[3], "appeal", "draft")
  BY <1>3 DEF ClaimsTool, Returns
<1>8. One(f[4], "appeal", "draft", {} \cup {Created("appeal")})
  BY <1>4, <1>5, <1>6, <1>7, AddToNone
<1>9. f[5] = Noted(AllBecome(f[4], "appeal", "submitted"), Moved("appeal", "draft", "submitted"))
  <2>1. HasAny(f[4], "appeal")
    BY <1>8, SeenOfOne
  <2>2. QED
    BY <1>3, <2>1 DEF ClaimsTool, Returns
<1>10. One(f[5], "appeal", "submitted", ({} \cup {Created("appeal")}) \cup {Moved("appeal", "draft", "submitted")})
  BY <1>6, <1>8, <1>9, AllOfOne
<1>11. Holds(f[5], "appeal", "submitted")
  BY <1>10, SeenOfOne
<1>12. Achieved(w, f[5])
  BY <1>10, <1>11 DEF Achieved, One, Contract, ClaimsContract, Observed, ClaimsObserved, Seen
<1>13. QED
  BY <1>3, <1>12 DEF calls

LEMMA ReturnsAchieve ==
  Achieved("returns_resolution", Replay("returns_resolution", Plan("returns_resolution", "baseline").calls))
<1> DEFINE w == "returns_resolution"
           calls == Plan(w, "baseline").calls
<1>1. /\ Len(calls) = 4 /\ calls[1][1] = "get_order" /\ calls[2][1] = "verify_order_ownership"
      /\ calls[3][1] = "get_return_policy" /\ calls[4][1] = "approve_return"
  BY DEF Plan, ReturnsPlan
<1> HIDE DEF calls
<1>2. PICK f : /\ f[0] = Loaded(Seed(w))
               /\ \A n \in 1 .. Len(calls) : f[n] = RunTool(w, calls[n][1], calls[n][2], f[n - 1]).repo
               /\ Replay(w, calls) = f[Len(calls)]
  <2>1. Len(calls) \in Nat
    BY <1>1
  <2>2. QED
    BY <2>1, ReplayStep, Zenon
<1>3. /\ f[1] = ReturnsTool("get_order", f[0]).repo
      /\ f[2] = ReturnsTool("verify_order_ownership", f[1]).repo
      /\ f[3] = ReturnsTool("get_return_policy", f[2]).repo
      /\ f[4] = ReturnsTool("approve_return", f[3]).repo
      /\ Replay(w, calls) = f[4]
  BY <1>1, <1>2 DEF RunTool
<1>6. "return_request" \in Words /\ "submitted" \in Words /\ "approved" \in Words
  BY DEF Words, Resources, Statuses
<1>4. One(f[0], "return_request", "submitted", {})
  BY <1>2, <1>6, SeedOne DEF Seed, ReturnsSeed
<1>5. f[1] = f[0] /\ f[2] = f[1] /\ f[3] = f[2]
  BY <1>3 DEF ReturnsTool, Returns
<1>7. f[4] = Added(f[3], "return_request", "approved")
  BY <1>3 DEF ReturnsTool, Returns
<1>8. Two(f[4], "return_request", "submitted", "return_request", "approved", {} \cup {Created("return_request")})
  BY <1>4, <1>5, <1>6, <1>7, AddToOne
<1>11. ~Holds(f[4], "refund", "executed") /\ HasAny(f[4], "return_request")
  BY <1>8, SeenOfTwo
<1>12. Achieved(w, f[4])
  BY <1>8, <1>11 DEF Achieved, Two, Contract, ReturnsContract, Observed, ReturnsObserved, Seen
<1>13. QED
  BY <1>3, <1>12 DEF calls

LEMMA OnboardingAchieves == Achieved("onboarding", Replay("onboarding", Plan("onboarding", "baseline").calls))
<1> DEFINE w == "onboarding"
           calls == Plan(w, "baseline").calls
<1>1. /\ Len(calls) = 5 /\ calls[1][1] = "get_candidate" /\ calls[2][1] = "get_position"
      /\ calls[3][1] = "select_checklist" /\ calls[4][1] = "create_worker_record"
      /\ calls[5][1] = "complete_task"
  BY DEF Plan, OnboardingPlan
<1> HIDE DEF calls
<1>2. PICK f : /\ f[0] = Loaded(Seed(w))
               /\ \A n \in 1 .. Len(calls) : f[n] = RunTool(w, calls[n][1], calls[n][2], f[n - 1]).repo
               /\ Replay(w, calls) = f[Len(calls)]
  <2>1. Len(calls) \in Nat
    BY <1>1
  <2>2. QED
    BY <2>1, ReplayStep, Zenon
<1>3. /\ f[1] = OnboardingTool("get_candidate", f[0]).repo
      /\ f[2] = OnboardingTool("get_position", f[1]).repo
      /\ f[3] = OnboardingTool("select_checklist", f[2]).repo
      /\ f[4] = OnboardingTool("create_worker_record", f[3]).repo
      /\ f[5] = OnboardingTool("complete_task", f[4]).repo
      /\ Replay(w, calls) = f[5]
  BY <1>1, <1>2 DEF RunTool
<1>4. None(f[0], {})
  BY <1>2, SeedNone DEF Seed, OnboardingSeed
<1>5. f[1] = f[0] /\ f[2] = f[1] /\ f[3] = f[2]
  BY <1>3 DEF OnboardingTool, Returns
<1>6. "worker_record" \in Words /\ "draft" \in Words /\ "active" \in Words
      /\ Moved("worker_record", "draft", "active") \in Steps
  BY DEF Words, Resources, Statuses, Steps, Moved
<1>7. f[4] = Added(f[3], "worker_record", "draft")
  BY <1>3 DEF OnboardingTool, Returns
<1>8. One(f[4], "worker_record", "draft", {} \cup {Created("worker_record")})
  BY <1>4, <1>5, <1>6, <1>7, AddToNone
<1>9. f[5] = Noted(AllBecome(f[4], "worker_record", "active"), Moved("worker_record", "draft", "active"))
  <2>1. HasAny(f[4], "worker_record")
    BY <1>8, SeenOfOne
  <2>2. QED
    BY <1>3, <2>1 DEF OnboardingTool, Returns
<1>10. One(f[5], "worker_record", "active",
           ({} \cup {Created("worker_record")}) \cup {Moved("worker_record", "draft", "active")})
  BY <1>6, <1>8, <1>9, AllOfOne
<1>11. Holds(f[5], "worker_record", "active")
  BY <1>10, SeenOfOne
<1>12. Achieved(w, f[5])
  BY <1>10, <1>11 DEF Achieved, One, Contract, OnboardingContract, Observed, OnboardingObserved, Seen
<1>13. QED
  BY <1>3, <1>12 DEF calls

LEMMA DisputesAchieve == Achieved("disputes", Replay("disputes", Plan("disputes", "baseline").calls))
<1> DEFINE w == "disputes"
           calls == Plan(w, "baseline").calls
<1>1. /\ Len(calls) = 5 /\ calls[1] = <<"get_account", "reviewed">> /\ calls[2] = <<"get_transaction", "reviewed">>
      /\ calls[3] = <<"get_fraud_signals", "reviewed">> /\ calls[4] = <<"open_dispute", "reviewed">>
      /\ calls[5] = <<"provisional_credit", "reviewed">>
  BY DEF Plan, DisputesPlan
<1> HIDE DEF calls
<1>2. PICK f : /\ f[0] = Loaded(Seed(w))
               /\ \A n \in 1 .. Len(calls) : f[n] = RunTool(w, calls[n][1], calls[n][2], f[n - 1]).repo
               /\ Replay(w, calls) = f[Len(calls)]
  <2>1. Len(calls) \in Nat
    BY <1>1
  <2>2. QED
    BY <2>1, ReplayStep, Zenon
<1>3. /\ f[1] = DisputesTool("get_account", "reviewed", f[0]).repo
      /\ f[2] = DisputesTool("get_transaction", "reviewed", f[1]).repo
      /\ f[3] = DisputesTool("get_fraud_signals", "reviewed", f[2]).repo
      /\ f[4] = DisputesTool("open_dispute", "reviewed", f[3]).repo
      /\ f[5] = DisputesTool("provisional_credit", "reviewed", f[4]).repo
      /\ Replay(w, calls) = f[5]
  BY <1>1, <1>2 DEF RunTool
<1>6. "intake_case" \in Words /\ "intake" \in Words /\ "dispute" \in Words /\ "evidence_gathering" \in Words
  BY DEF Words, Resources, Statuses
<1>4. One(f[0], "intake_case", "intake", {})
  BY <1>2, <1>6, SeedOne DEF Seed, DisputesSeed
<1>5. f[1] = f[0] /\ f[2] = f[1] /\ f[3] = f[2] /\ f[5] = f[4]
  BY <1>3 DEF DisputesTool, Returns
<1>7. f[4] = Added(f[3], "dispute", "evidence_gathering")
  BY <1>3 DEF DisputesTool, Returns
<1>8. Two(f[4], "intake_case", "intake", "dispute", "evidence_gathering", {} \cup {Created("dispute")})
  BY <1>4, <1>5, <1>6, <1>7, AddToOne
<1>11. ~Holds(f[4], "dispute", "credited") /\ f[4].records # <<>>
  BY <1>8, SeenOfTwo
<1>12. Achieved(w, f[4])
  BY <1>8, <1>11 DEF Achieved, Two, Contract, DisputesContract, Observed, DisputesObserved, Seen
<1>13. QED
  BY <1>3, <1>5, <1>12 DEF calls

(* The reviewed baseline of every workflow achieves what is asked for.         *)
LEMMA BaselineAchieves ==
  ASSUME NEW w \in Workflows
  PROVE  Achieved(w, Replay(w, Plan(w, "baseline").calls))
BY FlightAchieves, IncidentAchieves, TriageAchieves, ClaimsAchieve, ReturnsAchieve, OnboardingAchieves,
   DisputesAchieve DEF Workflows

(* Two candidates go to the end of their plan, and miss the outcome.           *)
LEMMA ReturnsMisses ==
  Observed("returns_resolution", Replay("returns_resolution", Plan("returns_resolution", "candidate").calls)).outcome
    # Contract("returns_resolution").outcome
<1> DEFINE w == "returns_resolution"
           calls == Plan(w, "candidate").calls
<1>1. /\ Len(calls) = 3 /\ calls[1][1] = "get_order" /\ calls[2][1] = "approve_return"
      /\ calls[3][1] = "process_refund"
  BY DEF Plan, ReturnsPlan
<1> HIDE DEF calls
<1>2. PICK f : /\ f[0] = Loaded(Seed(w))
               /\ \A n \in 1 .. Len(calls) : f[n] = RunTool(w, calls[n][1], calls[n][2], f[n - 1]).repo
               /\ Replay(w, calls) = f[Len(calls)]
  <2>1. Len(calls) \in Nat
    BY <1>1
  <2>2. QED
    BY <2>1, ReplayStep, Zenon
<1>3. /\ f[1] = ReturnsTool("get_order", f[0]).repo
      /\ f[2] = ReturnsTool("approve_return", f[1]).repo
      /\ f[3] = ReturnsTool("process_refund", f[2]).repo
      /\ Replay(w, calls) = f[3]
  BY <1>1, <1>2 DEF RunTool
<1>6. "return_request" \in Words /\ "submitted" \in Words /\ "approved" \in Words
      /\ "refund" \in Words /\ "executed" \in Words
  BY DEF Words, Resources, Statuses
<1>4. One(f[0], "return_request", "submitted", {})
  BY <1>2, <1>6, SeedOne DEF Seed, ReturnsSeed
<1>5. f[1] = f[0]
  BY <1>3 DEF ReturnsTool, Returns
<1>7. f[2] = Added(f[1], "return_request", "approved") /\ f[3] = Added(f[2], "refund", "executed")
  BY <1>3 DEF ReturnsTool, Returns
<1>8. Two(f[2], "return_request", "submitted", "return_request", "approved", {} \cup {Created("return_request")})
  BY <1>4, <1>5, <1>6, <1>7, AddToOne
<1>9. Holds(f[3], "refund", "executed")
  <2>1. f[2] \in Boxes /\ Len(f[2].records) = 2 /\ f[2].records \in Seq(Records)
    BY <1>8 DEF Two, Boxes
  <2>2. f[3].records = Append(f[2].records, [of |-> "refund", is |-> "executed"])
    BY <1>6, <1>7, <2>1, OnAdded
  <2>3. 3 \in DOMAIN f[3].records /\ f[3].records[3] = [of |-> "refund", is |-> "executed"]
    BY <2>1, <2>2
  <2>4. QED
    BY <2>3 DEF Holds
<1>12. Observed(w, f[3]).outcome = "completed" /\ Contract(w).outcome = "blocked"
  BY <1>9 DEF Observed, ReturnsObserved, Seen, Contract, ReturnsContract
<1>13. QED
  BY <1>3, <1>12 DEF calls

LEMMA DisputesMisses ==
  Observed("disputes", Replay("disputes", Plan("disputes", "candidate").calls)).outcome # Contract("disputes").outcome
<1> DEFINE w == "disputes"
           calls == Plan(w, "candidate").calls
<1>1. /\ Len(calls) = 3 /\ calls[1] = <<"get_transaction", "reviewed">> /\ calls[2] = <<"open_dispute", "reviewed">>
      /\ calls[3] = <<"provisional_credit", "other">>
  BY DEF Plan, DisputesPlan
<1> HIDE DEF calls
<1>2. PICK f : /\ f[0] = Loaded(Seed(w))
               /\ \A n \in 1 .. Len(calls) : f[n] = RunTool(w, calls[n][1], calls[n][2], f[n - 1]).repo
               /\ Replay(w, calls) = f[Len(calls)]
  <2>1. Len(calls) \in Nat
    BY <1>1
  <2>2. QED
    BY <2>1, ReplayStep, Zenon
<1>3. /\ f[1] = DisputesTool("get_transaction", "reviewed", f[0]).repo
      /\ f[2] = DisputesTool("open_dispute", "reviewed", f[1]).repo
      /\ f[3] = DisputesTool("provisional_credit", "other", f[2]).repo
      /\ Replay(w, calls) = f[3]
  BY <1>1, <1>2 DEF RunTool
<1>6. "intake_case" \in Words /\ "intake" \in Words /\ "dispute" \in Words /\ "evidence_gathering" \in Words
      /\ "credited" \in Words /\ Moved("dispute", "evidence_gathering", "credited") \in Steps
  BY DEF Words, Resources, Statuses, Steps, Moved
<1>4. One(f[0], "intake_case", "intake", {})
  BY <1>2, <1>6, SeedOne DEF Seed, DisputesSeed
<1>5. f[1] = f[0]
  BY <1>3 DEF DisputesTool, Returns
<1>7. /\ f[2] = Added(f[1], "dispute", "evidence_gathering")
      /\ f[3] = Noted(AllBecome(f[2], "dispute", "credited"), Moved("dispute", "evidence_gathering", "credited"))
  BY <1>3 DEF DisputesTool, Returns
<1>8. Two(f[2], "intake_case", "intake", "dispute", "evidence_gathering", {} \cup {Created("dispute")})
  BY <1>4, <1>5, <1>6, <1>7, AddToOne
<1>9. Two(f[3], "intake_case", "intake", "dispute", "credited",
          ({} \cup {Created("dispute")}) \cup {Moved("dispute", "evidence_gathering", "credited")})
  BY <1>6, <1>7, <1>8, NotedOfTwo
<1>11. Holds(f[3], "dispute", "credited")
  BY <1>9, SeenOfTwo
<1>12. Observed(w, f[3]).outcome = "completed" /\ Contract(w).outcome = "blocked"
  BY <1>11 DEF Observed, DisputesObserved, Seen, Contract, DisputesContract
<1>13. QED
  BY <1>3, <1>12 DEF calls

(* What a reviewed side's run has of its own plan and script, and what its     *)
(* result comes to.                                                            *)
OneRun == stage \in {"planned", "call", "observe"}
DefectInv ==
    /\ OneRun /\ plan.reviewed => plan.gate = Plan(workflow, side).gate
    /\ stage = "observe" /\ plan.reviewed /\ safe => index - 1 = Len(PlannedCalls)
    /\ results["baseline"].reviewed /\ results["baseline"].clean /\ results["baseline"].safe
         => results["baseline"].verdict = "reproduced"
    /\ results["candidate"].reviewed /\ results["candidate"].clean /\ results["candidate"].safe
         => results["candidate"].verdict = "failed"

(* The workflow's own script times one call out, once.                         *)
OwnInv ==
    script = OwnScript(workflow) =>
        /\ stage = "call" /\ attempts > 0 => DOMAIN script \subseteq consumed
        /\ OneRun /\ side = "baseline" /\ plan.reviewed => safe
        /\ results["baseline"].reviewed => results["baseline"].safe

(* The gate of a reviewed plan: the baseline's protected calls are behind it,  *)
(* and all candidates but two have one that is not.                            *)
LEMMA BaselineGated ==
  ASSUME NEW w \in Workflows, NEW i \in DOMAIN Plan(w, "baseline").calls,
         Plan(w, "baseline").calls[i][1] \in Contract(w).protected, Contract(w).gated
  PROVE  Plan(w, "baseline").gate
<1>1. CASE w \notin {"returns_resolution", "disputes"}
  BY <1>1 DEF Workflows, Plan, FlightPlan, IncidentPlan, TriagePlan, ClaimsPlan, OnboardingPlan
<1>2. CASE w = "disputes"
  BY <1>2 DEF Contract, DisputesContract
<1>3. CASE w = "returns_resolution"
  <2> DEFINE calls == Plan(w, "baseline").calls
  <2>1. /\ Len(calls) = 4 /\ calls[1][1] = "get_order" /\ calls[2][1] = "verify_order_ownership"
        /\ calls[3][1] = "get_return_policy" /\ calls[4][1] = "approve_return"
    BY <1>3 DEF Plan, ReturnsPlan
  <2>2. i \in 1 .. Len(calls)
    <3>1. calls \in Seq(Tools(w) \X Args)
      BY Planned DEF Sides
    <3>2. QED
      BY <3>1, LenProperties
  <2> HIDE DEF calls
  <2>3. i \in {1, 2, 3, 4}
    BY <2>1, <2>2
  <2>4. calls[i][1] # "process_refund"
    BY <2>1, <2>3
  <2>5. QED
    BY <1>3, <2>4 DEF Contract, ReturnsContract, calls
<1>4. QED
  BY <1>1, <1>2, <1>3

LEMMA CandidateUngated ==
  ASSUME NEW w \in Workflows, w \notin {"returns_resolution", "disputes"}
  PROVE  /\ ~Plan(w, "candidate").gate /\ Contract(w).gated
         /\ \E i \in DOMAIN Plan(w, "candidate").calls :
              Plan(w, "candidate").calls[i][1] \in Contract(w).protected
<1>1. ~Plan(w, "candidate").gate /\ Contract(w).gated
  BY DEF Workflows, Plan, FlightPlan, IncidentPlan, TriagePlan, ClaimsPlan, OnboardingPlan,
         Contract, FlightContract, IncidentContract, TriageContract, ClaimsContract, OnboardingContract
<1>2. CASE w = "flight_booking"
  <2>1. Plan(w, "candidate").calls[4][1] = "confirm_booking" /\ 4 \in DOMAIN Plan(w, "candidate").calls
    BY <1>2 DEF Plan, FlightPlan
  <2>2. "confirm_booking" \in Contract(w).protected
    BY <1>2 DEF Contract, FlightContract
  <2>3. QED
    BY <1>1, <2>1, <2>2
<1>3. CASE w = "incident_response"
  <2>1. Plan(w, "candidate").calls[3][1] = "page_on_call" /\ 3 \in DOMAIN Plan(w, "candidate").calls
    BY <1>3 DEF Plan, IncidentPlan
  <2>2. "page_on_call" \in Contract(w).protected
    BY <1>3 DEF Contract, IncidentContract
  <2>3. QED
    BY <1>1, <2>1, <2>2
<1>4. CASE w = "ci_triage"
  <2>1. Plan(w, "candidate").calls[2][1] = "create_fix_branch" /\ 2 \in DOMAIN Plan(w, "candidate").calls
    BY <1>4 DEF Plan, TriagePlan
  <2>2. "create_fix_branch" \in Contract(w).protected
    BY <1>4 DEF Contract, TriageContract
  <2>3. QED
    BY <1>1, <2>1, <2>2
<1>5. CASE w = "claims_denial"
  <2>1. Plan(w, "candidate").calls[4][1] = "submit_appeal" /\ 4 \in DOMAIN Plan(w, "candidate").calls
    BY <1>5 DEF Plan, ClaimsPlan
  <2>2. "submit_appeal" \in Contract(w).protected
    BY <1>5 DEF Contract, ClaimsContract
  <2>3. QED
    BY <1>1, <2>1, <2>2
<1>6. CASE w = "onboarding"
  <2>1. Plan(w, "candidate").calls[4][1] = "complete_task" /\ 4 \in DOMAIN Plan(w, "candidate").calls
    BY <1>6 DEF Plan, OnboardingPlan
  <2>2. "complete_task" \in Contract(w).protected
    BY <1>6 DEF Contract, OnboardingContract
  <2>3. QED
    BY <1>1, <2>1, <2>2
<1>7. QED
  BY <1>2, <1>3, <1>4, <1>5, <1>6 DEF Workflows

(* What a run of a whole reviewed plan is judged.                              *)
LEMMA WholeRun ==
  ASSUME RunInv, ReplayInv, DefectInv, stage = "observe", plan.reviewed, safe
  PROVE  ran = PlannedCalls /\ repo = Replay(workflow, Plan(workflow, side).calls)
<1>1. /\ index - 1 = Len(PlannedCalls) /\ ran = SubSeq(PlannedCalls, 1, index - 1)
      /\ repo = Replay(workflow, ran)
  BY DEF DefectInv, ReplayInv
<1>2. PlannedCalls \in Seq(Tools(workflow) \X Args) /\ Len(PlannedCalls) \in Nat
  BY PlannedHere DEF RunInv
<1> DEFINE p == PlannedCalls
<1> HIDE DEF p
<1>3. ASSUME NEW T, NEW s \in Seq(T)
      PROVE  SubSeq(s, 1, Len(s)) = s
  OBVIOUS
<1>4. SubSeq(PlannedCalls, 1, Len(PlannedCalls)) = PlannedCalls
  BY <1>2, <1>3
<1>5. QED
  BY <1>1, <1>4 DEF PlannedCalls

LEMMA BaselineVerdict ==
  ASSUME RunInv, ReplayInv, DefectInv, stage = "observe", plan.reviewed, safe, side = "baseline"
  PROVE  Verdict(TRUE) = "reproduced"
<1>1. Achieved(workflow, repo)
  BY WholeRun, BaselineAchieves DEF RunInv, RunTypes
<1>2. /\ ~TransitionErrors
      /\ Observed(workflow, repo).outcome = Contract(workflow).outcome
      /\ Observed(workflow, repo).reason = Contract(workflow).reason
  BY <1>1 DEF Achieved, TransitionErrors
<1>3. QED
  BY <1>2 DEF Verdict

(* A candidate that went to the end of its plan fails: it misses the outcome,  *)
(* or it cannot have got past its protected call.                              *)
LEMMA CandidateVerdict ==
  ASSUME RunInv, ReplayInv, DefectInv, stage = "observe", plan.reviewed, safe, side = "candidate"
  PROVE  Verdict(TRUE) = "failed"
<1>1. ran = PlannedCalls /\ repo = Replay(workflow, Plan(workflow, "candidate").calls)
  BY WholeRun
<1>2. CASE workflow \in {"returns_resolution", "disputes"}
  <2>1. Observed(workflow, repo).outcome # Contract(workflow).outcome
    BY <1>1, <1>2, ReturnsMisses, DisputesMisses
  <2>2. QED
    BY <2>1 DEF Verdict
<1>3. CASE workflow \notin {"returns_resolution", "disputes"}
  <2>1. plan.gate = Plan(workflow, "candidate").gate /\ workflow \in Workflows
    BY DEF DefectInv, OneRun, RunInv, RunTypes
  <2>2. PICK i \in DOMAIN Plan(workflow, "candidate").calls :
           Plan(workflow, "candidate").calls[i][1] \in Contract(workflow).protected
    BY <1>3, <2>1, CandidateUngated
  <2>3. i \in DOMAIN ran /\ ran[i][1] \in Contract(workflow).protected
    BY <1>1, <2>2 DEF PlannedCalls
  <2>4. Contract(workflow).gated /\ ~plan.gate
    BY <1>3, <2>1, CandidateUngated
  <2>5. ran[i][1] \in WritingTools(workflow)
    BY <2>1, <2>3, Declared
  <2>6. Refused(ran[i])
    BY <2>3, <2>4, <2>5 DEF Refused
  <2>7. QED
    BY <2>3, <2>6 DEF RunInv, CallInv, LetThrough
<1>4. QED
  BY <1>2, <1>3

(* The workflow's own script has at most one entry, and no entry of it repeats.*)
LEMMA OwnScripts ==
  ASSUME NEW w \in Workflows
  PROVE  /\ DOMAIN OwnScript(w) \subseteq Nat
         /\ \A i \in DOMAIN OwnScript(w) : OwnScript(w)[i].repeat = FALSE
         /\ \A i, j \in DOMAIN OwnScript(w) : i = j
<1> DEFINE Of(t) == [kind |-> "timeout", tool |-> t, arg |-> "any", repeat |-> FALSE]
           S == {Of(t) : t \in Contract(w).faulty}
<1>1. Contract(w).faulty = {} \/ \E t : Contract(w).faulty = {t}
  BY DEF Workflows, Contract, FlightContract, IncidentContract, TriageContract, ClaimsContract,
         ReturnsContract, OnboardingContract, DisputesContract
<1>2. S = {} \/ \E e : S = {e}
  <2>1. CASE Contract(w).faulty = {}
    BY <2>1
  <2>2. ASSUME NEW t, Contract(w).faulty = {t}
        PROVE  S = {Of(t)}
    BY <2>2
  <2> HIDE DEF S, Of
  <2>3. QED
    BY <1>1, <2>1, <2>2
<1>3. \A e \in S : e.repeat = FALSE
  OBVIOUS
<1>4. OwnScript(w) = CHOOSE f \in [1 .. Cardinality(S) -> S] : IsInjective(f)
  BY DEF OwnScript, SetToSeq
<1> HIDE DEF S
<1>5. CASE S = {}
  <2>1. Cardinality(S) = 0
    BY <1>5, FS_EmptySet
  <2> DEFINE g == [i \in 1 .. 0 |-> i]
  <2>2. g \in [1 .. Cardinality(S) -> S] /\ IsInjective(g)
    BY <1>5, <2>1 DEF IsInjective
  <2>3. OwnScript(w) \in [1 .. Cardinality(S) -> S]
    BY <1>4, <2>2
  <2>4. QED
    BY <2>1, <2>3
<1>6. CASE \E e : S = {e}
  <2>1. PICK e : S = {e}
    BY <1>6
  <2>2. Cardinality(S) = 1
    BY <2>1, FS_Singleton
  <2> DEFINE g == [i \in 1 .. 1 |-> e]
  <2>3. g \in [1 .. Cardinality(S) -> S] /\ IsInjective(g)
    BY <2>1, <2>2 DEF IsInjective
  <2>4. OwnScript(w) \in [1 .. Cardinality(S) -> S]
    BY <1>4, <2>3
  <2>5. QED
    BY <1>3, <2>2, <2>4
<1>7. QED
  BY <1>2, <1>5, <1>6

(* Once it is used up it stops no call; the call it stops uses it up.          *)
LEMMA OwnStops ==
  ASSUME RunTypes, script = OwnScript(workflow), NEW c
  PROVE  /\ DOMAIN script \subseteq consumed => Stopping(c) = {}
         /\ Stopping(c) # {} => DOMAIN script \subseteq UsedUp(c)
<1>1. /\ DOMAIN script \subseteq Nat
      /\ \A i \in DOMAIN script : script[i].repeat = FALSE
      /\ \A i, j \in DOMAIN script : i = j
  BY OwnScripts DEF RunTypes
<1>2. DOMAIN script \subseteq consumed => Stopping(c) = {}
  BY <1>1 DEF Stopping, Matching
<1>3. Stopping(c) # {} => DOMAIN script \subseteq UsedUp(c)
  <2> SUFFICES ASSUME Stopping(c) # {}
               PROVE  DOMAIN script \subseteq UsedUp(c)
    OBVIOUS
  <2>1. PICK i : i \in Stopping(c)
    OBVIOUS
  <2>2. i \in DOMAIN script /\ i \in Matching(c) /\ Stopping(c) = {i} /\ DOMAIN script = {i}
    BY <1>1, <2>1 DEF Stopping, Matching
  <2>3. FirstStop(c) = i
    BY <2>2 DEF FirstStop
  <2>4. i <= i
    BY <1>1, <2>2
  <2>5. QED
    BY <2>2, <2>3, <2>4 DEF UsedUp
<1>4. QED
  BY <1>2, <1>3

(* Every step keeps what is known of gates, lengths and results.               *)
LEMMA DefectKeeps ==
  ASSUME RunInv, ReplayInv, DefectInv, [Next]_vars
  PROVE  DefectInv'
<1> USE DEF OneRun
<1>1. CASE ~ReferenceCommandStep
  <2>1. workflow' = workflow /\ runVars' = runVars
    BY <1>1, OthersActs DEF RunInv
  <2>2. /\ stage' = stage /\ side' = side /\ plan' = plan /\ index' = index /\ safe' = safe
        /\ results' = results
    BY <2>1 DEF runVars
  <2>3. QED
    BY <2>1, <2>2 DEF DefectInv, PlannedCalls
<1>2. CASE Begin
  <2>1. /\ workflow' = workflow /\ side' = side /\ stage' = "planned" /\ results' = results
        /\ plan'.reviewed => plan'.gate = Plan(workflow, side).gate
    BY <1>2 DEF Begin
  <2>2. QED
    BY <2>1 DEF DefectInv
<1>3. CASE NextCall
  <2>1. /\ workflow' = workflow /\ side' = side /\ plan' = plan /\ index' = index
        /\ safe' = safe /\ results' = results /\ stage = "planned"
        /\ plan.reviewed /\ stage' = "observe" => ~(index <= Len(PlannedCalls))
    BY <1>3 DEF NextCall
  <2>2. plan.reviewed /\ stage' = "observe" => index - 1 = Len(PlannedCalls)
    <3>1. plan.reviewed => index - 1 <= Len(PlannedCalls)
      BY <2>1 DEF ReplayInv
    <3>2. index \in Nat /\ Len(PlannedCalls) \in Nat
      BY PlannedHere DEF RunInv, RunTypes
    <3>3. QED
      BY <2>1, <3>1, <3>2
  <2>3. QED
    BY <2>1, <2>2 DEF DefectInv, PlannedCalls
<1>4. CASE Break \/ Timeout \/ ToolReturns
  <2>1. /\ workflow' = workflow /\ side' = side /\ plan' = plan
        /\ results' = results /\ stage = "call"
        /\ stage' = "observe" => ~safe'
    BY <1>4 DEF Break, Timeout, Retry, Admitted, ToolReturns, Passed
  <2>2. QED
    BY <2>1 DEF DefectInv
<1>5. CASE Escape
  <2>1. stage' = "escaped" /\ results' = results
    BY <1>5 DEF Escape
  <2>2. QED
    BY <2>1 DEF DefectInv
<1>6. CASE Finish
  <2>1. PICK clean \in BOOLEAN :
          results' = [results EXCEPT ![side] =
                [verdict |-> Verdict(clean), safe |-> safe, clean |-> clean,
                 unknown |-> call[1] = "unknown", ungated |-> Ungated, reviewed |-> plan.reviewed]]
    BY <1>6 DEF Finish
  <2>2. stage = "observe" /\ stage' \in {"idle", "compare"}
    BY <1>6 DEF Finish
  <2>3. results \in [Sides -> Result] /\ side \in Sides
    BY DEF RunInv, RunTypes
  <2>4. /\ results'[side].verdict = Verdict(clean) /\ results'[side].safe = safe
        /\ results'[side].clean = clean /\ results'[side].reviewed = plan.reviewed
        /\ \A s \in Sides : s # side => results'[s] = results[s]
    BY <2>1, <2>3
  <2>5. plan.reviewed /\ safe /\ clean =>
          Verdict(clean) = IF side = "baseline" THEN "reproduced" ELSE "failed"
    <3>1. CASE side = "baseline"
      BY <2>2, <3>1, BaselineVerdict
    <3>2. CASE side = "candidate"
      BY <2>2, <3>2, CandidateVerdict
    <3>3. QED
      BY <2>3, <3>1, <3>2 DEF Sides
  <2>6. QED
    BY <2>2, <2>3, <2>4, <2>5 DEF DefectInv, Sides
<1>7. CASE Compare
  <2>1. stage' = "done" /\ results' = results
    BY <1>7 DEF Compare
  <2>2. QED
    BY <2>1 DEF DefectInv
<1>8. QED
  BY <1>1, <1>2, <1>3, <1>4, <1>5, <1>6, <1>7 DEF ReferenceCommandStep, RunStep

(* Under the workflow's own script a reviewed baseline stays safe: no call of  *)
(* it is refused, and the one entry times a call out once.                     *)
LEMMA OwnKeeps ==
  ASSUME RunInv, ReplayInv, DefectInv, OwnInv, [Next]_vars
  PROVE  OwnInv'
<1> USE DEF OneRun
<1>0. SUFFICES ASSUME script' = OwnScript(workflow')
               PROVE  /\ stage' = "call" /\ attempts' > 0 => DOMAIN script' \subseteq consumed'
                      /\ stage' \in {"planned", "call", "observe"} /\ side' = "baseline" /\ plan'.reviewed => safe'
                      /\ results'["baseline"].reviewed => results'["baseline"].safe
  BY DEF OwnInv
<1>1. CASE ~ReferenceCommandStep
  <2>1. workflow' = workflow /\ runVars' = runVars
    BY <1>1, OthersActs DEF RunInv
  <2>2. /\ stage' = stage /\ side' = side /\ plan' = plan /\ safe' = safe
        /\ results' = results /\ script' = script /\ attempts' = attempts /\ consumed' = consumed
    BY <2>1 DEF runVars
  <2>3. QED
    BY <1>0, <2>1, <2>2 DEF OwnInv
<1>a. CASE ReferenceCommandStep
  <2>0. script = OwnScript(workflow) /\ script' = script
    BY <1>0, <1>a DEF ReferenceCommandStep, RunStep, Begin, NextCall, Break, Timeout, ToolReturns, Escape,
                      Finish, Compare
  <2>1. /\ stage = "call" /\ attempts > 0 => DOMAIN script \subseteq consumed
        /\ OneRun /\ side = "baseline" /\ plan.reviewed => safe
        /\ results["baseline"].reviewed => results["baseline"].safe
    BY <2>0 DEF OwnInv
  <2>2. CASE Begin
    BY <2>1, <2>2 DEF Begin
  <2>3. CASE NextCall
    <3>1. stage = "planned" => attempts = 0
      BY DEF RunInv, BudgetInv
    <3>2. QED
      BY <2>1, <2>3, <3>1 DEF NextCall
  <2>4. CASE Break
    <3>1. /\ stage = "call"
          /\ call[1] \notin Tools(workflow) \/ Refused(call)
          /\ side' = side /\ plan' = plan /\ results' = results /\ stage' = "observe"
      BY <2>4 DEF Break
    <3>2. ~(side = "baseline" /\ plan.reviewed)
      <4> SUFFICES ASSUME side = "baseline", plan.reviewed
                   PROVE  FALSE
        OBVIOUS
      <4>1. /\ index <= Len(PlannedCalls) /\ call = PlannedCalls[index] /\ index \in Nat /\ index > 0
            /\ plan.gate = Plan(workflow, "baseline").gate /\ workflow \in Workflows
        <5>1. index \in Nat /\ index > 0 /\ workflow \in Workflows
          BY <3>1 DEF RunInv, RunTypes
        <5>2. index <= Len(PlannedCalls) /\ call = PlannedCalls[index]
          BY <3>1 DEF ReplayInv
        <5>3. plan.gate = Plan(workflow, side).gate
          BY <3>1 DEF DefectInv
        <5>4. QED
          BY <5>1, <5>2, <5>3
      <4>2. index \in DOMAIN PlannedCalls /\ call[1] \in Tools(workflow)
        <5>1. PlannedCalls \in Seq(Tools(workflow) \X Args) /\ Len(PlannedCalls) \in Nat
          BY PlannedHere DEF RunInv
        <5>2. index \in 1 .. Len(PlannedCalls)
          BY <4>1, <5>1
        <5>3. PlannedCalls[index] \in Tools(workflow) \X Args
          BY <5>1, <5>2
        <5>4. QED
          BY <4>1, <5>1, <5>2, <5>3
      <4>3. Refused(call)
        BY <3>1, <4>2
      <4>4. Contract(workflow).gated /\ ~plan.gate /\ call[1] \in Contract(workflow).protected
        BY <4>3 DEF Refused
      <4>5. QED
        BY <4>1, <4>2, <4>4, BaselineGated DEF PlannedCalls
    <3>3. QED
      BY <2>1, <3>1, <3>2
  <2>5. CASE Timeout
    <3>1. /\ stage = "call" /\ TimesOut(call) /\ consumed' = consumed \cup UsedUp(call)
          /\ attempts' = attempts + 1 /\ side' = side /\ plan' = plan /\ results' = results
          /\ attempts' <= MaxRetriesPerCall => safe' = safe
      BY <2>5 DEF Timeout, Admitted, Retry
    <3>2. Stopping(call) # {}
      BY <3>1 DEF TimesOut
    <3>3. ~(DOMAIN script \subseteq consumed) /\ DOMAIN script \subseteq UsedUp(call)
      BY <2>0, <3>2, OwnStops DEF RunInv
    <3>4. attempts = 0
      BY <2>1, <3>1, <3>3 DEF RunInv, RunTypes
    <3>5. safe' = safe
      BY <3>1, <3>4 DEF MaxRetriesPerCall
    <3>6. QED
      BY <2>0, <2>1, <3>1, <3>3, <3>5
  <2>6. CASE ToolReturns
    BY <2>1, <2>6 DEF ToolReturns, Passed, Admitted
  <2>7. CASE Escape
    BY <2>1, <2>7 DEF Escape
  <2>8. CASE Finish
    <3>1. PICK clean \in BOOLEAN :
            results' = [results EXCEPT ![side] =
                  [verdict |-> Verdict(clean), safe |-> safe, clean |-> clean,
                   unknown |-> call[1] = "unknown", ungated |-> Ungated, reviewed |-> plan.reviewed]]
      BY <2>8 DEF Finish
    <3>2. stage = "observe" /\ stage' \in {"idle", "compare"}
      BY <2>8 DEF Finish
    <3>3. results \in [Sides -> Result] /\ side \in Sides
      BY DEF RunInv, RunTypes
    <3>4. /\ results'[side].safe = safe /\ results'[side].reviewed = plan.reviewed
          /\ \A s \in Sides : s # side => results'[s] = results[s]
      BY <3>1, <3>3
    <3>5. QED
      BY <2>1, <3>2, <3>3, <3>4 DEF Sides
  <2>9. CASE Compare
    BY <2>1, <2>9 DEF Compare
  <2>10. QED
    BY <1>a, <2>2, <2>3, <2>4, <2>5, <2>6, <2>7, <2>8, <2>9 DEF ReferenceCommandStep, RunStep
<1>2. QED
  BY <1>1, <1>a

(* The declared defect of every workflow is found, for any fault script that   *)
(* stays within the retry budget of the baseline.                              *)
THEOREM DefectsDetected == Spec => []DefectIsDetected
<1>1. Init => DefectInv /\ OwnInv
  <2> SUFFICES ASSUME Init
               PROVE  DefectInv /\ OwnInv
    OBVIOUS
  <2>1. stage = "idle" /\ results = [s \in Sides |-> NoResult]
    BY DEF Init, RunInit
  <2>2. ~results["baseline"].reviewed /\ ~results["candidate"].reviewed
    BY <2>1 DEF Sides, NoResult
  <2>3. QED
    BY <2>1, <2>2 DEF DefectInv, OwnInv, OneRun
<1>2. Init => ReplayInv
  BY DEF Init, RunInit, ReplayInv
<1>3. RunInv /\ ReplayInv /\ DefectInv /\ OwnInv /\ [Next]_vars => ReplayInv' /\ DefectInv' /\ OwnInv'
  BY ReplayKeeps, DefectKeeps, OwnKeeps
<1>4. RunInv /\ DefectInv /\ OwnInv => DefectIsDetected
  <2> SUFFICES ASSUME RunInv, DefectInv, OwnInv, stage = "done",
                      \A s \in Sides : results[s].reviewed /\ results[s].clean,
                      results["baseline"].safe \/ script = OwnScript(workflow)
               PROVE  results["baseline"].verdict = "reproduced" /\ comparison = "candidate_regresses"
    BY DEF DefectIsDetected
  <2> DEFINE b == results["baseline"]
             c == results["candidate"]
  <2>1. b.reviewed /\ b.clean /\ c.reviewed /\ c.clean
    BY DEF Sides
  <2>2. b.safe /\ b.verdict = "reproduced"
    BY <2>1 DEF OwnInv, DefectInv
  <2>3. c.safe => c.verdict = "failed"
    BY <2>1 DEF DefectInv
  <2>4. comparison = Compared(b, c)
    BY DEF RunInv, VerdictInv
  <2>5. c.safe \in BOOLEAN /\ b.safe \in BOOLEAN /\ c.clean \in BOOLEAN /\ b.clean \in BOOLEAN
    BY DEF RunInv, RunTypes, Sides, Result
  <2> HIDE DEF b, c
  <2>6. Compared(b, c) = "candidate_regresses"
    BY <2>1, <2>2, <2>3, <2>5 DEF Compared, Positive
  <2>7. QED
    BY <2>2, <2>4, <2>6 DEF b
<1>5. QED
  BY <1>1, <1>2, <1>3, <1>4, RunInvariance, PTL DEF Spec

-----------------------------------------------------------------------------
(* A persona's run: consent, the goal that counts, and the story of the log.   *)

(* Where a conversation is still going on, and where its sandbox is not gone.  *)
Talking == phase \in {"persona", "persona_again", "agent", "choose", "answered"}
InHand == Talking \/ phase \in {"failed", "cleanup"}

(* Types of a persona's run, as far as the proofs need them.                   *)
TalkTypes ==
    /\ case \in CaseIds \cup {"none"}
    /\ InHand \/ phase \in {"idle", "exit", "closed"}
    /\ {wording, trusted, confirmed, ends, notified, lost, expected} \subseteq BOOLEAN
    /\ turn \in Nat /\ raising \in {"none", "error", "cancelled"}
    /\ executed \in Seq(PlannedCall) /\ pending \in PlannedCall
    /\ OfSupport => command = "simulate"

(* What waits for approval is what the last answer named.                      *)
AskedInv ==
    /\ pending # NoAction => /\ ~OfSupport /\ ~confirmed
                             /\ pending \in Tools(workflow) \X Args /\ NeedsConfirmation(pending[1])
    /\ wording /\ pending # NoAction => asked = pending
    /\ phase = "agent" /\ trusted => wording
    /\ OfSupport => /\ wording => asked = Consent
                    /\ executed = <<>> /\ ~confirmed /\ phase # "choose"
    /\ \A p \in approved : p.given = p.asked

(* Nothing sensitive ran before an approval, and the first that did was        *)
(* approved; no tool ran twice.                                                *)
Sensitive == {i \in DOMAIN executed : NeedsConfirmation(executed[i][1])}
ApprovedInv ==
    /\ ~confirmed => Sensitive = {}
    /\ confirmed /\ Talking => Sensitive # {}
    /\ \A i \in Sensitive : (\A j \in Sensitive : i <= j) => \E p \in approved : p.given = executed[i]
    /\ confirmed => approved # {} /\ phase # "idle"
    /\ \A i, j \in DOMAIN executed : executed[i][1] = executed[j][1] => i = j

(* The sandbox's order is refunded once, with the customer's consent.          *)
RefundsMade == {i \in DOMAIN repo.trail : repo.trail[i] = Refunded}
SandboxInv ==
    OfSupport =>
        /\ repo \in Boxes
        /\ \A i \in DOMAIN repo.records : repo.records[i].of = "order"
        /\ RefundsMade # {} => \A i \in DOMAIN repo.records : repo.records[i].is = "refunded"
        /\ RefundsMade # {} => approved # {}
        /\ \A i, j \in RefundsMade : i = j
        /\ repo.open => repo.records = IF RefundsMade # {} THEN AllBecome(Sandbox(case), "order", "refunded").records
                                                       ELSE Sandbox(case).records
        /\ Talking => repo.open

(* The repository is what the calls made of the seed, and a success was seen.  *)
GoalInv ==
    /\ command = "simulate" /\ ~OfSupport =>
         /\ phase = "idle" => repo = Destroyed /\ executed = <<>>
         /\ InHand => repo = Replay(workflow, executed)
         /\ phase \in {"exit", "closed"} => repo = Destroyed \/ repo = Replay(workflow, executed)
    /\ report = "state_verified_success" => phase \in {"cleanup", "exit", "closed"}
    /\ report = "state_verified_success" /\ OfSupport => expected /\ (repo.open => AllAllowed(case, repo))
    /\ report = "state_verified_success" /\ ~OfSupport =>
         LET left == Replay(workflow, executed)
         IN  /\ Observed(workflow, left).outcome = Contract(workflow).outcome
             /\ Contract(workflow).required \subseteq ToSet(left.trail)
             /\ ToSet(left.trail) \subseteq Contract(workflow).permitted
             /\ Contract(workflow).gated => confirmed

(* The log is empty until the conversation is over; then an error and a notice *)
(* at most until the clean-up.                                                 *)
Events == {"error", "cleanup", "cleanup_failed", "done", "notice"}
Unique(e) == \A i, j \in Place(e) : i = j
StoryInv ==
    /\ log \in Seq(Events)
    /\ phase = "idle" \/ Talking \/ phase = "failed" => log = <<>> /\ ~notified /\ report = "none"
    /\ phase = "idle" \/ Talking => raising = "none"
    /\ phase = "idle" => turn = 1
    /\ phase = "failed" => raising \in {"error", "cancelled"}
    /\ phase = "cleanup" => \A i \in DOMAIN log : log[i] \in {"error", "notice"}
    /\ ~notified => Place("notice") = {}
    /\ Unique("notice") /\ Unique("done")
    /\ Marks("error") => report \in {"error", "cancelled"}
    /\ report \in {"error", "cancelled"} => Marks("error") \/ lost
    /\ Place("done") # {} => phase \in {"exit", "closed"} /\ report # "none" /\ repo = Destroyed
    /\ Marks("cleanup") => phase \in {"exit", "closed"} /\ repo = Destroyed
    /\ \A d \in Place("done") : /\ \E c \in Place("cleanup") : c < d
                                /\ \A i \in DOMAIN log : i > d => log[i] = "notice"
    /\ phase \in {"exit", "closed"} /\ ~lost /\ report # "none" /\ repo = Destroyed => Marks("done")
    /\ phase \in {"cleanup", "exit"} /\ raising = "cancelled" =>
         report = "cancelled" \/ (OfSupport /\ report = "none" /\ turn = 1)
    /\ told # "nothing" => phase = "closed"
    /\ told = "complete" => /\ repo = Destroyed
                            /\ report = "cancelled" \/ (OfSupport /\ report = "none" /\ turn = 1)

PersonaMoves == SimulateStep \/ SimulateFault

(* What a persona's run owns, no step of another command touches.              *)
LEMMA PersonaFrame ==
  ASSUME RunTypes, [Next]_vars, ~PersonaMoves
  PROVE  /\ personaVars' = personaVars /\ command' = command /\ workflow' = workflow
         /\ command = "simulate" => repo' = repo
<1>1. CASE ReferenceCommandStep
  <2>1. command = "reference"
    BY <1>1 DEF ReferenceCommandStep, RunStep, Begin, NextCall, Break, Timeout, ToolReturns, Admitted,
                Escape, Finish, Compare, RunTypes
  <2>2. command' = command /\ workflow' = workflow /\ personaVars' = personaVars
    BY <1>1 DEF ReferenceCommandStep, RunStep, Begin, NextCall, Break, Timeout, ToolReturns, Admitted,
                Escape, Finish, Compare
  <2>3. QED
    BY <2>1, <2>2
<1>2. CASE SetupStep \/ SetupInput \/ CompareStep
  BY <1>2 DEF SetupStep, SetupInput, CompareStep
<1>3. CASE Ended \/ UNCHANGED vars
  BY <1>3 DEF Ended, vars
<1>4. QED
  BY <1>1, <1>2, <1>3 DEF Next, PersonaMoves

(* The same, variable by variable.                                             *)
LEMMA PersonaUnmoved ==
  ASSUME RunTypes, [Next]_vars, ~PersonaMoves
  PROVE  /\ case' = case /\ phase' = phase /\ turn' = turn /\ wording' = wording /\ trusted' = trusted
         /\ confirmed' = confirmed /\ pending' = pending /\ executed' = executed /\ expected' = expected
         /\ ends' = ends /\ report' = report /\ log' = log /\ raising' = raising
         /\ notified' = notified /\ told' = told /\ lost' = lost /\ asked' = asked /\ approved' = approved
         /\ command' = command /\ workflow' = workflow
         /\ command = "simulate" => repo' = repo
BY PersonaFrame DEF personaVars

(* A call that runs.                                                           *)
LEMMA RunsDoes ==
  ASSUME NEW c, Runs(c)
  PROVE  \/ /\ RunTool(workflow, c[1], c[2], repo).raised
            /\ phase' = "failed" /\ raising' = "error" /\ repo' = repo /\ executed' = executed
         \/ /\ ~RunTool(workflow, c[1], c[2], repo).raised
            /\ phase' = "choose" /\ raising' = raising
            /\ repo' = RunTool(workflow, c[1], c[2], repo).repo /\ executed' = Append(executed, c)
BY DEF Runs

(* A tool the model chose, with an argument it takes, is a planned call.       *)
LEMMA CallOfTool ==
  ASSUME workflow \in Workflows, NEW t \in Tools(workflow), NEW a \in ArgsOf(t)
  PROVE  <<t, a>> \in Tools(workflow) \X Args /\ <<t, a>> \in PlannedCall
<1>1. a \in Args
  BY DEF ArgsOf, Args
<1>2. QED
  BY <1>1 DEF PlannedCall

(* The types of a persona's run are kept.                                      *)
LEMMA TalkTypesKept ==
  ASSUME RunTypes, TalkTypes, [Next]_vars
  PROVE  TalkTypes'
<1> USE DEF TalkTypes, Talking, InHand, InTheMiddle, Unended, Quiet, OfSupport
<1>1. CASE ~PersonaMoves
  BY <1>1, PersonaUnmoved
<1>2. CASE Start \/ SandboxUnready
  BY <1>2 DEF Start, SandboxUnready, Lost
<1>3. CASE PersonaTurn
  BY <1>3 DEF PersonaTurn, Trust
<1>4. CASE AgentBegins
  <2>1. CASE ~(trusted /\ pending # NoAction)
    BY <1>4, <2>1 DEF AgentBegins
  <2>2. CASE trusted /\ pending # NoAction
    <3>1. /\ Runs(pending) /\ confirmed' = TRUE /\ pending' = NoAction /\ NoAction \in PlannedCall
      BY <1>4, <2>2 DEF AgentBegins, NoAction, PlannedCall, NoCall
    <3>2. executed' \in Seq(PlannedCall) /\ phase' \in {"failed", "choose"} /\ raising' \in {raising, "error"}
      BY <3>1, RunsDoes
    <3>3. QED
      BY <1>4, <3>1, <3>2 DEF AgentBegins
  <2>3. QED
    BY <2>1, <2>2
<1>5. CASE AgentEnds \/ AgentIsRefused \/ AgentGivesUp
  BY <1>5 DEF AgentEnds, AgentIsRefused, AgentGivesUp, Choosing
<1>6. CASE AgentAsks
  <2>1. pending' \in PlannedCall
    BY <1>6, CallOfTool DEF AgentAsks, RunTypes
  <2>2. QED
    BY <1>6, <2>1 DEF AgentAsks, Choosing
<1>7. CASE AgentUses
  <2>1. PICK t \in Tools(workflow) \ ExecutedTools : \E a \in ArgsOf(t) : Runs(<<t, a>>)
    BY <1>7 DEF AgentUses
  <2>a. PICK a \in ArgsOf(t) : Runs(<<t, a>>)
    BY <2>1
  <2>2. <<t, a>> \in PlannedCall
    BY CallOfTool DEF RunTypes
  <2>3. executed' \in Seq(PlannedCall) /\ phase' \in {"failed", "choose"} /\ raising' \in {raising, "error"}
    BY <2>a, <2>2, RunsDoes
  <2>4. QED
    BY <1>7, <2>3 DEF AgentUses
<1>8. CASE SupportAnswers
  BY <1>8 DEF SupportAnswers, IsExpected
<1>9. CASE Judge
  <2>1. /\ phase' \in {"persona", "cleanup"} /\ turn' \in {turn, turn + 1} /\ lost' \in {lost, TRUE}
        /\ raising' \in {raising, "error"}
        /\ case' = case /\ command' = command /\ wording' = wording /\ trusted' = trusted
        /\ confirmed' = confirmed /\ ends' = ends /\ notified' = notified /\ expected' = expected
        /\ executed' = executed /\ pending' = pending
    BY <1>9 DEF Judge, NextTurn, Reports, Lost
  <2>2. turn' \in Nat
    BY <2>1
  <2>3. QED
    BY <2>1, <2>2
<1>10. CASE ModelFails \/ Interrupted \/ EventFails
  BY <1>10 DEF ModelFails, Interrupted, EventFails, Fails
<1>11. CASE PartialReport
  BY <1>11 DEF PartialReport, Reports, Lost, Logged
<1>12. CASE Cleanup
  BY <1>12 DEF Cleanup, CleanupSucceeds, CleanupFails, Lost, Logged
<1>13. CASE Exit
  BY <1>13 DEF Exit
<1>14. QED
  BY <1>1, <1>2, <1>3, <1>4, <1>5, <1>6, <1>7, <1>8, <1>9, <1>10, <1>11, <1>12, <1>13
     DEF PersonaMoves, SimulateStep, SimulateFault, PersonaStep, PersonaFault

(* What waits for approval stays what the last answer named, whatever step is  *)
(* taken.                                                                      *)
LEMMA AskedKept ==
  ASSUME RunTypes, TalkTypes, AskedInv, [Next]_vars
  PROVE  AskedInv'
<1> USE DEF AskedInv, InTheMiddle, Unended, Quiet, OfSupport, NeedsConfirmation
<1>0. {wording, trusted, confirmed} \subseteq BOOLEAN
  BY DEF TalkTypes
<1>1. CASE ~PersonaMoves
  BY <1>1, PersonaUnmoved
<1>2. CASE Start \/ SandboxUnready
  BY <1>2 DEF Start, SandboxUnready, Lost
<1>3. CASE PersonaTurn
  BY <1>3 DEF PersonaTurn, Trust
<1>4. CASE AgentBegins
  <2>1. CASE ~(trusted /\ pending # NoAction)
    BY <1>4, <2>1 DEF AgentBegins
  <2>2. CASE trusted /\ pending # NoAction
    <3>1. /\ pending' = NoAction /\ approved' = approved \cup {[given |-> pending, asked |-> asked]}
          /\ phase = "agent" /\ case = "none" /\ case' = case /\ Runs(pending)
      BY <1>4, <2>2 DEF AgentBegins
    <3>2. asked = pending
      BY <2>2, <3>1
    <3>3. \A p \in approved' : p.given = p.asked
      BY <3>1, <3>2
    <3>4. phase' # "agent"
      BY <3>1, RunsDoes
    <3>5. QED
      BY <3>1, <3>3, <3>4
  <2>3. QED
    BY <2>1, <2>2
<1>5. CASE AgentEnds
  <2>1. /\ pending' = pending /\ approved' = approved /\ case' = case /\ workflow' = workflow
        /\ confirmed' = confirmed /\ executed' = executed /\ phase' = "answered" /\ phase = "choose"
        /\ Contract(workflow).gated => confirmed
    BY <1>5 DEF AgentEnds, Choosing
  <2>2. pending = NoAction
    BY <2>1
  <2>3. QED
    BY <2>1, <2>2
<1>6. CASE AgentIsRefused \/ AgentGivesUp
  BY <1>6 DEF AgentIsRefused, AgentGivesUp, Choosing
<1>7. CASE AgentAsks
  <2>1. /\ approved' = approved /\ case' = case /\ workflow' = workflow /\ asked' = pending'
        /\ confirmed' = confirmed /\ executed' = executed /\ phase' = "answered" /\ phase = "choose"
        /\ ~confirmed
    BY <1>7 DEF AgentAsks, Choosing
  <2>2. PICK t \in Tools(workflow) \ ExecutedTools : \E a \in ArgsOf(t) : NeedsConfirmation(t) /\ pending' = <<t, a>>
    BY <1>7 DEF AgentAsks
  <2>3. pending' \in Tools(workflow) \X Args /\ NeedsConfirmation(pending'[1])
    BY <2>2, CallOfTool DEF RunTypes
  <2>4. QED
    BY <2>1, <2>3
<1>8. CASE AgentUses
  <2>1. /\ approved' = approved /\ case' = case /\ workflow' = workflow /\ asked' = asked /\ pending' = pending
        /\ confirmed' = confirmed /\ phase = "choose" /\ wording' = wording
    BY <1>8 DEF AgentUses, Choosing
  <2>2. PICK t \in Tools(workflow) \ ExecutedTools : \E a \in ArgsOf(t) : Runs(<<t, a>>)
    BY <1>8 DEF AgentUses
  <2>3. phase' # "agent"
    BY <2>2, RunsDoes
  <2>4. QED
    BY <2>1, <2>3
<1>9. CASE SupportAnswers
  <2>1. /\ approved' = IF trusted THEN approved \cup {[given |-> Consent, asked |-> asked]} ELSE approved
        /\ asked' = IF wording' THEN Consent ELSE NoAction
        /\ case' = case /\ workflow' = workflow /\ pending' = pending /\ case # "none" /\ phase = "agent"
        /\ confirmed' = confirmed /\ executed' = executed /\ phase' = "answered"
    BY <1>9 DEF SupportAnswers
  <2>2. trusted => asked = Consent
    BY <2>1
  <2>3. \A p \in approved' : p.given = p.asked
    BY <2>1, <2>2
  <2>4. QED
    BY <2>1, <2>3
<1>10. CASE Judge \/ PartialReport \/ Cleanup \/ Exit
  <2>1. /\ pending' = pending /\ approved' = approved /\ case' = case /\ workflow' = workflow /\ asked' = asked
        /\ confirmed' = confirmed /\ executed' = executed /\ wording' = wording
        /\ phase' \in {"persona", "cleanup", "exit", "closed"}
    BY <1>10 DEF Judge, NextTurn, PartialReport, Cleanup, Exit
  <2>2. QED
    BY <2>1
<1>11. CASE ModelFails \/ Interrupted \/ EventFails
  BY <1>11 DEF ModelFails, Interrupted, EventFails, Fails
<1>12. QED
  BY <1>1, <1>2, <1>3, <1>4, <1>5, <1>6, <1>7, <1>8, <1>9, <1>10, <1>11
     DEF PersonaMoves, SimulateStep, SimulateFault, PersonaStep, PersonaFault

(* A call that runs adds itself to the sensitive ones if it needs a confirmation,*)
(* and moves none of the earlier ones.                                         *)
LEMMA SensitiveMore ==
  ASSUME TalkTypes, NEW c \in PlannedCall, executed' = Append(executed, c), workflow' = workflow
  PROVE  /\ DOMAIN executed' = DOMAIN executed \cup {Len(executed) + 1}
         /\ \A i \in DOMAIN executed : executed'[i] = executed[i]
         /\ executed'[Len(executed) + 1] = c
         /\ \A i \in DOMAIN executed : i \in Nat /\ i < Len(executed) + 1
         /\ Sensitive \subseteq DOMAIN executed
         /\ Sensitive' = Sensitive \cup (IF NeedsConfirmation(c[1]) THEN {Len(executed) + 1} ELSE {})
<1>1. executed \in Seq(PlannedCall) /\ Len(executed) \in Nat /\ DOMAIN executed = 1 .. Len(executed)
  BY DEF TalkTypes
<1>2. /\ DOMAIN executed' = DOMAIN executed \cup {Len(executed) + 1}
      /\ \A i \in DOMAIN executed : executed'[i] = executed[i]
      /\ executed'[Len(executed) + 1] = c
  <2>1. DOMAIN Append(executed, c) = 1 .. Len(executed) + 1
    BY <1>1, AppendProperties
  <2>2. QED
    BY <1>1, <2>1, AppendProperties
<1>3. \A i \in DOMAIN executed : i \in Nat /\ i < Len(executed) + 1
  BY <1>1
<1>4. \A t : NeedsConfirmation(t)' <=> NeedsConfirmation(t)
  BY DEF NeedsConfirmation
<1>5. Sensitive' = Sensitive \cup (IF NeedsConfirmation(c[1]) THEN {Len(executed) + 1} ELSE {})
  BY <1>2, <1>3, <1>4 DEF Sensitive
<1>6. Sensitive \subseteq DOMAIN executed
  BY DEF Sensitive
<1>7. QED
  BY <1>2, <1>3, <1>5, <1>6

(* A step that runs nothing and takes no approval back.                        *)
LEMMA ApprovedSame ==
  ASSUME ApprovedInv, executed' = executed, workflow' = workflow, confirmed' = confirmed,
         approved \subseteq approved', Talking' => Talking \/ phase = "idle", phase' # "idle" \/ phase = "idle"
  PROVE  ApprovedInv'
<1>1. Sensitive' = Sensitive
  BY DEF Sensitive, NeedsConfirmation
<1>2. QED
  BY <1>1 DEF ApprovedInv

(* A call that ran is of a new tool, and approved if it is the first sensitive *)
(* one.                                                                        *)
LEMMA ApprovedMore ==
  ASSUME TalkTypes, ApprovedInv, NEW c \in PlannedCall, executed' = Append(executed, c), workflow' = workflow,
         approved \subseteq approved', phase' # "idle",
         c[1] \notin ExecutedTools,
         confirmed => confirmed', confirmed' => approved' # {},
         NeedsConfirmation(c[1]) => confirmed',
         confirmed' => Sensitive # {} \/ (NeedsConfirmation(c[1]) /\ \E p \in approved' : p.given = c)
  PROVE  ApprovedInv'
<1> DEFINE n == Len(executed) + 1
<1>1. /\ DOMAIN executed' = DOMAIN executed \cup {n}
      /\ \A i \in DOMAIN executed : executed'[i] = executed[i]
      /\ executed'[n] = c
      /\ \A i \in DOMAIN executed : i \in Nat /\ i < n
      /\ Sensitive \subseteq DOMAIN executed
      /\ Sensitive' = Sensitive \cup (IF NeedsConfirmation(c[1]) THEN {n} ELSE {})
  BY SensitiveMore
<1>2. n \in Nat
  BY DEF TalkTypes
<1> HIDE DEF n
<1>3. ~confirmed' => Sensitive' = {}
  BY <1>1 DEF ApprovedInv
<1>4. confirmed' => Sensitive' # {}
  BY <1>1
<1>5. ASSUME NEW i \in Sensitive', \A j \in Sensitive' : i <= j
      PROVE  \E p \in approved' : p.given = executed'[i]
  <2>1. CASE i \in Sensitive
    <3>1. \A j \in Sensitive : i <= j
      BY <1>1, <1>5
    <3>2. PICK p \in approved : p.given = executed[i]
      BY <2>1, <3>1 DEF ApprovedInv
    <3>3. p \in approved' /\ executed'[i] = executed[i]
      BY <1>1, <2>1, <3>2
    <3>4. QED
      BY <3>2, <3>3
  <2>2. CASE i \notin Sensitive
    <3>1. i = n /\ NeedsConfirmation(c[1])
      BY <1>1, <1>5, <2>2
    <3>2. Sensitive = {}
      <4> SUFFICES ASSUME NEW j \in Sensitive
                   PROVE  FALSE
        OBVIOUS
      <4>1. n <= j /\ j < n /\ j \in Nat
        BY <1>1, <1>5, <3>1
      <4>2. QED
        BY <1>2, <4>1
    <3>3. PICK p \in approved' : p.given = c
      BY <3>1, <3>2
    <3>4. QED
      BY <1>1, <3>1, <3>3
  <2>3. QED
    BY <2>1, <2>2
<1>6. ASSUME NEW i \in DOMAIN executed', NEW j \in DOMAIN executed', executed'[i][1] = executed'[j][1]
      PROVE  i = j
  <2>1. \A k \in DOMAIN executed : executed'[k][1] # c[1]
    BY <1>1 DEF ExecutedTools
  <2>2. QED
    BY <1>1, <1>6, <2>1 DEF ApprovedInv
<1>7. QED
  BY <1>3, <1>4, <1>5, <1>6 DEF ApprovedInv

(* Nothing sensitive runs before an approval, whatever step is taken.          *)
LEMMA ApprovedKept ==
  ASSUME RunTypes, TalkTypes, AskedInv, ApprovedInv, [Next]_vars
  PROVE  ApprovedInv'
<1> USE DEF InTheMiddle, Unended, Quiet
<1>1. CASE ~PersonaMoves
  BY <1>1, PersonaUnmoved, ApprovedSame DEF Talking
<1>2. CASE Start \/ SandboxUnready \/ PersonaTurn
  BY <1>2, ApprovedSame DEF Start, SandboxUnready, PersonaTurn, Talking
<1>3. CASE AgentEnds \/ AgentIsRefused \/ AgentAsks \/ AgentGivesUp
  BY <1>3, ApprovedSame DEF AgentEnds, AgentIsRefused, AgentAsks, AgentGivesUp, Choosing, Talking
<1>4. CASE AgentBegins
  <2>0. /\ workflow' = workflow /\ phase = "agent"
    BY <1>4 DEF AgentBegins
  <2>1. CASE ~(trusted /\ pending # NoAction)
    BY <1>4, <2>1, ApprovedSame DEF AgentBegins, Talking
  <2>2. CASE trusted /\ pending # NoAction
    <3>1. /\ confirmed' = TRUE /\ approved' = approved \cup {[given |-> pending, asked |-> asked]}
          /\ Runs(pending)
      BY <1>4, <2>2 DEF AgentBegins
    <3>2. ~confirmed /\ NeedsConfirmation(pending[1]) /\ pending \in PlannedCall /\ Sensitive = {}
      BY <2>2 DEF AskedInv, ApprovedInv, TalkTypes
    <3>3. approved \subseteq approved' /\ \E p \in approved' : p.given = pending
      <4>1. [given |-> pending, asked |-> asked] \in approved' /\ [given |-> pending, asked |-> asked].given = pending
        BY <3>1
      <4>2. QED
        BY <3>1, <4>1
    <3>4. CASE executed' = Append(executed, pending) /\ phase' = "choose"
      <4>1. pending[1] \notin ExecutedTools
        BY <3>2 DEF Sensitive, ExecutedTools
      <4>2. QED
        BY <2>0, <3>1, <3>2, <3>3, <3>4, <4>1, ApprovedMore
    <3>5. CASE executed' = executed /\ phase' = "failed"
      <4>1. Sensitive' = Sensitive
        BY <2>0, <3>5 DEF Sensitive, NeedsConfirmation
      <4>2. QED
        BY <3>1, <3>2, <3>3, <3>5, <4>1 DEF ApprovedInv, Talking
    <3>6. QED
      BY <3>1, <3>4, <3>5, RunsDoes
  <2>3. QED
    BY <2>1, <2>2
<1>5. CASE AgentUses
  <2>1. /\ workflow' = workflow /\ phase = "choose" /\ confirmed' = confirmed /\ approved' = approved
    BY <1>5 DEF AgentUses, Choosing
  <2>2. PICK t \in Tools(workflow) \ ExecutedTools :
          \E a \in ArgsOf(t) : (NeedsConfirmation(t) => confirmed) /\ Runs(<<t, a>>)
    BY <1>5 DEF AgentUses
  <2>3. PICK a \in ArgsOf(t) : (NeedsConfirmation(t) => confirmed) /\ Runs(<<t, a>>)
    BY <2>2
  <2>4. <<t, a>> \in PlannedCall
    BY CallOfTool DEF RunTypes
  <2>5. confirmed => Sensitive # {} /\ approved # {}
    BY <2>1 DEF ApprovedInv, Talking
  <2>6. CASE executed' = Append(executed, <<t, a>>) /\ phase' = "choose"
    <3> DEFINE c == <<t, a>>
    <3>1. c \in PlannedCall /\ c[1] \notin ExecutedTools /\ (NeedsConfirmation(c[1]) => confirmed)
          /\ executed' = Append(executed, c)
      BY <2>2, <2>3, <2>4, <2>6
    <3> HIDE DEF c
    <3>2. QED
      BY <2>1, <2>5, <2>6, <3>1, ApprovedMore
  <2>7. CASE executed' = executed /\ phase' = "failed"
    BY <2>1, <2>7, ApprovedSame DEF Talking
  <2>8. QED
    BY <2>3, <2>6, <2>7, RunsDoes
<1>6. CASE SupportAnswers
  <2>1. /\ approved \subseteq approved' /\ workflow' = workflow /\ phase = "agent" /\ phase' = "answered"
        /\ confirmed' = confirmed /\ executed' = executed
    BY <1>6 DEF SupportAnswers
  <2>2. QED
    BY <2>1, ApprovedSame DEF Talking
<1>7. CASE Judge \/ PartialReport \/ Cleanup \/ Exit
  <2>1. /\ approved' = approved /\ workflow' = workflow /\ confirmed' = confirmed /\ executed' = executed
        /\ phase' = "persona" => phase = "answered"
        /\ phase' \in {"persona", "cleanup", "exit", "closed"}
    BY <1>7 DEF Judge, NextTurn, PartialReport, Cleanup, Exit
  <2>2. QED
    BY <2>1, ApprovedSame DEF Talking
<1>8. CASE ModelFails \/ Interrupted \/ EventFails
  BY <1>8, ApprovedSame DEF ModelFails, Interrupted, EventFails, Fails, Talking
<1>9. QED
  BY <1>1, <1>2, <1>3, <1>4, <1>5, <1>6, <1>7, <1>8
     DEF PersonaMoves, SimulateStep, SimulateFault, PersonaStep, PersonaFault

(* The orders of the cases.                                                    *)
LEMMA CaseOrders ==
  ASSUME NEW c \in CaseIds
  PROVE  Scenarios[c].order \in {"absent", "shipped", "delivered"}
<1>1. DOMAIN Scenarios = {"bad_prompt", "wrong_evidence", "read_timeout", "wrong_arguments", "unconfirmed_refund",
                          "repeated_step", "slow_database", "model_cost"}
  BY DEF Scenarios
<1>2. QED
  BY <1>1 DEF CaseIds, Scenarios, Scenario, BadPrompt, WrongEvidence, ReadTimeout, WrongArguments,
              UnconfirmedRefund, RepeatedStep, SlowDatabase, ModelCost

(* The seeded sandbox of a case: its orders alone, not refunded, and no trail. *)
LEMMA SandboxFresh ==
  ASSUME NEW c \in CaseIds
  PROVE  /\ Sandbox(c) \in Boxes /\ Sandbox(c).open = TRUE /\ Sandbox(c).trail = <<>>
         /\ \A i \in DOMAIN Sandbox(c).records : Sandbox(c).records[i].of = "order"
<1>1. CASE Scenarios[c].order = "absent"
  <2>1. Sandbox(c) = Loaded(<<>>)
    BY <1>1 DEF Sandbox
  <2>2. Loaded(<<>>) \in Boxes
    BY DEF Loaded, Boxes
  <2>3. QED
    BY <2>1, <2>2 DEF Loaded
<1>2. CASE Scenarios[c].order # "absent"
  <2> DEFINE e == [of |-> "order", is |-> Scenarios[c].order]
  <2>1. e \in Records
    BY <1>2, CaseOrders DEF Records, Words
  <2>2. Sandbox(c) = Loaded(<<e>>)
    BY <1>2 DEF Sandbox
  <2>3. e.of = "order"
    OBVIOUS
  <2> HIDE DEF e
  <2>4. Loaded(<<e>>) \in Boxes
    BY <2>1 DEF Loaded, Boxes
  <2>5. \A i \in DOMAIN <<e>> : <<e>>[i].of = "order"
    BY <2>3
  <2>6. QED
    BY <2>2, <2>4, <2>5 DEF Loaded
<1>3. QED
  BY <1>1, <1>2

(* Where a trail shows a refund.                                              *)
RefundsIn(r) == {i \in DOMAIN r.trail : r.trail[i] = Refunded}

(* Records that change, whatever else the repository holds.                    *)
LEMMA AllRecords ==
  ASSUME NEW r \in Boxes, NEW s \in Boxes, r.records = s.records
  PROVE  AllBecome(r, "order", "refunded").records = AllBecome(s, "order", "refunded").records
<1> DEFINE Repaid(t) == [i \in DOMAIN t |-> IF t[i].of = "order" THEN [t[i] EXCEPT !.is = "refunded"] ELSE t[i]]
<1>1. ASSUME NEW q \in Boxes
      PROVE  AllBecome(q, "order", "refunded").records = Repaid(q.records)
  <2>1. AllBecome(q, "order", "refunded") = [q EXCEPT !.records = Repaid(q.records)]
    BY DEF AllBecome
  <2> HIDE DEF Repaid
  <2>2. QED
    BY <2>1 DEF Boxes
<1> HIDE DEF Repaid
<1>2. QED
  BY <1>1

(* A transition that is noted counts as a refund if it is one.                 *)
LEMMA NotedRefund ==
  ASSUME NEW r \in Boxes, NEW x \in Steps
  PROVE  RefundsIn(Noted(r, x)) = RefundsIn(r) \cup (IF x = Refunded THEN {Len(r.trail) + 1} ELSE {})
<1>1. Noted(r, x).trail = Append(r.trail, x) /\ r.trail \in Seq(Steps)
  BY OnNoted DEF Boxes
<1> DEFINE t == Append(r.trail, x)
<1>2. /\ DOMAIN t = DOMAIN r.trail \cup {Len(r.trail) + 1} /\ t[Len(r.trail) + 1] = x
      /\ \A i \in DOMAIN r.trail : t[i] = r.trail[i] /\ i # Len(r.trail) + 1
  BY <1>1, AppendProperties
<1> HIDE DEF t
<1>3. {i \in DOMAIN t : t[i] = Refunded} =
        {i \in DOMAIN r.trail : r.trail[i] = Refunded} \cup (IF x = Refunded THEN {Len(r.trail) + 1} ELSE {})
  BY <1>2
<1>4. QED
  BY <1>1, <1>3 DEF RefundsIn, t

(* A turn of the support agent on a sandbox of orders.                         *)
LEMMA TurnOnSandbox ==
  ASSUME NEW r \in Boxes, \A i \in DOMAIN r.records : r.records[i].of = "order",
         NEW t, t.refunded \in BOOLEAN, t.ticketed \in BOOLEAN
  PROVE  /\ AfterTurn(r, t) \in Boxes /\ AfterTurn(r, t).open = r.open
         /\ \A i \in DOMAIN AfterTurn(r, t).records : AfterTurn(r, t).records[i].of = "order"
         /\ RefundsIn(AfterTurn(r, t)) = RefundsIn(r) \cup (IF t.refunded THEN {Len(r.trail) + 1} ELSE {})
         /\ t.refunded => /\ AfterTurn(r, t).records = AllBecome(r, "order", "refunded").records
                          /\ \A i \in DOMAIN AfterTurn(r, t).records : AfterTurn(r, t).records[i].is = "refunded"
         /\ ~t.refunded => AfterTurn(r, t).records = r.records
<1> DEFINE a == AllBecome(r, "order", "refunded")
           b == Noted(a, Refunded)
           p == IF t.refunded THEN b ELSE r
           q == AfterTurn(r, t)
<1>1. Refunded \in Steps /\ Ticketed \in Steps /\ Ticketed # Refunded
  BY DEF Refunded, Ticketed, Moved, Created, Steps, Words, Statuses
<1>2. "order" \in Words /\ "refunded" \in Words
  BY DEF Words
<1>3. /\ a \in Boxes /\ a.trail = r.trail /\ a.open = r.open /\ Len(a.records) = Len(r.records)
      /\ \A i \in 1 .. Len(r.records) : a.records[i].of = r.records[i].of
                                        /\ (r.records[i].of = "order" => a.records[i].is = "refunded")
  BY <1>2, OnAll
<1>4. \A i \in DOMAIN a.records : a.records[i].of = "order" /\ a.records[i].is = "refunded"
  <2> HIDE DEF a
  <2>1. DOMAIN a.records = 1 .. Len(a.records) /\ DOMAIN r.records = 1 .. Len(r.records)
    BY <1>3 DEF Boxes
  <2>2. QED
    BY <1>3, <2>1
<1>5. /\ b \in Boxes /\ b.records = a.records /\ b.open = r.open
      /\ RefundsIn(b) = RefundsIn(r) \cup {Len(r.trail) + 1}
  <2> HIDE DEF a
  <2>1. b \in Boxes /\ b.records = a.records /\ b.open = r.open
    BY <1>1, <1>3, OnNoted
  <2>2. RefundsIn(b) = RefundsIn(a) \cup {Len(a.trail) + 1}
    BY <1>1, <1>3, NotedRefund
  <2>3. RefundsIn(a) = RefundsIn(r)
    BY <1>3 DEF RefundsIn
  <2>4. QED
    BY <1>3, <2>1, <2>2, <2>3
<1>6. q = IF t.ticketed THEN Noted(p, Ticketed) ELSE p
  BY DEF AfterTurn
<1> HIDE DEF a, b, q
<1>7. /\ p \in Boxes /\ p.open = r.open
      /\ \A i \in DOMAIN p.records : p.records[i].of = "order"
      /\ RefundsIn(p) = RefundsIn(r) \cup (IF t.refunded THEN {Len(r.trail) + 1} ELSE {})
      /\ t.refunded => p.records = a.records /\ \A i \in DOMAIN p.records : p.records[i].is = "refunded"
      /\ ~t.refunded => p.records = r.records
  BY <1>4, <1>5
<1> HIDE DEF p
<1>8. q \in Boxes /\ q.records = p.records /\ q.open = p.open /\ RefundsIn(q) = RefundsIn(p)
  <2>1. CASE t.ticketed
    <3>1. q = Noted(p, Ticketed)
      BY <1>6, <2>1
    <3>2. RefundsIn(q) = RefundsIn(p)
      BY <1>1, <1>7, <3>1, NotedRefund
    <3>3. QED
      BY <1>1, <1>7, <3>1, <3>2, OnNoted
  <2>2. CASE ~t.ticketed
    BY <1>6, <1>7, <2>2
  <2>3. QED
    BY <2>1, <2>2
<1>9. QED
  BY <1>7, <1>8 DEF a, q

(* A step that leaves the repository, and takes no approval back.              *)
LEMMA SandboxSame ==
  ASSUME SandboxInv, repo' = repo, case' = case, approved \subseteq approved', Talking' => Talking
  PROVE  SandboxInv'
BY DEF SandboxInv, OfSupport, RefundsMade

(* A sandbox that is gone holds nothing.                                       *)
LEMMA SandboxGone ==
  ASSUME repo' = Destroyed, ~Talking'
  PROVE  SandboxInv'
<1>1. repo'.records = <<>> /\ repo'.trail = <<>> /\ repo'.open = FALSE /\ repo' \in Boxes
  BY DEF Destroyed, Boxes
<1>2. RefundsMade' = {}
  BY <1>1 DEF RefundsMade
<1>3. QED
  BY <1>1, <1>2 DEF SandboxInv

(* A sandbox that was opened holds its case's order.                           *)
LEMMA SandboxOpened ==
  ASSUME TalkTypes, OfSupport, case' = case, repo' = Sandbox(case)
  PROVE  SandboxInv'
<1>1. /\ repo' \in Boxes /\ repo'.open = TRUE /\ repo'.trail = <<>>
      /\ \A i \in DOMAIN repo'.records : repo'.records[i].of = "order"
  BY SandboxFresh DEF TalkTypes, OfSupport
<1>2. RefundsMade' = {}
  BY <1>1 DEF RefundsMade
<1>3. QED
  BY <1>1, <1>2 DEF SandboxInv

(* A turn of the support agent refunds at most once, and with consent.         *)
LEMMA SandboxAnswers ==
  ASSUME TalkTypes, SandboxInv, SupportAnswers
  PROVE  SandboxInv'
<1>1. /\ phase = "agent" /\ OfSupport /\ case' = case /\ approved \subseteq approved'
      /\ trusted => approved' # {}
  BY DEF SupportAnswers, InTheMiddle
<1>2. PICK t \in Results(SandboxView(case, repo, trusted)) : repo' = AfterTurn(repo, t)
  BY DEF SupportAnswers
<1>3. /\ t.refunded \in BOOLEAN /\ t.ticketed \in BOOLEAN
      /\ t.refunded => trusted /\ \E i \in DOMAIN repo.records : repo.records[i].is = "delivered"
  <2>1. t \in [reply : Replies, refunded : BOOLEAN, ticketed : BOOLEAN] /\ Earned(t, SandboxView(case, repo, trusted))
    BY <1>2 DEF Results
  <2>2. t.refunded => /\ SandboxView(case, repo, trusted).confirmed
                      /\ "delivered" \in SandboxView(case, repo, trusted).own
    BY <2>1 DEF Earned
  <2>3. QED
    BY <2>1, <2>2 DEF SandboxView
<1>4. /\ repo \in Boxes /\ repo.open /\ \A i \in DOMAIN repo.records : repo.records[i].of = "order"
  BY <1>1 DEF SandboxInv, Talking
<1>5. RefundsMade = RefundsIn(repo) /\ RefundsMade' = RefundsIn(repo')
  BY DEF RefundsMade, RefundsIn
<1>6. /\ repo' \in Boxes /\ repo'.open = repo.open
      /\ \A i \in DOMAIN repo'.records : repo'.records[i].of = "order"
      /\ RefundsMade' = RefundsMade \cup (IF t.refunded THEN {Len(repo.trail) + 1} ELSE {})
      /\ t.refunded => /\ repo'.records = AllBecome(repo, "order", "refunded").records
                       /\ \A i \in DOMAIN repo'.records : repo'.records[i].is = "refunded"
      /\ ~t.refunded => repo'.records = repo.records
  <2> DEFINE q == AfterTurn(repo, t)
  <2>1. t.refunded \in BOOLEAN /\ t.ticketed \in BOOLEAN
    BY <1>3
  <2>2. repo \in Boxes /\ \A i \in DOMAIN repo.records : repo.records[i].of = "order"
    BY <1>4
  <2>3. /\ q \in Boxes /\ q.open = repo.open
        /\ \A i \in DOMAIN q.records : q.records[i].of = "order"
        /\ RefundsIn(q) = RefundsIn(repo) \cup (IF t.refunded THEN {Len(repo.trail) + 1} ELSE {})
        /\ t.refunded => /\ q.records = AllBecome(repo, "order", "refunded").records
                         /\ \A i \in DOMAIN q.records : q.records[i].is = "refunded"
        /\ ~t.refunded => q.records = repo.records
    BY <2>1, <2>2, TurnOnSandbox
  <2> HIDE DEF q
  <2>4. QED
    BY <1>2, <1>5, <2>3 DEF q
<1>7. CASE t.refunded
  <2>1. RefundsMade = {}
    BY <1>1, <1>3, <1>7 DEF SandboxInv
  <2>2. repo.records = Sandbox(case).records
    BY <1>1, <1>4, <2>1 DEF SandboxInv
  <2>3. repo'.records = AllBecome(Sandbox(case), "order", "refunded").records
    <3>1. Sandbox(case) \in Boxes
      BY <1>1, SandboxFresh DEF TalkTypes, OfSupport
    <3>2. QED
      BY <1>4, <1>6, <1>7, <2>2, <3>1, AllRecords
  <2>4. RefundsMade' = {Len(repo.trail) + 1}
    BY <1>6, <1>7, <2>1
  <2>5. approved' # {}
    BY <1>1, <1>3, <1>7
  <2>6. QED
    BY <1>1, <1>4, <1>6, <1>7, <2>3, <2>4, <2>5 DEF SandboxInv
<1>8. CASE ~t.refunded
  <2>1. RefundsMade' = RefundsMade /\ repo'.records = repo.records
    BY <1>6, <1>8
  <2>2. QED
    BY <1>1, <1>4, <1>6, <2>1 DEF SandboxInv, OfSupport
<1>9. QED
  BY <1>3, <1>7, <1>8

(* The order of the sandbox is refunded once at most, whatever step is taken.  *)
LEMMA SandboxKept ==
  ASSUME RunTypes, TalkTypes, AskedInv, SandboxInv, [Next]_vars
  PROVE  SandboxInv'
<1> USE DEF InTheMiddle, Unended, Quiet
<1>0. SUFFICES ASSUME OfSupport'
               PROVE  SandboxInv'
  BY DEF SandboxInv
<1>1. CASE ~PersonaMoves
  <2>1. case' = case /\ phase' = phase /\ approved' = approved /\ (command = "simulate" => repo' = repo)
    BY <1>1, PersonaUnmoved
  <2>2. command = "simulate"
    BY <1>0, <2>1 DEF TalkTypes, OfSupport
  <2>3. QED
    BY <2>1, <2>2, SandboxSame DEF Talking
<1>2. CASE Start
  <2>1. case' = case /\ repo' = Opened
    BY <1>2 DEF Start
  <2>2. QED
    BY <1>0, <2>1, SandboxOpened DEF Opened, OfSupport
<1>3. CASE SandboxUnready
  <2>1. case' = case /\ repo' \in {Destroyed, Opened} /\ phase' = "cleanup"
    BY <1>3 DEF SandboxUnready
  <2>2. CASE repo' = Destroyed
    BY <2>1, <2>2, SandboxGone DEF Talking
  <2>3. CASE repo' = Opened
    BY <1>0, <2>1, <2>3, SandboxOpened DEF Opened, OfSupport
  <2>4. QED
    BY <2>1, <2>2, <2>3
<1>4. CASE PersonaTurn
  BY <1>4, SandboxSame DEF PersonaTurn, Talking
<1>5. CASE AgentBegins \/ AgentEnds \/ AgentIsRefused \/ AgentAsks \/ AgentUses \/ AgentGivesUp
  <2>1. case' = case /\ (phase = "choose" \/ ~OfSupport)
    BY <1>5 DEF AgentBegins, AgentEnds, AgentIsRefused, AgentAsks, AgentUses, AgentGivesUp, Choosing
  <2>2. ~OfSupport
    BY <2>1 DEF AskedInv
  <2>3. QED
    BY <1>0, <2>1, <2>2 DEF OfSupport
<1>6. CASE SupportAnswers
  BY <1>6, SandboxAnswers
<1>7. CASE Judge \/ PartialReport \/ Exit
  <2>1. repo' = repo /\ case' = case /\ approved' = approved /\ (phase' = "persona" => phase = "answered")
        /\ phase' \in {"persona", "cleanup", "closed"}
    BY <1>7 DEF Judge, NextTurn, PartialReport, Exit
  <2>2. QED
    BY <2>1, SandboxSame DEF Talking
<1>8. CASE Cleanup
  <2>1. case' = case /\ approved' = approved /\ phase' = "exit" /\ (repo' = Destroyed \/ repo' = repo)
    BY <1>8 DEF Cleanup, CleanupSucceeds, CleanupFails, Destroy
  <2>2. QED
    BY <2>1, SandboxSame, SandboxGone DEF Talking
<1>9. CASE ModelFails \/ Interrupted \/ EventFails
  BY <1>9, SandboxSame DEF ModelFails, Interrupted, EventFails, Fails, Talking
<1>10. QED
  BY <1>1, <1>2, <1>3, <1>4, <1>5, <1>6, <1>7, <1>8, <1>9
     DEF PersonaMoves, SimulateStep, SimulateFault, PersonaStep, PersonaFault

(* What a success rests on.                                                    *)
GoalReached(left) ==
    /\ Observed(workflow, left).outcome = Contract(workflow).outcome
    /\ Contract(workflow).required \subseteq ToSet(left.trail)
    /\ ToSet(left.trail) \subseteq Contract(workflow).permitted
    /\ Contract(workflow).gated => confirmed

(* What success() verifies of a workflow is the goal.                          *)
LEMMA VerifiedReached ==
  ASSUME WorkflowVerified
  PROVE  GoalReached(repo)
<1>1. Contract(workflow).required \subseteq ToSet(repo.trail)
  BY DEF WorkflowVerified, RequiredDone, ToSet
<1>2. ToSet(repo.trail) \subseteq Contract(workflow).permitted
  BY DEF WorkflowVerified, ToSet
<1>3. QED
  BY <1>1, <1>2 DEF WorkflowVerified, GoalReached

(* A step that runs nothing and judges nothing.                                *)
LEMMA GoalSame ==
  ASSUME RunTypes, GoalInv, command' = command, workflow' = workflow, case' = case, executed' = executed,
         command = "simulate" => repo' = repo,
         report' = report \/ report' # "state_verified_success",
         phase \in {"cleanup", "exit", "closed"} =>
            confirmed' = confirmed /\ expected' = expected /\ phase' \in {"cleanup", "exit", "closed"},
         InHand' => InHand, phase' = "idle" => phase = "idle",
         phase' \in {"exit", "closed"} => InHand \/ phase \in {"exit", "closed"}
  PROVE  GoalInv'
<1>1. report' = "state_verified_success" => phase \in {"cleanup", "exit", "closed"} /\ command = "simulate"
  BY DEF GoalInv, RunTypes
<1>2. QED
  BY <1>1 DEF GoalInv, OfSupport, AllAllowed

(* A call that runs takes the repository one step further.                     *)
LEMMA GoalRuns ==
  ASSUME RunTypes, TalkTypes, GoalInv, NEW c \in PlannedCall, Runs(c), phase \in {"agent", "choose"},
         command' = command, workflow' = workflow, case' = case, report' = report
  PROVE  GoalInv'
<1>1. command = "simulate" /\ report' # "state_verified_success"
  BY DEF RunTypes, GoalInv
<1>2. phase' \in {"failed", "choose"}
  BY RunsDoes
<1>3. ~OfSupport => repo' = Replay(workflow, executed')
  <2>1. ~OfSupport => repo = Replay(workflow, executed)
    BY <1>1 DEF GoalInv, InHand, Talking
  <2>2. CASE repo' = repo /\ executed' = executed
    BY <2>1, <2>2
  <2>3. CASE repo' = RunTool(workflow, c[1], c[2], repo).repo /\ executed' = Append(executed, c)
    <3>1. Replay(workflow, Append(executed, c)) = RunTool(workflow, c[1], c[2], Replay(workflow, executed)).repo
      BY ReplayOneMore DEF TalkTypes
    <3>2. QED
      BY <2>1, <2>3, <3>1
  <2>4. QED
    BY <2>2, <2>3, RunsDoes
<1>4. QED
  BY <1>1, <1>2, <1>3 DEF GoalInv, OfSupport

(* The repository stays what the calls made of the seed, whatever step is taken.*)
LEMMA GoalKept ==
  ASSUME RunTypes, TalkTypes, AskedInv, SandboxInv, StoryInv, GoalInv, [Next]_vars
  PROVE  GoalInv'
<1> USE DEF InTheMiddle, Unended, Quiet
<1>1. CASE ~PersonaMoves
  <2>1. /\ case' = case /\ phase' = phase /\ confirmed' = confirmed /\ executed' = executed
        /\ expected' = expected /\ report' = report /\ command' = command /\ workflow' = workflow
        /\ command = "simulate" => repo' = repo
    BY <1>1, PersonaUnmoved
  <2>2. (InHand' <=> InHand) /\ phase' = phase
    BY <2>1 DEF InHand, Talking
  <2>3. phase \in {"exit", "closed"} => InHand \/ phase \in {"exit", "closed"}
    OBVIOUS
  <2>4. QED
    BY <2>1, <2>2, <2>3, GoalSame
<1>2. CASE Start
  <2>1. /\ case' = case /\ repo' = Opened /\ executed' = executed /\ command' = command /\ workflow' = workflow
        /\ report' = report /\ phase = "idle" /\ command = "simulate" /\ phase' \in {"persona", "cleanup"}
    BY <1>2 DEF Start
  <2>2. ~OfSupport => executed = <<>> /\ repo' = Seeded
    BY <2>1 DEF GoalInv, Opened
  <2>3. ~OfSupport => repo' = Replay(workflow, executed)
    BY <2>2, ReplayNone DEF Seeded
  <2>4. report # "state_verified_success"
    BY <2>1 DEF GoalInv
  <2>5. QED
    BY <2>1, <2>3, <2>4 DEF GoalInv, OfSupport
<1>3. CASE SandboxUnready
  <2>1. /\ case' = case /\ OfSupport /\ report' = report /\ phase = "idle"
    BY <1>3 DEF SandboxUnready
  <2>2. QED
    BY <2>1 DEF GoalInv, OfSupport
<1>4. CASE PersonaTurn \/ AgentEnds \/ AgentIsRefused \/ AgentAsks \/ AgentGivesUp
  <2>1. /\ case' = case /\ executed' = executed /\ report' = report /\ command' = command /\ workflow' = workflow
        /\ repo' = repo /\ Talking /\ phase' \notin {"idle", "exit", "closed"}
    BY <1>4 DEF PersonaTurn, AgentEnds, AgentIsRefused, AgentAsks, AgentGivesUp, Choosing, Talking
  <2>2. phase \notin {"cleanup", "exit", "closed"} /\ InHand
    BY <2>1 DEF Talking, InHand
  <2>3. QED
    BY <2>1, <2>2, GoalSame
<1>5. CASE AgentBegins
  <2>1. /\ case' = case /\ report' = report /\ command' = command /\ workflow' = workflow /\ phase = "agent"
    BY <1>5 DEF AgentBegins
  <2>2. CASE trusted /\ pending # NoAction
    <3>1. Runs(pending) /\ pending \in PlannedCall
      BY <1>5, <2>2 DEF AgentBegins, TalkTypes
    <3>2. QED
      BY <2>1, <3>1, GoalRuns
  <2>3. CASE ~(trusted /\ pending # NoAction)
    <3>1. repo' = repo /\ executed' = executed /\ phase' = "choose"
      BY <1>5, <2>3 DEF AgentBegins
    <3>2. InHand
      BY <2>1 DEF InHand, Talking
    <3>3. QED
      BY <2>1, <3>1, <3>2, GoalSame
  <2>4. QED
    BY <2>2, <2>3
<1>6. CASE AgentUses
  <2>1. /\ case' = case /\ report' = report /\ command' = command /\ workflow' = workflow /\ phase = "choose"
    BY <1>6 DEF AgentUses, Choosing
  <2>2. PICK t \in Tools(workflow) \ ExecutedTools : \E a \in ArgsOf(t) : Runs(<<t, a>>)
    BY <1>6 DEF AgentUses
  <2>3. PICK a \in ArgsOf(t) : Runs(<<t, a>>)
    BY <2>2
  <2>4. <<t, a>> \in PlannedCall
    BY CallOfTool DEF RunTypes
  <2>5. QED
    BY <2>1, <2>3, <2>4, GoalRuns
<1>7. CASE SupportAnswers
  <2>1. /\ case' = case /\ OfSupport /\ report' = report /\ phase = "agent"
    BY <1>7 DEF SupportAnswers
  <2>2. QED
    BY <2>1 DEF GoalInv, OfSupport
<1>8. CASE Judge
  <2>1. /\ case' = case /\ executed' = executed /\ command' = command /\ workflow' = workflow
        /\ repo' = repo /\ phase = "answered" /\ confirmed' = confirmed /\ expected' = expected
        /\ phase' \in {"persona", "cleanup"}
        /\ phase' = "persona" => report' = report
        /\ report' \in {report, EndReason}
    BY <1>8 DEF Judge, NextTurn, Reports, Lost
  <2>2. report # "state_verified_success" /\ InHand /\ command = "simulate"
    BY <2>1 DEF GoalInv, InHand, Talking, RunTypes
  <2>3. CASE report' # "state_verified_success"
    BY <2>1, <2>2, <2>3, GoalSame
  <2>4. CASE report' = "state_verified_success"
    <3>1. Verified /\ phase' = "cleanup"
      BY <2>1, <2>2, <2>4 DEF EndReason
    <3>2. CASE OfSupport
      BY <2>1, <3>1, <3>2 DEF GoalInv, Verified, OfSupport, AllAllowed
    <3>3. CASE ~OfSupport
      <4>1. repo = Replay(workflow, executed)
        BY <2>2, <3>3 DEF GoalInv
      <4>2. GoalReached(Replay(workflow, executed))
        BY <3>1, <3>3, <4>1, VerifiedReached DEF Verified
      <4>3. QED
        BY <2>1, <3>1, <3>3, <4>1, <4>2 DEF GoalInv, GoalReached, OfSupport
    <3>4. QED
      BY <3>2, <3>3
  <2>5. QED
    BY <2>3, <2>4
<1>9. CASE ModelFails \/ Interrupted \/ EventFails
  <2>1. /\ case' = case /\ executed' = executed /\ report' = report /\ command' = command /\ workflow' = workflow
        /\ repo' = repo /\ Talking /\ phase' = "failed"
    BY <1>9 DEF ModelFails, Interrupted, EventFails, Fails, Awaiting, Talking
  <2>2. phase \notin {"cleanup", "exit", "closed"} /\ InHand
    BY <2>1 DEF Talking, InHand
  <2>3. QED
    BY <2>1, <2>2, GoalSame
<1>10. CASE PartialReport
  <2>1. /\ case' = case /\ executed' = executed /\ command' = command /\ workflow' = workflow
        /\ repo' = repo /\ phase = "failed" /\ phase' = "cleanup" /\ report' \in {raising, report}
    BY <1>10 DEF PartialReport, Reports
  <2>2. raising # "state_verified_success" /\ InHand
    BY <2>1 DEF StoryInv, InHand
  <2>3. QED
    BY <2>1, <2>2, GoalSame
<1>11. CASE Cleanup
  <2>1. /\ case' = case /\ executed' = executed /\ report' = report /\ command' = command /\ workflow' = workflow
        /\ (repo' = repo \/ repo' = Destroyed) /\ phase = "cleanup" /\ phase' = "exit"
        /\ confirmed' = confirmed /\ expected' = expected
    BY <1>11 DEF Cleanup, CleanupSucceeds, CleanupFails, Destroy
  <2>2. ~Destroyed.open
    BY DEF Destroyed
  <2>3. command = "simulate" /\ ~OfSupport => repo = Replay(workflow, executed)
    BY <2>1 DEF GoalInv, InHand
  <2>4. QED
    BY <2>1, <2>2, <2>3 DEF GoalInv, OfSupport, AllAllowed, InHand, Talking
<1>12. CASE Exit
  <2>1. /\ case' = case /\ executed' = executed /\ report' = report /\ command' = command /\ workflow' = workflow
        /\ repo' = repo /\ phase = "exit" /\ phase' = "closed" /\ confirmed' = confirmed /\ expected' = expected
    BY <1>12 DEF Exit
  <2>2. ~InHand'
    BY <2>1 DEF InHand, Talking
  <2>3. QED
    BY <2>1, <2>2, GoalSame
<1>13. QED
  BY <1>1, <1>2, <1>3, <1>4, <1>5, <1>6, <1>7, <1>8, <1>9, <1>10, <1>11, <1>12
     DEF PersonaMoves, SimulateStep, SimulateFault, PersonaStep, PersonaFault

(* What is inserted in a list stands where it was put, and moves the rest.     *)
PutAfter(t, s, i, e) ==
    /\ t \in Seq(Events) /\ Len(t) = Len(s) + 1 /\ t[i + 1] = e
    /\ \A k \in 1 .. i : t[k] = s[k]
    /\ \A k \in i + 1 .. Len(s) : t[k + 1] = s[k]

(* An event put in a list right after another is held where it was put.        *)
LEMMA Inserted ==
  ASSUME NEW s \in Seq(Events), NEW e \in Events, NEW i \in 1 .. Len(s)
  PROVE  PutAfter(InsertAt(s, i + 1, e), s, i, e)
<1> DEFINE before == SubSeq(s, 1, i)
           after == SubSeq(s, i + 1, Len(s))
<1>a. InsertAt(s, i + 1, e) = (before \o <<e>>) \o after
  <2>1. (i + 1) - 1 = i
    OBVIOUS
  <2>2. InsertAt(s, i + 1, e) = SubSeq(s, 1, (i + 1) - 1) \o <<e>> \o SubSeq(s, i + 1, Len(s))
    BY Zenon DEF InsertAt
  <2>3. QED
    BY <2>1, <2>2, Zenon
<1>1. Len(s) \in Nat /\ i \in Int /\ i + 1 \in Int
  BY LenProperties
<1>2. before \in Seq(Events) /\ Len(before) = i /\ \A k \in 1 .. i : before[k] = s[k]
  <2>1. \A k \in 1 .. i : s[k] \in Events
    BY <1>1, ElementOfSeq
  <2>2. /\ SubSeq(s, 1, i) \in Seq(Events)
        /\ Len(SubSeq(s, 1, i)) = IF 1 <= i THEN i - 1 + 1 ELSE 0
        /\ \A k \in 1 .. i - 1 + 1 : SubSeq(s, 1, i)[k] = s[1 + k - 1]
    BY <1>1, <2>1, SubSeqProperties
  <2>3. i - 1 + 1 = i /\ 1 <= i /\ \A k \in 1 .. i : 1 + k - 1 = k
    BY <1>1
  <2>4. QED
    BY <2>2, <2>3
<1>3. after \in Seq(Events) /\ Len(after) = Len(s) - i /\ \A k \in 1 .. Len(s) - i : after[k] = s[i + k]
  <2>1. \A k \in i + 1 .. Len(s) : s[k] \in Events
    BY <1>1, ElementOfSeq
  <2>2. /\ after \in Seq(Events)
        /\ Len(after) = IF i + 1 <= Len(s) THEN Len(s) - (i + 1) + 1 ELSE 0
        /\ \A k \in 1 .. Len(s) - (i + 1) + 1 : after[k] = s[(i + 1) + k - 1]
    BY <1>1, <2>1, SubSeqProperties
  <2>3. Len(s) - (i + 1) + 1 = Len(s) - i /\ \A k \in 1 .. Len(s) - i : (i + 1) + k - 1 = i + k
    BY <1>1
  <2>4. Len(after) = Len(s) - i
    <3> HIDE DEF after
    <3>1. QED
      BY <1>1, <2>2
  <2>5. QED
    BY <2>2, <2>3, <2>4
<1> HIDE DEF before, after
<1>4. <<e>> \in Seq(Events) /\ Len(<<e>>) = 1 /\ <<e>>[1] = e
  OBVIOUS
<1> DEFINE one == <<e>>
<1> HIDE DEF one
<1>5. one \in Seq(Events) /\ Len(one) = 1 /\ one[1] = e
  BY <1>4 DEF one
<1> DEFINE head == before \o one
<1>6. /\ head \in Seq(Events) /\ Len(head) = i + 1
      /\ \A k \in 1 .. i + 1 : head[k] = IF k <= i THEN before[k] ELSE one[k - i]
  <2>1. /\ head \in Seq(Events) /\ Len(head) = Len(before) + Len(one)
        /\ \A k \in 1 .. Len(before) + Len(one) :
             head[k] = IF k <= Len(before) THEN before[k] ELSE one[k - Len(before)]
    BY <1>2, <1>5, ConcatProperties, Zenon
  <2> HIDE DEF head
  <2>2. QED
    BY <1>1, <1>2, <1>5, <2>1
<1> HIDE DEF head
<1>7. head[i + 1] = e /\ \A k \in 1 .. i : head[k] = s[k]
  BY <1>1, <1>2, <1>5, <1>6
<1>8. /\ head \o after \in Seq(Events) /\ Len(head \o after) = Len(s) + 1
      /\ \A k \in 1 .. Len(s) + 1 : (head \o after)[k] = IF k <= i + 1 THEN head[k] ELSE after[k - (i + 1)]
  <2>1. Len(head) + Len(after) = Len(s) + 1
    BY <1>1, <1>3, <1>6
  <2>2. /\ head \o after \in Seq(Events) /\ Len(head \o after) = Len(head) + Len(after)
        /\ \A k \in 1 .. Len(head) + Len(after) :
             (head \o after)[k] = IF k <= Len(head) THEN head[k] ELSE after[k - Len(head)]
    BY <1>3, <1>6, ConcatProperties, Zenon
  <2>3. QED
    BY <1>6, <2>1, <2>2, Zenon
<1> DEFINE new == head \o after
<1>b. new \in Seq(Events) /\ Len(new) = Len(s) + 1
      /\ \A k \in 1 .. Len(s) + 1 : new[k] = IF k <= i + 1 THEN head[k] ELSE after[k - (i + 1)]
  BY <1>8
<1> HIDE DEF new
<1>9. new[i + 1] = e /\ \A k \in 1 .. i : new[k] = s[k]
  BY <1>1, <1>7, <1>b
<1>10. \A k \in i + 1 .. Len(s) : new[k + 1] = s[k]
  <2> TAKE k \in i + 1 .. Len(s)
  <2>1. k + 1 \in 1 .. Len(s) + 1 /\ ~(k + 1 <= i + 1) /\ (k + 1) - (i + 1) = k - i
        /\ k - i \in 1 .. Len(s) - i /\ i + (k - i) = k
    BY <1>1
  <2>2. new[k + 1] = after[k - i]
    BY <1>b, <2>1
  <2>3. after[k - i] = s[i + (k - i)]
    BY <1>3, <2>1, Zenon
  <2>4. QED
    BY <2>1, <2>2, <2>3
<1>11. InsertAt(s, i + 1, e) = new
  BY <1>a DEF new, head, one
<1>12. QED
  BY <1>b, <1>9, <1>10, <1>11, Zenon DEF PutAfter

(* What is logged after what was logged.                                       *)
LEMMA Appended ==
  ASSUME NEW s \in Seq(Events), NEW t \in Seq(Events)
  PROVE  /\ s \o t \in Seq(Events) /\ Len(s \o t) = Len(s) + Len(t)
         /\ \A i \in 1 .. Len(s) : (s \o t)[i] = s[i]
         /\ \A i \in 1 .. Len(t) : (s \o t)[Len(s) + i] = t[i]
<1>1. Len(s) \in Nat /\ Len(t) \in Nat
  BY LenProperties
<1>2. QED
  BY <1>1, ConcatProperties

(* The log after a step that adds to it.                                       *)
LEMMA AfterLog ==
  ASSUME log \in Seq(Events), NEW t \in Seq(Events), log' = log \o t
  PROVE  /\ log' \in Seq(Events) /\ Len(log') = Len(log) + Len(t)
         /\ \A i \in 1 .. Len(log) : log'[i] = log[i]
         /\ \A i \in 1 .. Len(t) : log'[Len(log) + i] = t[i]
BY Appended, Zenon

(* One event in the log, and perhaps the one notice after it.                  *)
LEMMA LoggedOne ==
  ASSUME log \in Seq(Events), NEW e \in Events, Logged(<<e>>)
  PROVE  /\ log' \in Seq(Events)
         /\ \A i \in 1 .. Len(log) : log'[i] = log[i]
         /\ log'[Len(log) + 1] = e
         /\ \/ Len(log') = Len(log) + 1 /\ notified' = notified
            \/ /\ Len(log') = Len(log) + 2 /\ log'[Len(log) + 2] = "notice"
               /\ ~notified /\ notified' = TRUE
<1> DEFINE s == <<e>>
<1>1. s \in Seq(Events) /\ Len(s) = 1 /\ s[1] = e /\ DOMAIN s = 1 .. 1
  OBVIOUS
<1>2. Len(log) \in Nat /\ "notice" \in Events
  BY LenProperties DEF Events
<1>3. \/ log' = log \o s /\ notified' = notified
      \/ ~notified /\ notified' = TRUE /\ \E i \in DOMAIN s : log' = log \o InsertAt(s, i + 1, "notice")
  BY Zenon DEF Logged
<1> HIDE DEF s
<1>a. CASE log' = log \o s /\ notified' = notified
  <2>1. /\ log' \in Seq(Events) /\ Len(log') = Len(log) + Len(s)
        /\ \A i \in 1 .. Len(log) : log'[i] = log[i]
        /\ \A i \in 1 .. Len(s) : log'[Len(log) + i] = s[i]
    BY <1>1, <1>a, AfterLog, Zenon
  <2>2. QED
    BY <1>1, <1>2, <1>a, <2>1
<1>b. CASE ~notified /\ notified' = TRUE /\ \E i \in DOMAIN s : log' = log \o InsertAt(s, i + 1, "notice")
  <2> DEFINE t == InsertAt(s, 1 + 1, "notice")
  <2>1. log' = log \o t
    BY <1>1, <1>b
  <2>2. 1 \in 1 .. Len(s)
    BY <1>1
  <2>3. /\ t \in Seq(Events) /\ Len(t) = Len(s) + 1 /\ t[1 + 1] = "notice"
        /\ \A k \in 1 .. 1 : t[k] = s[k]
    <3>1. s \in Seq(Events)
      BY <1>1
    <3>2. "notice" \in Events
      BY <1>2
    <3>3. PutAfter(t, s, 1, "notice")
      BY <2>2, <3>1, <3>2, Inserted, Zenon
    <3>4. QED
      BY <3>3, Zenon DEF PutAfter
  <2> HIDE DEF t
  <2>4. t \in Seq(Events) /\ Len(t) = 2 /\ t[1] = e /\ t[2] = "notice"
    BY <1>1, <2>3
  <2>5. /\ log' \in Seq(Events) /\ Len(log') = Len(log) + Len(t)
        /\ \A i \in 1 .. Len(log) : log'[i] = log[i]
        /\ \A i \in 1 .. Len(t) : log'[Len(log) + i] = t[i]
    BY <2>1, <2>4, AfterLog, Zenon
  <2>6. 1 \in 1 .. Len(t) /\ 2 \in 1 .. Len(t)
    BY <2>4
  <2>7. log'[Len(log) + 1] = e /\ log'[Len(log) + 2] = "notice"
    BY <2>4, <2>5, <2>6, Zenon
  <2>8. Len(log') = Len(log) + 2
    BY <2>4, <2>5
  <2>9. QED
    BY <1>b, <2>5, <2>7, <2>8
<1>4. QED
  BY <1>a, <1>b, <1>3

(* Two events in the log, and perhaps the one notice after either.             *)
LEMMA LoggedTwo ==
  ASSUME log \in Seq(Events), NEW a \in Events, NEW b \in Events, Logged(<<a, b>>)
  PROVE  /\ log' \in Seq(Events)
         /\ \A i \in 1 .. Len(log) : log'[i] = log[i]
         /\ log'[Len(log) + 1] = a
         /\ \/ Len(log') = Len(log) + 2 /\ notified' = notified /\ log'[Len(log) + 2] = b
            \/ /\ Len(log') = Len(log) + 3 /\ ~notified /\ notified' = TRUE
               /\ \/ log'[Len(log) + 2] = "notice" /\ log'[Len(log) + 3] = b
                  \/ log'[Len(log) + 2] = b /\ log'[Len(log) + 3] = "notice"
<1> DEFINE s == <<a, b>>
<1>1. s \in Seq(Events) /\ Len(s) = 2 /\ s[1] = a /\ s[2] = b /\ DOMAIN s = 1 .. 2
  OBVIOUS
<1>2. Len(log) \in Nat /\ "notice" \in Events
  BY LenProperties DEF Events
<1>3. \/ log' = log \o s /\ notified' = notified
      \/ ~notified /\ notified' = TRUE /\ \E i \in DOMAIN s : log' = log \o InsertAt(s, i + 1, "notice")
  BY Zenon DEF Logged
<1> HIDE DEF s
<1>a. CASE log' = log \o s /\ notified' = notified
  <2>1. /\ log' \in Seq(Events) /\ Len(log') = Len(log) + Len(s)
        /\ \A i \in 1 .. Len(log) : log'[i] = log[i]
        /\ \A i \in 1 .. Len(s) : log'[Len(log) + i] = s[i]
    BY <1>1, <1>a, AfterLog, Zenon
  <2>2. QED
    BY <1>1, <1>2, <1>a, <2>1
<1>b. CASE ~notified /\ notified' = TRUE /\ \E i \in DOMAIN s : log' = log \o InsertAt(s, i + 1, "notice")
  <2>1. PICK i \in 1 .. Len(s) : log' = log \o InsertAt(s, i + 1, "notice")
    BY <1>1, <1>b
  <2> DEFINE t == InsertAt(s, i + 1, "notice")
  <2>2. /\ t \in Seq(Events) /\ Len(t) = Len(s) + 1 /\ t[i + 1] = "notice"
        /\ \A k \in 1 .. i : t[k] = s[k]
        /\ \A k \in i + 1 .. Len(s) : t[k + 1] = s[k]
    <3>1. s \in Seq(Events)
      BY <1>1
    <3>2. "notice" \in Events
      BY <1>2
    <3>3. i \in 1 .. Len(s)
      OBVIOUS
    <3>4. PutAfter(t, s, i, "notice")
      BY <3>1, <3>2, <3>3, Inserted, Zenon
    <3>5. QED
      BY <3>4, Zenon DEF PutAfter
  <2> HIDE DEF t
  <2>3. Len(t) = 3 /\ t[1] = a /\ ((t[2] = "notice" /\ t[3] = b) \/ (t[2] = b /\ t[3] = "notice"))
    <3>1. CASE i = 1
      <4>1. t[2] = "notice" /\ t[1] = s[1] /\ t[3] = s[2]
        <5>1. 1 \in 1 .. i /\ 2 \in i + 1 .. Len(s) /\ 2 + 1 = 3 /\ i + 1 = 2
          BY <1>1, <3>1
        <5>2. t[1] = s[1] /\ t[2 + 1] = s[2]
          BY <2>2, <5>1, Zenon
        <5>3. QED
          BY <2>2, <5>1, <5>2
      <4>2. Len(t) = 3
        BY <1>1, <2>2
      <4>3. s[1] = a /\ s[2] = b
        BY <1>1
      <4>4. QED
        BY <4>1, <4>2, <4>3, Zenon
    <3>2. CASE i = 2
      BY <1>1, <2>2, <3>2
    <3>3. QED
      BY <1>1, <2>1, <3>1, <3>2
  <2>4. /\ log' \in Seq(Events) /\ Len(log') = Len(log) + Len(t)
        /\ \A k \in 1 .. Len(log) : log'[k] = log[k]
        /\ \A k \in 1 .. Len(t) : log'[Len(log) + k] = t[k]
    BY <2>1, <2>2, AfterLog, Zenon DEF t
  <2>5. log'[Len(log) + 1] = a
    BY <2>3, <2>4
  <2>6. log'[Len(log) + 2] = t[2] /\ log'[Len(log) + 3] = t[3]
    BY <2>3, <2>4
  <2>7. QED
    BY <1>b, <1>2, <2>3, <2>4, <2>5, <2>6
<1>4. QED
  BY <1>a, <1>b, <1>3

(* No event, and so no notice.                                                 *)
LEMMA LoggedNone ==
  ASSUME log \in Seq(Events), Logged(<<>>)
  PROVE  log' = log /\ notified' = notified
BY ConcatEmptySeq DEF Logged

(* A closing cut short by a write that fails.                                  *)
LEMMA ClosingCut ==
  ASSUME NEW n \in DOMAIN Closing, Logged(SubSeq(Closing, 1, n - 1))
  PROVE  Logged(<<>>) \/ (report # "none" /\ Logged(<<"cleanup">>))
<1>1. CASE report = "none"
  <2>1. Closing = <<"cleanup">>
    BY <1>1 DEF Closing
  <2>2. n = 1 /\ n - 1 = 0
    BY <2>1
  <2>3. SubSeq(Closing, 1, n - 1) = <<>>
    BY <2>2, SubSeqEmpty
  <2>4. QED
    BY <2>3, Zenon
<1>2. CASE report # "none"
  <2>1. Closing = <<"cleanup", "done">>
    BY <1>2 DEF Closing
  <2>2. n \in {1, 2}
    BY <2>1
  <2>3. CASE n = 1
    <3>1. n - 1 = 0
      BY <2>3
    <3>2. SubSeq(Closing, 1, n - 1) = <<>>
      BY <3>1, SubSeqEmpty
    <3>3. QED
      BY <3>2, Zenon
  <2>4. CASE n = 2
    <3>1. SubSeq(Closing, 1, n - 1) = <<"cleanup">>
      <4>1. n - 1 = 1
        BY <2>4
      <4>2. Closing \in Seq(Events) /\ Closing[1] = "cleanup" /\ <<"cleanup">> \in Seq(Events)
        BY <2>1 DEF Events
      <4>3. \A i \in 1 .. 1 : Closing[i] \in Events
        BY <4>2 DEF Events
      <4>4. /\ SubSeq(Closing, 1, 1) \in Seq(Events)
            /\ Len(SubSeq(Closing, 1, 1)) = IF 1 <= 1 THEN 1 - 1 + 1 ELSE 0
            /\ \A i \in 1 .. 1 - 1 + 1 : SubSeq(Closing, 1, 1)[i] = Closing[1 + i - 1]
        BY <4>3, SubSeqProperties
      <4> DEFINE t == SubSeq(Closing, 1, 1)
                 u == <<"cleanup">>
      <4> HIDE DEF t
      <4>5. t \in Seq(Events) /\ Len(t) = 1 /\ t[1] = "cleanup"
        BY <4>2, <4>4 DEF t
      <4>6. u \in Seq(Events) /\ Len(u) = 1 /\ u[1] = "cleanup"
        BY <4>2
      <4> HIDE DEF u
      <4>7. t = u
        BY <4>5, <4>6, SeqEqual
      <4>8. QED
        BY <4>1, <4>7 DEF t, u
    <3>2. QED
      BY <1>2, <3>1, Zenon
  <2>5. QED
    BY <2>2, <2>3, <2>4
<1>3. QED
  BY <1>1, <1>2

(* As long as the conversation is not over, nothing is logged; the step that   *)
(* ends it says why, or that the report was lost.                              *)
LEMMA StoryEmpty ==
  ASSUME StoryInv, phase = "idle" \/ Talking \/ phase = "failed",
         log' = log, notified' = notified, told' = told,
         Talking' \/ phase' \in {"failed", "cleanup"},
         Talking' => report' = "none" /\ raising' = "none",
         phase' = "failed" => report' = "none" /\ raising' \in {"error", "cancelled"},
         phase' = "cleanup" /\ report' \in {"error", "cancelled"} => lost',
         phase' = "cleanup" /\ raising' = "cancelled" =>
           report' = "cancelled" \/ (OfSupport' /\ report' = "none" /\ turn' = 1)
  PROVE  StoryInv'
<1>1. /\ log = <<>> /\ ~notified
      /\ phase # "closed"
  BY DEF StoryInv, Talking
<1>2. told = "nothing"
  BY <1>1 DEF StoryInv
<1>3. log' = <<>> /\ ~notified' /\ told' = "nothing"
  BY <1>1, <1>2
<1>4. phase' \notin {"idle", "exit", "closed"}
  BY DEF Talking
<1>5. DOMAIN log' = {}
  BY <1>3
<1>6. log' \in Seq(Events)
  BY <1>3
<1>7. \A e : Place(e)' = {} /\ ~Marks(e)'
  BY <1>5 DEF Place, Marks
<1>8. Unique("notice")' /\ Unique("done")'
  BY <1>7 DEF Unique
<1>9. (phase = "idle" \/ Talking)' => raising' = "none"
  BY <1>4
<1>10. phase' = "failed" => ~Talking'
  BY DEF Talking
<1>11. phase' = "cleanup" => \A i \in DOMAIN log' : log'[i] \in {"error", "notice"}
  BY <1>5
<1>12. report' \in {"error", "cancelled"} => lost'
  BY <1>10 DEF Talking
<1>13. (phase = "idle" \/ Talking \/ phase = "failed")' => log' = <<>> /\ ~notified' /\ report' = "none"
  BY <1>3, <1>4
<1>14. QED
  BY <1>3, <1>4, <1>5, <1>6, <1>7, <1>8, <1>9, <1>11, <1>12, <1>13, Zenon DEF StoryInv

(* What a clean-up adds to the log fits what was logged before it.             *)
LEMMA StoryClosed ==
  ASSUME StoryInv, TalkTypes, phase = "cleanup", phase' = "exit",
         report' = report, turn' = turn, case' = case, told' = told,
         log' \in Seq(Events), Len(log) <= Len(log'), \A i \in 1 .. Len(log) : log'[i] = log[i],
         NEW new, new = Len(log) + 1 .. Len(log'),
         \A i \in new : log'[i] # "error",
         \A i \in new : log'[i] = "notice" => ~notified /\ notified' = TRUE,
         notified' = notified \/ notified' = TRUE,
         \A i, j \in new : log'[i] = log'[j] /\ log'[i] \in {"notice", "done"} => i = j,
         \A i \in new : log'[i] \in {"cleanup", "done"} => repo' = Destroyed,
         \A d \in new : log'[d] = "done" =>
           /\ report # "none"
           /\ \E c \in new : c < d /\ log'[c] = "cleanup"
           /\ \A i \in new : i > d => log'[i] = "notice",
         lost => lost',
         ~lost' /\ report # "none" /\ repo' = Destroyed => \E d \in new : log'[d] = "done",
         raising' = "cancelled" => raising = "cancelled"
  PROVE  StoryInv'
<1>1. /\ log \in Seq(Events) /\ Len(log) \in Nat /\ Len(log') \in Nat
      /\ DOMAIN log = 1 .. Len(log) /\ DOMAIN log' = 1 .. Len(log')
  BY LenProperties DEF StoryInv
<1>2. /\ \A i \in DOMAIN log' : i \in DOMAIN log \/ i \in new
      /\ \A i \in new : i \in DOMAIN log' /\ i \notin DOMAIN log
      /\ \A i \in DOMAIN log, j \in new : i < j
      /\ \A i \in DOMAIN log : i \in DOMAIN log'
  BY <1>1
<1>3. \A i \in DOMAIN log : log'[i] = log[i] /\ log[i] \in {"error", "notice"}
  BY <1>1 DEF StoryInv
<1>4. told' = "nothing"
  BY DEF StoryInv
<1>5. Unique("notice")'
  <2> SUFFICES ASSUME NEW i \in DOMAIN log', NEW j \in DOMAIN log', log'[i] = "notice", log'[j] = "notice"
               PROVE  i = j
    BY DEF Unique, Place
  <2>1. CASE i \in DOMAIN log /\ j \in DOMAIN log
    BY <1>3, <2>1 DEF StoryInv, Unique, Place
  <2>2. CASE i \in new /\ j \in new
    BY <2>2
  <2>3. CASE i \in new /\ j \in DOMAIN log
    BY <1>3, <2>3 DEF StoryInv, Place
  <2>4. CASE j \in new /\ i \in DOMAIN log
    BY <1>3, <2>4 DEF StoryInv, Place
  <2>5. QED
    BY <1>2, <2>1, <2>2, <2>3, <2>4
<1>6. \A i \in DOMAIN log' : log'[i] \in {"cleanup", "done"} => i \in new
  BY <1>2, <1>3
<1>7. Unique("done")'
  BY <1>6 DEF Unique, Place
<1>8. ~notified' => Place("notice")' = {}
  <2> SUFFICES ASSUME ~notified', NEW i \in DOMAIN log', log'[i] = "notice"
               PROVE  FALSE
    BY DEF Place
  <2>1. ~notified /\ i \notin new
    OBVIOUS
  <2>2. i \in Place("notice")
    BY <1>2, <1>3, <2>1 DEF Place
  <2>3. QED
    BY <2>1, <2>2 DEF StoryInv
<1>9. Marks("error")' <=> Marks("error")
  BY <1>2, <1>3 DEF Marks
<1>10. Place("done")' # {} => report' # "none" /\ repo' = Destroyed
  BY <1>6 DEF Place
<1>11. Marks("cleanup")' => repo' = Destroyed
  BY <1>6 DEF Marks
<1>12. \A d \in Place("done")' : /\ \E c \in Place("cleanup")' : c < d
                                 /\ \A i \in DOMAIN log' : i > d => log'[i] = "notice"
  <2> TAKE d \in Place("done")'
  <2>1. d \in new /\ log'[d] = "done"
    BY <1>6 DEF Place
  <2>2. PICK c \in new : c < d /\ log'[c] = "cleanup"
    BY <2>1
  <2>3. c \in Place("cleanup")'
    BY <1>2, <2>2 DEF Place
  <2>4. ASSUME NEW i \in DOMAIN log', i > d
        PROVE  log'[i] = "notice"
    <3>1. i \in new
      BY <1>1, <1>2, <2>1, <2>4
    <3>2. QED
      BY <2>1, <2>4, <3>1
  <2>5. QED
    BY <2>2, <2>3, <2>4
<1>13. ~lost' /\ report' # "none" /\ repo' = Destroyed => Marks("done")'
  BY <1>2 DEF Marks
<1>14. raising' = "cancelled" => report' = "cancelled" \/ (OfSupport' /\ report' = "none" /\ turn' = 1)
  BY DEF StoryInv, OfSupport
<1>15. Marks("error")' => report' \in {"error", "cancelled"}
  BY <1>9 DEF StoryInv
<1>16. report' \in {"error", "cancelled"} => Marks("error")' \/ lost'
  BY <1>9 DEF StoryInv
<1>17. ~(phase = "idle" \/ Talking)' /\ phase' # "failed" /\ phase' # "cleanup"
  BY DEF Talking
<1>18. QED
  BY <1>4, <1>5, <1>7, <1>8, <1>10, <1>11, <1>12, <1>13, <1>14, <1>15, <1>16, <1>17 DEF StoryInv

(* Each way a clean-up ends in the log.                                        *)
LEMMA CleanupStory ==
  ASSUME RunTypes, TalkTypes, StoryInv, Cleanup
  PROVE  StoryInv'
<1>1. /\ phase = "cleanup" /\ phase' = "exit" /\ report' = report /\ turn' = turn /\ case' = case
      /\ told' = told
  BY DEF Cleanup
<1>2. log \in Seq(Events) /\ Len(log) \in Nat
  BY LenProperties DEF StoryInv
<1>3. {"cleanup", "cleanup_failed", "done", "notice", "error"} \subseteq Events
  BY DEF Events
<1>4. /\ lost => lost'
      /\ raising' = "cancelled" => raising = "cancelled"
  <2>1. UNCHANGED <<raising, lost>> \/ (raising' = "error" /\ lost' \in {lost, TRUE})
    BY DEF Cleanup, CleanupSucceeds, CleanupFails, Lost
  <2>2. lost => lost'
    <3>1. lost' = lost \/ lost' = TRUE
      BY <2>1
    <3>2. lost \in BOOLEAN
      BY DEF TalkTypes
    <3>3. QED
      BY <3>1, <3>2
  <2>3. raising' = "cancelled" => raising = "cancelled"
    BY <2>1
  <2>4. QED
    BY <2>2, <2>3
<1> DEFINE new == Len(log) + 1 .. Len(log')
<1>5. CASE Logged(<<"cleanup", "done">>) /\ repo' = Destroyed /\ report # "none"
  <2>1. /\ log' \in Seq(Events)
        /\ \A i \in 1 .. Len(log) : log'[i] = log[i]
        /\ log'[Len(log) + 1] = "cleanup"
        /\ \/ Len(log') = Len(log) + 2 /\ notified' = notified /\ log'[Len(log) + 2] = "done"
           \/ /\ Len(log') = Len(log) + 3 /\ ~notified /\ notified' = TRUE
              /\ \/ log'[Len(log) + 2] = "notice" /\ log'[Len(log) + 3] = "done"
                 \/ log'[Len(log) + 2] = "done" /\ log'[Len(log) + 3] = "notice"
    BY <1>2, <1>3, <1>5, LoggedTwo
  <2> DEFINE n == Len(log)
  <2>2. CASE Len(log') = n + 2
    <3>1. new = {n + 1, n + 2} /\ log'[n + 1] = "cleanup" /\ log'[n + 2] = "done" /\ notified' = notified
      BY <1>2, <2>1, <2>2
    <3>2. Len(log) <= Len(log') /\ n + 1 < n + 2 /\ n + 1 # n + 2 /\ ~(n + 1 > n + 2)
      BY <1>2, <2>2
    <3> HIDE DEF n
    <3>3. \A i \in new : log'[i] # "error" /\ log'[i] # "notice"
      BY <3>1
    <3>4. \A i, j \in new : log'[i] = log'[j] /\ log'[i] \in {"notice", "done"} => i = j
      BY <3>1
    <3>5. \A d \in new : log'[d] = "done" =>
            /\ report # "none"
            /\ \E c \in new : c < d /\ log'[c] = "cleanup"
            /\ \A i \in new : i > d => log'[i] = "notice"
      <4>1. \A d \in new : log'[d] = "done" => d = n + 2
        BY <3>1
      <4>2. \A i \in new : ~(i > n + 2)
        BY <1>2, <3>1, <3>2
      <4>3. n + 1 \in new
        BY <3>1
      <4>4. QED
        BY <1>5, <3>1, <3>2, <4>1, <4>2, <4>3
    <3>6. \E d \in new : log'[d] = "done"
      BY <3>1
    <3> HIDE DEF new
    <3>7. QED
      BY <1>1, <1>4, <1>5, <2>1, <3>1, <3>2, <3>3, <3>4, <3>5, <3>6, StoryClosed DEF new
  <2>3. CASE Len(log') = n + 3 /\ log'[n + 2] = "notice" /\ log'[n + 3] = "done"
    <3>1. /\ new = {n + 1, n + 2, n + 3} /\ log'[n + 1] = "cleanup"
          /\ ~notified /\ notified' = TRUE
      BY <1>2, <2>1, <2>3
    <3>2. /\ Len(log) <= Len(log') /\ n + 1 < n + 3 /\ n + 1 # n + 2 /\ n + 2 # n + 3 /\ n + 1 # n + 3
          /\ ~(n + 1 > n + 3) /\ ~(n + 2 > n + 3) /\ ~(n + 3 > n + 3)
      BY <1>2, <2>3
    <3> HIDE DEF n
    <3>3. \A i \in new : log'[i] # "error"
      BY <2>3, <3>1
    <3>4. \A i, j \in new : log'[i] = log'[j] /\ log'[i] \in {"notice", "done"} => i = j
      BY <2>3, <3>1
    <3>5. \A d \in new : log'[d] = "done" =>
            /\ report # "none"
            /\ \E c \in new : c < d /\ log'[c] = "cleanup"
            /\ \A i \in new : i > d => log'[i] = "notice"
      <4>1. \A d \in new : log'[d] = "done" => d = n + 3
        BY <2>3, <3>1
      <4>2. \A i \in new : ~(i > n + 3)
        BY <3>1, <3>2
      <4>3. n + 1 \in new
        BY <3>1
      <4>4. QED
        BY <1>5, <3>1, <3>2, <4>1, <4>2, <4>3
    <3>6. \E d \in new : log'[d] = "done"
      BY <2>3, <3>1
    <3> HIDE DEF new
    <3>7. QED
      BY <1>1, <1>4, <1>5, <2>1, <3>1, <3>2, <3>3, <3>4, <3>5, <3>6, StoryClosed DEF new
  <2>4. CASE Len(log') = n + 3 /\ log'[n + 2] = "done" /\ log'[n + 3] = "notice"
    <3>1. /\ new = {n + 1, n + 2, n + 3} /\ log'[n + 1] = "cleanup"
          /\ ~notified /\ notified' = TRUE
      BY <1>2, <2>1, <2>4
    <3>2. /\ Len(log) <= Len(log') /\ n + 1 < n + 2 /\ n + 1 # n + 2 /\ n + 2 # n + 3 /\ n + 1 # n + 3
          /\ ~(n + 1 > n + 2) /\ ~(n + 2 > n + 2)
      BY <1>2, <2>4
    <3> HIDE DEF n
    <3>3. \A i \in new : log'[i] # "error"
      BY <2>4, <3>1
    <3>4. \A i, j \in new : log'[i] = log'[j] /\ log'[i] \in {"notice", "done"} => i = j
      BY <2>4, <3>1
    <3>5. \A d \in new : log'[d] = "done" =>
            /\ report # "none"
            /\ \E c \in new : c < d /\ log'[c] = "cleanup"
            /\ \A i \in new : i > d => log'[i] = "notice"
      <4>1. \A d \in new : log'[d] = "done" => d = n + 2
        BY <2>4, <3>1
      <4>2. \A i \in new : i > n + 2 => log'[i] = "notice"
        BY <2>4, <3>1, <3>2
      <4>3. n + 1 \in new
        BY <3>1
      <4>4. QED
        BY <1>5, <3>1, <3>2, <4>1, <4>2, <4>3
    <3>6. \E d \in new : log'[d] = "done"
      BY <2>4, <3>1
    <3> HIDE DEF new
    <3>7. QED
      BY <1>1, <1>4, <1>5, <2>1, <3>1, <3>2, <3>3, <3>4, <3>5, <3>6, StoryClosed DEF new
  <2>5. QED
    BY <2>1, <2>2, <2>3, <2>4
<1>6. ASSUME NEW e \in {"cleanup", "cleanup_failed"}, Logged(<<e>>), e = "cleanup" => repo' = Destroyed,
             report = "none" \/ lost' \/ repo' # Destroyed
      PROVE  StoryInv'
  <2>1. /\ log' \in Seq(Events)
        /\ \A i \in 1 .. Len(log) : log'[i] = log[i]
        /\ log'[Len(log) + 1] = e
        /\ \/ Len(log') = Len(log) + 1 /\ notified' = notified
           \/ /\ Len(log') = Len(log) + 2 /\ log'[Len(log) + 2] = "notice"
              /\ ~notified /\ notified' = TRUE
    BY <1>2, <1>3, <1>6, LoggedOne
  <2> DEFINE n == Len(log)
  <2>2. CASE Len(log') = n + 1
    <3>1. new = {n + 1} /\ log'[n + 1] = e /\ notified' = notified /\ Len(log) <= Len(log')
      BY <1>2, <2>1, <2>2
    <3> HIDE DEF n
    <3>2. \A i \in new : /\ log'[i] \notin {"error", "notice", "done"}
                         /\ log'[i] = "cleanup" => repo' = Destroyed
      BY <1>6, <3>1
    <3> HIDE DEF new
    <3>3. QED
      BY <1>1, <1>4, <1>6, <2>1, <3>1, <3>2, StoryClosed DEF new
  <2>3. CASE Len(log') = n + 2
    <3>1. /\ new = {n + 1, n + 2} /\ log'[n + 1] = e /\ log'[n + 2] = "notice" /\ ~notified /\ notified' = TRUE
          /\ Len(log) <= Len(log') /\ n + 1 # n + 2
      BY <1>2, <2>1, <2>3
    <3> HIDE DEF n
    <3>2. \A i \in new : /\ log'[i] \notin {"error", "done"}
                         /\ log'[i] = "cleanup" => repo' = Destroyed
      BY <1>6, <3>1
    <3>3. \A i, j \in new : log'[i] = log'[j] /\ log'[i] \in {"notice", "done"} => i = j
      BY <1>6, <3>1
    <3> HIDE DEF new
    <3>4. QED
      BY <1>1, <1>4, <1>6, <2>1, <3>1, <3>2, <3>3, StoryClosed DEF new
  <2>4. QED
    BY <2>1, <2>2, <2>3
<1>7. ASSUME log' = log, notified' = notified, lost'
      PROVE  StoryInv'
  <2>1. new = {} /\ Len(log) <= Len(log')
    BY <1>2, <1>7
  <2> HIDE DEF new
  <2>2. QED
    BY <1>1, <1>2, <1>4, <1>7, <2>1, StoryClosed DEF new
<1>8. CASE CleanupSucceeds
  <2>1. repo' = Destroyed
    BY <1>8 DEF CleanupSucceeds, Destroy
  <2>2. CASE Logged(Closing)
    <3>1. CASE report = "none"
      <4>1. Logged(<<"cleanup">>)
        BY <2>2, <3>1 DEF Closing
      <4>2. QED
        BY <1>6, <2>1, <3>1, <4>1
    <3>2. CASE report # "none"
      <4>1. Logged(<<"cleanup", "done">>)
        BY <2>2, <3>2 DEF Closing
      <4>2. QED
        BY <1>5, <2>1, <3>2, <4>1
    <3>3. QED
      BY <3>1, <3>2
  <2>3. ASSUME NEW k \in DOMAIN Closing, Lost, Logged(SubSeq(Closing, 1, k - 1))
        PROVE  StoryInv'
    <3>1. lost'
      BY <2>3 DEF Lost
    <3>2. Logged(<<>>) \/ (report # "none" /\ Logged(<<"cleanup">>))
      BY <2>3, ClosingCut
    <3>3. CASE Logged(<<>>)
      BY <1>2, <1>7, <3>1, <3>3, LoggedNone
    <3>4. CASE Logged(<<"cleanup">>)
      BY <1>6, <2>1, <3>1, <3>4
    <3>5. QED
      BY <3>2, <3>3, <3>4
  <2>4. QED
    BY <1>8, <2>2, <2>3 DEF CleanupSucceeds
<1>9. CASE CleanupFails
  <2>1. repo' = repo /\ repo.open
    BY <1>9 DEF CleanupFails, Destroy
  <2>2. repo' # Destroyed
    BY <2>1 DEF Destroyed
  <2>3. CASE Logged(<<"cleanup_failed">>)
    BY <1>6, <2>2, <2>3
  <2>4. CASE lost' = TRUE /\ UNCHANGED <<log, notified>>
    BY <1>7, <2>4
  <2>5. QED
    BY <1>9, <2>3, <2>4 DEF CleanupFails
<1>10. QED
  BY <1>8, <1>9 DEF Cleanup

(* Report and log keep telling one story, whatever step is taken.              *)
LEMMA StoryKept ==
  ASSUME RunTypes, TalkTypes, AskedInv, StoryInv, [Next]_vars
  PROVE  StoryInv'
<1>1. CASE ~PersonaMoves
  <2>1. /\ phase' = phase /\ turn' = turn /\ case' = case /\ report' = report /\ log' = log
        /\ raising' = raising /\ notified' = notified /\ told' = told /\ lost' = lost
        /\ command = "simulate" => repo' = repo
    BY <1>1, PersonaUnmoved
  <2>2. command # "simulate" => phase = "idle"
    BY DEF RunTypes
  <2>3. phase = "idle" => phase \notin {"cleanup", "exit", "closed", "failed"}
    OBVIOUS
  <2>4. CASE phase = "idle"
    <3>1. phase' = "idle" /\ turn' = 1 /\ log' = <<>> /\ ~notified' /\ report' = "none" /\ raising' = "none"
          /\ told' = "nothing"
      BY <2>1, <2>4 DEF StoryInv
    <3>2. DOMAIN log' = {} /\ log' \in Seq(Events)
      BY <3>1
    <3>3. \A e : Place(e)' = {} /\ ~Marks(e)'
      BY <3>2 DEF Place, Marks
    <3>4. Unique("notice")' /\ Unique("done")'
      BY <3>3 DEF Unique
    <3>5. phase' \notin {"cleanup", "exit", "closed", "failed"}
      BY <3>1
    <3>6. QED
      BY <3>1, <3>2, <3>3, <3>4, <3>5, Zenon DEF StoryInv
  <2>5. CASE phase # "idle"
    <3>1. repo' = repo
      BY <2>1, <2>2, <2>5
    <3>2. /\ Place("done")' = Place("done") /\ Place("notice")' = Place("notice")
          /\ Place("cleanup")' = Place("cleanup")
          /\ Marks("error")' = Marks("error") /\ Marks("cleanup")' = Marks("cleanup")
          /\ Marks("done")' = Marks("done")
          /\ Unique("notice")' = Unique("notice") /\ Unique("done")' = Unique("done")
          /\ OfSupport' = OfSupport /\ Talking' = Talking
      BY <2>1 DEF Place, Marks, Unique, OfSupport, Talking
    <3>3. QED
      BY <2>1, <3>1, <3>2 DEF StoryInv
  <2>6. QED
    BY <2>4, <2>5
<1>2. CASE Start
  <2>1. /\ phase = "idle" /\ log' = log /\ notified' = notified /\ told' = told /\ report' = report
        /\ (phase' = "persona" /\ raising' = raising) \/ (phase' = "cleanup" /\ raising' = "error")
    BY <1>2 DEF Start, Unended, InTheMiddle, Lost
  <2>2. report = "none" /\ raising = "none"
    BY <2>1 DEF StoryInv
  <2>3. QED
    BY <2>1, <2>2, StoryEmpty DEF Talking
<1>3. CASE SandboxUnready
  <2>1. /\ phase = "idle" /\ log' = log /\ notified' = notified /\ told' = told /\ report' = report
        /\ phase' = "cleanup" /\ turn' = turn /\ OfSupport /\ case' = case
    BY <1>3 DEF SandboxUnready, Unended, InTheMiddle, Quiet
  <2>2. report = "none" /\ turn = 1
    BY <2>1 DEF StoryInv
  <2>3. QED
    BY <2>1, <2>2, StoryEmpty DEF Talking, OfSupport
<1>4. CASE PersonaTurn \/ AgentEnds \/ AgentIsRefused \/ AgentAsks \/ AgentGivesUp \/ SupportAnswers
  <2>1. /\ Talking /\ Talking' /\ log' = log /\ notified' = notified /\ told' = told /\ report' = report
        /\ raising' = raising
    BY <1>4 DEF PersonaTurn, AgentEnds, AgentIsRefused, AgentAsks, AgentGivesUp, SupportAnswers, Choosing,
                Unended, InTheMiddle, Quiet, Talking
  <2>2. report = "none" /\ raising = "none"
    BY <2>1 DEF StoryInv
  <2>3. Talking' => phase' \notin {"failed", "cleanup"}
    BY DEF Talking
  <2>4. QED
    BY <2>1, <2>2, <2>3, StoryEmpty
<1>5. CASE AgentBegins \/ AgentUses
  <2>1. /\ Talking /\ log' = log /\ notified' = notified /\ told' = told /\ report' = report
    BY <1>5 DEF AgentBegins, AgentUses, Choosing, Unended, InTheMiddle, Quiet, Talking
  <2>2. (phase' = "choose" /\ raising' = raising) \/ (phase' = "failed" /\ raising' = "error")
    <3>1. ASSUME NEW c, Runs(c)
          PROVE  (phase' = "choose" /\ raising' = raising) \/ (phase' = "failed" /\ raising' = "error")
      BY <3>1, RunsDoes
    <3>2. CASE AgentUses
      <4>1. PICK t \in Tools(workflow) \ ExecutedTools : \E a \in ArgsOf(t) : Runs(<<t, a>>)
        BY <3>2 DEF AgentUses
      <4>2. QED
        BY <3>1, <4>1
    <3>3. CASE AgentBegins
      <4>1. Runs(pending) \/ (phase' = "choose" /\ raising' = raising)
        BY <3>3 DEF AgentBegins
      <4>2. QED
        BY <3>1, <4>1
    <3>4. QED
      BY <1>5, <3>2, <3>3
  <2>3. report = "none" /\ raising = "none"
    BY <2>1 DEF StoryInv
  <2>4. QED
    BY <2>1, <2>2, <2>3, StoryEmpty DEF Talking
<1>6. CASE Judge
  <2>1. /\ phase = "answered" /\ log' = log /\ notified' = notified /\ told' = told
        /\ \/ phase' = "persona" /\ report' = report /\ raising' = raising
           \/ /\ phase' = "cleanup"
              /\ (report' = EndReason /\ raising' = raising) \/ (report' = report /\ raising' = "error")
    BY <1>6 DEF Judge, NextTurn, Reports, Lost
  <2>2. report = "none" /\ raising = "none" /\ Talking
    BY <2>1 DEF StoryInv, Talking
  <2>3. EndReason \notin {"error", "cancelled"}
    BY DEF EndReason
  <2>4. QED
    BY <2>1, <2>2, <2>3, StoryEmpty DEF Talking
<1>7. CASE ModelFails \/ Interrupted \/ EventFails
  <2>1. /\ Talking /\ log' = log /\ notified' = notified /\ told' = told /\ report' = report
        /\ phase' = "failed" /\ raising' \in {"error", "cancelled"}
    BY <1>7 DEF ModelFails, Interrupted, EventFails, Awaiting, Fails, Unended, InTheMiddle, Talking
  <2>2. report = "none"
    BY <2>1 DEF StoryInv
  <2>3. QED
    BY <2>1, <2>2, StoryEmpty DEF Talking
<1>8. CASE PartialReport
  <2>1. /\ phase = "failed" /\ phase' = "cleanup" /\ told' = told /\ case' = case /\ turn' = turn
    BY <1>8 DEF PartialReport
  <2>2. /\ log = <<>> /\ ~notified /\ report = "none" /\ raising \in {"error", "cancelled"} /\ told = "nothing"
    BY <2>1 DEF StoryInv
  <2>3. CASE report' \in {raising, report} /\ Lost /\ UNCHANGED <<log, notified>>
    BY <2>1, <2>2, <2>3, StoryEmpty DEF Lost, Talking
  <2>4. CASE report' = raising /\ raising' = raising /\ lost' = lost /\ Logged(<<"error">>)
    <3>1. log \in Seq(Events) /\ "error" \in Events /\ Len(log) = 0
      BY <2>2 DEF StoryInv, Events
    <3>2. /\ log' \in Seq(Events) /\ log'[1] = "error"
          /\ \/ Len(log') = 1 /\ notified' = notified
             \/ Len(log') = 2 /\ log'[2] = "notice" /\ ~notified /\ notified' = TRUE
      <4>1. /\ log' \in Seq(Events) /\ log'[Len(log) + 1] = "error"
            /\ \/ Len(log') = Len(log) + 1 /\ notified' = notified
               \/ /\ Len(log') = Len(log) + 2 /\ log'[Len(log) + 2] = "notice"
                  /\ ~notified /\ notified' = TRUE
        BY <2>4, <3>1, LoggedOne
      <4>2. QED
        BY <3>1, <4>1
    <3>3. DOMAIN log' = 1 .. Len(log')
      BY <3>2, LenProperties
    <3>4. \A i \in DOMAIN log' : \/ i = 1 /\ log'[i] = "error"
                                 \/ i = 2 /\ log'[i] = "notice" /\ notified'
      BY <3>2, <3>3
    <3>5. Marks("error")'
      BY <3>2, <3>3 DEF Marks
    <3>6. Unique("notice")' /\ Unique("done")' /\ Place("done")' = {} /\ ~Marks("cleanup")'
      BY <3>4 DEF Unique, Place, Marks
    <3>7. ~notified' => Place("notice")' = {}
      BY <3>4 DEF Place
    <3>8. \A i \in DOMAIN log' : log'[i] \in {"error", "notice"}
      BY <3>4
    <3>9. phase' \notin {"idle", "failed", "exit", "closed"} /\ ~Talking' /\ told' = "nothing"
          /\ report' \in {"error", "cancelled"}
      BY <2>1, <2>2, <2>4 DEF Talking
    <3>10. raising' = "cancelled" => report' = "cancelled"
      BY <2>4
    <3>11. (phase = "idle" \/ Talking)' <=> FALSE
      BY <3>9
    <3>12. \A d \in Place("done")' : FALSE
      BY <3>6
    <3>13. QED
      BY <3>2, <3>5, <3>6, <3>7, <3>8, <3>9, <3>10, <3>11, <3>12, Zenon DEF StoryInv
  <2>5. QED
    BY <1>8, <2>3, <2>4 DEF PartialReport, Reports
<1>9. CASE Cleanup
  BY <1>9, CleanupStory
<1>10. CASE Exit
  <2>1. /\ phase = "exit" /\ phase' = "closed" /\ case' = case /\ repo' = repo /\ turn' = turn /\ report' = report
        /\ log' = log /\ raising' = raising /\ notified' = notified /\ lost' = lost
        /\ told' = CASE raising = "none" -> "result" [] raising = "error" -> "traceback"
                     [] raising = "cancelled" -> CleanupStatus
    BY <1>10 DEF Exit
  <2>2. told' = "complete" => raising = "cancelled" /\ Marks("cleanup")
    <3>1. raising \in {"none", "error", "cancelled"}
      BY DEF TalkTypes
    <3>2. raising = "cancelled" => told' = CleanupStatus
      BY <2>1
    <3>3. CleanupStatus = "complete" => Marks("cleanup")
      BY DEF CleanupStatus
    <3>4. raising = "none" => told' = "result"
      BY <2>1
    <3>5. raising = "error" => told' = "traceback"
      BY <2>1
    <3>6. QED
      BY <3>1, <3>2, <3>3, <3>4, <3>5
  <2>3. told' = "complete" => /\ repo' = Destroyed
                              /\ report' = "cancelled" \/ (OfSupport' /\ report' = "none" /\ turn' = 1)
    BY <2>1, <2>2 DEF StoryInv, OfSupport
  <2>4. ~Talking' /\ phase' \notin {"idle", "failed", "cleanup", "exit"}
    BY <2>1 DEF Talking
  <2>5. /\ Place("done")' = Place("done") /\ Place("notice")' = Place("notice")
        /\ Place("cleanup")' = Place("cleanup")
        /\ Marks("error")' = Marks("error") /\ Marks("cleanup")' = Marks("cleanup")
        /\ Marks("done")' = Marks("done")
        /\ Unique("notice")' = Unique("notice") /\ Unique("done")' = Unique("done")
    BY <2>1 DEF Place, Marks, Unique
  <2>6. QED
    BY <2>1, <2>3, <2>4, <2>5 DEF StoryInv
<1>11. QED
  BY <1>1, <1>2, <1>3, <1>4, <1>5, <1>6, <1>7, <1>8, <1>9, <1>10
     DEF PersonaMoves, SimulateStep, SimulateFault, PersonaStep, PersonaFault

(* The invariant of a persona's run.                                           *)
PersonaInv == TalkTypes /\ AskedInv /\ ApprovedInv /\ SandboxInv /\ GoalInv /\ StoryInv

(* What holds before the conversation.                                         *)
LEMMA PersonaStarts ==
  ASSUME Init
  PROVE  PersonaInv
<1>1. /\ case \in CaseIds \cup {"none"} /\ phase = "idle" /\ ~expected /\ turn = 1 /\ ~wording /\ ~trusted
      /\ ~confirmed /\ pending = NoAction /\ executed = <<>> /\ ~ends /\ report = "none" /\ log = <<>>
      /\ raising = "none" /\ ~lost /\ ~notified /\ told = "nothing" /\ asked = NoAction /\ approved = {}
      /\ expected \in BOOLEAN
      /\ {wording, trusted, confirmed, ends, notified, lost} \subseteq BOOLEAN
  BY DEF Init, PersonaInit
<1>2. repo = Destroyed /\ (OfSupport => command = "simulate")
  BY DEF Init, CommandInit
<1>3. ~Talking /\ ~InHand
  BY <1>1 DEF Talking, InHand
<1>4. DOMAIN executed = {} /\ DOMAIN log = {} /\ executed \in Seq(PlannedCall) /\ log \in Seq(Events)
  BY <1>1
<1>5. NoAction \in PlannedCall
  BY DEF NoAction, PlannedCall, NoCall
<1>6. TalkTypes
  BY <1>1, <1>2, <1>4, <1>5 DEF TalkTypes
<1>7. AskedInv
  BY <1>1 DEF AskedInv
<1>8. ApprovedInv
  BY <1>1, <1>3, <1>4 DEF ApprovedInv, Sensitive
<1>9. SandboxInv
  <2>1. Destroyed \in Boxes
    BY DEF Destroyed, Boxes
  <2>2. DOMAIN Destroyed.records = {} /\ DOMAIN Destroyed.trail = {} /\ ~Destroyed.open
    BY DEF Destroyed
  <2>3. RefundsMade = {}
    BY <1>2, <2>2 DEF RefundsMade
  <2>4. QED
    BY <1>2, <1>3, <2>1, <2>2, <2>3 DEF SandboxInv
<1>10. GoalInv
  BY <1>1, <1>2, <1>3 DEF GoalInv
<1>11. StoryInv
  <2>1. \A e : Place(e) = {} /\ ~Marks(e)
    BY <1>4 DEF Place, Marks
  <2>2. Unique("notice") /\ Unique("done")
    BY <2>1 DEF Unique
  <2>3. QED
    BY <1>1, <1>4, <2>1, <2>2 DEF StoryInv
<1>12. QED
  BY <1>6, <1>7, <1>8, <1>9, <1>10, <1>11 DEF PersonaInv

(* The invariant of a persona's run holds whatever command runs.               *)
THEOREM PersonaInvariance == Spec => []PersonaInv
<1>1. Init => PersonaInv
  BY PersonaStarts
<1>2. RunInv /\ PersonaInv /\ [Next]_vars => PersonaInv'
  <2> SUFFICES ASSUME RunTypes, PersonaInv, [Next]_vars
               PROVE  PersonaInv'
    BY DEF RunInv
  <2>1. TalkTypes /\ AskedInv /\ ApprovedInv /\ SandboxInv /\ GoalInv /\ StoryInv
    BY DEF PersonaInv
  <2>2. TalkTypes' /\ AskedInv'
    BY <2>1, TalkTypesKept, AskedKept
  <2>3. ApprovedInv' /\ SandboxInv'
    BY <2>1, ApprovedKept, SandboxKept
  <2>4. GoalInv' /\ StoryInv'
    BY <2>1, GoalKept, StoryKept
  <2>5. QED
    BY <2>2, <2>3, <2>4 DEF PersonaInv
<1>3. QED
  BY <1>1, <1>2, RunInvariance, PTL DEF Spec

(* An approval counts for the call that the answer before it named, nothing    *)
(* sensitive runs before the first call so approved, and the support agent refunds*)
(* once, after an approval: for any number of turns and choices, and any workflow.*)
THEOREM ConsentsMatch == Spec => []ConsentMatches
<1>1. PersonaInv => ConsentMatches
  <2> SUFFICES ASSUME PersonaInv
               PROVE  ConsentMatches
    OBVIOUS
  <2>1. AskedInv /\ ApprovedInv /\ SandboxInv
    BY DEF PersonaInv
  <2>2. \A p \in approved : p.given = p.asked
    BY <2>1 DEF AskedInv
  <2>3. \A i \in Sensitive : (\A j \in Sensitive : i <= j) => \E p \in approved : p.given = executed[i]
    BY <2>1 DEF ApprovedInv
  <2>4. OfSupport => (\A i, j \in RefundsMade : i = j) /\ (RefundsMade # {} => approved # {})
    BY <2>1 DEF SandboxInv
  <2>5. QED
    BY <2>2, <2>3, <2>4 DEF ConsentMatches, Sensitive, RefundsMade
<1>2. QED
  BY <1>1, PersonaInvariance, PTL

(* A run reported as successful has taken the seeded repository, by calls that each*)
(* ran once, where the contract wants it, by permitted transitions and past the gate.*)
THEOREM GoalsObserved == Spec => []GoalIsObserved
<1>1. PersonaInv => GoalIsObserved
  <2> SUFFICES ASSUME PersonaInv
               PROVE  GoalIsObserved
    OBVIOUS
  <2>1. TalkTypes /\ ApprovedInv /\ SandboxInv /\ GoalInv
    BY DEF PersonaInv
  <2>2. \A i, j \in DOMAIN executed : executed[i][1] = executed[j][1] => i = j
    BY <2>1 DEF ApprovedInv
  <2>3. ASSUME command = "simulate", repo.open, ~OfSupport
        PROVE  repo = Replay(workflow, executed)
    <3>1. repo # Destroyed
      BY <2>3 DEF Destroyed
    <3>2. QED
      BY <2>1, <2>3, <3>1 DEF GoalInv, TalkTypes
  <2>4. ASSUME report = "state_verified_success", OfSupport, repo.open
        PROVE  /\ expected /\ AllAllowed(case, repo)
               /\ repo.records = IF Refunded \in ToSet(repo.trail)
                                   THEN AllBecome(Sandbox(case), "order", "refunded").records
                                   ELSE Sandbox(case).records
    <3>1. Refunded \in ToSet(repo.trail) <=> RefundsMade # {}
      BY DEF ToSet, RefundsMade
    <3>2. repo.records = IF RefundsMade # {} THEN AllBecome(Sandbox(case), "order", "refunded").records
                                             ELSE Sandbox(case).records
      BY <2>1, <2>4 DEF SandboxInv
    <3>3. expected /\ AllAllowed(case, repo)
      BY <2>1, <2>4 DEF GoalInv
    <3>4. QED
      BY <3>1, <3>2, <3>3
  <2>5. ASSUME report = "state_verified_success", ~OfSupport
        PROVE  /\ Observed(workflow, Replay(workflow, executed)).outcome = Contract(workflow).outcome
               /\ Contract(workflow).required \subseteq ToSet(Replay(workflow, executed).trail)
               /\ ToSet(Replay(workflow, executed).trail) \subseteq Contract(workflow).permitted
               /\ Contract(workflow).gated => approved # {}
    BY <2>1, <2>5 DEF GoalInv, ApprovedInv
  <2>6. QED
    BY <2>2, <2>3, <2>4, <2>5 DEF GoalIsObserved
<1>2. QED
  BY <1>1, PersonaInvariance, PTL

(* Report, log and last words agree, whichever write, model, renderer, or clean-up*)
(* failed and wherever it was interrupted.                                     *)
THEOREM StoriesAgree == Spec => []ReportAndLogAgree
<1>1. PersonaInv => ReportAndLogAgree
  <2> SUFFICES ASSUME PersonaInv
               PROVE  ReportAndLogAgree
    OBVIOUS
  <2>1. StoryInv
    BY DEF PersonaInv
  <2>2. \A e \in {"notice", "done"} : \A i, j \in Place(e) : i = j
    BY <2>1 DEF StoryInv, Unique
  <2>3. \A d \in Place("done") :
          /\ report # "none" /\ repo = Destroyed
          /\ \E c \in Place("cleanup") : c < d
          /\ \A i \in DOMAIN log : i > d => log[i] = "notice"
    BY <2>1 DEF StoryInv
  <2>4. QED
    BY <2>1, <2>2, <2>3 DEF StoryInv, ReportAndLogAgree
<1>2. QED
  BY <1>1, PersonaInvariance, PTL

-----------------------------------------------------------------------------
(* The set-up and the workbench: no run that was not found sound.              *)

(* Types of the set-up, as far as the proofs need them.                        *)
Unlaunching == {"command", "wizard", "wizard_with_profile", "preflight", "questions"}
OneFlow == [state : {"running", "cancelled", "ended"}, emitted : Nat]
SetupTypes ==
    /\ command = "setup" => machine \in Machines
    /\ place \in Unlaunching \cup {"terminal", "live", "closed"}
    /\ said \in {"nothing", "refused", "cancelled", "listed", "result", "crash", "exit", "quit"}
    /\ flows \in Seq(OneFlow)
    /\ finished \in BOOLEAN
    /\ {"scenario", "turns", "profile"} \subseteq DOMAIN settings

(* What waits for its preflight, or was launched, was found sound.             *)
ToCheck == [settings EXCEPT !.profile = ProfileAsked]
SoundInv ==
    /\ place \in {"wizard", "wizard_with_profile", "preflight"} => Sound(settings)
    /\ checking # NoSettings => /\ place \in {"questions", "live"} /\ settings.scenario # NoScenario
                                /\ checking = ToCheck /\ Sound(checking)
    /\ place = "live" => settings = NoSettings \/ Issues(ToCheck) = {}

(* Where the command has runs, and what has become of the only one.            *)
Done(i) == flows[i].state = "ended"
FlowsInv ==
    /\ place \in Unlaunching => flows = <<>> /\ ~finished
    /\ place = "terminal" => Len(flows) = 1
    /\ place = "live" => flows # <<>>
    /\ said # "nothing" <=> place = "closed"
    /\ said \in {"refused", "cancelled"} => flows = <<>>
    /\ said = "exit" /\ Len(flows) = 1 => Done(1)
    /\ place = "live" /\ finished /\ Len(flows) = 1 => /\ Done(1)
                                                       /\ checking = NoSettings => status = "verdict"
WorkbenchInv == SetupTypes /\ SoundInv /\ FlowsInv

(* A step of the workbench, or one that leaves it alone.                       *)
LEMMA WorkbenchActs ==
  ASSUME [Next]_vars
  PROVE  /\ command' = command
         /\ \/ command = "setup" /\ (WorkbenchStep \/ WorkbenchInput)
            \/ UNCHANGED workbenchVars
<1>1. CASE ReferenceCommandStep
  BY <1>1 DEF ReferenceCommandStep, RunStep, Begin, NextCall, Break, Timeout, ToolReturns, Escape, Finish, Compare
<1>2. CASE SimulateStep \/ SimulateFault
  BY <1>2, PersonaActs DEF SimulateStep, SimulateFault
<1>3. CASE SetupStep \/ SetupInput \/ CompareStep
  BY <1>3 DEF SetupStep, SetupInput, CompareStep
<1>4. CASE Ended \/ UNCHANGED vars
  BY <1>4 DEF Ended, vars
<1>5. QED
  BY <1>1, <1>2, <1>3, <1>4 DEF Next

(* A run that is cancelled stays in its place, and one that ended stays so.    *)
LEMMA CancelledRuns ==
  ASSUME SetupTypes
  PROVE  /\ Cancelled \in Seq(OneFlow)
         /\ Len(Cancelled) = Len(flows)
         /\ \A i \in DOMAIN flows : Done(i) => Cancelled[i] = flows[i]
         /\ flows = <<>> => Cancelled = <<>>
<1>1. flows \in Seq(OneFlow) /\ DOMAIN flows = 1..Len(flows)
  BY DEF SetupTypes
<1>2. \A f \in OneFlow : [f EXCEPT !.state = "cancelled"] \in OneFlow
  BY DEF OneFlow
<1>3. \A i \in 1..Len(flows) : flows[i] \in OneFlow
  BY <1>1
<1>4. Cancelled \in [1..Len(flows) -> OneFlow]
  BY <1>1, <1>2, <1>3 DEF Cancelled
<1>5. Cancelled \in Seq(OneFlow) /\ Len(Cancelled) = Len(flows)
  BY <1>1, <1>4
<1>6. QED
  BY <1>1, <1>5 DEF Cancelled, Done

(* A command that is left before it launched a run has none.                   *)
LEMMA ClosesUnlaunched ==
  ASSUME WorkbenchInv, place \in Unlaunching, NEW how \in {"refused", "cancelled", "listed", "crash", "exit", "quit"},
         Close(how), command' = command, machine' = machine, finished' = finished,
         {"scenario", "turns", "profile"} \subseteq DOMAIN settings',
         checking' = NoSettings
  PROVE  WorkbenchInv' /\ StepIsGuarded
<1>1. flows = <<>> /\ flows' = <<>>
  BY CancelledRuns DEF WorkbenchInv, FlowsInv, Close
<1>2. SetupTypes'
  BY <1>1 DEF WorkbenchInv, SetupTypes, Close
<1>3. SoundInv' /\ FlowsInv'
  BY <1>1 DEF WorkbenchInv, SoundInv, FlowsInv, Close, Unlaunching
<1>4. StepIsGuarded
  BY <1>1 DEF StepIsGuarded, VerdictStays, Close
<1>5. QED
  BY <1>2, <1>3, <1>4 DEF WorkbenchInv

(* A launch adds a run, which is not over.                                     *)
LEMMA LaunchAdds ==
  ASSUME SetupTypes, Launch
  PROVE  /\ flows' \in Seq(OneFlow)
         /\ Len(flows') = Len(flows) + 1
<1>1. [state |-> "running", emitted |-> 0] \in OneFlow
  BY DEF OneFlow
<1>2. QED
  BY <1>1, CancelledRuns DEF Launch

(* A preflight that finds nothing has looked at all that a run needs.          *)
LEMMA PreflightSuffices ==
  ASSUME machine \in Machines, NEW s, Sound(s), Issues(s) = {}
  PROVE  LaunchIsChecked(s)
<1> DEFINE p == Profile(catalog, s.profile)
<1>1. PreflightIssues(s.scenario.plugin, p, machine) = {} /\ RuntimeIssues(p, machine) = {}
  BY DEF Issues
<1> HIDE DEF p
<1>2. \A n, found : Issue(n, found) = {} => ~found
  BY DEF Issue
<1>3. /\ ~(s.scenario.plugin \notin Plugins) /\ MissingVariables(p, machine) = {}
      /\ ~(~machine.writable) /\ DatabaseIssues(p, machine) = {}
  BY <1>1, <1>2 DEF PreflightIssues
<1>4. UrlVariable(p, machine) # NoId => machine.database = "head"
  <2>1. SUFFICES ASSUME UrlVariable(p, machine) # NoId
                 PROVE  machine.database = "head"
    OBVIOUS
  <2>2. Issue("database", machine.database = "down")
        \cup Issue("migrations", machine.database \in {"unmigrated", "behind"}) = {}
    BY <1>1, <1>3, <2>1 DEF DatabaseIssues
  <2>3. QED
    BY <1>2, <2>2, MachinesAssumption DEF Databases
<1>5. QED
  BY <1>3, <1>4 DEF LaunchIsChecked, Sound, p

(* The app is left when there were runs, which then clean up.                  *)
LEMMA ClosesLaunched ==
  ASSUME WorkbenchInv, place = "live", NEW how \in {"crash", "exit", "quit"}, how = "exit" => finished,
         Close(how), command' = command, machine' = machine, finished' = finished,
         {"scenario", "turns", "profile"} \subseteq DOMAIN settings',
         checking' = NoSettings
  PROVE  WorkbenchInv' /\ StepIsGuarded
<1> USE DEF WorkbenchInv
<1>1. /\ place' = "closed" /\ said' = how /\ flows' \in Seq(OneFlow) /\ Len(flows') = Len(flows)
      /\ \A i \in DOMAIN flows : Done(i) => flows'[i] = flows[i]
  BY CancelledRuns DEF Close
<1>2. Len(flows) = 1 /\ how = "exit" => Done(1) /\ flows'[1] = flows[1]
  BY <1>1 DEF FlowsInv, SetupTypes
<1>3. SetupTypes'
  BY <1>1 DEF SetupTypes
<1>4. SoundInv' /\ FlowsInv'
  BY <1>1, <1>2 DEF SoundInv, FlowsInv, Done, Unlaunching
<1>5. StepIsGuarded
  BY <1>1, <1>2 DEF SetupTypes, StepIsGuarded, VerdictStays, Done
<1>6. QED
  BY <1>3, <1>4, <1>5

(* The terminal's way: the arguments and the prompts are checked before the    *)
(* preflight, the preflight before the run.                                    *)
LEMMA TerminalKeeps ==
  ASSUME WorkbenchInv, command = "setup", command' = command, TerminalStep
  PROVE  WorkbenchInv' /\ StepIsGuarded
<1> USE DEF WorkbenchInv, Unlaunching
<1>0. /\ catalog' = catalog /\ machine' = machine /\ finished' = finished /\ status' = status
  BY DEF TerminalStep
<1>a. ASSUME place \in {"command", "wizard", "wizard_with_profile"}, said' = said, flows' = flows, checking' = checking,
             place' \in {"wizard", "wizard_with_profile", "preflight", "questions"},
             {"scenario", "turns", "profile"} \subseteq DOMAIN settings',
             place' = "questions" \/ Sound(settings')
      PROVE  WorkbenchInv' /\ StepIsGuarded
  <2>1. SetupTypes'
    BY <1>a, <1>0 DEF SetupTypes
  <2>2. SoundInv' /\ FlowsInv'
    BY <1>a, <1>0 DEF SetupTypes, SoundInv, FlowsInv, Sound
  <2>3. StepIsGuarded
    BY <1>a, <1>0 DEF SetupTypes, FlowsInv, StepIsGuarded, VerdictStays
  <2>4. QED
    BY <2>1, <2>2, <2>3
<1>b. ASSUME place \in {"command", "wizard", "wizard_with_profile", "preflight"}, UNCHANGED <<settings, checking>>,
             \E how \in {"refused", "cancelled", "listed"} : Close(how)
      PROVE  WorkbenchInv' /\ StepIsGuarded
  BY <1>b, <1>0, ClosesUnlaunched DEF SetupTypes, SoundInv
<1>1. CASE CommandLine
  <2>0. place = "command" /\ checking' = checking
    BY <1>1 DEF CommandLine, Unlaunched
  <2>1. ASSUME NEW a \in Arguments, NEW s \in Candidates(a), RunCommand(a, s)
        PROVE  WorkbenchInv' /\ StepIsGuarded
    <3>1. {"scenario", "turns", "profile"} \subseteq DOMAIN Effective(a, s)
      BY DEF Effective
    <3>2. CASE Sound(Effective(a, s))
      BY <2>0, <2>1, <3>1, <3>2, <1>a DEF RunCommand
    <3>3. CASE ~Sound(Effective(a, s))
      BY <2>0, <2>1, <3>3, <1>b DEF RunCommand
    <3>4. QED
      BY <3>2, <3>3
  <2>2. ASSUME NEW a \in Arguments, CommandStops(a)
        PROVE  WorkbenchInv' /\ StepIsGuarded
    BY <2>0, <2>2, <1>b DEF CommandStops
  <2>3. ASSUME NEW a \in Arguments, OpenWorkbench(a)
        PROVE  WorkbenchInv' /\ StepIsGuarded
    <3>1. {"scenario", "turns", "profile"} \subseteq DOMAIN settings'
      BY <2>3 DEF OpenWorkbench, NoSettings
    <3>2. QED
      BY <2>0, <2>3, <3>1, <1>a DEF OpenWorkbench
  <2>4. QED
    BY <1>1, <2>1, <2>2, <2>3 DEF CommandLine
<1>2. CASE Inspect
  BY <1>2, <1>b DEF Inspect, Unlaunched
<1>3. CASE Wizard
  <2>0. place \in {"wizard", "wizard_with_profile"} /\ checking' = checking
    BY <1>3 DEF Wizard, Unlaunched
  <2>1. ASSUME NEW t \in TurnsAsked, NEW p \in ProfileIds, t \in TurnLimit,
               settings' = [settings EXCEPT !.turns = t, !.profile = p],
               place' = "preflight", said' = said, flows' = flows
        PROVE  WorkbenchInv' /\ StepIsGuarded
    <3>1. {"scenario", "turns", "profile"} \subseteq DOMAIN settings' /\ settings'.turns = t /\ settings'.profile = p
      BY <2>1 DEF SetupTypes
    <3>2. ProfileExists(catalog, p)
      BY DEF ProfileIds, ProfileExists
    <3>3. QED
      BY <2>0, <2>1, <3>1, <3>2, <1>a DEF Sound
  <2>2. CASE Close("cancelled") /\ UNCHANGED settings
    BY <2>0, <2>2, <1>b
  <2>3. QED
    BY <1>3, <2>1, <2>2 DEF Wizard
<1>4. CASE TerminalPreflight
  <2>0. place = "preflight" /\ settings' = settings /\ checking' = checking
    BY <1>4 DEF TerminalPreflight
  <2>1. CASE Issues(settings) # {}
    BY <2>0, <2>1, <1>4, <1>b DEF TerminalPreflight
  <2>2. CASE Issues(settings) = {}
    <3>1. Launch /\ place' = "terminal" /\ said' = said
      BY <2>2, <1>4 DEF TerminalPreflight
    <3>2. flows = <<>> /\ Len(flows') = 1 /\ flows' \in Seq(OneFlow)
      BY <2>0, <3>1, LaunchAdds DEF FlowsInv
    <3>3. SetupTypes'
      BY <1>0, <2>0, <3>1, <3>2 DEF SetupTypes
    <3>4. SoundInv' /\ FlowsInv'
      BY <1>0, <2>0, <3>1, <3>2 DEF SetupTypes, SoundInv, FlowsInv
    <3>5. Sound(settings)
      BY <2>0 DEF SoundInv
    <3>6. LaunchIsChecked(Launched)
      BY <2>0, <2>2, <3>5, PreflightSuffices DEF Launched, SetupTypes
    <3>7. StepIsGuarded
      BY <1>0, <2>0, <3>1, <3>2, <3>6 DEF StepIsGuarded, VerdictStays, FlowsInv
    <3>8. QED
      BY <3>3, <3>4, <3>7
  <2>3. QED
    BY <2>1, <2>2
<1>5. CASE TerminalEnds
  <2>0. /\ place = "terminal" /\ place' = "closed" /\ said' = "result" /\ settings' = settings /\ checking' = checking
        /\ flows' = <<[Head(flows) EXCEPT !.state = "ended"]>>
    BY <1>5 DEF TerminalEnds, Unlaunched
  <2>1. Head(flows) \in OneFlow /\ Len(flows) = 1
    <3>1. Len(flows) = 1 /\ flows \in Seq(OneFlow)
      BY <2>0 DEF SetupTypes, FlowsInv
    <3>2. Head(flows) = flows[1] /\ 1 \in 1..Len(flows)
      BY <3>1
    <3>3. QED
      BY <3>1, <3>2
  <2>2. [Head(flows) EXCEPT !.state = "ended"] \in OneFlow
    BY <2>1 DEF OneFlow
  <2>3. flows' \in Seq(OneFlow) /\ Len(flows') = 1
    BY <2>0, <2>2
  <2>4. SetupTypes'
    BY <1>0, <2>0, <2>3 DEF SetupTypes
  <2>5. SoundInv' /\ FlowsInv'
    BY <1>0, <2>0 DEF SoundInv, FlowsInv
  <2>6. StepIsGuarded
    BY <2>0, <2>1, <2>3 DEF StepIsGuarded, VerdictStays
  <2>7. QED
    BY <2>4, <2>5, <2>6
<1>6. QED
  BY <1>1, <1>2, <1>3, <1>4, <1>5 DEF TerminalStep

(* A step that leaves the set-up and the runs, and no verdict's status line.   *)
LEMMA SetupStays ==
  ASSUME WorkbenchInv, command' = command,
         UNCHANGED <<catalog, machine, place, said, settings, checking, flows, finished>>,
         status' = status \/ ~finished
  PROVE  WorkbenchInv' /\ StepIsGuarded
<1> USE DEF WorkbenchInv
<1>1. SetupTypes'
  BY DEF SetupTypes
<1>2. SoundInv'
  BY DEF SoundInv, Sound, ToCheck, ProfileAsked, Issues
<1>3. FlowsInv'
  BY DEF FlowsInv, Done, SetupTypes
<1>4. StepIsGuarded
  BY DEF StepIsGuarded, VerdictStays, FlowsInv, SetupTypes, Done
<1>5. QED
  BY <1>1, <1>2, <1>3, <1>4

(* Answers are given before any run, and when none waits for its preflight.    *)
LEMMA AnswersKeep ==
  ASSUME WorkbenchInv, command' = command, QuestionInput
  PROVE  WorkbenchInv' /\ StepIsGuarded
<1>0. UNCHANGED <<catalog, machine, finished, status>>
  BY DEF QuestionInput
<1>1. CASE PressButton
  BY <1>0, <1>1, SetupStays DEF PressButton, setupVars
<1>2. CASE PickScenario \/ TypeAnswer
  <2>1. /\ place = "questions" /\ checking = NoSettings
        /\ UNCHANGED <<place, said, checking, flows>>
    BY <1>2 DEF PickScenario, TypeAnswer, Asking, Idle
  <2>2. {"scenario", "turns", "profile"} \subseteq DOMAIN settings'
    BY <1>2 DEF PickScenario, TypeAnswer, WorkbenchInv, SetupTypes
  <2>3. SetupTypes'
    BY <1>0, <2>1, <2>2 DEF WorkbenchInv, SetupTypes
  <2>4. SoundInv' /\ FlowsInv'
    BY <1>0, <2>1 DEF WorkbenchInv, SoundInv, FlowsInv, Unlaunching
  <2>5. StepIsGuarded
    BY <1>0, <2>1 DEF WorkbenchInv, FlowsInv, SetupTypes, StepIsGuarded, VerdictStays
  <2>6. QED
    BY <2>3, <2>4, <2>5 DEF WorkbenchInv
<1>3. QED
  BY <1>1, <1>2 DEF QuestionInput

(* What the launch handler reads is checked, and stays what it read.           *)
LEMMA LaunchTaken ==
  ASSUME WorkbenchInv, command' = command, UNCHANGED <<catalog, machine, finished>>, TakeLaunch
  PROVE  WorkbenchInv' /\ StepIsGuarded
<1>0. Idle /\ UNCHANGED <<place, said, settings, flows>>
  BY DEF TakeLaunch, Takes
<1>1. CASE ~(settings.scenario # NoScenario /\ settings.turns \in TurnLimit /\ ProfileExists(catalog, ProfileAsked))
  BY <1>0, <1>1, SetupStays DEF TakeLaunch
<1>2. CASE settings.scenario # NoScenario /\ settings.turns \in TurnLimit /\ ProfileExists(catalog, ProfileAsked)
  <2>1. checking' = ToCheck
    BY <1>2 DEF TakeLaunch, ToCheck
  <2>2. ToCheck.scenario = settings.scenario /\ ToCheck.turns = settings.turns /\ ToCheck.profile = ProfileAsked
    BY DEF ToCheck, WorkbenchInv, SetupTypes
  <2>3. checking' # NoSettings /\ checking = NoSettings /\ place \in {"questions", "live"}
    BY <1>0, <1>2, <2>1, <2>2 DEF NoSettings, Idle, Open
  <2>4. SetupTypes'
    BY <1>0 DEF WorkbenchInv, SetupTypes
  <2>5. Sound(checking)' /\ checking' = ToCheck'
    BY <1>0, <1>2, <2>1, <2>2 DEF Sound, ToCheck, ProfileAsked
  <2>6. Issues(ToCheck)' = Issues(ToCheck)
    BY <1>0 DEF Issues, ToCheck, ProfileAsked
  <2>7. SoundInv'
    BY <1>0, <1>2, <2>3, <2>5, <2>6 DEF WorkbenchInv, SoundInv, Sound
  <2>8. FlowsInv'
    BY <1>0, <2>3 DEF WorkbenchInv, FlowsInv, Done
  <2>9. StepIsGuarded
    BY <1>0, <2>3 DEF WorkbenchInv, FlowsInv, SetupTypes, StepIsGuarded, VerdictStays, Done
  <2>10. QED
    BY <2>4, <2>7, <2>8, <2>9 DEF WorkbenchInv
<1>3. QED
  BY <1>1, <1>2

(* The preflight of the workbench: a run that it lets through is sound, and a  *)
(* second launch of what was launched finds nothing either.                    *)
LEMMA LaunchCheckedKeeps ==
  ASSUME WorkbenchInv, command = "setup", command' = command, UNCHANGED <<catalog, machine, finished>>, LaunchChecked
  PROVE  WorkbenchInv' /\ StepIsGuarded
<1> USE DEF WorkbenchInv
<1>0. /\ place \in {"questions", "live"} /\ checking # NoSettings /\ checking' = NoSettings /\ said' = said
  BY DEF LaunchChecked, Open
<1>1. /\ settings.scenario # NoScenario /\ checking = ToCheck /\ Sound(checking) /\ said = "nothing"
      /\ settings # NoSettings
  BY <1>0 DEF SoundInv, FlowsInv, NoSettings
<1>2. CASE Issues(checking) # {}
  <2>1. UNCHANGED <<place, flows, settings>> /\ place = "questions"
    BY <1>0, <1>1, <1>2 DEF LaunchChecked, SoundInv
  <2>2. SetupTypes' /\ SoundInv' /\ FlowsInv'
    BY <1>0, <2>1 DEF SetupTypes, SoundInv, FlowsInv, Unlaunching
  <2>3. StepIsGuarded
    BY <1>0, <1>1, <2>1 DEF SetupTypes, FlowsInv, StepIsGuarded, VerdictStays
  <2>4. QED
    BY <2>2, <2>3
<1>3. CASE Issues(checking) = {}
  <2>1. Launch /\ place' = "live" /\ settings' \in {settings, NoSettings}
    BY <1>3 DEF LaunchChecked
  <2>2. /\ flows' \in Seq(OneFlow)
        /\ Len(flows') = Len(flows) + 1
    BY <2>1, LaunchAdds
  <2>3. LaunchIsChecked(Launched)
    BY <1>0, <1>1, <1>3, PreflightSuffices DEF Launched, SetupTypes
  <2>4. SetupTypes'
    BY <1>0, <2>1, <2>2 DEF SetupTypes, NoSettings
  <2>5. settings' = settings => Issues(ToCheck)' = {}
    BY <1>1, <1>3 DEF Issues, ToCheck, ProfileAsked
  <2>6. SoundInv'
    BY <1>0, <2>1, <2>5 DEF SoundInv
  <2>7. Len(flows') = 1 => ~finished
    BY <1>0, <2>2 DEF FlowsInv, SetupTypes, Unlaunching
  <2>8. FlowsInv'
    BY <1>0, <1>1, <2>1, <2>2, <2>7 DEF FlowsInv, SetupTypes, Unlaunching
  <2>9. StepIsGuarded
    BY <1>0, <1>1, <2>3, <2>7 DEF StepIsGuarded, VerdictStays
  <2>10. QED
    BY <2>4, <2>6, <2>8, <2>9
<1>4. QED
  BY <1>2, <1>3

(* The questions of the workbench.                                             *)
LEMMA QuestionsKeep ==
  ASSUME WorkbenchInv, command = "setup", command' = command, QuestionStep
  PROVE  WorkbenchInv' /\ StepIsGuarded
<1>0. UNCHANGED <<catalog, machine, finished>>
  BY DEF QuestionStep
<1>1. CASE TakeNext
  <2>1. CASE question = Review
    <3>1. Idle /\ Close("crash") /\ UNCHANGED <<settings, checking>>
      BY <1>1, <2>1 DEF TakeNext, Takes
    <3>2. CASE place = "questions"
      BY <1>0, <3>1, <3>2, ClosesUnlaunched DEF Idle, Unlaunching, WorkbenchInv, SetupTypes
    <3>3. CASE place = "live"
      BY <1>0, <3>1, <3>3, ClosesLaunched DEF Idle, WorkbenchInv, SetupTypes
    <3>4. QED
      BY <3>1, <3>2, <3>3 DEF Idle, Open
  <2>2. CASE question # Review
    BY <1>0, <1>1, <2>2, SetupStays DEF TakeNext
  <2>3. QED
    BY <2>1, <2>2
<1>2. CASE TakeBack
  BY <1>0, <1>2, SetupStays DEF TakeBack
<1>3. CASE TakeLaunch
  BY <1>0, <1>3, LaunchTaken
<1>4. CASE LaunchChecked
  BY <1>0, <1>4, LaunchCheckedKeeps
<1>5. QED
  BY <1>1, <1>2, <1>3, <1>4 DEF QuestionStep

(* The app is left: before a run, or with a run that its worker still cleans up.*)
LEMMA ExitKeeps ==
  ASSUME WorkbenchInv, command' = command, ExitInput
  PROVE  WorkbenchInv' /\ StepIsGuarded
<1>1. /\ UNCHANGED <<catalog, machine, checking, finished>> /\ settings' = NoSettings
      /\ Idle /\ {"scenario", "turns", "profile"} \subseteq DOMAIN settings'
  BY DEF ExitInput, Leaves, Quits, NoSettings
<1>2. PICK how \in {"exit", "quit"} : Close(how) /\ (how = "exit" /\ Live => finished)
  BY DEF ExitInput, Leaves, Quits
<1>3. CASE place = "questions"
  BY <1>1, <1>2, <1>3, ClosesUnlaunched DEF Idle, Unlaunching
<1>4. CASE place = "live"
  BY <1>1, <1>2, <1>4, ClosesLaunched DEF Idle, Live
<1>5. QED
  BY <1>1, <1>3, <1>4 DEF Idle, Open

(* A run emits, ends or has been cleaned up: it keeps its place, and no run    *)
(* that was over goes on.                                                      *)
LEMMA RunGoesOn ==
  ASSUME WorkbenchInv, command' = command, UNCHANGED <<catalog, machine, place, said, settings, checking>>,
         NEW i \in DOMAIN flows, NEW f \in OneFlow, flows' = [flows EXCEPT ![i] = f],
         ~Done(i),
         \/ UNCHANGED <<finished, status>>
         \/ finished' = TRUE /\ status' = "verdict" /\ f.state = "ended" /\ place = "live"
  PROVE  WorkbenchInv' /\ StepIsGuarded
<1> USE DEF WorkbenchInv
<1>1. flows \in Seq(OneFlow)
  BY DEF SetupTypes
<1>2. flows' \in Seq(OneFlow) /\ Len(flows') = Len(flows) /\ Len(flows) # 0 /\ flows # <<>>
  BY <1>1
<1>3. \A j \in DOMAIN flows : flows'[j] = IF j = i THEN f ELSE flows[j]
  BY <1>1
<1>4. Len(flows) = 1 => i = 1
  BY <1>1
<1>5. SetupTypes'
  BY <1>2 DEF SetupTypes
<1>6. SoundInv'
  BY DEF SoundInv, Sound, ToCheck, ProfileAsked, Issues
<1>7. place \notin Unlaunching /\ said \notin {"refused", "cancelled"}
  BY <1>2 DEF FlowsInv
<1>8. FlowsInv'
  BY <1>1, <1>2, <1>3, <1>4, <1>7 DEF FlowsInv, Done
<1>9. StepIsGuarded
  BY <1>1, <1>2, <1>3, <1>4, <1>7 DEF FlowsInv, StepIsGuarded, VerdictStays, Done
<1>10. QED
  BY <1>5, <1>6, <1>8, <1>9

(* The live page.                                                              *)
LEMMA LiveKeeps ==
  ASSUME WorkbenchInv, command' = command, LiveStep \/ LiveInput
  PROVE  WorkbenchInv' /\ StepIsGuarded
<1>0. UNCHANGED <<catalog, machine>>
  BY DEF LiveStep, LiveInput
<1>1. CASE Emit
  <2>1. PICK i \in DOMAIN flows : ~Done(i) /\ flows' = [flows EXCEPT ![i].emitted = @ + 1]
    BY <1>1 DEF Emit, Done
  <2>2. flows[i] \in OneFlow
    BY <2>1 DEF WorkbenchInv, SetupTypes
  <2>3. [flows[i] EXCEPT !.emitted = @ + 1] \in OneFlow
    BY <2>2 DEF OneFlow
  <2>4. QED
    BY <1>0, <1>1, <2>1, <2>3, RunGoesOn DEF Emit
<1>2. CASE FlowEnds \/ CancelledEnds
  <2>1. PICK i \in DOMAIN flows : flows[i].state \in {"running", "cancelled"} /\ flows' = [flows EXCEPT ![i].state = "ended"]
    BY <1>2 DEF FlowEnds, CancelledEnds
  <2>2. flows[i] \in OneFlow
    BY <2>1 DEF WorkbenchInv, SetupTypes
  <2>3. [flows[i] EXCEPT !.state = "ended"] \in OneFlow /\ [flows[i] EXCEPT !.state = "ended"].state = "ended"
    BY <2>2 DEF OneFlow
  <2>4. ~Done(i)
    BY <2>1 DEF Done
  <2>5. QED
    BY <1>0, <1>2, <2>1, <2>3, <2>4, RunGoesOn DEF FlowEnds, CancelledEnds, Live
<1>3. CASE ReceiveEvent \/ FilterChanged \/ Tick \/ LiveInput
  BY <1>0, <1>3, SetupStays DEF ReceiveEvent, FilterChanged, Tick, LiveInput, setupVars
<1>4. QED
  BY <1>1, <1>2, <1>3 DEF LiveStep

(* The invariant of the set-up and the workbench holds whatever command runs,  *)
(* and every step is guarded.                                                  *)
LEMMA WorkbenchKeeps ==
  ASSUME WorkbenchInv, [Next]_vars
  PROVE  WorkbenchInv' /\ [StepIsGuarded]_workbenchVars
<1>1. command' = command
  BY WorkbenchActs
<1>2. CASE UNCHANGED workbenchVars
  BY <1>1, <1>2, SetupStays DEF workbenchVars, setupVars
<1>3. CASE command = "setup" /\ (WorkbenchStep \/ WorkbenchInput)
  BY <1>1, <1>3, TerminalKeeps, QuestionsKeep, AnswersKeep, LiveKeeps, ExitKeeps DEF WorkbenchStep, WorkbenchInput
<1>4. QED
  BY <1>2, <1>3, WorkbenchActs

(* Nothing has been launched, or waits, before the command begins.             *)
LEMMA WorkbenchStarts == Init => WorkbenchInv
<1> SUFFICES ASSUME Init PROVE WorkbenchInv
  OBVIOUS
<1>1. PICK c, m : WorkbenchInit(c, m) /\ (command = "setup" => m \in Machines)
  BY DEF Init
<1>2. /\ machine = m /\ place = "command" /\ said = "nothing" /\ flows = <<>> /\ finished = FALSE
      /\ settings = NoSettings /\ checking = NoSettings
  BY <1>1 DEF WorkbenchInit
<1>3. {"scenario", "turns", "profile"} \subseteq DOMAIN NoSettings /\ <<>> \in Seq(OneFlow)
  BY DEF NoSettings
<1>4. command = "setup" => machine \in Machines
  BY <1>1, <1>2
<1>5. SetupTypes
  BY <1>2, <1>3, <1>4 DEF SetupTypes, Unlaunching
<1>6. SoundInv /\ FlowsInv
  BY <1>2 DEF SoundInv, FlowsInv, Unlaunching
<1>7. QED
  BY <1>5, <1>6 DEF WorkbenchInv

(* Every run was launched with settings that were found sound, a refused       *)
(* command launched none, and the verdict of the only run stays, for any       *)
(* catalog, machine and number of events, presses and keys.                    *)
THEOREM RunsGuarded == Spec => RunIsGuarded
<1>1. Init => WorkbenchInv
  BY WorkbenchStarts
<1>2. WorkbenchInv /\ [Next]_vars => WorkbenchInv' /\ [StepIsGuarded]_workbenchVars
  BY WorkbenchKeeps
<1>3. QED
  BY <1>1, <1>2, PTL DEF Spec, RunIsGuarded

-----------------------------------------------------------------------------
(* A comparison inside the command line.                                       *)

(* Whatever command runs, the variables of a comparison behave as those of a   *)
(* comparison by itself: what is proved of the one holds of the other.         *)
THEOREM ComparisonEmbedded == ASSUME Studies # {} PROVE Spec => SuiteSpec
<1>1. Init => \E s \in Studies : SuiteInit(s)
  BY DEF Init
<1>2. [Next]_vars => [SuiteStep]_suiteVars
  <2>1. ASSUME UNCHANGED vars
        PROVE  UNCHANGED suiteVars
    BY <2>1 DEF vars
  <2>2. ASSUME Next
        PROVE  SuiteStep \/ UNCHANGED suiteVars
    BY <2>1, <2>2 DEF Next, ReferenceCommandStep, SimulateStep, SimulateFault, SetupStep, SetupInput,
                      CompareStep, Ended
  <2>3. QED
    BY <2>1, <2>2
<1>3. QED
  BY <1>1, <1>2, PTL DEF Spec, SuiteSpec

=============================================================================
