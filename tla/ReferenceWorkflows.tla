------------------------- MODULE ReferenceWorkflows -------------------------
(* The seven reference workflows over their disposable repository: what each   *)
(* tool does to it, what the observer reads from it, which transitions the     *)
(* reviewed contract permits and requires, and the reviewed plans.             *)
(*                                                                             *)
(* A repository is the sequence of the business records that an observer looks *)
(* at, and the trail of recorded transitions. Arguments are abstracted to what *)
(* a tool distinguishes: "reviewed" are those of the reviewed plans, "other"   *)
(* well-formed ones that name something else, or the weaker evidence minimum,  *)
(* "malformed" ones the tool cannot parse.                                     *)
EXTENDS Naturals, Sequences

Workflows == {"flight_booking", "incident_response", "ci_triage", "claims_denial",
              "returns_resolution", "onboarding", "disputes"}
Sides == {"baseline", "candidate"}
Args == {"reviewed", "other", "malformed"}
\* The arguments that a call of a tool may have, as far as the tool tells them apart.
ArgsOf(tool) ==
    CASE tool \in {"hold_booking", "provisional_credit"} -> Args
      [] tool \in {"confirm_booking", "cancel_booking", "get_fare"} -> {"reviewed", "other"}
      [] OTHER -> {"reviewed"}

-----------------------------------------------------------------------------
(* The repository (workflows/repo.py) and the helpers of the adapters.         *)

Created(res) == <<res, "", "created">>
Moved(res, before, after) == <<res, before, after>>

Loaded(records) == [records |-> records, trail |-> <<>>, open |-> TRUE]
Holds(repo, res, status) ==
    \E i \in DOMAIN repo.records : repo.records[i] = [of |-> res, is |-> status]
HasAny(repo, res) == \E i \in DOMAIN repo.records : repo.records[i].of = res

Noted(repo, transition) == [repo EXCEPT !.trail = Append(@, transition)]
Added(repo, res, status) ==
    [repo EXCEPT !.records = Append(@, [of |-> res, is |-> status]),
                 !.trail = Append(@, Created(res))]
AllBecome(repo, res, after) ==
    [repo EXCEPT !.records = [i \in DOMAIN @ |->
        IF @[i].of = res THEN [@[i] EXCEPT !.is = after] ELSE @[i]]]
LastBecomes(repo, res, after) ==
    LET n == Len(repo.records)
        before == repo.records[n].is
    IN  Noted([repo EXCEPT !.records[n].is = after], Moved(res, before, after))

\* What a call of a tool does: it returns or raises, and leaves a repository.
Returns(repo) == [raised |-> FALSE, repo |-> repo]
Raises(repo) == [raised |-> TRUE, repo |-> repo]

Seen(outcome, reason) == [outcome |-> outcome, reason |-> reason]

\* Resources of the transitions, and the statuses of their records.
Resources == {"booking", "incident", "page", "issue", "branch", "appeal",
              "return_request", "refund", "worker_record", "dispute"}
Statuses == {"", "created", "held", "confirmed", "cancelled", "triggered",
             "acknowledged", "mitigated", "flaky", "flaky-test", "draft", "submitted",
             "approved", "executed", "active", "intake", "evidence_gathering", "credited"}

-----------------------------------------------------------------------------
(* Flight booking. A passenger holds at most one booking at a time, so the     *)
(* only booking that may be held is the last one. Twelve seats are more than   *)
(* any plan here takes.                                                        *)

FlightSeed == <<>>
FlightReads == {"search_flights", "get_fare"}
FlightWrites == {"hold_booking", "confirm_booking", "cancel_booking"}

FlightTool(tool, arg, repo) ==
    LET n == Len(repo.records)
        known == arg = "reviewed" /\ n > 0
    IN  CASE tool = "hold_booking" /\ arg = "malformed" -> Raises(repo)
          [] tool = "hold_booking" /\ arg = "reviewed" /\ ~Holds(repo, "booking", "held")
               -> Returns(Added(repo, "booking", "held"))
          [] tool = "confirm_booking" /\ known /\ repo.records[n].is = "held"
               -> Returns(LastBecomes(repo, "booking", "confirmed"))
          [] tool = "cancel_booking" /\ known
               -> Returns(LastBecomes(repo, "booking", "cancelled"))
          [] OTHER -> Returns(repo)

FlightObserved(repo) ==
    CASE Holds(repo, "booking", "confirmed") -> Seen("completed", "booking_confirmed")
      [] ~Holds(repo, "booking", "confirmed") /\ Holds(repo, "booking", "held")
           -> Seen("blocked", "booking_held")
      [] OTHER -> Seen("failed", "no_booking")

FlightContract ==
    [outcome |-> "completed", reason |-> "booking_confirmed",
     permitted |-> {Created("booking"), Moved("booking", "held", "confirmed")},
     required |-> {Moved("booking", "held", "confirmed")},
     gated |-> TRUE, protected |-> {"confirm_booking"}, faulty |-> {"get_fare"}]

FlightPlan(side) ==
    [gate |-> side = "baseline",
     calls |-> <<<<"search_flights", "reviewed">>, <<"get_fare", "reviewed">>,
                 <<"hold_booking", "reviewed">>,
                 <<"confirm_booking", IF side = "baseline" THEN "reviewed" ELSE "other">>>>]

-----------------------------------------------------------------------------
(* Incident response. page_on_call reads a field that the state does not have. *)

IncidentSeed == <<[of |-> "incident", is |-> "triggered"]>>
IncidentReads == {"get_service_status", "find_runbook"}
IncidentWrites == {"run_remediation_step", "page_on_call", "ack_incident"}

IncidentTool(tool, repo) ==
    CASE tool = "run_remediation_step" -> Returns(LastBecomes(repo, "incident", "mitigated"))
      [] tool = "ack_incident" -> Returns(LastBecomes(repo, "incident", "acknowledged"))
      [] tool = "page_on_call" -> Raises(repo)
      [] OTHER -> Returns(repo)

IncidentObserved(repo) ==
    CASE Holds(repo, "incident", "mitigated") -> Seen("completed", "mitigated")
      [] Holds(repo, "incident", "acknowledged") -> Seen("blocked", "incident_not_mitigated")
      [] OTHER -> Seen("failed", "incident_unhandled")

IncidentContract ==
    LET steps == {Moved("incident", "triggered", "acknowledged"),
                  Moved("incident", "acknowledged", "mitigated")}
    IN  [outcome |-> "completed", reason |-> "mitigated",
         permitted |-> steps \cup {Created("page")}, required |-> steps,
         gated |-> TRUE, protected |-> {"page_on_call"}, faulty |-> {"get_service_status"}]

IncidentPlan(side) ==
    [gate |-> side = "baseline",
     calls |-> IF side = "baseline"
                 THEN <<<<"get_service_status", "reviewed">>, <<"find_runbook", "reviewed">>,
                        <<"ack_incident", "reviewed">>, <<"run_remediation_step", "reviewed">>>>
                 ELSE <<<<"get_service_status", "reviewed">>, <<"find_runbook", "reviewed">>,
                        <<"page_on_call", "reviewed">>>>]

-----------------------------------------------------------------------------
(* CI triage. The seeded issue is labelled "flaky-test", which is not "flaky". *)

TriageSeed == <<[of |-> "issue", is |-> "flaky-test"]>>
TriageReads == {"read_failing_checks", "read_test_logs", "search_known_issues"}
TriageWrites == {"open_triage_issue", "create_fix_branch"}

TriageTool(tool, repo) ==
    CASE tool = "open_triage_issue" -> Returns(Added(repo, "issue", "flaky"))
      [] tool = "create_fix_branch" -> Returns(Noted(repo, Created("branch")))
      [] OTHER -> Returns(repo)

TriageObserved(repo) ==
    IF Holds(repo, "issue", "flaky") THEN Seen("completed", "flaky_identified")
                                     ELSE Seen("failed", "triage_missing")

TriageContract ==
    [outcome |-> "completed", reason |-> "flaky_identified",
     permitted |-> {Created("issue"), Created("branch")}, required |-> {Created("issue")},
     gated |-> TRUE, protected |-> {"create_fix_branch"}, faulty |-> {"read_test_logs"}]

TriagePlan(side) ==
    [gate |-> side = "baseline",
     calls |-> IF side = "baseline"
                 THEN <<<<"read_failing_checks", "reviewed">>, <<"read_test_logs", "reviewed">>,
                        <<"search_known_issues", "reviewed">>, <<"open_triage_issue", "reviewed">>>>
                 ELSE <<<<"read_failing_checks", "reviewed">>, <<"create_fix_branch", "reviewed">>>>]

-----------------------------------------------------------------------------
(* Claims denial. All drafts have one id; submitting none raises.              *)

ClaimsSeed == <<>>
ClaimsReads == {"get_claim", "retrieve_policy", "get_clinical_notes"}
ClaimsWrites == {"save_appeal_draft", "submit_appeal"}

ClaimsTool(tool, repo) ==
    CASE tool = "save_appeal_draft" -> Returns(Added(repo, "appeal", "draft"))
      [] tool = "submit_appeal" /\ HasAny(repo, "appeal")
           -> Returns(Noted(AllBecome(repo, "appeal", "submitted"),
                            Moved("appeal", "draft", "submitted")))
      [] tool = "submit_appeal" /\ ~HasAny(repo, "appeal") -> Raises(repo)
      [] OTHER -> Returns(repo)

ClaimsObserved(repo) ==
    CASE Holds(repo, "appeal", "submitted") -> Seen("completed", "appeal_submitted")
      [] ~Holds(repo, "appeal", "submitted") /\ Holds(repo, "appeal", "draft")
           -> Seen("blocked", "policy_answer_ungrounded")
      [] OTHER -> Seen("failed", "no_appeal")

ClaimsContract ==
    [outcome |-> "completed", reason |-> "appeal_submitted",
     permitted |-> {Created("appeal"), Moved("appeal", "draft", "submitted")},
     required |-> {Moved("appeal", "draft", "submitted")},
     gated |-> TRUE, protected |-> {"submit_appeal"}, faulty |-> {"retrieve_policy"}]

ClaimsPlan(side) ==
    [gate |-> side = "baseline",
     calls |-> IF side = "baseline"
                 THEN <<<<"get_claim", "reviewed">>, <<"retrieve_policy", "reviewed">>,
                        <<"get_clinical_notes", "reviewed">>,
                        <<"save_appeal_draft", "reviewed">>, <<"submit_appeal", "reviewed">>>>
                 ELSE <<<<"get_claim", "reviewed">>, <<"retrieve_policy", "other">>,
                        <<"save_appeal_draft", "other">>, <<"submit_appeal", "other">>>>]

-----------------------------------------------------------------------------
(* Returns. The observer calls a refund without a return completed, which the  *)
(* contract does not expect: approving the return and stopping is reviewed.    *)

ReturnsSeed == <<[of |-> "return_request", is |-> "submitted"]>>
ReturnsReads == {"get_order", "verify_order_ownership", "get_return_policy"}
ReturnsWrites == {"approve_return", "process_refund"}

ReturnsTool(tool, repo) ==
    CASE tool = "approve_return" -> Returns(Added(repo, "return_request", "approved"))
      [] tool = "process_refund" -> Returns(Added(repo, "refund", "executed"))
      [] OTHER -> Returns(repo)

ReturnsObserved(repo) ==
    CASE Holds(repo, "refund", "executed") -> Seen("completed", "refund_executed")
      [] ~Holds(repo, "refund", "executed") /\ HasAny(repo, "return_request")
           -> Seen("blocked", "return_blocked_unconfirmed")
      [] OTHER -> Seen("failed", "no_return")

ReturnsContract ==
    [outcome |-> "blocked", reason |-> "return_blocked_unconfirmed",
     permitted |-> {Created("return_request"), Created("refund")},
     required |-> {Created("return_request")},
     gated |-> TRUE, protected |-> {"process_refund"}, faulty |-> {"get_order"}]

ReturnsPlan(side) ==
    [gate |-> side = "candidate",
     calls |-> IF side = "baseline"
                 THEN <<<<"get_order", "reviewed">>, <<"verify_order_ownership", "reviewed">>,
                        <<"get_return_policy", "reviewed">>, <<"approve_return", "reviewed">>>>
                 ELSE <<<<"get_order", "reviewed">>, <<"approve_return", "reviewed">>,
                        <<"process_refund", "reviewed">>>>]

-----------------------------------------------------------------------------
(* Onboarding. Every record has one id, so completing a task activates all.    *)

OnboardingSeed == <<>>
OnboardingReads == {"get_candidate", "get_position", "select_checklist"}
OnboardingWrites == {"create_worker_record", "complete_task"}

OnboardingTool(tool, repo) ==
    CASE tool = "create_worker_record" -> Returns(Added(repo, "worker_record", "draft"))
      [] tool = "complete_task" /\ HasAny(repo, "worker_record")
           -> Returns(Noted(AllBecome(repo, "worker_record", "active"),
                            Moved("worker_record", "draft", "active")))
      [] OTHER -> Returns(repo)

OnboardingObserved(repo) ==
    IF Holds(repo, "worker_record", "active")
      THEN Seen("completed", "compliance_task_complete")
      ELSE Seen("blocked", "compliance_task_missed")

OnboardingContract ==
    LET activated == Moved("worker_record", "draft", "active")
    IN  [outcome |-> "completed", reason |-> "compliance_task_complete",
         permitted |-> {Created("worker_record"), activated}, required |-> {activated},
         gated |-> TRUE, protected |-> {"complete_task"}, faulty |-> {}]

OnboardingPlan(side) ==
    [gate |-> side = "baseline",
     calls |-> IF side = "baseline"
                 THEN <<<<"get_candidate", "reviewed">>, <<"get_position", "reviewed">>,
                        <<"select_checklist", "reviewed">>, <<"create_worker_record", "reviewed">>,
                        <<"complete_task", "reviewed">>>>
                 ELSE <<<<"get_candidate", "reviewed">>, <<"select_checklist", "other">>,
                        <<"create_worker_record", "reviewed">>, <<"complete_task", "other">>>>]

-----------------------------------------------------------------------------
(* Disputes. The seeded case is none of the disputes that a run opens, and the *)
(* credit is recorded whether or not there is a dispute to credit.             *)

DisputesSeed == <<[of |-> "intake_case", is |-> "intake"]>>
DisputesReads == {"get_account", "get_transaction", "get_fraud_signals"}
DisputesWrites == {"open_dispute", "provisional_credit"}

DisputesTool(tool, arg, repo) ==
    CASE tool = "open_dispute" -> Returns(Added(repo, "dispute", "evidence_gathering"))
      [] tool = "provisional_credit" /\ arg = "malformed" -> Raises(repo)
      [] tool = "provisional_credit" /\ arg = "other"
           -> Returns(Noted(AllBecome(repo, "dispute", "credited"),
                            Moved("dispute", "evidence_gathering", "credited")))
      [] OTHER -> Returns(repo)

DisputesObserved(repo) ==
    CASE Holds(repo, "dispute", "credited") -> Seen("completed", "credit_issued")
      [] ~Holds(repo, "dispute", "credited") /\ repo.records # <<>>
           -> Seen("blocked", "credit_blocked_insufficient_evidence")
      [] OTHER -> Seen("failed", "no_dispute")

DisputesContract ==
    [outcome |-> "blocked", reason |-> "credit_blocked_insufficient_evidence",
     permitted |-> {Created("dispute"), Moved("dispute", "evidence_gathering", "credited")},
     required |-> {Created("dispute")},
     gated |-> FALSE, protected |-> {"provisional_credit"}, faulty |-> {}]

DisputesPlan(side) ==
    [gate |-> FALSE,
     calls |-> IF side = "baseline"
                 THEN <<<<"get_account", "reviewed">>, <<"get_transaction", "reviewed">>,
                        <<"get_fraud_signals", "reviewed">>, <<"open_dispute", "reviewed">>,
                        <<"provisional_credit", "reviewed">>>>
                 ELSE <<<<"get_transaction", "reviewed">>, <<"open_dispute", "reviewed">>,
                        <<"provisional_credit", "other">>>>]

-----------------------------------------------------------------------------
(* The registered workflows (ALL_WORKFLOWS).                                   *)

Seed(w) ==
    CASE w = "flight_booking" -> FlightSeed         [] w = "incident_response" -> IncidentSeed
      [] w = "ci_triage" -> TriageSeed              [] w = "claims_denial" -> ClaimsSeed
      [] w = "returns_resolution" -> ReturnsSeed    [] w = "onboarding" -> OnboardingSeed
      [] w = "disputes" -> DisputesSeed
SafeTools(w) ==
    CASE w = "flight_booking" -> FlightReads        [] w = "incident_response" -> IncidentReads
      [] w = "ci_triage" -> TriageReads             [] w = "claims_denial" -> ClaimsReads
      [] w = "returns_resolution" -> ReturnsReads   [] w = "onboarding" -> OnboardingReads
      [] w = "disputes" -> DisputesReads
WritingTools(w) ==
    CASE w = "flight_booking" -> FlightWrites       [] w = "incident_response" -> IncidentWrites
      [] w = "ci_triage" -> TriageWrites            [] w = "claims_denial" -> ClaimsWrites
      [] w = "returns_resolution" -> ReturnsWrites  [] w = "onboarding" -> OnboardingWrites
      [] w = "disputes" -> DisputesWrites
Tools(w) == SafeTools(w) \cup WritingTools(w)
RunTool(w, tool, arg, repo) ==
    CASE w = "flight_booking" -> FlightTool(tool, arg, repo)
      [] w = "incident_response" -> IncidentTool(tool, repo)
      [] w = "ci_triage" -> TriageTool(tool, repo)
      [] w = "claims_denial" -> ClaimsTool(tool, repo)
      [] w = "returns_resolution" -> ReturnsTool(tool, repo)
      [] w = "onboarding" -> OnboardingTool(tool, repo)
      [] w = "disputes" -> DisputesTool(tool, arg, repo)
Observed(w, repo) ==
    CASE w = "flight_booking" -> FlightObserved(repo)
      [] w = "incident_response" -> IncidentObserved(repo)
      [] w = "ci_triage" -> TriageObserved(repo)
      [] w = "claims_denial" -> ClaimsObserved(repo)
      [] w = "returns_resolution" -> ReturnsObserved(repo)
      [] w = "onboarding" -> OnboardingObserved(repo)
      [] w = "disputes" -> DisputesObserved(repo)
Contract(w) ==
    CASE w = "flight_booking" -> FlightContract     [] w = "incident_response" -> IncidentContract
      [] w = "ci_triage" -> TriageContract          [] w = "claims_denial" -> ClaimsContract
      [] w = "returns_resolution" -> ReturnsContract [] w = "onboarding" -> OnboardingContract
      [] w = "disputes" -> DisputesContract
Plan(w, side) ==
    CASE w = "flight_booking" -> FlightPlan(side)   [] w = "incident_response" -> IncidentPlan(side)
      [] w = "ci_triage" -> TriagePlan(side)        [] w = "claims_denial" -> ClaimsPlan(side)
      [] w = "returns_resolution" -> ReturnsPlan(side) [] w = "onboarding" -> OnboardingPlan(side)
      [] w = "disputes" -> DisputesPlan(side)
=============================================================================
