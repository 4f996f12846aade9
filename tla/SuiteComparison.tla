-------------------------- MODULE SuiteComparison --------------------------
(* A comparison of a candidate with the deployed baseline over several cases:  *)
(* every case runs with both configurations, one after the other, and the      *)
(* results add up to one recommendation. Three commands do so: a suite with    *)
(* one declared change, a cohort that changes the model only, and the model    *)
(* lab with its own totals and rules.                                          *)
EXTENDS RunEvaluation, Sequences

CONSTANTS Cohorts,      \* for each command, the sequences of bundles it may be asked for
          Behaviours,   \* what a bundle run may turn out to be
          Models,       \* the models that may be configured
          MinComparable, MaxCohort   \* MIN_COMPARABLE_CASES, MAX_COHORT_BUNDLES

ASSUME SuiteAssumption ==
    /\ DOMAIN Cohorts = {"suite", "cohort", "lab"}
    /\ \A by \in DOMAIN Cohorts : Cohorts[by] \subseteq Seq(Bundle)
    /\ \A by \in DOMAIN Cohorts \ {"lab"} : <<>> \notin Cohorts[by]
    /\ \A r \in Behaviours : r \in Run
    /\ "none" \notin Models
    /\ MinComparable \in Nat \ {0} /\ MaxCohort \in Nat

VARIABLES study,      \* what was asked for
          doing,      \* where the comparison is
          baseline,   \* the finished runs of the baseline, each with its configuration
          candidate,  \* the finished runs of the candidate
          outcome     \* the result, or NoOutcome

suiteVars == <<study, doing, baseline, candidate, outcome>>

NoOutcome == [verdict |-> "none", cases |-> 0]
Changes == {"model", "prompt", "routing"}

\* A candidate configuration; a field may be unset.
Versioned == [model : Models \cup {"none"}, prompt : {"p1", "p2", "none"}, other : {"o1", "o2"}]

\* The configured models, and whether a prompt text came with the candidate. In
\* a cohort the candidate is a model; in the lab, the model of its configuration.
Studies ==
    {s \in [by : DOMAIN Cohorts, change : Changes, cases : UNION {Cohorts[by] : by \in DOMAIN Cohorts},
            candidate : Versioned, model : Models, rival : Models, text : BOOLEAN] :
       /\ s.cases \in Cohorts[s.by]
       /\ s.by = "cohort" => /\ s.change = "model" /\ ~s.text
                             /\ s.candidate = [model |-> s.rival, prompt |-> "p1", other |-> "o1"]
       /\ s.by # "cohort" => s.rival = s.model}

\* The comparison of a study, before its first step.
SuiteInit(s) ==
    /\ study = s
    /\ doing = "validate"
    /\ baseline = <<>> /\ candidate = <<>>
    /\ outcome = NoOutcome

Bundles == study.cases
At == Len(candidate) + 1
Case == study.cases[At]

-----------------------------------------------------------------------------
(* Validation, before anything runs.                                           *)

Fields == {"model", "prompt", "other"}
Dimension(change) == CASE change = "model" -> {"model"} [] change = "prompt" -> {"prompt"}
                       [] change = "routing" -> {"other"}

\* Exactly the declared dimension differs, and has a version on both sides.
OneVariable(b, c, change) ==
    /\ \A f \in Fields \ Dimension(change) : b[f] = c[f]
    /\ \E f \in Dimension(change) : b[f] # c[f]
    /\ \A f \in Dimension(change) : b[f] # c[f] => "none" \notin {b[f], c[f]}

AllOneVariable == \A i \in DOMAIN Bundles : OneVariable(Bundles[i], study.candidate, study.change)
AllDeployed == \A i \in DOMAIN Bundles : Bundles[i].model = study.model

Valid ==
    CASE study.by = "suite"  -> study.change \in {"model", "prompt"} /\ AllOneVariable
      [] study.by = "cohort" -> AllDeployed
      [] study.by = "lab"    -> /\ AllOneVariable /\ study.change = "model" /\ AllDeployed
                                /\ Len(Bundles) <= MaxCohort

Validate ==
    /\ doing = "validate"
    /\ doing' = IF Valid THEN "run" ELSE "rejected"
    /\ UNCHANGED <<study, baseline, candidate, outcome>>

-----------------------------------------------------------------------------
(* The loop over the cases.                                                    *)

\* With a model change the model under test must be the recorded one, which the
\* suite finds out case by case.
BaselineAdmitted == study.change = "model" /\ study.by # "lab" => Case.model = study.model

\* The texts of the prompts: the code's own, or the candidate's.
BaselineConfig == [model |-> study.model, prompt |-> "deployed"]
CandidateConfigBoth ==
    [model |-> study.candidate.model, prompt |-> IF study.text THEN "candidate" ELSE "deployed"]
CandidateConfig ==
    IF study.change = "model"
      THEN [model |-> study.candidate.model, prompt |-> "deployed"]
      ELSE [model |-> study.model, prompt |-> "candidate"]

Left == Len(candidate) < Len(Bundles)
BaselineDue == doing = "run" /\ Left /\ Len(baseline) = Len(candidate)
CandidateDue == doing = "run" /\ Len(baseline) > Len(candidate)

BaselineRuns ==
    /\ BaselineDue /\ BaselineAdmitted
    /\ \E r \in Behaviours : baseline' = Append(baseline, [run |-> r, config |-> BaselineConfig])
    /\ UNCHANGED <<study, doing, candidate, outcome>>

CandidateRuns ==
    /\ CandidateDue
    /\ study.change = "prompt" => study.text
    /\ \E r \in Behaviours : candidate' = Append(candidate, [run |-> r, config |-> CandidateConfig])
    /\ UNCHANGED <<study, doing, baseline, outcome>>

\* A wrong baseline, a candidate prompt without a text, or a run that raises
\* ends the comparison: what ran before is lost.
Abandon ==
    /\ BaselineDue \/ CandidateDue
    /\ doing' = "failed"
    /\ UNCHANGED <<study, baseline, candidate, outcome>>

-----------------------------------------------------------------------------
(* The totals and the recommendation.                                          *)

Judged(i) == Comparison(Bundles[i], baseline[i].run, candidate[i].run)
Cases == DOMAIN Bundles
CasesWith(verdict) == {i \in Cases : Judged(i).verdict = verdict}
Succeeded(side) == {i \in Cases : TaskSuccess(Bundles[i], side[i].run)}

SuiteVerdictByCase ==
    LET gain == Cardinality(Succeeded(candidate)) - Cardinality(Succeeded(baseline))
    IN  IF CasesWith("candidate_regresses") # {} THEN "keep_baseline"
        ELSE IF CasesWith("insufficient_evidence") # {} THEN "inconclusive"
        ELSE IF gain > 0 THEN "recommend_candidate"
        ELSE IF gain < 0 THEN "keep_baseline" ELSE "inconclusive"

\* Any regression keeps the baseline, any gap is inconclusive, and only then do
\* the tasks completed decide. A safety regression counts also where a missing
\* measurement made the case insufficient.
SuiteVerdict ==
    LET gain == Cardinality(Succeeded(candidate)) - Cardinality(Succeeded(baseline))
    IN  IF CasesWith("candidate_regresses") # {} \/ (\E i \in Cases : Judged(i).safety)
          THEN "keep_baseline"
        ELSE IF CasesWith("insufficient_evidence") # {} THEN "inconclusive"
        ELSE IF gain > 0 THEN "recommend_candidate"
        ELSE IF gain < 0 THEN "keep_baseline" ELSE "inconclusive"

\* The lab adds up the comparable cases only.
Counted == {i \in Cases : baseline[i].run.aborted = "none" /\ candidate[i].run.aborted = "none"}
CountedSuccess(side) == Cardinality(Succeeded(side) \cap Counted)
Paid(side, i) == IF i \in Counted /\ side[i].run.cost # Unmeasured THEN side[i].run.cost ELSE 0
CountedCost(side) ==
    LET total[n \in 0 .. Len(Bundles)] == IF n = 0 THEN 0 ELSE total[n - 1] + Paid(side, n)
    IN  total[Len(Bundles)]
AllMeasuredButCost(side) ==
    \A i \in Counted : side[i].run.latency # Unmeasured /\ side[i].run.tokens > 0
AllMeasured(side) ==
    \A i \in Counted : /\ side[i].run.latency # Unmeasured
                       /\ side[i].run.tokens > 0
                       /\ side[i].run.cost # Unmeasured
SafetyFailure(i, side) == FailedBy(Bundles[i], side[i].run) \cap SafetyEvaluators # {}

\* The costs for each successful task, without the division.
Dearer == /\ CountedSuccess(baseline) > 0 /\ CountedSuccess(candidate) > 0
          /\ CountedCost(candidate) * CountedSuccess(baseline)
               > CountedCost(baseline) * CountedSuccess(candidate)
SameCost == /\ CountedSuccess(baseline) > 0 /\ CountedSuccess(candidate) > 0
            /\ CountedCost(candidate) * CountedSuccess(baseline)
                 = CountedCost(baseline) * CountedSuccess(candidate)

Keeps ==
    \/ \E i \in Counted : i \in Succeeded(baseline) \ Succeeded(candidate)
    \/ \E i \in Counted : SafetyFailure(i, candidate) /\ ~SafetyFailure(i, baseline)
    \/ \E i \in Counted : "unexpected_state_changes" \in FailedBy(Bundles[i], candidate[i].run)
LabVerdict ==
    LET b == CountedSuccess(baseline)  c == CountedSuccess(candidate)
    IN  IF Cardinality(Counted) < MinComparable THEN "inconclusive"
        ELSE IF Keeps THEN "keep_baseline"
        ELSE IF (b = 0 /\ c = 0) \/ ~AllMeasured(baseline) \/ ~AllMeasured(candidate)
          THEN "inconclusive"
        ELSE IF c < b \/ Dearer THEN "keep_baseline"
        ELSE IF c = b /\ SameCost THEN "inconclusive"
        ELSE "recommend_candidate"

Tallied ==
    IF study.by = "lab"
      THEN [verdict |-> LabVerdict, cases |-> Cardinality(Counted),
            better |-> 0, worse |-> Cardinality({i \in Counted : i \in Succeeded(baseline) \ Succeeded(candidate)}),
            same |-> 0, open |-> Len(Bundles) - Cardinality(Counted),
            won |-> CountedSuccess(candidate), held |-> CountedSuccess(baseline)]
      ELSE [verdict |-> SuiteVerdict, cases |-> Len(Bundles),
            better |-> Cardinality(CasesWith("candidate_passes")),
            worse |-> Cardinality(CasesWith("candidate_regresses")),
            same |-> Cardinality(CasesWith("no_material_difference")),
            open |-> Cardinality(CasesWith("insufficient_evidence")),
            won |-> Cardinality(Succeeded(candidate)), held |-> Cardinality(Succeeded(baseline))]

Finalize ==
    /\ doing = "run" /\ ~Left
    /\ outcome' = Tallied
    /\ doing' = "done"
    /\ UNCHANGED <<study, baseline, candidate>>

SuiteStep == Validate \/ BaselineRuns \/ CandidateRuns \/ Abandon \/ Finalize
SuiteEnded == doing \in {"done", "rejected", "failed"}

\* A comparison by itself: no other command reads or changes its variables.
SuiteSpec == (\E s \in Studies : SuiteInit(s)) /\ [][SuiteStep]_suiteVars

-----------------------------------------------------------------------------
(* What the comparison promises.                                               *)

Configured == [run : Run, config : [model : STRING, prompt : {"deployed", "candidate"}]]
SuiteTypeOK ==
    /\ study \in Studies
    /\ doing \in {"validate", "run", "done", "rejected", "failed"}
    /\ baseline \in Seq(Configured) /\ candidate \in Seq(Configured)
    /\ outcome.verdict \in {"none", "recommend_candidate", "keep_baseline", "inconclusive"}

\* The safety evaluators that the candidate lost in a case of two complete runs.
LostSafety(i) ==
    IF i \in Counted
      THEN (PassedBy(Bundles[i], baseline[i].run) \ PassedBy(Bundles[i], candidate[i].run))
             \cap SafetyEvaluators
      ELSE {}
Recommended == outcome.verdict = "recommend_candidate"

\* A candidate is recommended on measured, comparable cases alone: it completed
\* every task that the baseline completed, lost no safety evaluator of a suite,
\* and won a task or, in the lab, money. The suite needs this of all of its cases,
\* the lab of enough of them.
RecommendationIsEarned ==
    Recommended =>
        LET decisive == IF study.by = "lab" THEN Counted ELSE Cases
        IN  /\ study.by = "lab" => Cardinality(decisive) >= MinComparable
            /\ \A i \in decisive :
                 LET b == Bundles[i]  x == baseline[i].run  y == candidate[i].run
                 IN  /\ Comparable(b, x) /\ Comparable(b, y) /\ ~MissingMeasurement(b, x, y)
                     /\ TaskSuccess(b, x) => TaskSuccess(b, y)
                     /\ study.by = "lab" => /\ Unmeasured \notin {x.latency, y.latency, x.cost, y.cost}
                                            /\ x.tokens > 0 /\ y.tokens > 0
                     /\ study.by # "lab" => PassedBy(b, x) \cap SafetyEvaluators \subseteq PassedBy(b, y)
            /\ \/ \E i \in decisive : TaskSuccess(Bundles[i], candidate[i].run)
                                     /\ ~TaskSuccess(Bundles[i], baseline[i].run)
               \/ study.by = "lab" /\ CountedCost(candidate) < CountedCost(baseline)

\* A candidate that fails a safety evaluator the baseline passed never gets past
\* "keep the baseline", however much of the evidence is missing. The lab looks at
\* runs: a run that fails safety where the baseline's did not, or that changed
\* state it must not, keeps the baseline once enough cases are comparable.
SafetyKeepsBaseline ==
    doing = "done" =>
        IF study.by = "lab"
          THEN Cardinality(Counted) >= MinComparable /\
                 (\E i \in Counted :
                    \/ SafetyFailure(i, candidate) /\ ~SafetyFailure(i, baseline)
                    \/ \E m \in candidate[i].run.mutations : \A t \in Bundles[i].permitted : ~MatchesPermitted(m, t))
               => outcome.verdict = "keep_baseline"
          ELSE (\E i \in Cases : LostSafety(i) # {}) => outcome.verdict = "keep_baseline"

\* Both sides ran the same cases, their configurations differ in the declared
\* dimension and nothing else, a changed model is held against the recorded one,
\* and a result accounts for every case: none is compared by halves or left out.
ComparisonIsFair ==
    /\ \A i \in DOMAIN candidate :
         /\ \A f \in {"model", "prompt"} : f # study.change => candidate[i].config[f] = baseline[i].config[f]
         /\ study.by # "cohort" => candidate[i].config[study.change] # baseline[i].config[study.change]
         /\ study.change = "model" => baseline[i].config.model = Bundles[i].model
    /\ Len(baseline) - Len(candidate) \in 0..1
    /\ doing = "done" =>
         /\ Len(baseline) = Len(Bundles) /\ Len(candidate) = Len(Bundles)
         /\ IF study.by = "lab" THEN outcome.cases + outcome.open = Len(Bundles)
            ELSE outcome.better + outcome.worse + outcome.same + outcome.open = outcome.cases

\* The inductive invariant behind the two properties above: the runs of each side
\* share one configuration, no baseline is held against another model than the
\* recorded one, and a result accounts for every case and keeps the baseline
\* where the rules of its command say so.
SidesInv ==
    /\ baseline \in Seq([run : Behaviours, config : {BaselineConfig}])
    /\ candidate \in Seq([run : Behaviours, config : {CandidateConfig}])
    /\ Len(baseline) - Len(candidate) \in 0..1
    /\ Len(baseline) <= Len(Bundles)
    /\ study.change = "model" => \A i \in DOMAIN baseline : Bundles[i].model = study.model
ResultInv ==
    IF study.by = "lab"
      THEN /\ outcome.cases = Cardinality(Counted)
           /\ outcome.open = Len(Bundles) - Cardinality(Counted)
           /\ Cardinality(Counted) >= MinComparable /\ Keeps => outcome.verdict = "keep_baseline"
      ELSE /\ outcome.cases = Len(Bundles)
           /\ outcome.better = Cardinality(CasesWith("candidate_passes"))
           /\ outcome.worse = Cardinality(CasesWith("candidate_regresses"))
           /\ outcome.same = Cardinality(CasesWith("no_material_difference"))
           /\ outcome.open = Cardinality(CasesWith("insufficient_evidence"))
           /\ (\E i \in Cases : Judged(i).safety) => outcome.verdict = "keep_baseline"
ProgressInv ==
    /\ doing \in {"validate", "rejected"} => baseline = <<>> /\ candidate = <<>>
    /\ doing \in {"run", "done", "failed"} => Valid
    /\ doing = "done" => Len(candidate) = Len(Bundles) /\ ResultInv
SuiteInv == /\ study \in Studies
            /\ doing \in {"validate", "run", "done", "rejected", "failed"}
            /\ SidesInv /\ ProgressInv

\* Documented, and not so: the lab never recommends a candidate with a safety
\* regression. A case whose baseline failed one safety evaluator hides the loss
\* of every other.
NoSafetyIsTraded == Recommended => \A i \in Counted : LostSafety(i) = {}
=============================================================================
