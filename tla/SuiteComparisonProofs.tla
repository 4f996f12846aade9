------------------------ MODULE SuiteComparisonProofs ------------------------
(* Proofs that a comparison is fair, keeps the baseline when safety was lost   *)
(* and recommends only what earned it, for any cases, configurations, runs,    *)
(* thresholds and numbers of them.                                             *)
EXTENDS SuiteComparison, FiniteSetTheorems, WellFoundedInduction, TLAPS

-----------------------------------------------------------------------------
(* The invariant                                                               *)

(* Studies are asked for with bundles, and a cohort changes the model.         *)
LEMMA Asked ==
  ASSUME study \in Studies
  PROVE  /\ Bundles \in Seq(Bundle) /\ Len(Bundles) \in Nat
         /\ study.change \in Changes /\ study.by \in {"suite", "cohort", "lab"}
         /\ study.by = "cohort" => study.change = "model"
<1>1. study.cases \in Cohorts[study.by] /\ study.by \in DOMAIN Cohorts /\ study.change \in Changes
  BY DEF Studies
<1>2. study.by \in {"suite", "cohort", "lab"} /\ Cohorts[study.by] \subseteq Seq(Bundle)
  BY <1>1, SuiteAssumption
<1>3. study.by = "cohort" => study.change = "model"
  BY DEF Studies
<1>4. QED
  BY <1>1, <1>2, <1>3 DEF Bundles

(* There are finitely many cases, and so of every part of them.                *)
LEMMA CasesFinite ==
  ASSUME study \in Studies
  PROVE  /\ Cases = 1 .. Len(Bundles) /\ IsFiniteSet(Cases) /\ Cardinality(Cases) = Len(Bundles)
         /\ \A S \in SUBSET Cases : IsFiniteSet(S) /\ Cardinality(S) \in Nat
<1>1. Cases = 1 .. Len(Bundles) /\ Len(Bundles) \in Nat
  BY Asked DEF Cases
<1>2. IsFiniteSet(Cases) /\ Cardinality(Cases) = Len(Bundles)
  <2>1. IsFiniteSet(1 .. Len(Bundles))
    BY <1>1, FS_Interval
  <2>2. Cardinality(1 .. Len(Bundles)) = IF 1 > Len(Bundles) THEN 0 ELSE Len(Bundles) - 1 + 1
    BY <1>1, FS_Interval
  <2>3. QED
    BY <1>1, <2>1, <2>2
<1>3. ASSUME NEW S \in SUBSET Cases
      PROVE  IsFiniteSet(S) /\ Cardinality(S) \in Nat
  BY <1>2, FS_Subset, FS_CardinalityType
<1>4. QED
  BY <1>1, <1>2, <1>3

(* Two numbers that bound each other are one.                                  *)
LEMMA Between ==
  ASSUME NEW a \in Nat, NEW b \in Nat, a <= b, b <= a
  PROVE  a = b
OBVIOUS

LEMMA SuiteStarts ==
  ASSUME NEW s \in Studies, SuiteInit(s)
  PROVE  SuiteInv
<1> USE DEF SuiteInit
<1>1. Len(Bundles) \in Nat
  BY Asked
<1>2. SidesInv
  BY <1>1 DEF SidesInv
<1>3. QED
  BY <1>2 DEF SuiteInv, ProgressInv

(* Configurations and the checks of a study depend on the study alone.         *)
LEMMA StudyFixed ==
  ASSUME study' = study
  PROVE  /\ Bundles' = Bundles /\ Valid' = Valid
         /\ BaselineConfig' = BaselineConfig /\ CandidateConfig' = CandidateConfig
BY DEF Bundles, Valid, AllOneVariable, AllDeployed, BaselineConfig, CandidateConfig

LEMMA KeepsValidate ==
  ASSUME SuiteInv, Validate
  PROVE  SuiteInv'
<1> USE DEF Validate
<1>1. /\ Bundles' = Bundles /\ Valid' = Valid
      /\ BaselineConfig' = BaselineConfig /\ CandidateConfig' = CandidateConfig
  BY StudyFixed
<1>2. SidesInv'
  BY <1>1 DEF SuiteInv, SidesInv
<1>3. ProgressInv'
  BY <1>1 DEF SuiteInv, ProgressInv
<1>4. QED
  BY <1>2, <1>3 DEF SuiteInv

LEMMA KeepsBaselineRuns ==
  ASSUME SuiteInv, BaselineRuns
  PROVE  SuiteInv'
<1> USE DEF BaselineRuns
<1> DEFINE S == [run : Behaviours, config : {BaselineConfig}]
<1>1. /\ Bundles' = Bundles /\ Valid' = Valid
      /\ BaselineConfig' = BaselineConfig /\ CandidateConfig' = CandidateConfig
  BY StudyFixed
<1>2. /\ doing = "run" /\ Len(candidate) < Len(Bundles) /\ Len(baseline) = Len(candidate)
      /\ BaselineAdmitted
  BY DEF BaselineDue, Left
<1>3. PICK r \in Behaviours : baseline' = Append(baseline, [run |-> r, config |-> BaselineConfig])
  OBVIOUS
<1>4. baseline \in Seq(S) /\ [run |-> r, config |-> BaselineConfig] \in S
  BY DEF SuiteInv, SidesInv
<1> HIDE DEF S
<1>5. /\ baseline' \in Seq(S) /\ Len(baseline') = Len(baseline) + 1
      /\ DOMAIN baseline' = 1 .. Len(baseline) + 1 /\ DOMAIN baseline = 1 .. Len(baseline)
      /\ Len(baseline) \in Nat
  BY <1>3, <1>4
<1>6. Len(Bundles) \in Nat /\ study.by \in {"suite", "cohort", "lab"}
  BY Asked DEF SuiteInv
<1>7. ASSUME study.change = "model"
      PROVE  Bundles[Len(baseline) + 1].model = study.model
  <2>1. CASE study.by = "lab"
    <3>1. AllDeployed
      BY <1>2, <2>1 DEF SuiteInv, ProgressInv, Valid
    <3>2. Len(baseline) + 1 \in DOMAIN Bundles
      <4>1. DOMAIN Bundles = 1 .. Len(Bundles)
        BY Asked DEF SuiteInv
      <4>2. QED
        BY <1>2, <1>5, <1>6, <4>1
    <3>3. QED
      BY <3>1, <3>2 DEF AllDeployed
  <2>2. CASE study.by # "lab"
    BY <1>2, <1>7, <2>2 DEF BaselineAdmitted, Case, At, Bundles
  <2>3. QED
    BY <2>1, <2>2
<1>8. study.change = "model" => \A i \in DOMAIN baseline' : Bundles[i].model = study.model
  <2>1. study.change = "model" => \A i \in 1 .. Len(baseline) : Bundles[i].model = study.model
    BY <1>5 DEF SuiteInv, SidesInv
  <2>2. QED
    BY <1>5, <1>7, <2>1
<1>9. SidesInv'
  <2>1. Len(baseline') - Len(candidate) \in 0..1 /\ Len(baseline') <= Len(Bundles)
    <3>1. Len(candidate) = Len(baseline) /\ Len(candidate) \in Nat
      BY <1>2, <1>5
    <3>2. Len(baseline') - Len(candidate) = 1
      BY <1>5, <3>1
    <3>3. Len(baseline') <= Len(Bundles)
      <4>1. Len(baseline) < Len(Bundles) /\ Len(baseline) \in Nat /\ Len(Bundles) \in Nat
        BY <1>2, <1>6, <3>1
      <4>2. Len(baseline) + 1 <= Len(Bundles)
        BY <4>1
      <4>3. QED
        BY <1>5, <4>2
    <3>4. QED
      BY <3>2, <3>3
  <2>2. QED
    BY <1>1, <1>5, <1>8, <2>1 DEF SuiteInv, SidesInv, S
<1>10. ProgressInv'
  BY <1>1, <1>2 DEF SuiteInv, ProgressInv
<1>11. QED
  BY <1>9, <1>10 DEF SuiteInv

LEMMA KeepsCandidateRuns ==
  ASSUME SuiteInv, CandidateRuns
  PROVE  SuiteInv'
<1> USE DEF CandidateRuns
<1> DEFINE S == [run : Behaviours, config : {CandidateConfig}]
<1>1. /\ Bundles' = Bundles /\ Valid' = Valid
      /\ BaselineConfig' = BaselineConfig /\ CandidateConfig' = CandidateConfig
  BY StudyFixed
<1>2. doing = "run" /\ Len(baseline) > Len(candidate)
  BY DEF CandidateDue
<1>3. PICK r \in Behaviours : candidate' = Append(candidate, [run |-> r, config |-> CandidateConfig])
  OBVIOUS
<1>4. candidate \in Seq(S) /\ [run |-> r, config |-> CandidateConfig] \in S
  BY DEF SuiteInv, SidesInv
<1> HIDE DEF S
<1>5. candidate' \in Seq(S) /\ Len(candidate') = Len(candidate) + 1 /\ Len(candidate) \in Nat
  BY <1>3, <1>4
<1>6. Len(baseline) \in Nat
  BY DEF SuiteInv, SidesInv
<1>7. SidesInv'
  <2>1. Len(baseline) - Len(candidate') \in 0..1
    BY <1>2, <1>5, <1>6 DEF SuiteInv, SidesInv
  <2>2. QED
    BY <1>1, <1>5, <2>1 DEF SuiteInv, SidesInv, S
<1>8. ProgressInv'
  BY <1>1, <1>2 DEF SuiteInv, ProgressInv
<1>9. QED
  BY <1>7, <1>8 DEF SuiteInv

LEMMA KeepsAbandon ==
  ASSUME SuiteInv, Abandon
  PROVE  SuiteInv'
<1> USE DEF Abandon
<1>1. /\ Bundles' = Bundles /\ Valid' = Valid
      /\ BaselineConfig' = BaselineConfig /\ CandidateConfig' = CandidateConfig
  BY StudyFixed
<1>2. doing = "run"
  BY DEF BaselineDue, CandidateDue
<1>3. QED
  BY <1>1, <1>2 DEF SuiteInv, SidesInv, ProgressInv

(* What a result is made of depends on the runs alone.                         *)
LEMMA TallyFixed ==
  ASSUME UNCHANGED <<study, baseline, candidate>>
  PROVE  /\ Len(Bundles)' = Len(Bundles) /\ Cardinality(Counted)' = Cardinality(Counted)
         /\ Keeps' = Keeps /\ (\E i \in Cases : Judged(i).safety)' = (\E i \in Cases : Judged(i).safety)
         /\ \A v : Cardinality(CasesWith(v))' = Cardinality(CasesWith(v))
<1>1. Bundles' = Bundles /\ Cases' = Cases
  BY DEF Bundles, Cases
<1>2. Counted' = Counted
  BY <1>1 DEF Counted
<1>3. Succeeded(baseline)' = Succeeded(baseline) /\ Succeeded(candidate)' = Succeeded(candidate)
  BY <1>1 DEF Succeeded
<1>4. \A i : Judged(i)' = Judged(i)
  BY <1>1 DEF Judged
<1>5. \A v : CasesWith(v)' = CasesWith(v)
  BY <1>1, <1>4 DEF CasesWith
<1>6. \A i : /\ SafetyFailure(i, candidate)' = SafetyFailure(i, candidate)
             /\ SafetyFailure(i, baseline)' = SafetyFailure(i, baseline)
  BY <1>1 DEF SafetyFailure
<1>7. Keeps' = Keeps
  BY <1>1, <1>2, <1>3, <1>6 DEF Keeps
<1>8. QED
  BY <1>1, <1>2, <1>4, <1>5, <1>7

LEMMA ResultFixed ==
  ASSUME UNCHANGED <<study, baseline, candidate, outcome>>, ResultInv
  PROVE  ResultInv'
BY TallyFixed DEF ResultInv

LEMMA KeepsFinalize ==
  ASSUME SuiteInv, Finalize
  PROVE  SuiteInv'
<1> USE DEF Finalize
<1>1. /\ Bundles' = Bundles /\ Valid' = Valid
      /\ BaselineConfig' = BaselineConfig /\ CandidateConfig' = CandidateConfig
  BY StudyFixed
<1>2. Len(candidate) = Len(Bundles)
  <2>1. Len(Bundles) \in Nat /\ Len(baseline) \in Nat /\ Len(candidate) \in Nat
    BY Asked DEF SuiteInv, SidesInv
  <2>2. QED
    BY <2>1 DEF Left, SuiteInv, SidesInv
<1>3. ResultInv'
  <2>1. CASE study.by = "lab"
    <3>1. /\ outcome'.cases = Cardinality(Counted)
          /\ outcome'.open = Len(Bundles) - Cardinality(Counted)
          /\ outcome'.verdict = LabVerdict
      BY <2>1 DEF Tallied
    <3>2. Cardinality(Counted) >= MinComparable /\ Keeps => LabVerdict = "keep_baseline"
      <4>1. Cardinality(Counted) \in Nat
        BY CasesFinite DEF Counted, SuiteInv
      <4>2. MinComparable \in Nat
        BY SuiteAssumption
      <4>3. QED
        BY <4>1, <4>2 DEF LabVerdict
    <3>3. QED
      BY <2>1, <3>1, <3>2, TallyFixed DEF ResultInv
  <2>2. CASE study.by # "lab"
    <3>1. /\ outcome'.cases = Len(Bundles)
          /\ outcome'.better = Cardinality(CasesWith("candidate_passes"))
          /\ outcome'.worse = Cardinality(CasesWith("candidate_regresses"))
          /\ outcome'.same = Cardinality(CasesWith("no_material_difference"))
          /\ outcome'.open = Cardinality(CasesWith("insufficient_evidence"))
          /\ outcome'.verdict = SuiteVerdict
      BY <2>2 DEF Tallied
    <3>2. (\E i \in Cases : Judged(i).safety) => SuiteVerdict = "keep_baseline"
      BY DEF SuiteVerdict
    <3>3. QED
      BY <2>2, <3>1, <3>2, TallyFixed DEF ResultInv
  <2>3. QED
    BY <2>1, <2>2
<1>4. SidesInv'
  BY <1>1 DEF SuiteInv, SidesInv
<1>5. ProgressInv'
  BY <1>1, <1>2, <1>3 DEF SuiteInv, ProgressInv
<1>6. QED
  BY <1>4, <1>5 DEF SuiteInv

(* Every state of a comparison satisfies its invariant.                        *)
THEOREM SuiteInvariance == SuiteSpec => []SuiteInv
<1>1. (\E s \in Studies : SuiteInit(s)) => SuiteInv
  BY SuiteStarts
<1>2. SuiteInv /\ [SuiteStep]_suiteVars => SuiteInv'
  <2> SUFFICES ASSUME SuiteInv, [SuiteStep]_suiteVars
               PROVE  SuiteInv'
    OBVIOUS
  <2>1. CASE SuiteStep
    BY <2>1, KeepsValidate, KeepsBaselineRuns, KeepsCandidateRuns, KeepsAbandon, KeepsFinalize
       DEF SuiteStep
  <2>2. CASE UNCHANGED suiteVars
    <3>1. UNCHANGED <<study, doing, baseline, candidate, outcome>>
      BY <2>2 DEF suiteVars
    <3>2. /\ Bundles' = Bundles /\ Valid' = Valid /\ (ResultInv => ResultInv')
          /\ BaselineConfig' = BaselineConfig /\ CandidateConfig' = CandidateConfig
      BY <3>1, StudyFixed, ResultFixed
    <3>3. QED
      BY <3>1, <3>2 DEF SuiteInv, SidesInv, ProgressInv
  <2>3. QED
    BY <2>1, <2>2
<1>3. QED
  BY <1>1, <1>2, PTL DEF SuiteSpec

-----------------------------------------------------------------------------
(* The cases of a study, and what the evaluators say of them                   *)

LEMMA DisjointUnion ==
  ASSUME NEW S, NEW T, IsFiniteSet(S), IsFiniteSet(T), S \cap T = {}
  PROVE  IsFiniteSet(S \cup T) /\ Cardinality(S \cup T) = Cardinality(S) + Cardinality(T)
<1>1. Cardinality(S) \in Nat /\ Cardinality(T) \in Nat
  BY FS_CardinalityType
<1>2. Cardinality(S \cap T) = 0
  BY FS_EmptySet
<1>3. IsFiniteSet(S \cup T)
      /\ Cardinality(S \cup T) = Cardinality(S) + Cardinality(T) - Cardinality(S \cap T)
  BY FS_Union
<1>4. QED
  BY <1>1, <1>2, <1>3

(* Each case has one of four verdicts.                                         *)
LEMMA FourVerdicts ==
  ASSUME study \in Studies
  PROVE  Cardinality(CasesWith("candidate_passes")) + Cardinality(CasesWith("candidate_regresses"))
           + Cardinality(CasesWith("no_material_difference"))
           + Cardinality(CasesWith("insufficient_evidence")) = Len(Bundles)
<1> DEFINE P == CasesWith("candidate_passes")
           R == CasesWith("candidate_regresses")
           N == CasesWith("no_material_difference")
           I == CasesWith("insufficient_evidence")
<1>1. \A i \in Cases : Judged(i).verdict \in {"candidate_passes", "candidate_regresses",
                                              "no_material_difference", "insufficient_evidence"}
  BY DEF Judged, Comparison
<1>2. /\ P \in SUBSET Cases /\ R \in SUBSET Cases /\ N \in SUBSET Cases /\ I \in SUBSET Cases
      /\ P \cap R = {} /\ (P \cup R) \cap N = {} /\ (P \cup R \cup N) \cap I = {}
  BY DEF CasesWith
<1>3. P \cup R \cup N \cup I = Cases
  BY <1>1 DEF CasesWith
<1> HIDE DEF P, R, N, I
<1>4. /\ IsFiniteSet(P) /\ IsFiniteSet(R) /\ IsFiniteSet(N) /\ IsFiniteSet(I)
      /\ Cardinality(P) \in Nat /\ Cardinality(R) \in Nat /\ Cardinality(N) \in Nat
      /\ Cardinality(I) \in Nat
  BY <1>2, CasesFinite
<1>5. IsFiniteSet(P \cup R) /\ Cardinality(P \cup R) = Cardinality(P) + Cardinality(R)
  BY <1>2, <1>4, DisjointUnion
<1>6. IsFiniteSet(P \cup R \cup N)
      /\ Cardinality(P \cup R \cup N) = Cardinality(P \cup R) + Cardinality(N)
  BY <1>2, <1>4, <1>5, DisjointUnion
<1>7. Cardinality(P \cup R \cup N \cup I) = Cardinality(P \cup R \cup N) + Cardinality(I)
  BY <1>2, <1>4, <1>5, <1>6, DisjointUnion
<1>8. Cardinality(P) + Cardinality(R) + Cardinality(N) + Cardinality(I) = Len(Bundles)
  BY <1>3, <1>4, <1>5, <1>6, <1>7, CasesFinite
<1>9. QED
  BY <1>8 DEF P, R, N, I

(* A case that lost safety is judged a safety regression: both runs are complete, *)
(* so they can be compared.                                                    *)
LEMMA LossIsJudged ==
  ASSUME NEW i \in Cases, LostSafety(i) # {}
  PROVE  Judged(i).safety
<1>1. i \in Counted
  BY DEF LostSafety
<1>2. baseline[i].run.aborted = "none" /\ candidate[i].run.aborted = "none"
  BY <1>1 DEF Counted
<1>3. Comparable(Bundles[i], baseline[i].run) /\ Comparable(Bundles[i], candidate[i].run)
  BY <1>2 DEF Comparable, RunVerdict
<1>4. SafetyRegression(Bundles[i], baseline[i].run, candidate[i].run)
  BY <1>1 DEF LostSafety, SafetyRegression, EvaluatorRegressions
<1>5. QED
  BY <1>3, <1>4 DEF Judged, Comparison

(* A complete run that changed state it must not fails that evaluator.         *)
LEMMA ChangeIsFailed ==
  ASSUME NEW i \in Counted,
         NEW m \in candidate[i].run.mutations,
         \A t \in Bundles[i].permitted : ~MatchesPermitted(m, t)
  PROVE  "unexpected_state_changes" \in FailedBy(Bundles[i], candidate[i].run)
<1>1. Reported(candidate[i].run) = Evaluators
  BY DEF Counted, Reported
<1>2. ~UnexpectedStateChanges(Bundles[i], candidate[i].run)
  BY DEF UnexpectedStateChanges
<1>3. ~Checks("unexpected_state_changes", Bundles[i], candidate[i].run)
  BY <1>2 DEF Checks
<1>4. QED
  BY <1>1, <1>3 DEF FailedBy, PassedBy, Evaluators, SafetyEvaluators

-----------------------------------------------------------------------------
(* What the comparison promises                                                *)

(* A candidate that fails a safety evaluator the baseline passed never gets    *)
(* past "keep the baseline", however much of the evidence is missing; in the   *)
(* lab, a run that fails safety where the baseline's did not does so.          *)
THEOREM SafetyKept == SuiteSpec => []SafetyKeepsBaseline
<1>1. SuiteInv => SafetyKeepsBaseline
  <2> SUFFICES ASSUME SuiteInv, doing = "done"
               PROVE  SafetyKeepsBaseline
    BY DEF SafetyKeepsBaseline
  <2>1. ResultInv
    BY DEF SuiteInv, ProgressInv
  <2>2. CASE study.by = "lab"
    <3>1. ASSUME NEW i \in Counted,
                 \/ SafetyFailure(i, candidate) /\ ~SafetyFailure(i, baseline)
                 \/ \E m \in candidate[i].run.mutations :
                      \A t \in Bundles[i].permitted : ~MatchesPermitted(m, t)
          PROVE  Keeps
      BY <3>1, ChangeIsFailed DEF Keeps
    <3>2. QED
      BY <2>1, <2>2, <3>1 DEF SafetyKeepsBaseline, ResultInv
  <2>3. CASE study.by # "lab"
    BY <2>1, <2>3, LossIsJudged DEF SafetyKeepsBaseline, ResultInv
  <2>4. QED
    BY <2>2, <2>3
<1>2. QED
  BY <1>1, SuiteInvariance, PTL

(* Both sides ran the same cases and differ in the declared dimension alone, a *)
(* changed model is held against the recorded one, and a result accounts for   *)
(* every case.                                                                 *)
THEOREM ComparisonsFair == SuiteSpec => []ComparisonIsFair
<1>1. SuiteInv => ComparisonIsFair
  <2> SUFFICES ASSUME SuiteInv
               PROVE  ComparisonIsFair
    OBVIOUS
  <2>1. /\ Len(baseline) \in Nat /\ Len(candidate) \in Nat /\ Len(candidate) <= Len(baseline)
        /\ DOMAIN baseline = 1 .. Len(baseline) /\ DOMAIN candidate = 1 .. Len(candidate)
    BY DEF SuiteInv, SidesInv
  <2>2. ASSUME NEW i \in DOMAIN candidate
        PROVE  /\ \A f \in {"model", "prompt"} :
                    f # study.change => candidate[i].config[f] = baseline[i].config[f]
               /\ study.by # "cohort" =>
                    candidate[i].config[study.change] # baseline[i].config[study.change]
               /\ study.change = "model" => baseline[i].config.model = Bundles[i].model
    <3>1. i \in DOMAIN baseline
      BY <2>1
    <3>2. baseline[i].config = BaselineConfig /\ candidate[i].config = CandidateConfig
      <4> DEFINE B == [run : Behaviours, config : {BaselineConfig}]
                 C == [run : Behaviours, config : {CandidateConfig}]
      <4>1. baseline \in Seq(B) /\ candidate \in Seq(C)
        BY DEF SuiteInv, SidesInv
      <4> HIDE DEF B, C
      <4>2. baseline[i] \in B /\ candidate[i] \in C
        BY <2>1, <3>1, <4>1
      <4>3. QED
        BY <4>2 DEF B, C
    <3>3. Valid
      BY <2>1, <2>2 DEF SuiteInv, ProgressInv
    <3>4. study.change \in {"model", "prompt"} /\ study.by \in {"suite", "cohort", "lab"}
      BY <3>3, Asked DEF SuiteInv, Valid
    <3>5. i \in DOMAIN Bundles
      <4>1. i \in 1 .. Len(baseline) /\ Len(baseline) \in Nat /\ Len(baseline) <= Len(Bundles)
        BY <2>1, <3>1 DEF SuiteInv, SidesInv
      <4>2. Len(Bundles) \in Nat /\ DOMAIN Bundles = 1 .. Len(Bundles)
        BY Asked, CasesFinite DEF SuiteInv, Cases
      <4>3. i \in 1 .. Len(Bundles)
        BY <4>1, <4>2
      <4>4. QED
        BY <4>2, <4>3
    <3>6. CASE study.change = "prompt"
      BY <3>2, <3>6 DEF BaselineConfig, CandidateConfig
    <3>7. CASE study.change = "model"
      <4>1. Bundles[i].model = study.model
        BY <3>1, <3>7 DEF SuiteInv, SidesInv
      <4>2. study.by # "cohort" => Bundles[i].model # study.candidate.model
        <5>1. study.by # "cohort" => AllOneVariable
          BY <3>3, <3>4 DEF Valid
        <5>2. QED
          BY <3>5, <3>7, <5>1 DEF AllOneVariable, OneVariable, Dimension
      <4>3. QED
        BY <3>2, <3>7, <4>1, <4>2 DEF BaselineConfig, CandidateConfig
    <3>8. QED
      BY <3>4, <3>6, <3>7
  <2>3. ASSUME doing = "done"
        PROVE  /\ Len(baseline) = Len(Bundles) /\ Len(candidate) = Len(Bundles)
               /\ IF study.by = "lab" THEN outcome.cases + outcome.open = Len(Bundles)
                  ELSE outcome.better + outcome.worse + outcome.same + outcome.open = outcome.cases
    <3>1. ResultInv /\ Len(candidate) = Len(Bundles) /\ Len(baseline) <= Len(Bundles)
      BY <2>3 DEF SuiteInv, ProgressInv, SidesInv
    <3>2. Len(Bundles) \in Nat
      BY Asked DEF SuiteInv
    <3>3. Len(baseline) = Len(Bundles)
      BY <2>1, <3>1, <3>2, Between
    <3>4. study.by = "lab" => outcome.cases + outcome.open = Len(Bundles)
      <4>1. Cardinality(Counted) \in Nat
        BY CasesFinite DEF SuiteInv, Counted
      <4>2. QED
        BY <3>1, <3>2, <4>1 DEF ResultInv
    <3>5. study.by # "lab" =>
            outcome.better + outcome.worse + outcome.same + outcome.open = outcome.cases
      BY <3>1, FourVerdicts DEF SuiteInv, ResultInv
    <3>6. QED
      BY <3>1, <3>3, <3>4, <3>5
  <2>4. QED
    BY <2>2, <2>3 DEF ComparisonIsFair, SuiteInv, SidesInv
<1>2. QED
  BY <1>1, SuiteInvariance, PTL

-----------------------------------------------------------------------------
(* The recommendation                                                          *)

(* Induction over the natural numbers, for sets of them.                       *)
Less == {p \in Nat \X Nat : p[1] < p[2]}
LEMMA LessWF == IsWellFoundedOn(Less, Nat)
<1>1. IsWellFoundedOn(OpToRel(<, Nat), Nat)
  BY NatLessThanWellFounded
<1>2. OpToRel(<, Nat) = Less
  BY DEF OpToRel, Less
<1>3. QED
  BY <1>1, <1>2

(* A set of numbers that is not empty has a least one.                        *)
LEMMA Least ==
  ASSUME NEW T \in SUBSET Nat, T # {}
  PROVE  \E x \in T : \A y \in T : x <= y
<1>1. \E x \in T : \A y \in T : <<y, x>> \notin Less
  BY LessWF, WFMin
<1>2. ASSUME NEW x \in Nat, NEW y \in Nat, y < x
      PROVE  <<y, x>> \in Less
  BY <1>2 DEF Less
<1>3. PICK x \in T : \A y \in T : <<y, x>> \notin Less
  BY <1>1
<1>4. \A y \in T : ~(y < x)
  BY <1>2, <1>3
<1>5. QED
  BY <1>4

(* A set that holds 0 and the successor of each of its numbers holds every    *)
(* number.                                                                    *)
LEMMA Induction ==
  ASSUME NEW S, 0 \in S, \A n \in S \cap Nat : n + 1 \in S
  PROVE  Nat \subseteq S
<1> DEFINE T == Nat \ S
<1>1. SUFFICES ASSUME T # {} PROVE FALSE
  OBVIOUS
<1>2. PICK x \in T : \A y \in T : x <= y
  <2> HIDE DEF T
  <2>1. T \in SUBSET Nat
    BY DEF T
  <2>2. QED
    BY <2>1, <1>1, Least
<1>3. x # 0 /\ x - 1 \in Nat /\ x - 1 \in S
  BY <1>2
<1>4. (x - 1) + 1 \in S
  BY <1>3
<1>5. QED
  BY <1>4, <1>2


(* f lists the sums of the costs of the first n cases.                         *)
Sums(side, m, f) == f = [n \in 0 .. m |-> IF n = 0 THEN 0 ELSE f[n - 1] + Paid(side, n)]

(* The sums of the costs exist, and are numbers.                               *)
LEMMA SumsExist ==
  ASSUME NEW side, \A i : Paid(side, i) \in Int, NEW m \in Nat
  PROVE  \E f : Sums(side, m, f)
<1> DEFINE S == {k \in Nat : \E f : Sums(side, k, f)}
<1>1. 0 \in S
  <2>1. Sums(side, 0, [n \in 0 .. 0 |-> 0])
    BY DEF Sums
  <2>2. QED
    BY <2>1
<1>2. ASSUME NEW k \in S \cap Nat
      PROVE  k + 1 \in S
  <2>1. PICK f : Sums(side, k, f)
    BY <1>2
  <2> DEFINE g == [n \in 0 .. k + 1 |-> IF n <= k THEN f[n] ELSE f[k] + Paid(side, n)]
             h == [n \in 0 .. k + 1 |-> IF n = 0 THEN 0 ELSE g[n - 1] + Paid(side, n)]
  <2>2. ASSUME NEW n \in 0 .. k + 1
        PROVE  g[n] = IF n = 0 THEN 0 ELSE g[n - 1] + Paid(side, n)
    <3>1. CASE n = 0
      BY <2>1, <3>1 DEF Sums
    <3>2. CASE n # 0 /\ n <= k
      <4>1. n \in 0 .. k /\ n - 1 \in 0 .. k
        BY <3>2
      <4>2. f[n] = f[n - 1] + Paid(side, n)
        BY <2>1, <3>2, <4>1 DEF Sums
      <4>3. QED
        BY <3>2, <4>1, <4>2
    <3>3. CASE n = k + 1
      BY <3>3
    <3>4. QED
      BY <3>1, <3>2, <3>3
  <2>3. g = h
    BY <2>2
  <2>4. Sums(side, k + 1, g)
    BY <2>3 DEF Sums
  <2>5. QED
    BY <2>4
<1>3. m \in S
  <2> HIDE DEF S
  <2>1. QED
    BY <1>1, <1>2, Induction
<1>4. QED
  BY <1>3

(* Each sum of costs is a number.                                             *)
LEMMA SumsAreNumbers ==
  ASSUME NEW side, \A i : Paid(side, i) \in Int, NEW m \in Nat, NEW f, Sums(side, m, f)
  PROVE  f[m] \in Int
<1> DEFINE S == {n \in Nat : n <= m => f[n] \in Int}
<1>1. 0 \in S
  BY DEF Sums
<1>2. ASSUME NEW n \in S \cap Nat
      PROVE  n + 1 \in S
  <2>1. SUFFICES ASSUME n + 1 <= m
                 PROVE  f[n + 1] \in Int
    OBVIOUS
  <2>2. f[n] \in Int
    BY <1>2, <2>1
  <2>3. f[n + 1] = f[(n + 1) - 1] + Paid(side, n + 1)
    <3>1. n + 1 \in 0 .. m /\ n + 1 # 0
      BY <2>1
    <3>2. QED
      BY <3>1 DEF Sums
  <2>4. QED
    BY <2>2, <2>3
<1>3. m \in S
  <2> HIDE DEF S
  <2>1. QED
    BY <1>1, <1>2, Induction
<1>4. QED
  BY <1>3

(* What the counted cases cost is a number.                                    *)
LEMMA CostIsNumber ==
  ASSUME NEW side, \A i : Paid(side, i) \in Int, Len(Bundles) \in Nat
  PROVE  CountedCost(side) \in Int
<1> DEFINE m == Len(Bundles)
           g == CHOOSE f : Sums(side, m, f)
<1>1. \E f : Sums(side, m, f)
  BY SumsExist
<1>2. Sums(side, m, g)
  BY <1>1
<1>3. CountedCost(side) = g[m]
  BY DEF CountedCost, Sums
<1>4. QED
  <2> HIDE DEF g
  <2>1. QED
    BY <1>2, <1>3, SumsAreNumbers

(* A side of two runs of every case.                                           *)
LEMMA RunsAreRuns ==
  ASSUME SuiteInv, doing = "done"
  PROVE  /\ \A i \in Cases : baseline[i].run \in Run /\ candidate[i].run \in Run
         /\ \A i : Paid(baseline, i) \in Int /\ Paid(candidate, i) \in Int
<1> DEFINE B == [run : Behaviours, config : {BaselineConfig}]
           C == [run : Behaviours, config : {CandidateConfig}]
<1>1. baseline \in Seq(B) /\ candidate \in Seq(C) /\ Len(candidate) = Len(Bundles)
      /\ Len(baseline) - Len(candidate) \in 0 .. 1 /\ Len(baseline) <= Len(Bundles)
  BY DEF SuiteInv, SidesInv, ProgressInv
<1>2. Cases = 1 .. Len(Bundles) /\ Len(Bundles) \in Nat
  BY CasesFinite, Asked DEF SuiteInv
<1> HIDE DEF B, C
<1>3. ASSUME NEW i \in Cases
      PROVE  baseline[i].run \in Run /\ candidate[i].run \in Run
  <2>1. i \in 1 .. Len(baseline) /\ i \in 1 .. Len(candidate)
    BY <1>1, <1>2
  <2>2. baseline[i] \in B /\ candidate[i] \in C
    BY <1>1, <2>1
  <2>3. \A r \in Behaviours : r \in Run
    BY SuiteAssumption
  <2>4. QED
    BY <2>2, <2>3 DEF B, C
<1>4. \A r \in Run : r.cost \in Int
  BY DEF Run
<1>5. ASSUME NEW i
      PROVE  Paid(baseline, i) \in Int /\ Paid(candidate, i) \in Int
  <2>1. i \in Counted => i \in Cases
    BY DEF Counted
  <2>2. QED
    BY <1>3, <1>4, <2>1 DEF Paid
<1>6. QED
  BY <1>3, <1>5

(* A comparison that ended says what the rules of its command make of the runs *)
(* of both sides, and one that did not says nothing.                           *)
VerdictRead ==
    /\ doing # "done" => outcome = NoOutcome
    /\ doing = "done" => outcome.verdict = IF study.by = "lab" THEN LabVerdict ELSE SuiteVerdict

(* What the verdicts are made of depends on the runs alone.                    *)
LEMMA VerdictFixed ==
  ASSUME UNCHANGED <<study, baseline, candidate>>
  PROVE  LabVerdict' = LabVerdict /\ SuiteVerdict' = SuiteVerdict
<1>1. Bundles' = Bundles /\ Cases' = Cases
  BY DEF Bundles, Cases
<1>2. Counted' = Counted
  BY <1>1 DEF Counted
<1>3. Succeeded(baseline)' = Succeeded(baseline) /\ Succeeded(candidate)' = Succeeded(candidate)
  BY <1>1 DEF Succeeded
<1>4. /\ CountedSuccess(baseline)' = CountedSuccess(baseline)
      /\ CountedSuccess(candidate)' = CountedSuccess(candidate)
  BY <1>2, <1>3 DEF CountedSuccess
<1>5. \A i : Paid(baseline, i)' = Paid(baseline, i) /\ Paid(candidate, i)' = Paid(candidate, i)
  BY <1>2 DEF Paid
<1>6. CountedCost(baseline)' = CountedCost(baseline) /\ CountedCost(candidate)' = CountedCost(candidate)
  BY <1>1, <1>2 DEF CountedCost, Paid
<1>7. AllMeasured(baseline)' = AllMeasured(baseline) /\ AllMeasured(candidate)' = AllMeasured(candidate)
  BY <1>2 DEF AllMeasured
<1>8. Dearer' = Dearer /\ SameCost' = SameCost
  BY <1>4, <1>6 DEF Dearer, SameCost
<1>9. /\ Keeps' = Keeps /\ Cardinality(Counted)' = Cardinality(Counted)
      /\ (\E i \in Cases : Judged(i).safety)' = (\E i \in Cases : Judged(i).safety)
  BY TallyFixed
<1>10. \A i : Judged(i)' = Judged(i)
  BY <1>1 DEF Judged
<1>11. \A v : CasesWith(v)' = CasesWith(v)
  BY <1>1, <1>10 DEF CasesWith
<1>12. LabVerdict' = LabVerdict
  BY <1>4, <1>7, <1>8, <1>9 DEF LabVerdict
<1>13. SuiteVerdict' = SuiteVerdict
  BY <1>3, <1>9, <1>11 DEF SuiteVerdict
<1>14. QED
  BY <1>12, <1>13

(* A suite recommends what won a task, and lost nothing in any case.           *)
LEMMA SuiteRecommends ==
  ASSUME SuiteInv, SuiteVerdict = "recommend_candidate"
  PROVE  /\ \A i \in Cases : Judged(i).verdict \notin {"candidate_regresses", "insufficient_evidence"}
         /\ \E i \in Cases : i \in Succeeded(candidate) \ Succeeded(baseline)
<1>1. /\ CasesWith("candidate_regresses") = {} /\ CasesWith("insufficient_evidence") = {}
      /\ Cardinality(Succeeded(candidate)) - Cardinality(Succeeded(baseline)) > 0
  BY DEF SuiteVerdict
<1>2. Succeeded(candidate) \in SUBSET Cases /\ Succeeded(baseline) \in SUBSET Cases
  BY DEF Succeeded
<1>3. IsFiniteSet(Succeeded(baseline)) /\ Cardinality(Succeeded(baseline)) \in Nat
      /\ Cardinality(Succeeded(candidate)) \in Nat
  BY <1>2, CasesFinite DEF SuiteInv
<1>4. ~(Succeeded(candidate) \subseteq Succeeded(baseline))
  <2> SUFFICES ASSUME Succeeded(candidate) \subseteq Succeeded(baseline)
               PROVE  FALSE
    OBVIOUS
  <2>1. Cardinality(Succeeded(candidate)) <= Cardinality(Succeeded(baseline))
    BY <1>3, FS_Subset
  <2>2. QED
    BY <1>1, <1>3, <2>1
<1>5. \E i \in Cases : i \in Succeeded(candidate) \ Succeeded(baseline)
  BY <1>2, <1>4
<1>6. QED
  BY <1>1, <1>5 DEF CasesWith

(* A case that is neither open nor a regression was completed if the baseline  *)
(* completed it, on evidence of both runs, and lost no safety evaluator.       *)
LEMMA CaseHeld ==
  ASSUME NEW i \in Cases, Judged(i).verdict \notin {"candidate_regresses", "insufficient_evidence"}
  PROVE  LET b == Bundles[i]  x == baseline[i].run  y == candidate[i].run
         IN  /\ Comparable(b, x) /\ Comparable(b, y) /\ ~MissingMeasurement(b, x, y)
             /\ TaskSuccess(b, x) => TaskSuccess(b, y)
             /\ PassedBy(b, x) \cap SafetyEvaluators \subseteq PassedBy(b, y)
<1> DEFINE b == Bundles[i]
           x == baseline[i].run
           y == candidate[i].run
<1>1. Judged(i) = Comparison(b, x, y)
  BY DEF Judged
<1> HIDE DEF b, x, y
<1>2. Comparable(b, x) /\ Comparable(b, y) /\ ~MissingMeasurement(b, x, y) /\ ~Regresses(b, x, y)
  BY <1>1 DEF Comparison
<1>3. PassedBy(b, x) \subseteq PassedBy(b, y) /\ (OutcomeMatches(b, x) => OutcomeMatches(b, y))
  BY <1>2 DEF Regresses, EvaluatorRegressions, OutcomeRegression
<1>4. TaskSuccess(b, x) => TaskSuccess(b, y)
  BY <1>3 DEF TaskSuccess
<1>5. QED
  BY <1>2, <1>3, <1>4 DEF b, x, y

(* Where as many tasks were won, a candidate that is not dearer and does not   *)
(* cost the same costs less.                                                   *)
LEMMA Cheaper ==
  ASSUME NEW p \in Int, NEW q \in Int, NEW n \in Nat, n > 0, ~(p * n > q * n), p * n # q * n
  PROVE  p < q
<1>1. p * n < q * n
  BY SMT
<1>2. CASE p >= q
  <2>1. p * n >= q * n
    BY <1>2, SMT
  <2>2. QED
    BY <1>1, <2>1
<1>3. QED
  BY <1>2

(* The lab recommends what won a task or money among cases that are measured.  *)
LEMMA LabRecommends ==
  ASSUME SuiteInv, doing = "done", LabVerdict = "recommend_candidate"
  PROVE  /\ Cardinality(Counted) >= MinComparable /\ ~Keeps
         /\ AllMeasured(baseline) /\ AllMeasured(candidate)
         /\ \/ \E i \in Counted : i \in Succeeded(candidate) \ Succeeded(baseline)
            \/ CountedCost(candidate) < CountedCost(baseline)
<1> DEFINE b == CountedSuccess(baseline)
           c == CountedSuccess(candidate)
           B == Succeeded(baseline) \cap Counted
           C == Succeeded(candidate) \cap Counted
<1>1. Counted \in SUBSET Cases /\ B \in SUBSET Cases /\ C \in SUBSET Cases
  BY DEF Counted
<1>2. /\ Cardinality(Counted) \in Nat /\ b \in Nat /\ c \in Nat /\ b = Cardinality(B) /\ c = Cardinality(C)
      /\ IsFiniteSet(B) /\ MinComparable \in Nat
  BY <1>1, CasesFinite, SuiteAssumption DEF SuiteInv, CountedSuccess
<1>3. /\ ~(Cardinality(Counted) < MinComparable) /\ ~Keeps
      /\ ~(b = 0 /\ c = 0) /\ AllMeasured(baseline) /\ AllMeasured(candidate)
      /\ ~(c < b) /\ ~Dearer /\ ~(c = b /\ SameCost)
  BY DEF LabVerdict
<1> HIDE DEF B, C
<1>4. CASE c > b
  <2>1. ~(C \subseteq B)
    <3> SUFFICES ASSUME C \subseteq B
                 PROVE  FALSE
      OBVIOUS
    <3>1. Cardinality(C) <= Cardinality(B)
      BY <1>2, FS_Subset
    <3>2. QED
      BY <1>2, <1>4, <3>1
  <2>2. \E i \in Counted : i \in Succeeded(candidate) \ Succeeded(baseline)
    BY <2>1 DEF B, C
  <2>3. QED
    BY <1>2, <1>3, <2>2
<1>5. CASE c = b
  <2>1. b > 0 /\ c > 0
    BY <1>2, <1>3, <1>5
  <2> DEFINE p == CountedCost(candidate)
             q == CountedCost(baseline)
  <2>2. p \in Int /\ q \in Int
    BY RunsAreRuns, CostIsNumber, Asked DEF SuiteInv
  <2>3. ~(p * b > q * c) /\ ~(p * b = q * c)
    BY <1>3, <1>5, <2>1 DEF Dearer, SameCost
  <2> HIDE DEF b, c, p, q
  <2>4. p < q
    BY <1>2, <1>5, <2>1, <2>2, <2>3, Cheaper
  <2>5. QED
    BY <1>2, <1>3, <2>4 DEF p, q
<1>6. QED
  BY <1>2, <1>3, <1>4, <1>5

(* A counted case of a lab that recommends.                                    *)
LEMMA CountedHeld ==
  ASSUME SuiteInv, doing = "done", NEW i \in Counted, ~Keeps, AllMeasured(baseline), AllMeasured(candidate)
  PROVE  LET b == Bundles[i]  x == baseline[i].run  y == candidate[i].run
         IN  /\ Comparable(b, x) /\ Comparable(b, y) /\ ~MissingMeasurement(b, x, y)
             /\ TaskSuccess(b, x) => TaskSuccess(b, y)
             /\ Unmeasured \notin {x.latency, y.latency, x.cost, y.cost}
             /\ x.tokens > 0 /\ y.tokens > 0
<1> DEFINE b == Bundles[i]
           x == baseline[i].run
           y == candidate[i].run
<1>1. i \in Cases /\ x.aborted = "none" /\ y.aborted = "none"
  BY DEF Counted
<1>2. x \in Run /\ y \in Run
  BY <1>1, RunsAreRuns
<1>3. /\ Unmeasured \notin {x.latency, y.latency, x.cost, y.cost}
      /\ x.tokens > 0 /\ y.tokens > 0
  BY DEF AllMeasured
<1>4. TaskSuccess(b, x) => TaskSuccess(b, y)
  <2>1. i \in Succeeded(baseline) => i \in Succeeded(candidate)
    BY DEF Keeps
  <2>2. QED
    BY <1>1, <2>1 DEF Succeeded
<1> HIDE DEF b, x, y
<1>5. Comparable(b, x) /\ Comparable(b, y)
  BY <1>1 DEF Comparable, RunVerdict
<1>6. ~MissingMeasurement(b, x, y)
  <2>1. x.tokens \in Int /\ y.tokens \in Int
    BY <1>2 DEF Run
  <2>2. ~(x.tokens <= 0) /\ ~(y.tokens <= 0)
    BY <1>3, <2>1
  <2>3. QED
    BY <1>3, <2>2 DEF MissingMeasurement
<1>7. QED
  BY <1>3, <1>4, <1>5, <1>6 DEF b, x, y

(* A candidate is recommended on measured, comparable cases alone: it completed *)
(* every task that the baseline completed, lost no safety evaluator of a suite, *)
(* and won a task or, in the lab, money.                                       *)
THEOREM RecommendationsEarned == SuiteSpec => []RecommendationIsEarned
<1>1. (\E s \in Studies : SuiteInit(s)) => VerdictRead
  BY DEF SuiteInit, VerdictRead
<1>2. VerdictRead /\ [SuiteStep]_suiteVars => VerdictRead'
  <2> SUFFICES ASSUME VerdictRead, [SuiteStep]_suiteVars
               PROVE  VerdictRead'
    OBVIOUS
  <2>1. CASE Validate \/ BaselineRuns \/ CandidateRuns \/ Abandon
    <3>1. doing # "done" /\ doing' # "done" /\ outcome' = outcome
      BY <2>1 DEF Validate, BaselineRuns, CandidateRuns, Abandon, BaselineDue, CandidateDue
    <3>2. QED
      BY <3>1 DEF VerdictRead, NoOutcome
  <2>2. CASE Finalize
    <3>1. UNCHANGED <<study, baseline, candidate>> /\ doing' = "done" /\ outcome' = Tallied
      BY <2>2 DEF Finalize
    <3>2. Tallied.verdict = IF study.by = "lab" THEN LabVerdict ELSE SuiteVerdict
      BY DEF Tallied
    <3>3. QED
      BY <3>1, <3>2, VerdictFixed DEF VerdictRead
  <2>3. CASE UNCHANGED suiteVars
    <3>1. UNCHANGED <<study, doing, baseline, candidate, outcome>>
      BY <2>3 DEF suiteVars
    <3>2. QED
      BY <3>1, VerdictFixed DEF VerdictRead, NoOutcome
  <2>4. QED
    BY <2>1, <2>2, <2>3 DEF SuiteStep
<1>3. SuiteInv /\ VerdictRead => RecommendationIsEarned
  <2> SUFFICES ASSUME SuiteInv, VerdictRead, Recommended
               PROVE  RecommendationIsEarned
    BY DEF RecommendationIsEarned
  <2>1. doing = "done"
    BY DEF VerdictRead, Recommended, NoOutcome
  <2>2. CASE study.by = "lab"
    <3>1. LabVerdict = "recommend_candidate"
      BY <2>1, <2>2 DEF VerdictRead, Recommended
    <3>2. /\ Cardinality(Counted) >= MinComparable /\ ~Keeps
          /\ AllMeasured(baseline) /\ AllMeasured(candidate)
          /\ \/ \E i \in Counted : i \in Succeeded(candidate) \ Succeeded(baseline)
             \/ CountedCost(candidate) < CountedCost(baseline)
      BY <2>1, <3>1, LabRecommends
    <3>3. \/ \E i \in Counted : TaskSuccess(Bundles[i], candidate[i].run)
                                /\ ~TaskSuccess(Bundles[i], baseline[i].run)
          \/ CountedCost(candidate) < CountedCost(baseline)
      BY <3>2 DEF Succeeded, Counted
    <3>4. \A i \in Counted :
            LET b == Bundles[i]  x == baseline[i].run  y == candidate[i].run
            IN  /\ Comparable(b, x) /\ Comparable(b, y) /\ ~MissingMeasurement(b, x, y)
                /\ TaskSuccess(b, x) => TaskSuccess(b, y)
                /\ Unmeasured \notin {x.latency, y.latency, x.cost, y.cost}
                /\ x.tokens > 0 /\ y.tokens > 0
      BY <2>1, <3>2, CountedHeld
    <3>5. QED
      BY <2>2, <3>2, <3>3, <3>4 DEF RecommendationIsEarned
  <2>3. CASE study.by # "lab"
    <3>1. SuiteVerdict = "recommend_candidate"
      BY <2>1, <2>3 DEF VerdictRead, Recommended
    <3>2. \A i \in Cases : Judged(i).verdict \notin {"candidate_regresses", "insufficient_evidence"}
      BY <3>1, SuiteRecommends
    <3>3. \E i \in Cases : TaskSuccess(Bundles[i], candidate[i].run)
                           /\ ~TaskSuccess(Bundles[i], baseline[i].run)
      BY <3>1, SuiteRecommends DEF Succeeded
    <3>4. \A i \in Cases :
            LET b == Bundles[i]  x == baseline[i].run  y == candidate[i].run
            IN  /\ Comparable(b, x) /\ Comparable(b, y) /\ ~MissingMeasurement(b, x, y)
                /\ TaskSuccess(b, x) => TaskSuccess(b, y)
                /\ PassedBy(b, x) \cap SafetyEvaluators \subseteq PassedBy(b, y)
      BY <3>2, CaseHeld
    <3>5. QED
      BY <2>3, <3>3, <3>4 DEF RecommendationIsEarned
  <2>4. QED
    BY <2>2, <2>3
<1>4. QED
  BY <1>1, <1>2, <1>3, SuiteInvariance, PTL DEF SuiteSpec
=============================================================================
