-------------------------- MODULE MCFailureReview --------------------------
(* Instances of the failure review for TLC.                                *)
EXTENDS FailureReview

CONSTANTS k1, k2
PredictFirst == [g \in Groups |-> k1]
=============================================================================
