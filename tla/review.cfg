\* Three sessions on one group; proposals may be there from the start.
CONSTANTS
  Sessions = {s1, s2, s3}
  Groups = {1}
  Reviewers = {ann, ben}
  k1 = k1  k2 = k2
  Kinds = {k1, k2}
  Predicted <- PredictFirst
SPECIFICATION FairSpec
INVARIANTS DecisionIsRecorded ReviewAnswersAreTrue ConsumedIsConfirmed
PROPERTIES DecisionIsFinal SessionEnds
CHECK_DEADLOCK FALSE
