\* Three sessions of up to two saves on one key, two contents.
CONSTANTS
  Sessions = {s1, s2, s3}
  Keys = {k1}
  Contents = {a, b}
  MaxSaves = 2
SPECIFICATION FairSpec
INVARIANTS HistoryIsConsecutive ImportsAreStored CaseAnswersAreUsable
PROPERTIES SaveReturns
CHECK_DEADLOCK FALSE
