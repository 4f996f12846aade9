\* One session that saves one key three times, nobody else.
CONSTANTS
  Sessions = {s1}
  Keys = {k1}
  Contents = {a, b}
  MaxSaves = 3
SPECIFICATION Spec
INVARIANTS SavedCaseIsStored
CHECK_DEADLOCK FALSE
