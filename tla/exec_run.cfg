\* Two clients, queues of two events, turns of at most two events.
CONSTANTS
  Clients = {c1, c2}
  Buffer = 2
  Evaluators = 2
  MaxTurnEvents = 2
  MaxCases = 1
SPECIFICATION FairSpec
INVARIANTS EnvironmentIsRolledBack ResultIsTranscript StreamIsDelivered
PROPERTIES ExecutionEnds
CHECK_DEADLOCK FALSE
