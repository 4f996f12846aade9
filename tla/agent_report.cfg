\* No faults, no contention: the model calls tools with more than one order.
CONSTANTS
  Orders <- MCOrders
  Mine <- MCMine
  InitialStatus <- MCInitialStatus
  Contended = {}
  Scripts <- NoScripts
SPECIFICATION Spec
INVARIANTS ConfirmedRefundIsReported
CHECK_DEADLOCK FALSE
