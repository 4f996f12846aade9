\* One turn against every fault script of MCScripts, with one contended order.
CONSTANTS
  Orders <- MCOrders
  Mine <- MCMine
  InitialStatus <- MCInitialStatus
  Contended <- MCContended
  Scripts <- MCScripts
SPECIFICATION FairSpec
INVARIANTS RefundNeedsConsent MutationsAreEffects RetriesAreScripted
PROPERTIES TurnEnds CallerIsServed
CHECK_DEADLOCK FALSE
