SPECIFICATION Spec
CONSTANTS
  alice = alice  bob = bob  o1 = o1  o2 = o2  w1 = w1
  r1 = r1  r2 = r2  r3 = r3  r4 = r4
  Requests = {r1, r2, r3}
  Workflows = {w1}
  Customers = {alice}
  Orders = {o1}
  Owner <- AliceOwns
  InitialStatus <- Delivered
  Intents = {"refund"}
  SharedService = FALSE
  Flaky = {}
  MaxAborts = 1
CHECK_DEADLOCK FALSE
INVARIANTS CompletedIsRefunded
