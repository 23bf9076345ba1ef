CONSTANTS
  Node = {n1, n2, n3}
  Controller = n1
  Client = {"a", "b"}
  First <- MCFirst
  Puts <- MCPuts
  Plans <- MCPlans
SPECIFICATION Spec
INVARIANTS TypeOK SyncedHold SteadyStatus ActiveWasPrimary 
PROPERTIES Published
CHECK_DEADLOCK FALSE
