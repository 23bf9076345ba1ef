CONSTANTS
  Raw = {"d1"}
  Node = {n1, n2, n3}
  Controller = n1
  Resource = {"r1", "r2"}
  Plans <- MCPlans
  System = {}
SPECIFICATION Spec
INVARIANTS TypeOK MinorsUnique DevicesApart RollbackClean InitReportsPeers
PROPERTY PoolsSpareResources
