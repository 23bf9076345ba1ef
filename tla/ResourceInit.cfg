CONSTANTS
  Raw = {"d1", "d2"}
  Node = {n1, n2}
  Controller = n1
  Resource = {"r1", "r2"}
  Plans <- ReusePlans
  System = {}
SPECIFICATION Spec
INVARIANTS InitSurfacesPeers
