CONSTANTS
  Node = {n1, n2, n3}
  Controller = n1
  Faults = {"rejoin"}
  MaxFaults = 1
  MaxLooks = 2
SPECIFICATION Spec
INVARIANT NoDivergence
