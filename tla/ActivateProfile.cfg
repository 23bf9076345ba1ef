CONSTANTS
  Node = {n1, n2, n3}
  Controller = n1
  Faults = {"partition", "failover", "foreign", "rejoin"}
  MaxFaults = 1
  MaxLooks = 2
SPECIFICATION FairSpec
INVARIANTS TypeOK 
PROPERTY RequestAnswered
