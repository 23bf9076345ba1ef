CONSTANTS
  Node = {n1, n2, n3}
  Controller = n1
  Failover = TRUE
SPECIFICATION FairSpec
INVARIANTS TypeOK 
PROPERTY RequestAnswered
