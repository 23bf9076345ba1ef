CONSTANTS
  Raw = {"d1"}
  Node = {n1, n2}
  Controller = n1
  Others = {0}
  MaxTurns = 2
  MaxRequests = 2
  Requests <- MCRequests
SPECIFICATION Spec
INVARIANTS TypeOK ReactorsGetWholeResource  SetupUndone
PROPERTY RequestAnswered
