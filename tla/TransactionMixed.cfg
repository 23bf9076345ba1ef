CONSTANTS
  N = 5
  Critical = {1, 2, 3, 5}
  HasRollback = {1, 3}
  Masked = {2}
SPECIFICATION FairSpec
INVARIANTS IInv CommittedComplete RolledBackClean
PROPERTIES UndoesInReverse Ends
CHECK_DEADLOCK FALSE
