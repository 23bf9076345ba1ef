CONSTANTS
  Node = {n1, n2, n3}
  Controller = n1
SPECIFICATION Spec
INVARIANTS TypeOK CleanDelete SingleWriter
SYMMETRY Symmetry
