CONSTANTS
  Host = {1, 2}
  Ip = {1, 2, 3}
  Dns <- MCDns
  Uuid = {11, 12}
  Res <- MCRes
  Proc = {p1}
  Crashes = TRUE
SPECIFICATION Spec
INVARIANTS TypeOK AddedDistinct KeepsAdded DeletedStaysDeleted
PROPERTY ListDeduplicates
