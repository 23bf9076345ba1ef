CONSTANTS
  Host = {1, 2, 3}
  Ip = {1, 2, 3}
  Dns <- MCDns
  Uuid = {11, 12}
  Res <- NoRes
  Proc = {p1, p2}
  Crashes = FALSE
SPECIFICATION Spec
INVARIANT KeepsAdded
