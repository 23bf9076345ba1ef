--------------------------- MODULE MCCreateProfile ---------------------------
EXTENDS CreateProfile

MCRequests ==
  {[NoRequest EXCEPT !.pool = "lvm", !.disks = Node, !.init = TRUE, !.disabled = TRUE],
   [NoRequest EXCEPT !.migrate = TRUE, !.format = TRUE, !.minor = 1, !.auto = TRUE],
   [NoRequest EXCEPT !.migrate = TRUE, !.minor = 1]}
=============================================================================
