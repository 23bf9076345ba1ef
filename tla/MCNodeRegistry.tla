--------------------------- MODULE MCNodeRegistry ---------------------------
EXTENDS NodeRegistry

(* Host 1 resolves to its own address, host 2 to one no .res file has.       *)
MCDns == [h \in Host |-> IF h = 1 THEN 1 ELSE 3]

(* Host 1 appears in two .res files with two addresses; the others are only *)
(* ever added by hand.                                                      *)
MCRes == <<[host |-> 1, ip |-> 1], [host |-> 1, ip |-> 2]>>

(* No .res file at all.                                                     *)
NoRes == <<>>
============================================================================
