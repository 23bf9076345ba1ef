----------------------------- MODULE MCResources -----------------------------
EXTENDS Resources

Create(r, m, disk, dev, hosts, force) ==
  [op |-> "create", name |-> r, minor |-> m, disk |-> disk, dev |-> dev,
   hosts |-> hosts, force |-> force]

Peer == CHOOSE n \in Node \ {Controller} : TRUE
Pair == {Controller, Peer}

Commanded ==
  {"init", "delete", "up", "down", "primary", "secondary", "connect", "disconnect", "recover", "mkfs", "mount"}

(* A cluster of two with every operation on a resource; one with pools; one *)
(* with creations that compete for a disk and a minor; and one of three,    *)
(* where files go to two peers.                                             *)
MCPlans ==
  {[members |-> Pair, ops |-> Commanded, creates |-> {Create("r1", 0, "d1", "d1", Pair, FALSE)}],
   [members |-> Pair, ops |-> {"init", "pool"},
    creates |-> {Create("r1", 0, "d1", "d1", Pair, FALSE), Create("r2", 20, "d1", "lvm", Pair, FALSE)}],
   [members |-> Pair, ops |-> {"init", "delete"},
    creates |-> {Create("r1", 20, "d1", "d1", Pair, FALSE), Create("r2", 0, "d1", "d1", Pair, FALSE),
                 Create("r2", 200, "d1", "d1", {Peer}, TRUE), Create("r2", 200, "d1", "zfs", {Peer}, FALSE)}],
   [members |-> Node, ops |-> {"init"},
    creates |-> {Create("r1", 0, "d1", "d1", Node, FALSE), Create("r2", 2000, "d1", "d1", {Peer}, FALSE)}]}

ReusePlans ==
  {[members |-> Pair, ops |-> {"init", "delete"},
    creates |-> {Create(r, 20, d, d, Pair, FALSE) : r \in Resource, d \in {"d1", "d2"}}]}
=============================================================================
