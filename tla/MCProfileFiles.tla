---------------------------- MODULE MCProfileFiles ----------------------------
EXTENDS ProfileFiles

(* The file that creation renders, and one that a client puts.              *)
MCFirst ==
  Generated([filesystem |-> FALSE, unit |-> FALSE, vip |-> FALSE, agents |-> <<"bracket">>,
             services |-> <<"service">>, advanced |-> TRUE])
MCPuts ==
  {[promoter |-> TRUE, start |-> <<"vip", "service">>, inline |-> FALSE, advanced |-> TRUE]}

ByClient(a, b) == [r \in Client |-> IF r = "a" THEN a ELSE b]

(* Address changes against a put and a switched node; synchronisations      *)
(* against a put, from outside the cluster and in it, and against switches; *)
(* the editor against a put, likewise; and looks against switches, from     *)
(* every state switches leave.                                              *)
MCPlans ==
  {[enabled |-> {Node}, embedded |-> TRUE, turns |-> ByClient(1, 1),
    asks |-> ByClient({"addVip", "removeVip"}, {"put", "disable"})],
   [enabled |-> {Node}, embedded |-> FALSE, turns |-> ByClient(1, 1),
    asks |-> ByClient({"sync"}, {"put"})],
   [enabled |-> {Node}, embedded |-> TRUE, turns |-> ByClient(1, 1),
    asks |-> ByClient({"sync"}, {"put", "disable", "enableAll"})],
   [enabled |-> {Node}, embedded |-> FALSE, turns |-> ByClient(2, 1),
    asks |-> ByClient({"load", "save"}, {"put"})],
   [enabled |-> {Node}, embedded |-> TRUE, turns |-> ByClient(2, 1),
    asks |-> ByClient({"load", "save"}, {"put"})],
   [enabled |-> {{}, {Controller}, Node}, embedded |-> TRUE, turns |-> ByClient(1, 1),
    asks |-> ByClient({"list", "status"}, {"enable", "disable", "evict"})]}
=============================================================================
