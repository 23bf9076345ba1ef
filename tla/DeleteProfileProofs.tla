------------------------ MODULE DeleteProfileProofs ------------------------
(***************************************************************************)
(* Proofs about DeleteProfile for every finite set of nodes.  No step of a *)
(* deletion connects a node or makes one Primary; only a reactor does the  *)
(* latter, and DRBD lets it only where no connected node is.  So connected *)
(* nodes are never both Primary, and two nodes with quorum are connected.  *)
(***************************************************************************)
EXTENDS DeleteProfile, FiniteSetTheorems, TLAPS

USE ControllerAssumption

(* What a node may turn into without becoming Primary or getting connected. *)
Online(s) == s.up /\ ~s.alone /\ s.joined
Weaker(t, s) ==
  /\ t \in NodeState
  /\ t.role = "Primary" => s.role = "Primary"
  /\ Online(t) => Online(s)

Exclusive == \A m, n \in Node :
  m # n /\ linked /\ Online(node[m]) /\ Online(node[n])
    => ~(node[m].role = "Primary" /\ node[n].role = "Primary")

IInv == TypeOK /\ Exclusive

---------------------------------------------------------------------------
LEMMA RoleIsKept == ASSUME NEW s \in NodeState PROVE Weaker(s, s)
  BY DEF Weaker

LEMMA ReactorDisabledWeaker ==
  ASSUME NEW s \in NodeState PROVE Weaker(ReactorDisabled(s), s)
<1>1. Weaker([s EXCEPT !.file = "disabled", !.armed = FALSE], s)
  BY DEF Weaker, NodeState, Online, File
<1>2. Weaker([s EXCEPT !.file = "disabled", !.armed = FALSE, !.stack = FALSE, !.svc = FALSE,
                       !.mount = "none", !.role = "Secondary"], s)
  BY DEF Weaker, NodeState, Online, Role, Mount, File
<1>3. QED
  BY <1>1, <1>2, RoleIsKept DEF ReactorDisabled

LEMMA DemotedWeaker == ASSUME NEW s \in NodeState PROVE Weaker(Demoted(s), s)
  BY DEF Weaker, Demoted, NodeState, Online, Role

LEMMA UnmountedWeaker == ASSUME NEW s \in NodeState PROVE Weaker(Unmounted(s), s)
  BY DEF Weaker, Unmounted, NodeState, Online, Mount

LEMMA DownWeaker == ASSUME NEW s \in NodeState PROVE Weaker(Down(s), s)
  BY DEF Weaker, Down, DownCommand, NodeState, Online, Role

LEMMA WipedWeaker ==
  ASSUME TypeOK, NEW n \in Node PROVE Weaker(Wiped(n), node[n])
  BY DEF Weaker, Wiped, TypeOK, ClusterTypeOK, NodeState, Online, Disk

LEMMA ReloadedWeaker ==
  ASSUME NEW s \in NodeState, NEW t \in Reloaded(s) PROVE Weaker(t, s)
  <1>1. \/ t = [s EXCEPT !.armed = TRUE]
        \/ t = [s EXCEPT !.armed = FALSE]
        \/ t = [s EXCEPT !.armed = FALSE, !.stack = FALSE, !.svc = FALSE, !.mount = "none",
                         !.role = "Secondary"]
    BY DEF Reloaded
  <1>2. CASE t = [s EXCEPT !.armed = TRUE]
    BY <1>2 DEF Weaker, NodeState, Online
  <1>3. CASE t = [s EXCEPT !.armed = FALSE]
    BY <1>3 DEF Weaker, NodeState, Online
  <1>4. CASE t = [s EXCEPT !.armed = FALSE, !.stack = FALSE, !.svc = FALSE, !.mount = "none",
                         !.role = "Secondary"]
    BY <1>4 DEF Weaker, NodeState, Online, Role, Mount
  <1> QED
    BY <1>1, <1>2, <1>3, <1>4

LEMMA StopWeaker ==
  ASSUME NEW s \in NodeState PROVE Weaker([s EXCEPT !.svc = FALSE], s)
  BY DEF Weaker, NodeState, Online

LEMMA RemoveWeaker ==
  ASSUME NEW s \in NodeState PROVE Weaker([s EXCEPT !.file = "absent"], s)
  BY DEF Weaker, NodeState, Online, File

LEMMA DisconnectWeaker ==
  ASSUME NEW s \in NodeState, NEW b \in BOOLEAN
  PROVE  Weaker([s EXCEPT !.alone = @ \/ b], s)
  <1>1. (s.alone \/ b) \in BOOLEAN
    OBVIOUS
  <1> QED
    BY <1>1 DEF Weaker, NodeState, Online

LEMMA StackWeaker ==
  ASSUME NEW s \in NodeState
  PROVE  Weaker([s EXCEPT !.mount = "own", !.stack = TRUE, !.svc = TRUE], s)
  BY DEF Weaker, NodeState, Online, Mount

LEMMA QuorumLossWeaker ==
  ASSUME NEW s \in NodeState
  PROVE  Weaker([s EXCEPT !.mount = "none", !.stack = FALSE, !.svc = FALSE,
                          !.role = "Secondary"], s)
  BY DEF Weaker, NodeState, Online, Mount, Role

---------------------------------------------------------------------------
(* A step that weakens every node keeps the types and the exclusion.        *)
LEMMA WeakerKeeps ==
  ASSUME IInv, linked' = linked, node' \in [Node -> NodeState],
         \A n \in Node : Weaker(node'[n], node[n])
  PROVE  ClusterTypeOK' /\ Exclusive'
  BY DEF IInv, TypeOK, ClusterTypeOK, Exclusive, Weaker, Online

LEMMA SetKeeps ==
  ASSUME IInv, NEW n \in Node, NEW s, Set(n, s), Weaker(s, node[n])
  PROVE  ClusterTypeOK' /\ Exclusive'
  <1>1. node \in [Node -> NodeState] /\ linked' = linked /\ s \in NodeState
    BY DEF IInv, TypeOK, ClusterTypeOK, Set, Weaker
  <1>2. node' \in [Node -> NodeState]
    BY <1>1 DEF Set
  <1>3. \A m \in Node : node'[m] = IF m = n THEN s ELSE node[m]
    BY <1>1 DEF Set
  <1>4. \A m \in Node : Weaker(node'[m], node[m])
    BY <1>1, <1>3, RoleIsKept
  <1> QED
    BY <1>1, <1>2, <1>4, WeakerKeeps

LEMMA QuietKeeps ==
  ASSUME IInv, Quiet PROVE ClusterTypeOK' /\ Exclusive'
  BY DEF IInv, TypeOK, ClusterTypeOK, Exclusive, Quiet, clusterVars, Online

(* A promotion by a reactor: no connected node is Primary then.             *)
LEMMA PromoteKeeps ==
  ASSUME IInv, NEW n \in Node, ReactorPromote(n)
  PROVE  ClusterTypeOK' /\ Exclusive'
  <1>1. node \in [Node -> NodeState] /\ linked \in BOOLEAN /\ linked' = linked
    BY DEF IInv, TypeOK, ClusterTypeOK, ReactorPromote
  <1>2. node' = [node EXCEPT ![n] = [node[n] EXCEPT !.role = "Primary", !.stack = FALSE]]
    BY <1>1 DEF ReactorPromote
  <1>3. [node[n] EXCEPT !.role = "Primary", !.stack = FALSE] \in NodeState
    BY <1>1 DEF NodeState, Role
  <1>4. node' \in [Node -> NodeState]
    BY <1>1, <1>2, <1>3
  <1>5. \A m \in Node : Online(node'[m]) = Online(node[m])
    BY <1>1, <1>2 DEF Online, NodeState
  <1>6. \A m \in Node \ {n} : node'[m].role = node[m].role
    BY <1>1, <1>2
  <1>7. \A m \in Node \ {n} : linked /\ Online(node[m]) /\ Online(node[n])
                               => node[m].role # "Primary"
    BY DEF ReactorPromote, CanPromote, PeerIsPrimary, Peers, Connected, Online
  <1>8. Exclusive'
    <2> SUFFICES ASSUME NEW k \in Node, NEW m \in Node, k # m, linked,
                        Online(node'[k]), Online(node'[m])
                 PROVE  ~(node'[k].role = "Primary" /\ node'[m].role = "Primary")
      BY <1>1 DEF Exclusive, Online
    <2>1. Online(node[k]) /\ Online(node[m])
      BY <1>5
    <2>2. CASE k = n
      BY <2>1, <2>2, <1>6, <1>7
    <2>3. CASE m = n
      BY <2>1, <2>3, <1>6, <1>7
    <2>4. CASE k # n /\ m # n
      BY <2>1, <2>4, <1>6 DEF IInv, Exclusive
    <2> QED
      BY <2>2, <2>3, <2>4
  <1> QED
    BY <1>1, <1>4, <1>8 DEF ClusterTypeOK

(* A reload of the reactors changes each node as ReloadedWeaker says.       *)
LEMMA ReloadKeeps ==
  ASSUME IInv, linked' = linked, node' \in ReloadOutcomes
  PROVE  ClusterTypeOK' /\ Exclusive'
  <1>1. node \in [Node -> NodeState]
    BY DEF IInv, TypeOK, ClusterTypeOK
  <1>2. \A n \in Node : node'[n] = node[n] \/ node'[n] \in Reloaded(node[n])
    BY DEF ReloadOutcomes
  <1>3. \A n \in Node : Weaker(node'[n], node[n])
    BY <1>1, <1>2, RoleIsKept, ReloadedWeaker
  <1>4. node' \in [Node -> NodeState]
    BY <1>3 DEF ReloadOutcomes, Weaker
  <1> QED
    BY <1>3, <1>4, WeakerKeeps

---------------------------------------------------------------------------
(* No step changes what the outside shows beyond these four kinds.          *)
LEMMA NextKeepsCluster ==
  ASSUME IInv, [Next]_vars
  PROVE  ClusterTypeOK' /\ Exclusive'
  <1> USE DEF Step
  <1>0. c \in Node /\ at \in Node /\ node \in [Node -> NodeState]
    BY DEF IInv, TypeOK, ClusterTypeOK, c
  <1>q. ASSUME Quiet PROVE ClusterTypeOK' /\ Exclusive'
    BY <1>q, QuietKeeps
  <1>1. CASE Request \/ Abort \/ ReadNodes
    BY <1>1, <1>q DEF Request, Abort, ReadNodes
  <1>2. CASE DisableReactor
    BY <1>0, <1>2, <1>q, SetKeeps, ReactorDisabledWeaker DEF DisableReactor
  <1>3. CASE StopServices
    BY <1>0, <1>3, <1>q, SetKeeps, StopWeaker DEF StopServices
  <1>4. CASE DemoteLocal
    BY <1>0, <1>4, SetKeeps, DemotedWeaker DEF DemoteLocal
  <1>5. CASE UnmountLocal
    BY <1>0, <1>5, SetKeeps, UnmountedWeaker DEF UnmountLocal
  <1>6. CASE DisconnectNode
    <2>1. node[at] \in NodeState /\ node[at].up \in BOOLEAN
      BY <1>0 DEF NodeState
    <2>2. Weaker([node[at] EXCEPT !.alone = @ \/ node[at].up], node[at])
      BY <2>1, DisconnectWeaker
    <2> QED
      BY <1>0, <1>6, <1>q, <2>2, SetKeeps DEF DisconnectNode, Sent, Lost
  <1>7. CASE Reload
    BY <1>7, ReloadKeeps DEF Reload
  <1>8. ASSUME NEW n \in Node,
               SecondaryNode(n) \/ DownNode(n) \/ WipeNode(n) \/ RemoveRes(n) \/ RemovePromoter(n)
        PROVE  ClusterTypeOK' /\ Exclusive'
    <2>1. CASE SecondaryNode(n)
      BY <1>0, <2>1, <1>q, SetKeeps, DemotedWeaker DEF SecondaryNode, Sent, Lost
    <2>2. CASE DownNode(n)
      BY <1>0, <2>2, <1>q, SetKeeps, DownWeaker DEF DownNode, Sent, Lost
    <2>3. CASE WipeNode(n)
      BY <1>0, <2>3, <1>q, SetKeeps, WipedWeaker DEF WipeNode, Sent, Lost, IInv
    <2>4. CASE RemoveRes(n)
      BY <2>4, <1>q DEF RemoveRes, Lost
    <2>5. CASE RemovePromoter(n)
      BY <1>0, <2>5, <1>q, SetKeeps, RemoveWeaker DEF RemovePromoter, Sent, Lost
    <2> QED
      BY <1>8, <2>1, <2>2, <2>3, <2>4, <2>5
  <1>9. CASE Environment
    <2>1. PICK n \in Node : ReactorPromote(n) \/ ReactorStack(n) \/ ReactorQuorumLoss(n)
      BY <1>9 DEF Environment
    <2>2. CASE ReactorPromote(n)
      BY <2>2, PromoteKeeps
    <2>3. CASE ReactorStack(n)
      <3>1. Set(n, [node[n] EXCEPT !.mount = "own", !.stack = TRUE, !.svc = TRUE])
        BY <1>0, <2>3 DEF ReactorStack, Set
      <3> QED
        BY <1>0, <3>1, SetKeeps, StackWeaker
    <2>4. CASE ReactorQuorumLoss(n)
      <3>1. Set(n, [node[n] EXCEPT !.mount = "none", !.stack = FALSE, !.svc = FALSE,
                                   !.role = "Secondary"])
        BY <1>0, <2>4 DEF ReactorQuorumLoss, Set
      <3> QED
        BY <1>0, <3>1, SetKeeps, QuorumLossWeaker
    <2> QED
      BY <2>1, <2>2, <2>3, <2>4
  <1>10. CASE UNCHANGED vars
    BY <1>10, <1>q DEF vars, Quiet, clusterVars
  <1> QED
    BY <1>1, <1>2, <1>3, <1>4, <1>5, <1>6, <1>7, <1>8, <1>9, <1>10 DEF Next, Handler

(* The request's own variables keep their types.                            *)
LEMMA NextKeepsRequest ==
  ASSUME IInv, [Next]_vars
  PROVE  /\ pc' \in Terminal \cup Steps
         /\ todo' \subseteq Node /\ at' \in Node /\ res' \subseteq Node
         /\ asked' \in BOOLEAN /\ tidy' \in BOOLEAN
  <1> USE DEF IInv, TypeOK, Terminal, Steps
  <1>1. CASE Request \/ Abort \/ Environment \/ UNCHANGED vars
    BY <1>1 DEF Request, Abort, Environment, vars
  <1>2. CASE DisableReactor \/ StopServices \/ DemoteLocal \/ ReadNodes \/ UnmountLocal \/ Reload
    BY <1>2 DEF Step, DisableReactor, StopServices, DemoteLocal, ReadNodes, UnmountLocal, Reload
  <1>3. CASE DisconnectNode
    BY <1>3 DEF DisconnectNode, Sent, Lost
  <1>4. ASSUME NEW n \in Node,
               SecondaryNode(n) \/ DownNode(n) \/ WipeNode(n) \/ RemoveRes(n) \/ RemovePromoter(n)
        PROVE  /\ pc' \in Terminal \cup Steps
               /\ todo' \subseteq Node /\ at' \in Node /\ res' \subseteq Node
               /\ asked' \in BOOLEAN /\ tidy' \in BOOLEAN
    BY <1>4 DEF Sent, Lost, SecondaryNode, DownNode, WipeNode, RemoveRes, RemovePromoter, Visit
  <1> QED
    BY <1>1, <1>2, <1>3, <1>4 DEF Next, Handler

LEMMA InitIInv == Init => IInv
  <1> SUFFICES ASSUME Init PROVE IInv
    OBVIOUS
  <1>1. FreshNode \in NodeState
    BY DEF FreshNode, NodeState, Role, Disk, Lineage, Mount, File
  <1>2. SyncedNode \in NodeState
    BY <1>1 DEF SyncedNode, NodeState, Disk, Lineage
  <1>3. ServingNode \in NodeState
    BY <1>2 DEF ServingNode, NodeState, Role, Mount
  <1>4. DisabledNode \in NodeState
    BY <1>2 DEF DisabledNode, NodeState, File
  <1>5. SyncedNode.role = "Secondary" /\ DisabledNode.role = "Secondary"
    BY DEF SyncedNode, DisabledNode, FreshNode
  <1>6. \/ node = [n \in Node |-> DisabledNode]
        \/ \E p \in Node : node = [n \in Node |-> IF n = p THEN ServingNode ELSE SyncedNode]
    BY DEF Init
  <1>7. ClusterTypeOK
    BY <1>2, <1>3, <1>4, <1>6 DEF Init, ClusterTypeOK
  <1>8. Exclusive
    BY <1>5, <1>6 DEF Exclusive
  <1>9. pc \in Terminal \cup Steps /\ todo \subseteq Node /\ at \in Node /\ res \subseteq Node
    BY DEF Init, Terminal, c
  <1>10. asked \in BOOLEAN /\ tidy \in BOOLEAN
    BY Zenon DEF Init
  <1> QED
    BY <1>7, <1>8, <1>9, <1>10 DEF IInv, TypeOK

---------------------------------------------------------------------------
(* Connected nodes are never both Primary, whatever a deletion does.        *)
THEOREM Inductive == Spec => []IInv
  <1>1. IInv /\ [Next]_vars => IInv'
    BY NextKeepsCluster, NextKeepsRequest DEF IInv, TypeOK
  <1> QED
    BY <1>1, InitIInv, PTL DEF Spec

(* The state of a deletion and of its cluster is of the declared types.     *)
THEOREM TypeCorrect == Spec => []TypeOK
  <1>1. IInv => TypeOK
    BY DEF IInv
  <1> QED
    BY <1>1, Inductive, PTL

(* A node with quorum is connected to another one unless it is the only one. *)
LEMMA QuorumConnects ==
  ASSUME IInv, NEW m \in Node, NEW n \in Node, m # n, HasQuorum(n)
  PROVE  linked /\ Online(node[n])
  <1>1. CASE Peers(node, linked, n) = {}
    <2>1. Cardinality({}) = 0 /\ Cardinality({m}) = 1
      BY FS_EmptySet, FS_Singleton
    <2>2. Cardinality({m}) <= Cardinality(Node) /\ Cardinality({m}) # Cardinality(Node)
      BY NodeAssumption, FS_Subset
    <2>3. Cardinality(Node) \in Nat
      BY NodeAssumption, FS_CardinalityType
    <2> QED
      BY <1>1, <2>1, <2>2, <2>3 DEF HasQuorum
  <1>2. CASE Peers(node, linked, n) # {}
    BY <1>2 DEF Peers, Connected, Online
  <1> QED
    BY <1>1, <1>2

(* At most one node can write to a resource while it is deleted: the quorum *)
(* of the generated configuration (config-gen, "quorum majority") makes up  *)
(* for a disconnect that runs before the other nodes are demoted.           *)
THEOREM OneWriter == Spec => []SingleWriter
  <1>1. IInv => SingleWriter
    <2> SUFFICES ASSUME IInv, NEW m \in Node, NEW n \in Node, CanUse(m), CanUse(n), m # n
                 PROVE  FALSE
      BY DEF SingleWriter
    <2>1. linked /\ Online(node[m]) /\ Online(node[n])
      BY QuorumConnects DEF CanUse
    <2>2. node[m].role = "Primary" /\ node[n].role = "Primary"
      BY DEF CanUse
    <2> QED
      BY <2>1, <2>2 DEF IInv, Exclusive
  <1> QED
    BY <1>1, Inductive, PTL

---------------------------------------------------------------------------
(* A disabled profile, as long as no command is lost: no reactor knows it   *)
(* and no node serves it; a node without the .res file is wiped already;    *)
(* what a phase is for has come true on each node the phase has visited,    *)
(* and stays true in the phases that follow.                                *)
LastPhases == {"reload", "deleted"}
WasDown(n)  == pc \in {"wipe", "removeRes", "removePromoter"} \cup LastPhases \/ (pc = "down" /\ n \notin todo)
WasWiped(n) == pc \in {"removeRes", "removePromoter"} \cup LastPhases \/ (pc = "wipe" /\ n \notin todo)
NoRes(n)    == pc \in {"removePromoter"} \cup LastPhases \/ (pc = "removeRes" /\ n \notin todo)
NoFile(n)   == pc \in LastPhases \/ (pc = "removePromoter" /\ n \notin todo)

Unserved(s) == s.armed = FALSE /\ s.role = "Secondary" /\ s.file # "toml"
Tidied(n) ==
  /\ Unserved(node[n])
  /\ n \notin res => node[n].up = FALSE /\ node[n].disk = "NoMeta"
  /\ WasDown(n) => node[n].up = FALSE
  /\ WasWiped(n) => node[n].disk = "NoMeta"
  /\ NoRes(n) => n \notin res
  /\ NoFile(n) => node[n].file = "absent"
CleanInv == TypeOK /\ (tidy => \A n \in Node : Tidied(n))

(* What the commands of a deletion do to a node that nobody serves.         *)
LEMMA UnservedStays ==
  ASSUME NEW s \in NodeState, Unserved(s)
  PROVE  /\ ReactorDisabled(s) = s /\ Demoted(s) = s
         /\ Unserved([s EXCEPT !.svc = FALSE]) /\ Unserved(Unmounted(s))
         /\ Unserved(Down(s)) /\ Down(s).up = FALSE
         /\ Unserved([s EXCEPT !.file = "absent"])
         /\ \A t \in Reloaded(s) : t = s
<1>1. ReactorDisabled(s) = s
  BY DEF Unserved, ReactorDisabled
<1>2. Demoted(s) = s
  BY DEF Unserved, Demoted, NodeState
<1>3. Unserved([s EXCEPT !.svc = FALSE]) /\ Unserved([s EXCEPT !.file = "absent"])
  BY DEF Unserved, NodeState
<1>4. Unserved(Unmounted(s))
  BY DEF Unserved, Unmounted, NodeState
<1>5. Unserved(Down(s)) /\ Down(s).up = FALSE
  BY DEF Unserved, Down, DownCommand, NodeState
<1>6. ASSUME NEW t \in Reloaded(s)
      PROVE  t = s
  <2>1. t \in {[s EXCEPT !.armed = FALSE]}
    BY <1>6 DEF Unserved, Reloaded
  <2>2. [s EXCEPT !.armed = FALSE] = s
    BY DEF Unserved, NodeState
  <2>3. QED
    BY <2>1, <2>2
<1>7. QED
  BY <1>1, <1>2, <1>3, <1>4, <1>5, <1>6

(* The phases follow one another.                                           *)
LEMMA PastPhases ==
  ASSUME NEW n
  PROVE  /\ WasWiped(n) => WasDown(n)
         /\ NoRes(n) => WasWiped(n)
         /\ NoFile(n) => NoRes(n)
BY DEF WasDown, WasWiped, NoRes, NoFile, LastPhases, Terminal, Steps

(* A visit brings the phase behind the node it visits, and no other node.   *)
Follows(p, q) ==
  <<p, q>> \in {<<"down", "wipe">>, <<"wipe", "removeRes">>, <<"removeRes", "removePromoter">>,
               <<"removePromoter", "reload">>}

LEMMA VisitPasses ==
  ASSUME TypeOK, NEW n \in Node, NEW p, NEW q, Follows(p, q), Visit(p, q, n), NEW m \in Node
  PROVE  /\ WasDown(m)' => WasDown(m) \/ (p = "down" /\ m = n)
         /\ WasWiped(m)' => WasWiped(m) \/ (p = "wipe" /\ m = n)
         /\ NoRes(m)' => NoRes(m) \/ (p = "removeRes" /\ m = n)
         /\ NoFile(m)' => NoFile(m) \/ (p = "removePromoter" /\ m = n)
<1>1. /\ pc = p /\ n \in todo
      /\ (todo = {n} /\ pc' = q /\ todo' = Node) \/ (pc' = p /\ todo' = todo \ {n})
  BY DEF Visit
<1>2. CASE p = "down" /\ q = "wipe"
  BY <1>1, <1>2 DEF WasDown, WasWiped, NoRes, NoFile, LastPhases, Terminal, Steps
<1>3. CASE p = "wipe" /\ q = "removeRes"
  BY <1>1, <1>3 DEF WasDown, WasWiped, NoRes, NoFile, LastPhases, Terminal, Steps
<1>4. CASE p = "removeRes" /\ q = "removePromoter"
  BY <1>1, <1>4 DEF WasDown, WasWiped, NoRes, NoFile, LastPhases, Terminal, Steps
<1>5. CASE p = "removePromoter" /\ q = "reload"
  BY <1>1, <1>5 DEF WasDown, WasWiped, NoRes, NoFile, LastPhases, Terminal, Steps
<1>6. QED
  BY <1>2, <1>3, <1>4, <1>5 DEF Follows

(* Elsewhere nothing but the place of the request changes.                  *)
LEMMA StaysPast ==
  ASSUME NEW m \in Node,
         \/ UNCHANGED <<pc, todo>>
         \/ /\ pc' \in (Terminal \cup Steps) \ {"wipe", "removeRes", "removePromoter", "reload", "deleted"}
            /\ pc' = "down" => todo' = Node
         \/ pc = "reload" /\ pc' = "deleted"
  PROVE  /\ WasDown(m)' => WasDown(m)
         /\ WasWiped(m)' => WasWiped(m)
         /\ NoRes(m)' => NoRes(m)
         /\ NoFile(m)' => NoFile(m)
BY DEF WasDown, WasWiped, NoRes, NoFile, LastPhases, Terminal, Steps

(* What the other steps make of a node.                                     *)
Alike(t, s) == t = s \/ (Unserved(t) /\ t.up = s.up /\ t.disk = s.disk /\ t.file = s.file)

LEMMA UnservedAlike ==
  ASSUME NEW s \in NodeState, Unserved(s), NEW b \in BOOLEAN
  PROVE  /\ Alike(ReactorDisabled(s), s) /\ Alike(Demoted(s), s) /\ Alike(Unmounted(s), s)
         /\ Alike([s EXCEPT !.svc = FALSE], s) /\ Alike([s EXCEPT !.alone = b], s)
<1>1. Alike(ReactorDisabled(s), s) /\ Alike(Demoted(s), s)
  BY UnservedStays DEF Alike
<1>2. Alike(Unmounted(s), s)
  BY DEF Alike, Unserved, Unmounted, NodeState
<1>3. Alike([s EXCEPT !.svc = FALSE], s) /\ Alike([s EXCEPT !.alone = b], s)
  BY DEF Alike, Unserved, NodeState
<1>4. QED
  BY <1>1, <1>2, <1>3

(* Everything but the phases that visit all nodes leaves it alone.          *)
LEMMA ElseTidied ==
  ASSUME CleanInv, tidy', [Next]_vars, TypeOK',
         ~(\E n \in Node : DownNode(n) \/ WipeNode(n) \/ RemoveRes(n) \/ RemovePromoter(n))
  PROVE  \A m \in Node : Tidied(m)'
<1> USE DEF CleanInv
<1>0. /\ c \in Node /\ at \in Node /\ todo \subseteq Node
      /\ node \in [Node -> NodeState]
  BY DEF TypeOK, ClusterTypeOK, c
<1>1. tidy
  BY DEF Next, Handler, Request, Abort, Environment, vars, Step, DisableReactor, StopServices, DemoteLocal,
         ReadNodes, UnmountLocal, DisconnectNode, Reload, SecondaryNode, Sent, Lost, TypeOK
<1>2. \A m \in Node : Tidied(m) /\ Unserved(node[m]) /\ node[m] \in NodeState
  BY <1>0, <1>1 DEF Tidied
<1>3. /\ UNCHANGED res
      /\ \A m \in Node :
           /\ WasDown(m)' => WasDown(m)
           /\ WasWiped(m)' => WasWiped(m)
           /\ NoRes(m)' => NoRes(m)
           /\ NoFile(m)' => NoFile(m)
  <2>1. /\ UNCHANGED res
        /\ \/ UNCHANGED <<pc, todo>>
           \/ /\ pc' \in (Terminal \cup Steps) \ {"wipe", "removeRes", "removePromoter", "reload", "deleted"}
              /\ pc' = "down" => todo' = Node
           \/ pc = "reload" /\ pc' = "deleted"
    BY DEF Next, Handler, Request, Abort, Environment, vars, Step, DisableReactor, StopServices, DemoteLocal,
           ReadNodes, UnmountLocal, DisconnectNode, Reload, SecondaryNode, Terminal, Steps
  <2>2. QED
    BY <2>1, StaysPast
<1>4. ASSUME NEW n \in Node, NEW t, Alike(t, node[n]), node' = [node EXCEPT ![n] = t]
      PROVE  \A m \in Node : Alike(node'[m], node[m])
  BY <1>0, <1>4 DEF Alike
<1>5. UNCHANGED node => \A m \in Node : Alike(node'[m], node[m])
  BY DEF Alike
<1>6. \A m \in Node : Alike(node'[m], node[m])
  <2> USE DEF Set, Quiet, clusterVars
  <2>1. CASE Request \/ Abort \/ ReadNodes \/ UNCHANGED vars
    BY <1>5, <2>1 DEF Request, Abort, ReadNodes, vars
  <2>2. CASE DisableReactor
    BY <1>0, <1>2, <1>4, <1>5, <2>2, UnservedAlike DEF DisableReactor
  <2>3. CASE StopServices
    BY <1>0, <1>2, <1>4, <1>5, <2>3, UnservedAlike DEF StopServices
  <2>4. CASE DemoteLocal
    BY <1>0, <1>2, <1>4, <1>5, <2>4, UnservedAlike DEF DemoteLocal
  <2>5. CASE UnmountLocal
    BY <1>0, <1>2, <1>4, <1>5, <2>5, UnservedAlike DEF UnmountLocal
  <2>6. CASE DisconnectNode
    <3>1. (node[at].alone \/ node[at].up) \in BOOLEAN
      OBVIOUS
    <3>2. Alike([node[at] EXCEPT !.alone = node[at].alone \/ node[at].up], node[at])
      BY <1>0, <1>2, <3>1, UnservedAlike
    <3>3. UNCHANGED node \/ node' = [node EXCEPT ![at] = [node[at] EXCEPT !.alone = node[at].alone \/ node[at].up]]
      BY <2>6 DEF DisconnectNode, Sent, Lost
    <3>4. QED
      BY <1>0, <1>4, <1>5, <3>2, <3>3
  <2>7. CASE Reload
    <3>1. \A m \in Node : node'[m] = node[m] \/ node'[m] \in Reloaded(node[m])
      BY <2>7 DEF Reload, ReloadOutcomes
    <3>2. QED
      BY <1>2, <3>1, UnservedStays DEF Alike
  <2>8. ASSUME NEW n \in Node, SecondaryNode(n)
        PROVE  \A m \in Node : Alike(node'[m], node[m])
    BY <1>0, <1>2, <1>4, <1>5, <2>8, UnservedAlike DEF SecondaryNode, Sent, Lost
  <2>9. CASE Environment
    BY <1>2, <2>9 DEF Environment, ReactorPromote, ReactorStack, ReactorQuorumLoss, Unserved
  <2>10. QED
    BY <2>1, <2>2, <2>3, <2>4, <2>5, <2>6, <2>7, <2>8, <2>9 DEF Next, Handler
<1>7. ASSUME NEW m \in Node
      PROVE  Tidied(m)'
  <2>1. Tidied(m) /\ UNCHANGED res /\ Alike(node'[m], node[m])
    BY <1>2, <1>3, <1>6
  <2>2. QED
    BY <1>3, <2>1 DEF Tidied, Alike, Unserved
<1>8. QED
  BY <1>7

(* The phase that visits all nodes brings itself behind the node it visits. *)
LEMMA VisitTidied ==
  ASSUME CleanInv, tidy', NEW n \in Node,
         DownNode(n) \/ WipeNode(n) \/ RemoveRes(n) \/ RemovePromoter(n)
  PROVE  \A m \in Node : Tidied(m)'
<1>0. /\ TypeOK /\ tidy /\ node \in [Node -> NodeState] /\ node[n] \in NodeState
      /\ \A m \in Node : Tidied(m)
  BY DEF CleanInv, TypeOK, ClusterTypeOK, DownNode, WipeNode, RemoveRes, RemovePromoter, Sent, Lost
<1>1. Unserved(node[n])
  BY <1>0 DEF Tidied
<1>2. ASSUME NEW s, node' = [node EXCEPT ![n] = s], NEW m \in Node \ {n}
      PROVE  node'[m] = node[m]
  BY <1>2
<1>3. CASE DownNode(n)
  <2>1. /\ Visit("down", "wipe", n) /\ UNCHANGED res
        /\ node' = [node EXCEPT ![n] = Down(node[n])]
    BY <1>0, <1>3 DEF DownNode, Sent, Lost, Set
  <2>2. Unserved(node'[n]) /\ node'[n].up = FALSE /\ node'[n].disk = node[n].disk /\ node'[n].file = node[n].file
    BY <1>0, <1>1, <2>1, UnservedStays DEF Down, DownCommand, NodeState
  <2>3. ASSUME NEW m \in Node
        PROVE  Tidied(m)'
    BY <1>0, <1>2, <2>1, <2>2, VisitPasses DEF Follows, Tidied
  <2>4. QED
    BY <2>3
<1>4. CASE WipeNode(n)
  <2>1. /\ Visit("wipe", "removeRes", n) /\ UNCHANGED res
        /\ node' = [node EXCEPT ![n] = Wiped(n)]
    BY <1>0, <1>4 DEF WipeNode, Sent, Lost, Set
  <2>2. WasDown(n)
    BY <2>1 DEF Visit, WasDown
  <2>3. node[n].up = FALSE
    BY <1>0, <2>2 DEF Tidied
  <2>4. Unserved(node'[n]) /\ node'[n].up = FALSE /\ node'[n].disk = "NoMeta" /\ node'[n].file = node[n].file
    BY <1>0, <1>1, <2>1, <2>3 DEF Wiped, NodeState, Unserved, Tidied
  <2>5. ASSUME NEW m \in Node
        PROVE  Tidied(m)'
    BY <1>0, <1>2, <2>1, <2>4, VisitPasses DEF Follows, Tidied
  <2>6. QED
    BY <2>5
<1>5. CASE RemoveRes(n)
  <2>1. /\ Visit("removeRes", "removePromoter", n) /\ UNCHANGED node /\ res' = res \ {n}
    BY <1>0, <1>5 DEF RemoveRes, Lost, Quiet, clusterVars
  <2>2. WasDown(n) /\ WasWiped(n)
    BY <2>1 DEF Visit, WasDown, WasWiped
  <2>3. node[n].up = FALSE /\ node[n].disk = "NoMeta"
    BY <1>0, <2>2 DEF Tidied
  <2>4. ASSUME NEW m \in Node
        PROVE  Tidied(m)'
    BY <1>0, <2>1, <2>3, VisitPasses DEF Follows, Tidied
  <2>5. QED
    BY <2>4
<1>6. CASE RemovePromoter(n)
  <2>1. /\ Visit("removePromoter", "reload", n) /\ UNCHANGED res
        /\ node' = [node EXCEPT ![n] = [node[n] EXCEPT !.file = "absent"]]
    BY <1>0, <1>6 DEF RemovePromoter, Sent, Lost, Set
  <2>2. Unserved(node'[n]) /\ node'[n].up = node[n].up /\ node'[n].disk = node[n].disk /\ node'[n].file = "absent"
    BY <1>0, <1>1, <2>1 DEF NodeState, Unserved
  <2>3. ASSUME NEW m \in Node
        PROVE  Tidied(m)'
    BY <1>0, <1>2, <2>1, <2>2, VisitPasses DEF Follows, Tidied
  <2>4. QED
    BY <2>3
<1>7. QED
  BY <1>3, <1>4, <1>5, <1>6

LEMMA InitClean == Init => CleanInv
<1> SUFFICES ASSUME Init PROVE CleanInv
  OBVIOUS
<1>1. TypeOK
  BY InitIInv DEF IInv
<1>2. ASSUME tidy, NEW n \in Node
      PROVE  Tidied(n)
  <2>1. node[n] = DisabledNode
    BY <1>2 DEF Init
  <2>2. Unserved(node[n]) /\ n \in res
    BY <2>1 DEF Init, Unserved, DisabledNode, SyncedNode, FreshNode
  <2>3. QED
    BY <2>2 DEF Init, Tidied, WasDown, WasWiped, NoRes, NoFile, LastPhases
<1>3. QED
  BY <1>1, <1>2 DEF CleanInv

(* Deleting a disabled profile leaves nothing behind, on any number of      *)
(* nodes and however often a deletion was given up half way before, as long *)
(* as no command is lost: the wipe that needs the .res file comes before    *)
(* the file goes, and each phase is over on every node before the next      *)
(* (delete_profile, delete.rs).                                             *)
THEOREM DeletesClean == Spec => []CleanDelete
<1>1. CleanInv => CleanDelete
  <2> SUFFICES ASSUME CleanInv, pc = "deleted", tidy
               PROVE  res = {} /\ \A n \in Node : ~node[n].up /\ node[n].disk = "NoMeta" /\ node[n].file = "absent"
    BY DEF CleanDelete
  <2>1. \A n \in Node : n \notin res /\ node[n].up = FALSE /\ node[n].disk = "NoMeta" /\ node[n].file = "absent"
    BY DEF CleanInv, Tidied, WasDown, WasWiped, NoRes, NoFile, LastPhases
  <2>2. QED
    BY <2>1 DEF CleanInv, TypeOK
<1>2. IInv /\ CleanInv /\ [Next]_vars => CleanInv'
  <2> SUFFICES ASSUME IInv, CleanInv, [Next]_vars
               PROVE  CleanInv'
    OBVIOUS
  <2>1. TypeOK'
    BY NextKeepsCluster, NextKeepsRequest DEF TypeOK
  <2>2. ASSUME tidy'
        PROVE  \A m \in Node : Tidied(m)'
    BY <2>1, <2>2, ElseTidied, VisitTidied
  <2>3. QED
    BY <2>1, <2>2 DEF CleanInv
<1>3. QED
  BY <1>1, <1>2, Inductive, InitClean, PTL DEF Spec

============================================================================
