------------------------ MODULE ActivateProfileProofs ------------------------
(***************************************************************************)
(* Proofs about ActivateProfile for every finite set of nodes: the types,  *)
(* whatever fails; that an activation of a connected controller does not   *)
(* format the data of its profile as long as no link and no node fails;    *)
(* and that it leaves other resources alone unless one has minor 0.        *)
(***************************************************************************)
EXTENDS ActivateProfile, FiniteSetTheorems, TLAPS

(* What is true of the nodes all the time while the replication network     *)
(* holds.  A StandAlone node, or one that is down, serves nothing; current  *)
(* data is on a node that is connected, is the same everywhere, and has a   *)
(* filesystem everywhere if there is one.                                   *)
Current == {n \in Node : node[n].disk = "UpToDate"}
Formatted == \E n \in Node : node[n].fs = TRUE
Reachable(s) == s.up = TRUE /\ s.alone = FALSE /\ s.joined = TRUE

Good(s) ==
  /\ s.up = TRUE /\ s.alone = FALSE => s.joined = TRUE
  /\ s.alone = TRUE => s.disk # "UpToDate"
  /\ s.role = "Primary" => Reachable(s)
  /\ s.disk = "UpToDate" /\ s.fs = FALSE => Reachable(s)

Data ==
  /\ Current # {} => \E n \in Current : Reachable(node[n])
  /\ \A m, n \in Current : node[m].data = node[n].data
  /\ Formatted => Current # {} /\ \A n \in Current : node[n].fs = TRUE

Primaries ==
  /\ \A m, n \in Node : node[m].role = "Primary" /\ node[n].role = "Primary" => m = n
  /\ \A n \in Node \ {c} : node[n].role = "Primary" => HasQuorum(n)
  /\ node[c].role = "Primary" => ReachesUpToDate(c)

(* Where the request is, and what it has seen to get there.                 *)
Unserved == ~HasQuorum(c) \/ PeerIsPrimary(c)
Places ==
  /\ \A n \in Node : node[n].file = "toml" \/ (n = c /\ pc \notin Steps)
  /\ pc = "createMd" => node[c].disk = "NoMeta"
  /\ pc \in {"syncCheck", "syncWait", "pickDevice"} => node[c].role = "Primary" \/ Unserved
  /\ pc \in {"decide", "format"} /\ device.path = "own" /\ Formatted => Unserved

Healthy == linked = TRUE /\ Reachable(node[c]) /\ (\A n \in Node : Good(node[n])) /\ Data /\ Primaries
Safe == Healthy /\ Places /\ "own" \notin wiped

(* Without another resource at minor 0 no path of the handler leads to it.  *)
Alone ==
  /\ minor0 \in {"own", "absent"} /\ device.path # "other" /\ "other" \notin wiped

IInv ==
  /\ TypeOK
  /\ faults \subseteq {"foreign"} => Safe
  /\ "foreign" \notin faults => Alone

---------------------------------------------------------------------------
(* Types.  What the commands, the reactors and the failures make of a node. *)
LEMMA NodeTypes ==
  ASSUME NEW s \in NodeState
  PROVE  /\ UpCommand(s) \in NodeState /\ ConnectCommand(s) \in NodeState
         /\ [s EXCEPT !.disk = "Inconsistent"] \in NodeState
         /\ \A b \in BOOLEAN : [s EXCEPT !.alone = b] \in NodeState
         /\ \A b \in BOOLEAN : [s EXCEPT !.joined = b] \in NodeState
         /\ Promoted(s) \in NodeState
         /\ [Promoted(s) EXCEPT !.disk = "UpToDate", !.data = "forced"] \in NodeState
         /\ [s EXCEPT !.disk = "UpToDate", !.data = "forced"] \in NodeState
         /\ [s EXCEPT !.fs = TRUE] \in NodeState
         /\ \A d \in Mount : [s EXCEPT !.mount = d] \in NodeState
         /\ [s EXCEPT !.boot = TRUE] \in NodeState /\ [s EXCEPT !.svc = TRUE] \in NodeState
         /\ \A t \in NodeState : SyncFrom(s, t) \in NodeState
         /\ \A t \in Reloaded(s) : t \in NodeState
         /\ Stopped(s) \in NodeState /\ Booted(s) \in NodeState
<1>1. /\ UpCommand(s) \in NodeState /\ ConnectCommand(s) \in NodeState
      /\ [s EXCEPT !.disk = "Inconsistent"] \in NodeState
      /\ \A b \in BOOLEAN : [s EXCEPT !.alone = b] \in NodeState /\ [s EXCEPT !.joined = b] \in NodeState
      /\ Promoted(s) \in NodeState
      /\ [Promoted(s) EXCEPT !.disk = "UpToDate", !.data = "forced"] \in NodeState
      /\ [s EXCEPT !.disk = "UpToDate", !.data = "forced"] \in NodeState
      /\ [s EXCEPT !.fs = TRUE] \in NodeState
  <2>1. /\ UpCommand(s) \in NodeState /\ ConnectCommand(s) \in NodeState
        /\ [s EXCEPT !.disk = "Inconsistent"] \in NodeState
    BY DEF NodeState, Disk, UpCommand, ConnectCommand
  <2>2. \A b \in BOOLEAN : [s EXCEPT !.alone = b] \in NodeState /\ [s EXCEPT !.joined = b] \in NodeState
    BY DEF NodeState
  <2>3. /\ Promoted(s) \in NodeState
        /\ [Promoted(s) EXCEPT !.disk = "UpToDate", !.data = "forced"] \in NodeState
    BY DEF NodeState, Disk, Lineage, Role, Promoted
  <2>4. /\ [s EXCEPT !.disk = "UpToDate", !.data = "forced"] \in NodeState
        /\ [s EXCEPT !.fs = TRUE] \in NodeState
    BY DEF NodeState, Disk, Lineage
  <2>5. QED
    BY <2>1, <2>2, <2>3, <2>4
<1>2. /\ \A d \in Mount : [s EXCEPT !.mount = d] \in NodeState
      /\ [s EXCEPT !.boot = TRUE] \in NodeState /\ [s EXCEPT !.svc = TRUE] \in NodeState
      /\ \A t \in NodeState : SyncFrom(s, t) \in NodeState
  BY DEF NodeState, Disk, SyncFrom
<1>3. \A t \in Reloaded(s) : t \in NodeState
  <2>1. ASSUME NEW t \in Reloaded(s)
        PROVE  \/ t = [s EXCEPT !.armed = TRUE]
               \/ t = [s EXCEPT !.armed = FALSE]
               \/ t = [s EXCEPT !.armed = FALSE, !.stack = FALSE, !.svc = FALSE, !.mount = "none",
                               !.role = "Secondary"]
    BY <2>1 DEF Reloaded
  <2>2. [s EXCEPT !.armed = TRUE] \in NodeState /\ [s EXCEPT !.armed = FALSE] \in NodeState
    BY DEF NodeState
  <2>3. [s EXCEPT !.armed = FALSE, !.stack = FALSE, !.svc = FALSE, !.mount = "none", !.role = "Secondary"] \in NodeState
    BY DEF NodeState, Mount, Role
  <2>4. QED
    BY <2>1, <2>2, <2>3
<1>4. Stopped(s) \in NodeState
  BY DEF Stopped, DownCommand, NodeState, Mount, Role
<1>5. Booted(s) \in NodeState
  <2>1. (s.file = "toml") \in BOOLEAN /\ s.boot \in BOOLEAN
    BY DEF NodeState
  <2>2. ASSUME NEW t \in NodeState, NEW b \in BOOLEAN, NEW v \in BOOLEAN
        PROVE  [t EXCEPT !.up = b, !.armed = b, !.svc = v] \in NodeState
    BY DEF NodeState
  <2>3. QED
    BY <1>4, <2>1, <2>2 DEF Booted
<1>6. QED
  BY <1>1, <1>2, <1>3, <1>4, <1>5

LEMMA InitTypes == Init => TypeOK
<1> SUFFICES ASSUME Init PROVE TypeOK
  OBVIOUS
<1>1. FreshNode \in NodeState
  BY DEF FreshNode, NodeState, Role, Disk, Lineage, Mount, File
<1>2. SyncedNode \in NodeState
  BY <1>1 DEF SyncedNode, NodeState, Disk, Lineage
<1>3. ServingNode \in NodeState
  BY <1>2 DEF ServingNode, NodeState, Role, Mount
<1>4. Differing \subseteq NodeState
  <2>1. [FreshNode EXCEPT !.alone = TRUE, !.joined = FALSE] \in NodeState
    BY <1>1 DEF NodeState
  <2>2. [FreshNode EXCEPT !.up = FALSE, !.joined = FALSE, !.disk = "NoMeta", !.armed = FALSE] \in NodeState
    BY <1>1 DEF NodeState, Disk
  <2>3. [SyncedNode EXCEPT !.up = FALSE, !.joined = FALSE, !.armed = FALSE] \in NodeState
    BY <1>2 DEF NodeState
  <2>4. [FreshNode EXCEPT !.disk = "NoMeta"] \in NodeState
    BY <1>1 DEF NodeState, Disk
  <2>5. QED
    BY <1>1, <1>2, <2>1, <2>2, <2>3, <2>4 DEF Differing, Joining
<1>5. [FreshNode EXCEPT !.disk = "NoMeta", !.file = "disabled", !.armed = FALSE] \in NodeState
  BY <1>1 DEF NodeState, Disk, File
<1>6. StartStates \subseteq [Node -> NodeState]
  BY <1>1, <1>2, <1>3, <1>4, <1>5 DEF StartStates
<1>7. ClusterTypeOK
  BY <1>6 DEF Init, ClusterTypeOK
<1>8. events \in 0..MaxFaults
  <2>1. faults \subseteq {"foreign", "rejoin"}
    BY DEF Init
  <2>2. Cardinality(faults) \in Nat
    <3>1. IsFiniteSet({"foreign"} \cup {"rejoin"})
      BY FS_Singleton, FS_Union
    <3>2. faults \subseteq {"foreign"} \cup {"rejoin"}
      BY <2>1
    <3>3. QED
      BY <3>1, <3>2, FS_Subset, FS_CardinalityType
  <2>3. QED
    BY <2>2, FaultsAssumption DEF Init
<1>9. looks = 0 /\ 0 \in 0..(MaxLooks - 1) /\ device \in [path: {"none", "own", "other"}, fs: BOOLEAN]
  BY FaultsAssumption DEF Init, NoDevice
<1>10. QED
  BY <1>7, <1>8, <1>9 DEF Init, TypeOK, Terminal, NoStatus

LEMMA OneNode ==
  ASSUME TypeOK, NEW n \in Node, NEW s \in NodeState, node' = [node EXCEPT ![n] = s], UNCHANGED linked
  PROVE  ClusterTypeOK'
BY DEF TypeOK, ClusterTypeOK

LEMMA EnvironmentTypes ==
  ASSUME TypeOK, Environment
  PROVE  TypeOK'
<1>1. node \in [Node -> NodeState] /\ linked \in BOOLEAN
  BY DEF TypeOK, ClusterTypeOK
<1>2. ASSUME NEW n \in Node, ReactorPromote(n) \/ ReactorStack(n) \/ ReactorQuorumLoss(n) \/ ResyncDone(n)
             \/ Handshake(n)
      PROVE  ClusterTypeOK'
  <2>1. node[n] \in NodeState
    BY <1>1
  <2>2. CASE ReactorPromote(n)
    <3>1. [node[n] EXCEPT !.role = "Primary", !.stack = FALSE] \in NodeState
      BY <2>1 DEF NodeState, Role
    <3>2. node' = [node EXCEPT ![n] = [node[n] EXCEPT !.role = "Primary", !.stack = FALSE]] /\ UNCHANGED linked
      BY <1>1, <2>2 DEF ReactorPromote
    <3>3. QED
      BY <3>1, <3>2, OneNode
  <2>3. CASE ReactorStack(n)
    <3>1. [node[n] EXCEPT !.mount = "own", !.stack = TRUE, !.svc = TRUE] \in NodeState
      BY <2>1 DEF NodeState, Mount
    <3>2. node' = [node EXCEPT ![n] = [node[n] EXCEPT !.mount = "own", !.stack = TRUE, !.svc = TRUE]] /\ UNCHANGED linked
      BY <1>1, <2>3 DEF ReactorStack
    <3>3. QED
      BY <3>1, <3>2, OneNode
  <2>4. CASE ReactorQuorumLoss(n)
    <3>1. [node[n] EXCEPT !.mount = "none", !.stack = FALSE, !.svc = FALSE, !.role = "Secondary"] \in NodeState
      BY <2>1 DEF NodeState, Mount, Role
    <3>2. node' = [node EXCEPT ![n] = [node[n] EXCEPT !.mount = "none", !.stack = FALSE, !.svc = FALSE, !.role = "Secondary"]] /\ UNCHANGED linked
      BY <1>1, <2>4 DEF ReactorQuorumLoss
    <3>3. QED
      BY <3>1, <3>2, OneNode
  <2>5. CASE ResyncDone(n)
    <3>1. PICK m \in Node : node' = [node EXCEPT ![n] = SyncFrom(node[n], node[m])] /\ UNCHANGED linked
      BY <1>1, <2>5 DEF ResyncDone, Peers
    <3>2. SyncFrom(node[n], node[m]) \in NodeState
      BY <1>1, NodeTypes
    <3>3. QED
      BY <3>1, <3>2, OneNode
  <2>6. CASE Handshake(n)
    <3>1. \/ node' = [node EXCEPT ![n] = [node[n] EXCEPT !.alone = TRUE]] /\ UNCHANGED linked
          \/ node' = [node EXCEPT ![n] = [node[n] EXCEPT !.joined = TRUE]] /\ UNCHANGED linked
      BY <1>1, <2>6 DEF Handshake
    <3>2. [node[n] EXCEPT !.alone = TRUE] \in NodeState /\ [node[n] EXCEPT !.joined = TRUE] \in NodeState
      BY <2>1, NodeTypes
    <3>3. QED
      BY <3>1, <3>2, OneNode
  <2>7. QED
    BY <1>2, <2>2, <2>3, <2>4, <2>5, <2>6
<1>3. CASE NetworkFails
  <2>1. CASE LinkDown /\ Fails("partition")
    <3>1. \A n \in Node : [node[n] EXCEPT !.joined = FALSE] \in NodeState
      BY <1>1, NodeTypes
    <3>2. ClusterTypeOK'
      BY <2>1, <3>1 DEF LinkDown, ClusterTypeOK
    <3>3. QED
      BY <1>3, <2>1, <3>2, FaultsAssumption DEF NetworkFails, Fails, Happens, TypeOK
  <2>2. CASE LinkUp
    BY <1>1, <1>3, <2>2 DEF NetworkFails, LinkUp, LinkDown, TypeOK, ClusterTypeOK
  <2>3. QED
    BY <1>3, <2>1, <2>2 DEF NetworkFails
<1>4. ASSUME NEW n \in Node, NodeFails(n)
      PROVE  TypeOK'
  <2>1. \/ node' = [node EXCEPT ![n] = Stopped(node[n])] /\ UNCHANGED linked
        \/ node' = [node EXCEPT ![n] = Booted(node[n])] /\ UNCHANGED linked
    BY <1>1, <1>4 DEF NodeFails, NodeDown, Boot
  <2>2. ClusterTypeOK'
    BY <1>1, <2>1, NodeTypes, OneNode
  <2>3. faults' \subseteq Faults /\ events' \in 0..MaxFaults
    <3>1. faults' = faults \cup {"failover"} /\ "failover" \in Faults
      BY <1>4 DEF NodeFails, Fails, Happens
    <3>2. events' = events \/ (events < MaxFaults /\ events' = events + 1)
      BY <1>4 DEF NodeFails, Fails
    <3>3. QED
      BY <3>1, <3>2, FaultsAssumption DEF TypeOK
  <2>4. QED
    BY <1>4, <2>2, <2>3 DEF NodeFails, TypeOK, Terminal
<1>5. CASE OtherFailover
  BY <1>5 DEF OtherFailover, Quiet, clusterVars, TypeOK, ClusterTypeOK
<1>6. QED
  BY <1>2, <1>3, <1>4, <1>5 DEF Environment, handlerVars, machineVars, TypeOK

LEMMA HandlerTypes ==
  ASSUME TypeOK, Handler
  PROVE  TypeOK'
<1>0. c \in Node /\ node \in [Node -> NodeState] /\ node[c] \in NodeState
  BY ControllerAssumption DEF c, TypeOK, ClusterTypeOK
<1>a. ASSUME NEW s \in NodeState, node' = [node EXCEPT ![c] = s], UNCHANGED linked
      PROVE  ClusterTypeOK'
  BY <1>0, <1>a, OneNode
<1>b. UNCHANGED <<node, linked>> => ClusterTypeOK'
  BY DEF TypeOK, ClusterTypeOK
<1>1. CASE Up \/ CreateMd \/ UpRetry \/ Connect \/ CheckRole \/ Promote
  <2>1. /\ UNCHANGED linked
        /\ \/ UNCHANGED node
           \/ node' = [node EXCEPT ![c] = UpCommand(node[c])]
           \/ node' = [node EXCEPT ![c] = [node[c] EXCEPT !.disk = "Inconsistent"]]
           \/ node' = [node EXCEPT ![c] = ConnectCommand(node[c])]
           \/ node' = [node EXCEPT ![c] = Promoted(node[c])]
    BY <1>0, <1>1 DEF Up, CreateMd, UpRetry, Connect, CheckRole, Promote, Quiet, clusterVars
  <2>2. ClusterTypeOK'
    BY <1>0, <1>a, <1>b, <2>1, NodeTypes
  <2>3. QED
    BY <1>1, <2>2, FaultsAssumption DEF machineVars, Up, CreateMd, UpRetry, Connect, CheckRole, Promote, Goto, Keep, TypeOK, Terminal, Steps
<1>2. CASE Attach
  <2>0. /\ UNCHANGED linked
        /\ UNCHANGED node \/ node' = [node EXCEPT ![c] = [node[c] EXCEPT !.disk = "Inconsistent"]]
    BY <1>0, <1>2 DEF Attach
  <2>1. ClusterTypeOK'
    BY <1>0, <1>a, <1>b, <2>0, NodeTypes
  <2>2. ShowsDiskless(c) \in BOOLEAN
    BY DEF ShowsDiskless, ShowsDisk
  <2>3. QED
    BY <1>0, <1>2, <2>1, <2>2, FaultsAssumption DEF machineVars, Attach, Goto, TypeOK, Terminal, Steps, NodeState
<1>3. CASE SkipSync
  <2>1. ClusterTypeOK'
    <3>1. \A n \in Node : [node[n] EXCEPT !.disk = "UpToDate", !.data = "forced"] \in NodeState
      BY <1>0, NodeTypes
    <3>2. /\ UNCHANGED linked
          /\ \/ UNCHANGED node
             \/ node' = [n \in Node |-> [node[n] EXCEPT !.disk = "UpToDate", !.data = "forced"]]
      BY <1>3 DEF SkipSync
    <3>3. CASE node' = [n \in Node |-> [node[n] EXCEPT !.disk = "UpToDate", !.data = "forced"]]
      <4>1. node' \in [Node -> NodeState]
        BY <3>1, <3>3
      <4>2. QED
        BY <3>2, <4>1 DEF ClusterTypeOK, TypeOK
    <3>4. QED
      BY <1>b, <3>2, <3>3
  <2>2. pc' = "forcePromote" /\ looks' = 0 /\ UNCHANGED <<status, device, machineVars>>
    BY <1>3 DEF SkipSync, Goto, Keep
  <2>3. QED
    BY <2>1, <2>2, FaultsAssumption DEF machineVars, TypeOK, Steps
<1>4. CASE ForcePromote
  <2>1. ClusterTypeOK'
    <3>1. /\ UNCHANGED linked
          /\ \/ UNCHANGED node
             \/ node' = [node EXCEPT ![c] = Promoted(node[c])]
             \/ node' = [node EXCEPT ![c] = [Promoted(node[c]) EXCEPT !.disk = "UpToDate", !.data = "forced"]]
      BY <1>0, <1>4 DEF ForcePromote
    <3>2. QED
      BY <1>0, <1>a, <1>b, <3>1, NodeTypes
  <2>2. QED
    BY <1>4, <2>1, FaultsAssumption DEF machineVars, ForcePromote, Goto, Keep, TypeOK, Terminal, Steps
<1>5. CASE Validate \/ SyncCheck \/ SyncWait \/ Decide
  <2>1. looks' \in 0..(MaxLooks - 1)
    BY <1>5, FaultsAssumption DEF Validate, SyncCheck, SyncWait, Decide, Goto, LookAgain, TypeOK
  <2>2. pc' \in Terminal \cup Steps
    BY <1>5, FaultsAssumption DEF machineVars, Validate, SyncCheck, SyncWait, Decide, Goto, LookAgain, TypeOK, Terminal, Steps
  <2>3. UNCHANGED <<node, linked, status, device, machineVars>>
    BY <1>5 DEF Validate, SyncCheck, SyncWait, Decide, Goto, LookAgain, Keep, Quiet, clusterVars
  <2>4. QED
    BY <2>1, <2>2, <2>3 DEF machineVars, TypeOK, ClusterTypeOK
<1>6. CASE PickDevice
  <2>1. \A d : HoldsFs(d) \in BOOLEAN
    BY <1>0 DEF HoldsFs, ReadsFs, TypeOK, NodeState
  <2>2. \A path : Target(path) \in {"own", "other"}
    BY DEF Target
  <2>3. \/ device' = device
        \/ \E d \in {"own", "other"}, seen \in BOOLEAN : device' = [path |-> d, fs |-> seen]
    BY <1>6, <2>1, <2>2 DEF PickDevice
  <2>4. device' \in [path: {"none", "own", "other"}, fs: BOOLEAN]
    BY <2>3 DEF TypeOK
  <2>5. pc' \in {"failed", "mount", "decide"} /\ looks' = 0 /\ UNCHANGED <<machineVars, status, node, linked>>
    BY <1>6 DEF PickDevice, Goto, Quiet, clusterVars
  <2>6. QED
    BY <2>4, <2>5, FaultsAssumption DEF machineVars, TypeOK, ClusterTypeOK, Terminal, Steps
<1>7. CASE Format
  <2>1. ClusterTypeOK'
    <3>1. \A n \in Node : node[n] \in NodeState /\ [node[n] EXCEPT !.fs = TRUE] \in NodeState
      BY <1>0, NodeTypes
    <3>2. /\ UNCHANGED linked
          /\ \/ UNCHANGED node
             \/ node' = [n \in Node |-> IF n \in Replicas(c) THEN [node[n] EXCEPT !.fs = TRUE] ELSE node[n]]
      BY <1>7 DEF Format
    <3>3. QED
      BY <1>b, <3>1, <3>2 DEF ClusterTypeOK, TypeOK
  <2>2. wiped' \subseteq {"own", "other"}
    BY <1>7 DEF Format, HasCurrentFs, TypeOK
  <2>3. /\ pc' \in {"mount", "failed"} /\ looks' = 0 /\ marker' \in BOOLEAN /\ otherFs' \in BOOLEAN
        /\ UNCHANGED <<status, device, minor0, faults, events>>
    BY <1>7 DEF Format, Keep, TypeOK
  <2>4. QED
    BY <2>1, <2>2, <2>3, FaultsAssumption DEF TypeOK, Terminal, Steps
<1>8. CASE MountDevice \/ Services
  <2>1. device.path \in Mount
    BY DEF TypeOK, Mount
  <2>2. ClusterTypeOK'
    <3>1. /\ UNCHANGED linked
          /\ \/ UNCHANGED node
             \/ node' = [node EXCEPT ![c] = [node[c] EXCEPT !.mount = device.path]]
             \/ node' = [node EXCEPT ![c] = [node[c] EXCEPT !.boot = TRUE]]
             \/ node' = [node EXCEPT ![c] = [node[c] EXCEPT !.svc = TRUE]]
      BY <1>0, <1>8 DEF MountDevice, Services
    <3>2. QED
      BY <1>0, <1>a, <1>b, <2>1, <3>1, NodeTypes
  <2>3. QED
    BY <1>8, <2>2, FaultsAssumption DEF machineVars, MountDevice, Services, Goto, Keep, TypeOK, Terminal, Steps
<1>9. CASE Reload
  <2>1. \A n \in Node : node'[n] = node[n] \/ node'[n] \in Reloaded(node[n])
    BY <1>9 DEF Reload, ReloadOutcomes
  <2>2. \A n \in Node : node'[n] \in NodeState
    BY <1>0, <2>1, NodeTypes
  <2>3. ClusterTypeOK'
    BY <1>9, <2>2 DEF Reload, ReloadOutcomes, TypeOK, ClusterTypeOK
  <2>4. QED
    BY <1>9, <2>3, FaultsAssumption DEF machineVars, Reload, Goto, Keep, TypeOK, Terminal, Steps
<1>10. QED
  BY <1>1, <1>2, <1>3, <1>4, <1>5, <1>6, <1>7, <1>8, <1>9 DEF Handler

LEMMA NextTypes == TypeOK /\ [Next]_vars => TypeOK'
<1>1. TypeOK /\ (Request \/ Abort) => TypeOK'
  <2>1. TypeOK /\ Request => TypeOK'
    BY FaultsAssumption DEF machineVars, Request, Goto, Quiet, clusterVars, NoStatus, NoDevice, TypeOK, ClusterTypeOK, Terminal, Steps
  <2>2. TypeOK /\ Abort => TypeOK'
    BY FaultsAssumption DEF machineVars, Abort, Goto, Keep, Quiet, clusterVars, TypeOK, ClusterTypeOK, Terminal
  <2>3. QED
    BY <2>1, <2>2
<1>2. TypeOK /\ UNCHANGED vars => TypeOK'
  BY DEF vars, clusterVars, handlerVars, machineVars, TypeOK, ClusterTypeOK
<1>3. QED
  BY <1>1, <1>2, HandlerTypes, EnvironmentTypes DEF Next

(* Every reachable state of an activation is of the declared types,         *)
(* whatever fails while it runs.                                            *)
THEOREM TypeCorrect == Spec => []TypeOK
BY NextTypes, InitTypes, PTL DEF Spec

---------------------------------------------------------------------------
(* Who sees whom: while the network holds, all nodes that can be reached.   *)
Others(s, n) == {m \in Node \ {n} : Reachable(s[m]) /\ Reachable(s[n])}

LEMMA PeersAre ==
  ASSUME NEW s \in [Node -> NodeState], NEW n \in Node
  PROVE  Peers(s, TRUE, n) = Others(s, n)
BY DEF Peers, Connected, Others, Reachable, NodeState

(* No node gets out of reach, or the nodes in reach are the same.           *)
Grows == \A n \in Node : Reachable(node[n]) => Reachable(node'[n])
SameReach == \A n \in Node : Reachable(node[n]) <=> Reachable(node'[n])

LEMMA PeersStay ==
  ASSUME TypeOK, TypeOK', linked = TRUE, linked' = TRUE, Grows, NEW n \in Node
  PROVE  /\ Peers(node, linked, n) \subseteq Peers(node', linked', n)
         /\ HasQuorum(n) => HasQuorum(n)'
<1>1. Peers(node, linked, n) = Others(node, n) /\ Peers(node', linked', n) = Others(node', n)
  BY PeersAre DEF TypeOK, ClusterTypeOK
<1>2. Others(node, n) \subseteq Others(node', n)
  BY DEF Others, Grows
<1>3. IsFiniteSet(Others(node', n))
  BY NodeAssumption, FS_Subset DEF Others
<1>4. /\ Cardinality(Others(node, n)) <= Cardinality(Others(node', n))
      /\ Cardinality(Others(node, n)) \in Nat /\ Cardinality(Others(node', n)) \in Nat
  BY <1>2, <1>3, FS_Subset, FS_CardinalityType
<1>5. Cardinality(Node) \in Nat
  BY NodeAssumption, FS_CardinalityType
<1>6. QED
  BY <1>1, <1>2, <1>4, <1>5 DEF HasQuorum

LEMMA PeersSame ==
  ASSUME TypeOK, TypeOK', linked = TRUE, linked' = TRUE, SameReach, NEW n \in Node
  PROVE  /\ Peers(node', linked', n) = Peers(node, linked, n)
         /\ HasQuorum(n)' <=> HasQuorum(n)
<1>1. Peers(node, linked, n) = Others(node, n) /\ Peers(node', linked', n) = Others(node', n)
  BY PeersAre DEF TypeOK, ClusterTypeOK
<1>2. Others(node, n) = Others(node', n)
  BY DEF Others, SameReach
<1>3. QED
  BY <1>1, <1>2 DEF HasQuorum

---------------------------------------------------------------------------
(* Steps that leave all data alone and promote nobody.                      *)
SameData ==
  \A n \in Node : /\ node'[n].disk = "UpToDate" <=> node[n].disk = "UpToDate"
                  /\ node'[n].data = node[n].data /\ node'[n].fs = node[n].fs

LEMMA DataStays ==
  ASSUME Data, SameData, Grows
  PROVE  Data' /\ (Formatted' <=> Formatted)
<1>1. Current' = Current
  BY DEF SameData, Current
<1>2. Formatted' <=> Formatted
  BY DEF SameData, Formatted
<1>3. Current \subseteq Node
  BY DEF Current
<1>4. Current' # {} => \E n \in Current' : Reachable(node'[n])
  BY <1>1, <1>3 DEF Data, Grows
<1>5. \A m, n \in Current' : node'[m].data = node'[n].data
  BY <1>1, <1>3 DEF Data, SameData
<1>6. Formatted' => Current' # {} /\ \A n \in Current' : node'[n].fs = TRUE
  BY <1>1, <1>2, <1>3 DEF Data, SameData
<1>7. QED
  BY <1>2, <1>4, <1>5, <1>6 DEF Data

LEMMA HealthStays ==
  ASSUME TypeOK, TypeOK', Healthy, linked' = TRUE, Reachable(node'[c]), \A n \in Node : Good(node'[n]),
         SameData, Grows,
         \A n \in Node : node'[n].role = "Primary" => node[n].role = "Primary",
         node[c].disk = "Inconsistent" => node'[c].disk = "Inconsistent"
  PROVE  Healthy' /\ (Formatted' <=> Formatted)
<1>0. c \in Node
  BY ControllerAssumption DEF c
<1>1. Data' /\ (Formatted' <=> Formatted)
  BY DataStays DEF Healthy
<1>2. \A m, n \in Node : node'[m].role = "Primary" /\ node'[n].role = "Primary" => m = n
  BY DEF Healthy, Primaries
<1>3. \A n \in Node \ {c} : node'[n].role = "Primary" => HasQuorum(n)'
  BY PeersStay DEF Healthy, Primaries
<1>4. ReachesUpToDate(c) => ReachesUpToDate(c)'
  <2>1. Peers(node, linked, c) \subseteq Peers(node', linked', c)
    BY <1>0, PeersStay DEF Healthy
  <2>2. \A m \in Peers(node, linked, c) : m \in Node
    BY DEF Peers
  <2>3. QED
    BY <1>0, <2>1, <2>2 DEF ReachesUpToDate, SameData
<1>5. Primaries'
  BY <1>0, <1>2, <1>3, <1>4 DEF Healthy, Primaries
<1>6. QED
  BY <1>1, <1>5 DEF Healthy

(* A promotion, of the controller or by a reactor, plain or forced.         *)
SameBut(s, t) == /\ t.up = s.up /\ t.alone = s.alone /\ t.joined = s.joined /\ t.disk = s.disk
                 /\ t.data = s.data /\ t.fs = s.fs /\ t.file = s.file

LEMMA PromotionIsHealthy ==
  ASSUME TypeOK, TypeOK', Healthy, linked' = TRUE, NEW n \in Node,
         \A m \in Node \ {n} : node'[m] = node[m],
         SameBut(node[n], node'[n]), node'[n].role = "Primary",
         Reachable(node[n]), ~PeerIsPrimary(n),
         n # c => HasQuorum(n), n = c => ReachesUpToDate(c)
  PROVE  Healthy' /\ (Formatted' <=> Formatted)
<1>0. c \in Node
  BY ControllerAssumption DEF c
<1>1. SameData /\ Grows /\ SameReach
  BY DEF SameData, Grows, SameReach, SameBut, Reachable
<1>2. \A m \in Node : Good(node'[m])
  BY DEF Healthy, Good, SameBut, Reachable
<1>3. Data' /\ (Formatted' <=> Formatted)
  BY <1>1, DataStays DEF Healthy
<1>4. \A m \in Node \ {n} : node[m].role # "Primary"
  <2>1. ASSUME NEW m \in Node \ {n}, node[m].role = "Primary"
        PROVE  FALSE
    <3>1. Reachable(node[m])
      BY <2>1 DEF Healthy, Good
    <3>2. m \in Others(node, n)
      BY <3>1 DEF Others
    <3>3. Peers(node, linked, n) = Others(node, n)
      BY PeersAre DEF Healthy, TypeOK, ClusterTypeOK
    <3>4. QED
      BY <2>1, <3>2, <3>3 DEF PeerIsPrimary
  <2>2. QED
    BY <2>1
<1>5. \A m, k \in Node : node'[m].role = "Primary" /\ node'[k].role = "Primary" => m = k
  BY <1>4
<1>6. \A m \in Node \ {c} : node'[m].role = "Primary" => HasQuorum(m)'
  BY <1>1, <1>4, PeersSame DEF Healthy
<1>7. node'[c].role = "Primary" => ReachesUpToDate(c)'
  <2>1. ReachesUpToDate(c) => ReachesUpToDate(c)'
    <3>1. Peers(node', linked', c) = Peers(node, linked, c)
      BY <1>0, <1>1, PeersSame DEF Healthy
    <3>2. \A m \in Node : node'[m].disk = node[m].disk
      BY DEF SameBut
    <3>3. \A m \in Peers(node, linked, c) : m \in Node
      BY DEF Peers
    <3>4. QED
      BY <1>0, <3>1, <3>2, <3>3 DEF ReachesUpToDate
  <2>2. QED
    BY <1>0, <1>4, <2>1
<1>8. Primaries'
  BY <1>5, <1>6, <1>7 DEF Primaries
<1>9. QED
  BY <1>0, <1>1, <1>2, <1>3, <1>8 DEF Healthy, Grows

(* A node that may promote can be reached.                                  *)
LEMMA PromotableIsReachable ==
  ASSUME TypeOK, Healthy, NEW n \in Node, node[n].up = TRUE, ReachesUpToDate(n)
  PROVE  Reachable(node[n])
<1>1. Peers(node, linked, n) = Others(node, n)
  BY PeersAre DEF Healthy, TypeOK, ClusterTypeOK
<1>2. node[n].disk = "UpToDate" \/ Others(node, n) # {}
  BY <1>1 DEF ReachesUpToDate
<1>3. node[n].alone \in BOOLEAN /\ node[n].joined \in BOOLEAN
  BY DEF TypeOK, ClusterTypeOK, NodeState
<1>4. QED
  BY <1>2, <1>3 DEF Others, Healthy, Good, Reachable

---------------------------------------------------------------------------
(* What a step of the outside world never takes away from the request.      *)
Undisturbed ==
  /\ SameReach /\ (Formatted' => Formatted)
  /\ \A n \in Node : node'[n].file = node[n].file
  /\ node[c].disk = "NoMeta" => node'[c].disk = "NoMeta"
  /\ PeerIsPrimary(c) => PeerIsPrimary(c)'
  /\ node[c].role = "Primary" => node'[c].role = "Primary" \/ ~HasQuorum(c)'

LEMMA PlacesStay ==
  ASSUME TypeOK, TypeOK', Safe, linked' = TRUE, Undisturbed, UNCHANGED <<pc, status, device>>
  PROVE  Places'
<1>0. c \in Node
  BY ControllerAssumption DEF c
<1>1. Unserved => Unserved'
  BY <1>0, PeersSame DEF Unserved, Undisturbed, Safe, Healthy
<1>2. ~HasQuorum(c)' => Unserved'
  BY DEF Unserved
<1>3. QED
  BY <1>0, <1>1, <1>2 DEF Safe, Places, Undisturbed

LEMMA PrimaryPeers ==
  ASSUME TypeOK, TypeOK', linked = TRUE, linked' = TRUE, SameReach,
         \A m \in Node \ {c} : node[m].role = "Primary" => node'[m].role = "Primary"
  PROVE  PeerIsPrimary(c) => PeerIsPrimary(c)'
<1>0. c \in Node
  BY ControllerAssumption DEF c
<1>1. Peers(node', linked', c) = Peers(node, linked, c)
  BY <1>0, PeersSame
<1>2. Peers(node, linked, c) \subseteq Node \ {c}
  <2>1. Peers(node, linked, c) = Others(node, c)
    BY <1>0, PeersAre DEF TypeOK, ClusterTypeOK
  <2>2. QED
    BY <2>1 DEF Others
<1>3. QED
  BY <1>1, <1>2 DEF PeerIsPrimary

(* Mounts, services and the reactors' knowledge do not matter.              *)
Untouched == \A m \in Node : SameBut(node[m], node'[m]) /\ node'[m].role = node[m].role

LEMMA UntouchedIsHealthy ==
  ASSUME TypeOK, TypeOK', Healthy, linked' = TRUE, Untouched
  PROVE  Healthy' /\ Undisturbed
<1>0. c \in Node
  BY ControllerAssumption DEF c
<1>1. SameData /\ Grows /\ SameReach
  BY DEF SameData, Grows, SameReach, Untouched, SameBut, Reachable
<1>2. \A m \in Node : Good(node'[m])
  BY DEF Healthy, Good, Untouched, SameBut, Reachable
<1>3. Healthy' /\ (Formatted' <=> Formatted)
  BY <1>0, <1>1, <1>2, HealthStays DEF Untouched, SameBut, Healthy, Grows
<1>4. PeerIsPrimary(c) => PeerIsPrimary(c)'
  BY <1>1, PrimaryPeers DEF Healthy, Untouched
<1>5. QED
  BY <1>0, <1>1, <1>3, <1>4 DEF Undisturbed, Untouched, SameBut

LEMMA ReactorPromoteIsHealthy ==
  ASSUME TypeOK, TypeOK', Healthy, NEW n \in Node, ReactorPromote(n)
  PROVE  Healthy' /\ Undisturbed
<1>0. c \in Node /\ linked' = TRUE /\ node[n] \in NodeState /\ node \in [Node -> NodeState]
  BY ControllerAssumption DEF c, Healthy, ReactorPromote, TypeOK, ClusterTypeOK
<1>1. node' = [node EXCEPT ![n] = [node[n] EXCEPT !.role = "Primary", !.stack = FALSE]]
  BY <1>0 DEF ReactorPromote
<1>2. /\ \A m \in Node \ {n} : node'[m] = node[m]
      /\ SameBut(node[n], node'[n]) /\ node'[n].role = "Primary"
  BY <1>0, <1>1 DEF SameBut, NodeState
<1>3. node[n].up = TRUE /\ ~PeerIsPrimary(n) /\ ReachesUpToDate(n) /\ HasQuorum(n)
  BY <1>0 DEF ReactorPromote, CanPromote, NodeState
<1>4. Healthy' /\ (Formatted' <=> Formatted)
  BY <1>0, <1>2, <1>3, PromotableIsReachable, PromotionIsHealthy
<1>5. SameReach
  BY <1>2 DEF SameReach, SameBut, Reachable
<1>6. PeerIsPrimary(c) => PeerIsPrimary(c)'
  BY <1>0, <1>2, <1>5, PrimaryPeers DEF Healthy
<1>7. QED
  BY <1>0, <1>2, <1>4, <1>5, <1>6 DEF Undisturbed, SameBut

LEMMA ReactorStackIsHealthy ==
  ASSUME TypeOK, TypeOK', Healthy, NEW n \in Node, ReactorStack(n)
  PROVE  Healthy' /\ Undisturbed
<1>0. linked' = TRUE /\ node[n] \in NodeState /\ node \in [Node -> NodeState]
  BY DEF Healthy, ReactorStack, TypeOK, ClusterTypeOK
<1>1. node' = [node EXCEPT ![n] = [node[n] EXCEPT !.mount = "own", !.stack = TRUE, !.svc = TRUE]]
  BY <1>0 DEF ReactorStack
<1>2. Untouched
  BY <1>0, <1>1 DEF Untouched, SameBut, NodeState
<1>3. QED
  BY <1>0, <1>2, UntouchedIsHealthy

(* A Primary elsewhere keeps its quorum: only the controller can lose it.   *)
LEMMA ReactorQuorumLossIsHealthy ==
  ASSUME TypeOK, TypeOK', Healthy, NEW n \in Node, ReactorQuorumLoss(n)
  PROVE  Healthy' /\ Undisturbed
<1>0. c \in Node /\ linked' = TRUE /\ node[n] \in NodeState /\ node \in [Node -> NodeState]
  BY ControllerAssumption DEF c, Healthy, ReactorQuorumLoss, TypeOK, ClusterTypeOK
<1>1. n = c /\ ~HasQuorum(c)
  BY DEF ReactorQuorumLoss, Healthy, Primaries
<1>2. node' = [node EXCEPT ![n] = [node[n] EXCEPT !.mount = "none", !.stack = FALSE, !.svc = FALSE,
                                                  !.role = "Secondary"]]
  BY <1>0 DEF ReactorQuorumLoss
<1>3. /\ \A m \in Node \ {n} : node'[m] = node[m]
      /\ SameBut(node[n], node'[n]) /\ node'[n].role = "Secondary"
  BY <1>0, <1>2 DEF SameBut, NodeState
<1>4. SameData /\ Grows /\ SameReach
  BY <1>3 DEF SameData, Grows, SameReach, SameBut, Reachable
<1>5. \A m \in Node : Good(node'[m])
  BY <1>3 DEF Healthy, Good, SameBut, Reachable
<1>6. Healthy' /\ (Formatted' <=> Formatted)
  BY <1>0, <1>3, <1>4, <1>5, HealthStays DEF SameBut, Healthy, Grows
<1>7. PeerIsPrimary(c) => PeerIsPrimary(c)'
  BY <1>0, <1>1, <1>3, <1>4, PrimaryPeers DEF Healthy
<1>8. ~HasQuorum(c)'
  BY <1>0, <1>1, <1>4, PeersSame DEF Healthy
<1>9. QED
  BY <1>0, <1>3, <1>4, <1>6, <1>7, <1>8 DEF Undisturbed, SameBut

(* A resync target ends up with what its source holds.                      *)
LEMMA ResyncIsHealthy ==
  ASSUME TypeOK, TypeOK', Healthy, NEW n \in Node, ResyncDone(n)
  PROVE  Healthy' /\ Undisturbed
<1>0. c \in Node /\ linked' = TRUE /\ node[n] \in NodeState /\ node \in [Node -> NodeState]
  BY ControllerAssumption DEF c, Healthy, ResyncDone, TypeOK, ClusterTypeOK
<1>1. PICK k \in Peers(node, linked, n) :
        node[k].disk = "UpToDate" /\ node' = [node EXCEPT ![n] = SyncFrom(node[n], node[k])]
  BY <1>0 DEF ResyncDone
<1>2. Peers(node, linked, n) = Others(node, n)
  BY PeersAre DEF Healthy, TypeOK, ClusterTypeOK
<1>3. k \in Node \ {n} /\ Reachable(node[k]) /\ Reachable(node[n])
  BY <1>1, <1>2 DEF Others
<1>4. /\ node[n].disk = "Inconsistent"
      /\ \A m \in Node \ {n} : node'[m] = node[m]
      /\ node'[n].up = node[n].up /\ node'[n].alone = node[n].alone
      /\ node'[n].joined = node[n].joined /\ node'[n].role = node[n].role
      /\ node'[n].file = node[n].file
      /\ node'[n].disk = "UpToDate" /\ node'[n].data = node[k].data /\ node'[n].fs = node[k].fs
  BY <1>0, <1>1 DEF SyncFrom, NodeState, ResyncDone
<1>5. SameReach /\ Grows
  BY <1>4 DEF SameReach, Grows, Reachable
<1>6. \A m \in Node : Good(node'[m])
  BY <1>3, <1>4 DEF Healthy, Good, Reachable
<1>7. Current' = Current \cup {n} /\ k \in Current /\ Current \subseteq Node
  BY <1>1, <1>3, <1>4 DEF Current
<1>8. Formatted' => Formatted
  BY <1>3, <1>4 DEF Formatted
<1>9. Data'
  <2>1. \E m \in Current' : Reachable(node'[m])
    BY <1>3, <1>5, <1>7 DEF Grows
  <2>2. \A m, j \in Current' : node'[m].data = node'[j].data
    BY <1>1, <1>3, <1>4, <1>7 DEF Healthy, Data
  <2>3. Formatted' => \A m \in Current' : node'[m].fs = TRUE
    BY <1>1, <1>3, <1>4, <1>7, <1>8 DEF Healthy, Data
  <2>4. QED
    BY <1>7, <2>1, <2>2, <2>3 DEF Data
<1>10. ReachesUpToDate(c) => ReachesUpToDate(c)'
  <2>1. Peers(node', linked', c) = Peers(node, linked, c)
    BY <1>0, <1>5, PeersSame DEF Healthy
  <2>2. \A m \in Peers(node, linked, c) : m \in Node
    BY DEF Peers
  <2>3. QED
    BY <1>0, <1>4, <2>1, <2>2 DEF ReachesUpToDate
<1>11. \A m \in Node : (HasQuorum(m)' <=> HasQuorum(m)) /\ node'[m].role = node[m].role
  BY <1>0, <1>4, <1>5, PeersSame DEF Healthy
<1>12. Primaries'
  BY <1>0, <1>10, <1>11 DEF Healthy, Primaries
<1>13. PeerIsPrimary(c) => PeerIsPrimary(c)'
  BY <1>0, <1>5, <1>11, PrimaryPeers DEF Healthy
<1>14. QED
  BY <1>0, <1>4, <1>5, <1>6, <1>8, <1>9, <1>11, <1>12, <1>13 DEF Healthy, Undisturbed, Grows

(* Whoever is up and not StandAlone is connected: nobody shakes hands.      *)
LEMMA NoHandshake ==
  ASSUME TypeOK, Healthy, NEW n \in Node
  PROVE  ~Handshake(n)
BY DEF Handshake, Healthy, Good, TypeOK, ClusterTypeOK, NodeState

LEMMA EnvironmentIsSafe ==
  ASSUME faults' \subseteq {"foreign"}, TypeOK, TypeOK', Safe, Environment
  PROVE  Safe'
<1>1. ASSUME UNCHANGED handlerVars, Healthy', Undisturbed
      PROVE  Safe'
  BY <1>1, PlacesStay DEF handlerVars, machineVars, Healthy, Safe
<1>2. ASSUME NEW n \in Node, ReactorPromote(n) \/ ReactorStack(n) \/ ReactorQuorumLoss(n) \/ ResyncDone(n),
             UNCHANGED handlerVars
      PROVE  Safe'
  BY <1>1, <1>2, ReactorPromoteIsHealthy, ReactorStackIsHealthy, ReactorQuorumLossIsHealthy, ResyncIsHealthy
     DEF Safe
<1>3. CASE OtherFailover
  <2>1. Untouched /\ linked' = TRUE /\ UNCHANGED <<pc, status, device, wiped>>
    BY <1>3 DEF OtherFailover, Quiet, clusterVars, Untouched, SameBut, Safe, Healthy
  <2>2. Healthy' /\ Undisturbed
    BY <2>1, UntouchedIsHealthy DEF Safe
  <2>3. QED
    BY <2>1, <2>2, PlacesStay DEF Safe, Healthy
<1>4. ~NetworkFails /\ \A n \in Node : ~NodeFails(n)
  BY DEF NetworkFails, NodeFails, LinkUp, Fails, Happens, Safe, Healthy
<1>5. \A n \in Node : ~Handshake(n)
  BY NoHandshake DEF Safe
<1>6. QED
  BY <1>2, <1>3, <1>4, <1>5 DEF Environment

---------------------------------------------------------------------------
(* The request, its answers and what it does to nothing that matters.       *)
LEMMA RequestIsSafe ==
  ASSUME TypeOK, TypeOK', Safe, Request \/ Abort
  PROVE  Safe'
<1>0. c \in Node
  BY ControllerAssumption DEF c
<1>1. Untouched /\ linked' = TRUE /\ UNCHANGED wiped
  BY DEF Request, Abort, Goto, Quiet, clusterVars, machineVars, Untouched, SameBut, Safe, Healthy
<1>2. Healthy'
  BY <1>1, UntouchedIsHealthy DEF Safe
<1>3. Places'
  <2>1. CASE Request
    BY <1>0, <2>1 DEF Request, Goto, Quiet, clusterVars, Safe, Places, Terminal, Steps
  <2>2. CASE Abort
    BY <1>0, <2>2 DEF Abort, Goto, Quiet, clusterVars, Safe, Places, Steps
  <2>3. QED
    BY <2>1, <2>2
<1>4. QED
  BY <1>1, <1>2, <1>3 DEF Safe

(* Looks at the cluster: what the request goes on with is what it has seen. *)
LEMMA LooksAreSafe ==
  ASSUME TypeOK, TypeOK', Safe,
         UpRetry \/ CheckRole \/ Validate \/ SyncCheck \/ SyncWait \/ Decide
  PROVE  Safe'
<1>0. c \in Node /\ UNCHANGED <<node, linked, wiped, device, status>>
  BY ControllerAssumption
     DEF c, UpRetry, CheckRole, Validate, SyncCheck, SyncWait, Decide, Goto, LookAgain, Keep, Quiet,
         clusterVars, machineVars
<1>1. Untouched
  BY <1>0 DEF Untouched, SameBut
<1>2. Healthy' /\ Undisturbed
  BY <1>0, <1>1, UntouchedIsHealthy DEF Safe, Healthy
<1>3. Unserved => Unserved'
  BY <1>0, <1>2, PeersSame DEF Unserved, Undisturbed, Safe, Healthy
<1>4. Places'
  <2>1. CASE UpRetry \/ CheckRole
    BY <1>0, <2>1 DEF UpRetry, CheckRole, Goto, Safe, Places, Steps
  <2>2. CASE Validate /\ LooksReady
    <3>1. PICK m \in Shown(c) : node[m].role = "Primary"
      BY <2>2 DEF LooksReady, ShowsRole
    <3>2. m = c \/ m \in Peers(node, linked, c)
      BY <3>1 DEF Shown
    <3>3. node[c].role = "Primary" \/ Unserved
      BY <3>1, <3>2 DEF PeerIsPrimary, Unserved
    <3>4. QED
      BY <1>0, <1>3, <2>2, <3>3 DEF Validate, Goto, Safe, Places, Steps
  <2>3. CASE Validate /\ ~LooksReady
    BY <1>0, <2>3 DEF Validate, LookAgain, Safe, Places, Steps
  <2>4. CASE SyncCheck \/ SyncWait
    <3>1. pc \in {"syncCheck", "syncWait"} /\ pc' \in {"syncWait", "pickDevice"}
      BY <2>4 DEF SyncCheck, SyncWait, Goto, LookAgain
    <3>2. QED
      BY <1>0, <1>3, <3>1 DEF Safe, Places, Steps
  <2>5. CASE Decide
    <3>1. pc = "decide" /\ pc' \in {"mount", "format", "delegated"}
      BY <2>5 DEF Decide, Goto
    <3>2. device.path = "own" /\ Formatted' => Unserved'
      BY <1>2, <1>3, <3>1 DEF Safe, Places, Undisturbed
    <3>3. QED
      BY <1>0, <3>1, <3>2 DEF Safe, Places, Steps
  <2>6. QED
    BY <2>1, <2>2, <2>3, <2>4, <2>5
<1>5. QED
  BY <1>0, <1>2, <1>4 DEF Safe

LEMMA StartingIsSafe ==
  ASSUME TypeOK, TypeOK', Safe, MountDevice \/ Services \/ Reload
  PROVE  Safe'
<1>0. /\ c \in Node /\ node \in [Node -> NodeState]
      /\ pc \in Steps /\ pc' \in {"services", "reload", "failed", "active"}
      /\ linked' = TRUE /\ UNCHANGED wiped
  BY ControllerAssumption
     DEF c, MountDevice, Services, Reload, Goto, machineVars, Steps, Safe, Healthy, TypeOK, ClusterTypeOK
<1>1. Untouched
  <2>1. CASE MountDevice \/ Services
    <3>1. \/ UNCHANGED node
          \/ node' = [node EXCEPT ![c] = [node[c] EXCEPT !.mount = device.path]]
          \/ node' = [node EXCEPT ![c] = [node[c] EXCEPT !.boot = TRUE]]
          \/ node' = [node EXCEPT ![c] = [node[c] EXCEPT !.svc = TRUE]]
      BY <1>0, <2>1 DEF MountDevice, Services
    <3>2. QED
      BY <1>0, <3>1 DEF Untouched, SameBut, NodeState
  <2>2. CASE Reload
    <3>1. \A n \in Node : node'[n] = node[n] \/ node'[n] \in Reloaded(node[n])
      BY <2>2 DEF Reload, ReloadOutcomes
    <3>2. \A n \in Node : node[n].file = "toml"
      BY <1>0 DEF Safe, Places
    <3>3. \A n \in Node : node'[n] = node[n] \/ node'[n] = [node[n] EXCEPT !.armed = TRUE]
      BY <3>1, <3>2 DEF Reloaded
    <3>4. ASSUME NEW s \in NodeState
          PROVE  SameBut(s, [s EXCEPT !.armed = TRUE]) /\ [s EXCEPT !.armed = TRUE].role = s.role
      BY DEF SameBut, NodeState
    <3>5. \A n \in Node : SameBut(node[n], node[n])
      BY DEF SameBut
    <3>6. QED
      BY <1>0, <3>3, <3>4, <3>5 DEF Untouched
  <2>3. QED
    BY <2>1, <2>2
<1>2. Healthy' /\ Undisturbed
  BY <1>0, <1>1, UntouchedIsHealthy DEF Safe
<1>3. Places'
  BY <1>0, <1>2 DEF Safe, Places, Undisturbed, Steps
<1>4. QED
  BY <1>0, <1>2, <1>3 DEF Safe

(* A controller that is up and connected is not changed by up and connect:  *)
(* at most its disk gets metadata.                                          *)
LEMMA ConnectingIsSafe ==
  ASSUME TypeOK, TypeOK', Safe, Up \/ CreateMd \/ Attach \/ Connect
  PROVE  Safe'
<1>0. /\ c \in Node /\ node \in [Node -> NodeState] /\ node[c] \in NodeState
      /\ linked' = TRUE /\ UNCHANGED wiped
  BY ControllerAssumption
     DEF c, Up, CreateMd, Attach, Connect, Goto, machineVars, Safe, Healthy, TypeOK, ClusterTypeOK
<1>1. pc \in Steps /\ pc' \in {"createMd", "upRetry", "attach", "connect", "checkRole", "failed"}
  BY DEF Up, CreateMd, Attach, Connect, Goto, Steps
<1>2. UpCommand(node[c]) = node[c]
  BY <1>0 DEF UpCommand, Safe, Healthy, Reachable, NodeState
<1>3. \/ node' = node
      \/ node[c].disk = "NoMeta" /\ node' = [node EXCEPT ![c] = [node[c] EXCEPT !.disk = "Inconsistent"]]
  BY <1>0, <1>2 DEF Up, CreateMd, Attach, Connect, Safe, Places, Healthy, Reachable
<1>4. /\ \A m \in Node \ {c} : node'[m] = node[m]
      /\ node'[c].role = node[c].role /\ node'[c].file = node[c].file
      /\ node'[c].data = node[c].data /\ node'[c].fs = node[c].fs
      /\ node'[c].up = node[c].up /\ node'[c].alone = node[c].alone /\ node'[c].joined = node[c].joined
      /\ node'[c].disk = node[c].disk \/ (node[c].disk = "NoMeta" /\ node'[c].disk = "Inconsistent")
  BY <1>0, <1>3 DEF NodeState
<1>5. SameData /\ Grows /\ Reachable(node'[c])
  BY <1>4 DEF SameData, Grows, Reachable, Safe, Healthy
<1>6. \A n \in Node : Good(node'[n])
  BY <1>4 DEF Safe, Healthy, Good, Reachable
<1>7. Healthy'
  BY <1>0, <1>4, <1>5, <1>6, HealthStays DEF Safe
<1>8. pc' = "createMd" => node'[c].disk = "NoMeta"
  BY <1>0, <1>2 DEF Up, CreateMd, Attach, Connect, Goto
<1>9. Places'
  BY <1>0, <1>1, <1>4, <1>8 DEF Safe, Places, Steps
<1>10. QED
  BY <1>0, <1>7, <1>9 DEF Safe

---------------------------------------------------------------------------
(* The promotions of the request.  Whatever it promotes, it is not the      *)
(* second Primary and the data it goes on from is the cluster's.            *)
LEMMA PromoteIsSafe ==
  ASSUME TypeOK, TypeOK', Safe, Promote
  PROVE  Safe'
<1>0. /\ c \in Node /\ node \in [Node -> NodeState] /\ node[c] \in NodeState
      /\ linked' = TRUE /\ UNCHANGED wiped
      /\ pc = "promote" /\ pc' \in {"validate", "skipSync", "failed"}
  BY ControllerAssumption DEF c, Promote, Goto, machineVars, Safe, Healthy, TypeOK, ClusterTypeOK
<1>1. CASE CanPromote(c) /\ node' = [node EXCEPT ![c] = Promoted(node[c])]
  <2>1. node[c].up = TRUE /\ ~PeerIsPrimary(c) /\ ReachesUpToDate(c)
    BY <1>0, <1>1 DEF CanPromote, NodeState
  <2>2. /\ \A m \in Node \ {c} : node'[m] = node[m]
        /\ SameBut(node[c], node'[c]) /\ node'[c].role = "Primary"
    BY <1>0, <1>1 DEF Promoted, SameBut, NodeState
  <2>3. Healthy'
    BY <1>0, <2>1, <2>2, PromotableIsReachable, PromotionIsHealthy DEF Safe
  <2>4. Places'
    BY <1>0, <2>2 DEF Safe, Places, SameBut, Steps
  <2>5. QED
    BY <1>0, <2>3, <2>4 DEF Safe
<1>2. CASE UNCHANGED node
  <2>1. Untouched
    BY <1>2 DEF Untouched, SameBut
  <2>2. Healthy' /\ Undisturbed
    BY <1>0, <2>1, UntouchedIsHealthy DEF Safe
  <2>3. Places'
    BY <1>0, <2>2 DEF Safe, Places, Undisturbed, Steps
  <2>4. QED
    BY <1>0, <2>2, <2>3 DEF Safe
<1>3. QED
  BY <1>0, <1>1, <1>2 DEF Promote

(* Skipping the first synchronisation: no node had current data, so none    *)
(* had a filesystem, and all of them are connected.                         *)
LEMMA SkipSyncIsSafe ==
  ASSUME TypeOK, TypeOK', Safe, SkipSync
  PROVE  Safe'
<1>0. /\ c \in Node /\ node \in [Node -> NodeState]
      /\ linked' = TRUE /\ UNCHANGED wiped
      /\ pc = "skipSync" /\ pc' = "forcePromote"
  BY ControllerAssumption
     DEF c, SkipSync, Goto, machineVars, Safe, Healthy, Places, Steps, TypeOK, ClusterTypeOK
<1>1. CASE UNCHANGED node
  <2>1. Untouched
    BY <1>1 DEF Untouched, SameBut
  <2>2. Healthy' /\ Undisturbed
    BY <1>0, <2>1, UntouchedIsHealthy DEF Safe
  <2>3. Places'
    BY <1>0, <2>2 DEF Safe, Places, Undisturbed, Steps
  <2>4. QED
    BY <1>0, <2>2, <2>3 DEF Safe
<1>2. CASE ~UNCHANGED node
  <2>1. /\ Shown(c) = Node
        /\ \A n \in Node : node[n].disk = "Inconsistent" /\ node[n].role = "Secondary"
        /\ node' = [n \in Node |-> [node[n] EXCEPT !.disk = "UpToDate", !.data = "forced"]]
    BY <1>2 DEF SkipSync
  <2>2. ~Formatted /\ Current = {}
    BY <2>1 DEF Safe, Healthy, Data, Current
  <2>3. \A n \in Node : /\ node'[n].up = node[n].up /\ node'[n].alone = node[n].alone
                        /\ node'[n].joined = node[n].joined
                        /\ node'[n].role = "Secondary" /\ node'[n].disk = "UpToDate"
                        /\ node'[n].data = "forced" /\ node'[n].fs = node[n].fs
                        /\ node'[n].file = node[n].file
    <3> TAKE n \in Node
    <3>1. node[n] \in NodeState /\ node'[n] = [node[n] EXCEPT !.disk = "UpToDate", !.data = "forced"]
      BY <1>0, <2>1
    <3>2. node[n].role = "Secondary"
      BY <2>1
    <3>3. QED
      BY <3>1, <3>2 DEF NodeState
  <2>4. \A n \in Node : Reachable(node'[n])
    <3>1. Reachable(node[c])
      BY DEF Safe, Healthy
    <3>2. Peers(node, linked, c) = Others(node, c)
      BY <1>0, PeersAre DEF Safe, Healthy
    <3>3. \A n \in Node \ {c} : n \in Others(node, c)
      BY <2>1, <3>1, <3>2 DEF Shown
    <3>4. QED
      BY <1>0, <2>3, <3>1, <3>3 DEF Others, Reachable
  <2>5. \A n \in Node : Good(node'[n])
    BY <2>3, <2>4 DEF Good, Reachable
  <2>6. Current' = Node
    BY <2>3 DEF Current
  <2>7. ~Formatted'
    BY <2>2, <2>3 DEF Formatted
  <2>8. Data'
    BY <1>0, <2>3, <2>4, <2>6, <2>7 DEF Data
  <2>9. Primaries'
    BY <1>0, <2>3 DEF Primaries
  <2>10. Places'
    BY <1>0, <2>3 DEF Safe, Places, Steps
  <2>11. QED
    BY <1>0, <2>4, <2>5, <2>8, <2>9, <2>10 DEF Safe, Healthy
<1>3. QED
  BY <1>1, <1>2

(* Forcing: with current data in reach it is a promotion, and without, no   *)
(* node has any.                                                            *)
LEMMA ForcePromoteIsSafe ==
  ASSUME TypeOK, TypeOK', Safe, ForcePromote
  PROVE  Safe'
<1>0. /\ c \in Node /\ node \in [Node -> NodeState] /\ node[c] \in NodeState
      /\ linked' = TRUE /\ UNCHANGED wiped
      /\ pc = "forcePromote" /\ pc' \in {"validate", "failed"}
  BY ControllerAssumption
     DEF c, ForcePromote, Goto, machineVars, Safe, Healthy, Places, Steps, TypeOK, ClusterTypeOK
<1>1. CASE UNCHANGED node
  <2>1. Untouched
    BY <1>1 DEF Untouched, SameBut
  <2>2. Healthy' /\ Undisturbed
    BY <1>0, <2>1, UntouchedIsHealthy DEF Safe
  <2>3. Places'
    BY <1>0, <2>2 DEF Safe, Places, Undisturbed, Steps
  <2>4. QED
    BY <1>0, <2>2, <2>3 DEF Safe
<1>2. CASE ~UNCHANGED node
  <2>1. /\ node[c].up = TRUE /\ node[c].disk # "NoMeta" /\ ~PeerIsPrimary(c)
        /\ node' = [node EXCEPT ![c] = IF ReachesUpToDate(c) THEN Promoted(node[c])
                                       ELSE [Promoted(node[c]) EXCEPT !.disk = "UpToDate", !.data = "forced"]]
    BY <1>0, <1>2 DEF ForcePromote, NodeState
  <2>2. Reachable(node[c])
    BY DEF Safe, Healthy
  <2>3. CASE ReachesUpToDate(c)
    <3>1. /\ \A m \in Node \ {c} : node'[m] = node[m]
          /\ SameBut(node[c], node'[c]) /\ node'[c].role = "Primary"
      BY <1>0, <2>1, <2>3 DEF Promoted, SameBut, NodeState
    <3>2. Healthy'
      BY <1>0, <2>1, <2>2, <2>3, <3>1, PromotionIsHealthy DEF Safe
    <3>3. Places'
      BY <1>0, <3>1 DEF Safe, Places, SameBut, Steps
    <3>4. QED
      BY <1>0, <3>2, <3>3 DEF Safe
  <2>4. CASE ~ReachesUpToDate(c)
    <3>1. /\ \A m \in Node \ {c} : node'[m] = node[m]
          /\ node'[c].up = node[c].up /\ node'[c].alone = node[c].alone
          /\ node'[c].joined = node[c].joined /\ node'[c].role = "Primary"
          /\ node'[c].disk = "UpToDate" /\ node'[c].fs = node[c].fs /\ node'[c].file = node[c].file
      BY <1>0, <2>1, <2>4 DEF Promoted, NodeState
    <3>2. Peers(node, linked, c) = Others(node, c)
      BY <1>0, PeersAre DEF Safe, Healthy
    <3>3. node[c].disk = "Inconsistent"
      BY <1>0, <2>1, <2>4 DEF ReachesUpToDate, NodeState, Disk
    <3>4. \A m \in Node \ {c} : Reachable(node[m]) => node[m].disk # "UpToDate"
      BY <2>2, <2>4, <3>2, <3>3 DEF ReachesUpToDate, Others
    <3>5. Current = {}
      BY <3>3, <3>4 DEF Safe, Healthy, Data, Current
    <3>6. ~Formatted
      BY <3>5 DEF Safe, Healthy, Data
    <3>7. Current' = {c}
      BY <1>0, <3>1, <3>5 DEF Current
    <3>8. ~Formatted'
      BY <1>0, <3>1, <3>6 DEF Formatted
    <3>9. Data'
      BY <2>2, <3>1, <3>7, <3>8 DEF Data, Reachable
    <3>10. \A m \in Node \ {c} : node[m].role # "Primary"
      <4>1. \A m \in Node \ {c} : node[m].role = "Primary" => m \in Others(node, c)
        BY <2>2 DEF Safe, Healthy, Good, Others
      <4>2. QED
        BY <2>1, <3>2, <4>1 DEF PeerIsPrimary
    <3>11. ReachesUpToDate(c)'
      BY <3>1 DEF ReachesUpToDate
    <3>12. Primaries'
      BY <1>0, <3>1, <3>10, <3>11 DEF Primaries
    <3>13. \A m \in Node : Good(node'[m])
      BY <1>0, <2>2, <3>1 DEF Safe, Healthy, Good, Reachable
    <3>14. Places'
      BY <1>0, <3>1 DEF Safe, Places, Steps
    <3>15. QED
      BY <1>0, <2>2, <3>1, <3>9, <3>12, <3>13, <3>14 DEF Reachable, Safe, Healthy
  <2>5. QED
    BY <2>3, <2>4
<1>3. QED
  BY <1>1, <1>2

---------------------------------------------------------------------------
(* What blkid finds.  The device of a controller that can use it shows the  *)
(* filesystem there is; one it cannot use may hide it, but only while the   *)
(* controller is not the one that serves.                                   *)
LEMMA PickDeviceIsSafe ==
  ASSUME TypeOK, TypeOK', Safe, PickDevice
  PROVE  Safe'
<1>0. /\ c \in Node /\ linked' = TRUE /\ UNCHANGED <<node, linked, wiped, status>>
      /\ pc = "pickDevice" /\ pc' \in {"mount", "decide", "failed"}
  BY ControllerAssumption DEF c, PickDevice, Goto, machineVars, Quiet, clusterVars, Safe, Healthy
<1>1. Untouched
  BY <1>0 DEF Untouched, SameBut
<1>2. Healthy' /\ Undisturbed
  BY <1>0, <1>1, UntouchedIsHealthy DEF Safe
<1>3. Unserved => Unserved'
  BY <1>0, <1>2, PeersSame DEF Unserved, Undisturbed, Safe, Healthy
<1>4. ASSUME pc' = "decide", device'.path = "own", Formatted'
      PROVE  Unserved'
  <2>1. PICK d, seen : /\ device' = [path |-> d, fs |-> seen] /\ seen = FALSE
                       /\ seen \in (IF Readable(d) THEN {HoldsFs(d)} ELSE {FALSE, HoldsFs(d)})
    <3>1. PICK d : \E seen \in (IF Readable(d) THEN {HoldsFs(d)} ELSE {FALSE, HoldsFs(d)}) :
            device' = [path |-> d, fs |-> seen] /\ pc' = IF seen THEN "mount" ELSE "decide"
      BY <1>0, <1>4 DEF PickDevice, Goto
    <3>2. \A x : HoldsFs(x) \in BOOLEAN
      BY <1>0 DEF HoldsFs, ReadsFs, TypeOK, ClusterTypeOK, NodeState
    <3>3. PICK seen \in (IF Readable(d) THEN {HoldsFs(d)} ELSE {FALSE, HoldsFs(d)}) :
            device' = [path |-> d, fs |-> seen] /\ pc' = IF seen THEN "mount" ELSE "decide"
      BY <3>1
    <3>4. seen \in BOOLEAN
      BY <3>2, <3>3
    <3>5. seen = FALSE
      BY <1>4, <3>3, <3>4
    <3>6. QED
      BY <3>3, <3>5
  <2>2. d = "own"
    BY <1>4, <2>1
  <2>3. Formatted
    BY <1>2, <1>4 DEF Undisturbed
  <2>4. CASE Readable("own")
    <3>1. ReadsFs(c) = FALSE /\ CanUse(c)
      BY <2>1, <2>2, <2>4 DEF HoldsFs, Readable
    <3>2. \A m \in Node : node[m].disk = "UpToDate" => node[m].fs = TRUE
      BY <2>3 DEF Safe, Healthy, Data, Current
    <3>3. \A m \in Peers(node, linked, c) : m \in Node
      BY DEF Peers
    <3>4. QED
      BY <1>0, <3>1, <3>2, <3>3 DEF ReadsFs, CanUse, ReachesUpToDate
  <2>5. CASE ~Readable("own")
    <3>1. node[c].role = "Primary" => ~HasQuorum(c)
      BY <2>5 DEF Readable, CanUse, Safe, Healthy, Primaries
    <3>2. Unserved
      BY <1>0, <3>1 DEF Safe, Places, Unserved
    <3>3. QED
      BY <1>3, <3>2
  <2>6. QED
    BY <2>4, <2>5
<1>5. Places'
  BY <1>0, <1>4 DEF Safe, Places, Steps
<1>6. QED
  BY <1>0, <1>2, <1>5 DEF Safe

(* A controller that formats its device uses it, so nobody serves and there *)
(* is no filesystem; and every node with current data gets the new one.     *)
LEMMA FormatIsSafe ==
  ASSUME TypeOK, TypeOK', Safe, Format
  PROVE  Safe'
<1>0. /\ c \in Node /\ node \in [Node -> NodeState]
      /\ linked' = TRUE /\ pc = "format" /\ pc' \in {"mount", "failed"}
  BY ControllerAssumption DEF c, Format, Safe, Healthy, Places, Steps, TypeOK, ClusterTypeOK
<1>1. CASE UNCHANGED node /\ "own" \notin wiped'
  <2>1. Untouched
    BY <1>1 DEF Untouched, SameBut
  <2>2. Healthy' /\ Undisturbed
    BY <1>0, <2>1, UntouchedIsHealthy DEF Safe
  <2>3. Places'
    BY <1>0, <2>2 DEF Safe, Places, Undisturbed, Steps
  <2>4. QED
    BY <1>1, <2>2, <2>3 DEF Safe
<1>2. CASE /\ device.path = "own" /\ Readable("own")
           /\ wiped' = IF HasCurrentFs("own") THEN wiped \cup {"own"} ELSE wiped
           /\ node' = [n \in Node |-> IF n \in Replicas(c) THEN [node[n] EXCEPT !.fs = TRUE] ELSE node[n]]
  <2>1. CanUse(c)
    BY <1>2 DEF Readable
  <2>2. ~PeerIsPrimary(c)
    <3>1. \A m \in Peers(node, linked, c) : m \in Node \ {c}
      BY DEF Peers, Connected
    <3>2. QED
      BY <1>0, <2>1, <3>1 DEF CanUse, PeerIsPrimary, Safe, Healthy, Primaries
  <2>3. ~Formatted
    BY <1>0, <1>2, <2>1, <2>2 DEF Safe, Places, Unserved, CanUse
  <2>4. Replicas(c) \subseteq Node /\ c \in Replicas(c)
    BY <1>0 DEF Replicas, Peers
  <2>5. "own" \notin wiped'
    <3>1. \A n \in Replicas(c) : node[n].fs \in BOOLEAN
      BY <1>0, <2>4 DEF NodeState
    <3>2. ~HasCurrentFs("own")
      BY <2>3, <2>4, <3>1 DEF HasCurrentFs, Formatted
    <3>3. QED
      BY <1>2, <3>2 DEF Safe
  <2>6. \A n \in Node : /\ node'[n].up = node[n].up /\ node'[n].alone = node[n].alone
                        /\ node'[n].joined = node[n].joined /\ node'[n].role = node[n].role /\ node'[n].disk = node[n].disk
                        /\ node'[n].data = node[n].data /\ node'[n].file = node[n].file
                        /\ n \in Replicas(c) => node'[n].fs = TRUE
                        /\ n \notin Replicas(c) => node'[n].fs = node[n].fs
    <3> TAKE n \in Node
    <3>1. node'[n] = IF n \in Replicas(c) THEN [node[n] EXCEPT !.fs = TRUE] ELSE node[n]
      BY <1>2, Zenon
    <3>2. node[n] \in NodeState
      BY <1>0
    <3>3. QED
      BY <3>1, <3>2 DEF NodeState
  <2>7. Reachable(node[c])
    BY DEF Safe, Healthy
  <2>8. Current' = Current /\ Current \subseteq Node
    BY <2>6 DEF Current
  <2>9. Current \subseteq Replicas(c)
    <3>1. \A n \in Current : Reachable(node[n])
      BY <2>3, <2>8 DEF Current, Formatted, Safe, Healthy, Good, TypeOK, ClusterTypeOK, NodeState
    <3>2. Peers(node, linked, c) = Others(node, c)
      BY <1>0, PeersAre DEF Safe, Healthy
    <3>3. QED
      BY <2>7, <2>8, <3>1, <3>2 DEF Replicas, Others, Current
  <2>10. Current # {}
    <3>1. \A m \in Peers(node, linked, c) : m \in Node
      BY DEF Peers
    <3>2. QED
      BY <1>0, <2>1, <3>1 DEF CanUse, ReachesUpToDate, Current
  <2>11. \A n \in Node : Reachable(node'[n]) <=> Reachable(node[n])
    BY <2>6 DEF Reachable
  <2>12. Data'
    <3>1. Formatted' => Current' # {} /\ \A n \in Current' : node'[n].fs = TRUE
      BY <2>6, <2>8, <2>9, <2>10
    <3>2. \E n \in Current' : Reachable(node'[n])
      BY <2>8, <2>10, <2>11 DEF Safe, Healthy, Data
    <3>3. \A m, n \in Current' : node'[m].data = node'[n].data
      BY <2>6, <2>8 DEF Safe, Healthy, Data
    <3>4. QED
      BY <3>1, <3>2, <3>3 DEF Data
  <2>13. \A n \in Node : Good(node'[n])
    <3> TAKE n \in Node
    <3>1. Good(node[n]) /\ (node'[n].fs = FALSE => node[n].fs = FALSE)
      BY <2>6 DEF Safe, Healthy
    <3>2. QED
      BY <2>6, <2>11, <3>1 DEF Good
  <2>14. Primaries'
    <3>1. SameReach
      BY <2>11 DEF SameReach
    <3>2. \A n \in Node : HasQuorum(n)' <=> HasQuorum(n)
      BY <1>0, <3>1, PeersSame DEF Safe, Healthy
    <3>3. ReachesUpToDate(c) => ReachesUpToDate(c)'
      <4>1. Peers(node', linked', c) = Peers(node, linked, c)
        BY <1>0, <3>1, PeersSame DEF Safe, Healthy
      <4>2. \A m \in Peers(node, linked, c) : m \in Node
        BY DEF Peers
      <4>3. QED
        BY <1>0, <2>6, <4>1, <4>2 DEF ReachesUpToDate
    <3>4. QED
      BY <1>0, <2>6, <3>2, <3>3 DEF Safe, Healthy, Primaries
  <2>15. pc' = "mount" => Places'
    BY <1>0, <2>6 DEF Safe, Places, Steps
  <2>16. pc' # "mount" => Places'
    BY <1>0, <2>6 DEF Safe, Places, Steps
  <2>17. QED
    BY <1>0, <2>5, <2>7, <2>11, <2>12, <2>13, <2>14, <2>15, <2>16 DEF Safe, Healthy
<1>3. CASE device.path # "own" \/ pc' = "failed"
  <2>1. UNCHANGED node
    BY <1>0, <1>3 DEF Format
  <2>2. "own" \notin wiped'
    BY <1>0, <1>3 DEF Format, Safe
  <2>3. QED
    BY <1>1, <2>1, <2>2
<1>4. CASE device.path = "own" /\ pc' # "failed"
  <2>1. /\ Readable("own")
        /\ wiped' = IF HasCurrentFs("own") THEN wiped \cup {"own"} ELSE wiped
        /\ node' = [n \in Node |-> IF n \in Replicas(c) THEN [node[n] EXCEPT !.fs = TRUE] ELSE node[n]]
    BY <1>4 DEF Format
  <2>2. QED
    BY <1>2, <1>4, <2>1
<1>5. QED
  BY <1>3, <1>4

LEMMA HandlerIsSafe ==
  ASSUME TypeOK, TypeOK', Safe, Handler
  PROVE  Safe'
BY LooksAreSafe, StartingIsSafe, ConnectingIsSafe, PromoteIsSafe, SkipSyncIsSafe, ForcePromoteIsSafe,
   PickDeviceIsSafe, FormatIsSafe
   DEF Handler

---------------------------------------------------------------------------
(* The clusters an activation may find: all current data is the original    *)
(* one and has a filesystem.                                                *)
NewNode == [FreshNode EXCEPT !.disk = "NoMeta", !.file = "disabled", !.armed = FALSE]
Started(s) ==
  /\ Good(s)
  /\ s.disk = "UpToDate" => s.data = "original" /\ s.fs = TRUE
  /\ s.disk # "UpToDate" => s.fs = FALSE

LEMMA StartNodes ==
  /\ Started(FreshNode) /\ Reachable(FreshNode)
  /\ FreshNode.role = "Secondary" /\ FreshNode.disk = "Inconsistent"
  /\ FreshNode.file = "toml"
  /\ Started(SyncedNode) /\ SyncedNode.role = "Secondary" /\ Reachable(SyncedNode) /\ SyncedNode.file = "toml"
  /\ Started(ServingNode) /\ Reachable(ServingNode) /\ ServingNode.disk = "UpToDate" /\ ServingNode.file = "toml"
  /\ \A s \in Differing : Started(s) /\ s.role = "Secondary" /\ s.file = "toml"
  /\ \A s \in Differing \ Joining : Reachable(s)
  /\ Started(NewNode) /\ Reachable(NewNode) /\ NewNode.role = "Secondary"
<1> USE DEF Started, Good, Reachable
<1>1. /\ Started(FreshNode) /\ Reachable(FreshNode)
      /\ FreshNode.role = "Secondary" /\ FreshNode.disk = "Inconsistent" /\ FreshNode.file = "toml"
  BY DEF FreshNode
<1>2. /\ Started(SyncedNode) /\ SyncedNode.role = "Secondary" /\ Reachable(SyncedNode)
      /\ SyncedNode.file = "toml"
  BY DEF SyncedNode, FreshNode
<1>3. /\ Started(ServingNode) /\ Reachable(ServingNode) /\ ServingNode.disk = "UpToDate"
      /\ ServingNode.file = "toml"
  BY DEF ServingNode, SyncedNode, FreshNode
<1>4. ASSUME NEW s, s = [FreshNode EXCEPT !.alone = TRUE, !.joined = FALSE]
      PROVE  Started(s) /\ s.role = "Secondary" /\ s.file = "toml"
  BY <1>4 DEF FreshNode
<1>5. ASSUME NEW s, s = [FreshNode EXCEPT !.up = FALSE, !.joined = FALSE, !.disk = "NoMeta", !.armed = FALSE]
      PROVE  Started(s) /\ s.role = "Secondary" /\ s.file = "toml"
  BY <1>5 DEF FreshNode
<1>6. ASSUME NEW s, s = [SyncedNode EXCEPT !.up = FALSE, !.joined = FALSE, !.armed = FALSE]
      PROVE  Started(s) /\ s.role = "Secondary" /\ s.file = "toml"
  BY <1>6 DEF SyncedNode, FreshNode
<1>7. Started(NewNode) /\ Reachable(NewNode) /\ NewNode.role = "Secondary"
  BY DEF NewNode, FreshNode
<1>8. ASSUME NEW s, s = [FreshNode EXCEPT !.disk = "NoMeta"]
      PROVE  Started(s) /\ Reachable(s) /\ s.role = "Secondary" /\ s.file = "toml"
  BY <1>8 DEF FreshNode
<1>9. \A s \in Differing : Started(s) /\ s.role = "Secondary" /\ s.file = "toml"
  <2> HIDE DEF Started
  <2>1. QED
    BY <1>1, <1>2, <1>4, <1>5, <1>6, <1>8 DEF Differing, Joining
<1>10. \A s \in Differing \ Joining : Reachable(s)
  <2> HIDE DEF Reachable
  <2>1. QED
    BY <1>1, <1>2, <1>8 DEF Differing
<1>11. QED
  BY <1>1, <1>2, <1>3, <1>7, <1>9, <1>10

LEMMA InitIsSafe == Init /\ faults \subseteq {"foreign"} => Safe
<1> SUFFICES ASSUME Init, faults \subseteq {"foreign"} PROVE Safe
  OBVIOUS
<1>0. /\ c \in Node /\ node \in StartStates /\ linked = TRUE /\ pc = "idle"
      /\ node[c] \notin Joining
  BY ControllerAssumption DEF c, Init
<1> DEFINE Shape ==
      /\ \A n \in Node : Started(node[n]) /\ (n # c => node[n].file = "toml")
      /\ \A m, n \in Node : node[m].role = "Primary" /\ node[n].role = "Primary" => m = n
      /\ \A n \in Node : node[n].role = "Primary" => node[n].disk = "UpToDate"
      /\ (\E n \in Node : node[n].disk = "UpToDate")
           => \E n \in Node : node[n].disk = "UpToDate" /\ Reachable(node[n])
      /\ Reachable(node[c])
<1>1. Shape
  <2>1. CASE node = [n \in Node |-> FreshNode]
    BY <1>0, <2>1, StartNodes
  <2>2. ASSUME NEW p \in Node, NEW q \in Node, NEW s \in Differing,
               node = [n \in Node |-> IF n = p THEN ServingNode ELSE IF n = q THEN s ELSE SyncedNode]
        PROVE  Shape
    <3>1. Started(s) /\ s.role = "Secondary" /\ s.file = "toml"
      BY StartNodes
    <3>2. /\ node[p] = ServingNode
          /\ \A n \in Node \ {p} : node[n] = s \/ node[n] = SyncedNode
      BY <2>2
    <3>3. \A n \in Node : Started(node[n]) /\ node[n].file = "toml"
      BY <3>1, <3>2, StartNodes
    <3>4. \A n \in Node : node[n].role = "Primary" => n = p
      BY <3>1, <3>2, StartNodes
    <3>5. node[p].disk = "UpToDate" /\ Reachable(node[p])
      BY <3>2, StartNodes
    <3>6. Reachable(node[c])
      <4>1. node[c] \in {ServingNode, SyncedNode} \cup (Differing \ Joining)
        BY <1>0, <2>2
      <4>2. QED
        BY <4>1, StartNodes
    <3>7. QED
      BY <3>3, <3>4, <3>5, <3>6
  <2>3. ASSUME NEW p \in Node, node = [n \in Node |-> IF n = p THEN ServingNode ELSE FreshNode]
        PROVE  Shape
    BY <1>0, <2>3, StartNodes
  <2>4. ASSUME NEW s \in Differing \cup {NewNode}, node = [n \in Node |-> IF n = c THEN s ELSE SyncedNode]
        PROVE  Shape
    <3>1. Started(s) /\ s.role = "Secondary"
      BY StartNodes
    <3>2. Reachable(s)
      BY <1>0, <2>4, StartNodes
    <3>3. QED
      BY <1>0, <2>4, <3>1, <3>2, StartNodes
  <2> DEFINE serving == {[n \in Node |-> IF n = p THEN ServingNode ELSE IF n = q THEN s ELSE SyncedNode] :
                           p \in Node, q \in Node, s \in Differing}
             syncing == {[n \in Node |-> IF n = p THEN ServingNode ELSE FreshNode] : p \in Node}
             resting == {[n \in Node |-> IF n = c THEN s ELSE SyncedNode] : s \in Differing \cup {NewNode}}
  <2>5. node \in {[n \in Node |-> FreshNode]} \cup serving \cup syncing \cup resting
    BY <1>0 DEF StartStates, NewNode
  <2> HIDE DEF Shape
  <2>6. CASE node \in serving
    BY <2>2, <2>6
  <2>7. CASE node \in syncing
    BY <2>3, <2>7
  <2>8. CASE node \in resting
    BY <2>4, <2>8
  <2> HIDE DEF serving, syncing, resting
  <2>9. QED
    BY <2>1, <2>5, <2>6, <2>7, <2>8
<1>2. Data
  BY <1>1 DEF Data, Current, Formatted, Started
<1>3. Primaries
  BY <1>0, <1>1 DEF Primaries, Init, ReachesUpToDate
<1>4. Places
  BY <1>0, <1>1 DEF Places, Steps
<1>5. QED
  BY <1>0, <1>1, <1>2, <1>3, <1>4 DEF Safe, Healthy, Started, Init

---------------------------------------------------------------------------
(* No path of the handler leads to another resource that has not minor 0.   *)
LEMMA AloneStays ==
  ASSUME TypeOK, Alone, "foreign" \notin faults', [Next]_vars
  PROVE  Alone'
<1>1. CASE Request \/ Abort \/ Up \/ CreateMd \/ UpRetry \/ Attach \/ Connect \/ CheckRole \/ Promote
  BY <1>1 DEF Alone, Request, Abort, Up, CreateMd, UpRetry, Attach, Connect, CheckRole, Promote, Goto,
              machineVars, Keep, NoDevice
<1>2. CASE \/ SkipSync \/ ForcePromote \/ Validate \/ SyncCheck \/ SyncWait \/ Decide
           \/ MountDevice \/ Services \/ Reload
  BY <1>2 DEF Alone, SkipSync, ForcePromote, Validate, SyncCheck, SyncWait, Decide, MountDevice, Services,
              Reload, Goto, LookAgain, machineVars, Keep
<1>3. CASE PickDevice
  <2> DEFINE found == {i \in 1..3 : Exists(Candidates[i])}
             first == CHOOSE i \in found : \A j \in found : i <= j
  <2>1. CASE found = {}
    BY <1>3, <2>1 DEF PickDevice, Goto, machineVars, Alone
  <2>2. CASE found # {}
    <3>1. \E i \in found : \A j \in found : i <= j
      <4>1. found \subseteq {1, 2, 3}
        OBVIOUS
      <4> HIDE DEF found
      <4>2. PICK k \in found : TRUE
        BY <2>2
      <4>3. CASE 1 \in found
        BY <4>1, <4>3
      <4>4. CASE 1 \notin found /\ 2 \in found
        BY <4>1, <4>4
      <4>5. CASE 1 \notin found /\ 2 \notin found
        BY <4>1, <4>2, <4>5
      <4>6. QED
        BY <4>3, <4>4, <4>5
    <3>2. first \in found
      BY <3>1
    <3>3. Exists(Candidates[first])
      BY <3>2
    <3> HIDE DEF found, first
    <3>4. Target(Candidates[first]) = "own"
      BY <3>3 DEF Target, Exists, Alone
    <3>5. \E seen : device' = [path |-> Target(Candidates[first]), fs |-> seen]
      BY <1>3, <2>2 DEF PickDevice, found, first
    <3>6. device'.path = "own"
      BY <3>4, <3>5
    <3>7. UNCHANGED <<minor0, wiped>>
      BY <1>3, <2>2 DEF PickDevice, found, Goto, machineVars
    <3>8. QED
      BY <3>6, <3>7 DEF Alone
  <2>3. QED
    BY <2>1, <2>2
<1>4. CASE Format
  BY <1>4 DEF Format, Keep, Alone
<1>5. CASE Environment
  BY <1>5 DEF Environment, OtherFailover, NodeFails, NetworkFails, handlerVars, machineVars, Alone
<1>6. CASE UNCHANGED vars
  BY <1>6 DEF vars, handlerVars, machineVars, Alone
<1>7. QED
  BY <1>1, <1>2, <1>3, <1>4, <1>5, <1>6 DEF Next, Handler

(* What has happened is not forgotten.                                      *)
LEMMA FaultsGrow == [Next]_vars => faults \subseteq faults'
<1>1. Request \/ Abort \/ Handler => faults' = faults
  BY DEF Request, Abort, Handler, Up, CreateMd, UpRetry, Attach, Connect, CheckRole, Promote, SkipSync,
         ForcePromote, Validate, SyncCheck, SyncWait, PickDevice, Decide, Format, MountDevice, Services,
         Reload, Goto, LookAgain, machineVars
<1>2. Environment => faults \subseteq faults'
  BY DEF Environment, OtherFailover, NodeFails, NetworkFails, Happens, Fails, handlerVars, machineVars
<1>3. UNCHANGED vars => faults' = faults
  BY DEF vars, handlerVars, machineVars
<1>4. QED
  BY <1>1, <1>2, <1>3 DEF Next

(* On any number of nodes, and whatever fails: as long as no link and no    *)
(* node has failed and the controller was connected when the requests came, *)
(* it stays connected, current data is the same everywhere, and the device  *)
(* an activation is about to format holds no filesystem or cannot be        *)
(* written; and as long as no other resource has minor 0, the device it     *)
(* works on is the profile's own.                                           *)
THEOREM ActivationInvariant == Spec => []IInv
<1>1. Init => IInv
  <2> SUFFICES ASSUME Init PROVE IInv
    OBVIOUS
  <2>1. "foreign" \notin faults => Alone
    BY DEF Init, Alone, NoDevice
  <2>2. QED
    BY <2>1, InitTypes, InitIsSafe DEF IInv
<1>2. IInv /\ [Next]_vars => IInv'
  <2> SUFFICES ASSUME IInv, [Next]_vars PROVE IInv'
    OBVIOUS
  <2>1. TypeOK /\ TypeOK' /\ faults \subseteq faults'
    BY NextTypes, FaultsGrow DEF IInv
  <2>2. ASSUME faults' \subseteq {"foreign"} PROVE Safe'
    <3>1. Safe
      BY <2>1, <2>2 DEF IInv
    <3>2. CASE UNCHANGED vars
      <4>1. Untouched /\ linked' = TRUE /\ UNCHANGED <<pc, status, device, wiped>>
        BY <3>1, <3>2 DEF vars, clusterVars, handlerVars, machineVars, Untouched, SameBut, Safe, Healthy
      <4>2. Healthy' /\ Undisturbed
        BY <2>1, <3>1, <4>1, UntouchedIsHealthy DEF Safe
      <4>3. QED
        BY <2>1, <3>1, <4>1, <4>2, PlacesStay DEF Safe, Healthy
    <3>3. QED
      BY <2>1, <2>2, <3>1, <3>2, RequestIsSafe, HandlerIsSafe, EnvironmentIsSafe DEF Next
  <2>3. "foreign" \notin faults' => Alone'
    BY <2>1, AloneStays DEF IInv
  <2>4. QED
    BY <2>1, <2>2, <2>3 DEF IInv
<1>3. QED
  BY <1>1, <1>2, PTL DEF Spec

(* No mkfs of an activation destroys the profile's data as long as no node  *)
(* and no link fails and the controller is connected when the request       *)
(* comes, and none destroys another resource's data unless that one has     *)
(* minor 0: the blkid look, the role check and the marker together keep it  *)
(* from formatting a device that holds a filesystem.                        *)
THEOREM NeverFormats == Spec => []NeverFormatsData
<1>1. IInv => NeverFormatsData
  BY DEF IInv, Safe, Alone, NeverFormatsData
<1>2. QED
  BY <1>1, ActivationInvariant, PTL
=============================================================================
