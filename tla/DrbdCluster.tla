---------------------------- MODULE DrbdCluster ----------------------------
(***************************************************************************)
(* The outside world of the handlers in drbd-ha/src/api: one DRBD resource *)
(* replicated over the nodes, the mount and the managed service on top of  *)
(* it, systemd and the drbd-reactor daemon of each node.  None of this is  *)
(* code of the repository: it is modelled from the commands the handlers   *)
(* issue (drbdadm, systemctl, mount, mkfs) and from the output they match  *)
(* ("role:Primary", "disk:Diskless", "Need access to UpToDate data"...).   *)
(* Every operator is about one node or one command; the handlers' modules  *)
(* decide when a command runs and what happens with its result.            *)
(***************************************************************************)
EXTENDS Naturals, FiniteSets

CONSTANTS Node,        \* the cluster's nodes
          Controller   \* the node on which the handlers' local commands run

ASSUME ControllerAssumption == Controller \in Node
ASSUME NodeAssumption == IsFiniteSet(Node)

VARIABLES node,        \* what exists on each node
          linked       \* the replication network works

clusterVars == <<node, linked>>

Role  == {"Primary", "Secondary"}
(* "NoMeta" is a backing disk without DRBD metadata: an attached resource   *)
(* whose disk is NoMeta shows disk:Diskless.                                *)
Disk  == {"NoMeta", "Inconsistent", "UpToDate"}
(* The lineage of the data on a backing disk: blank, the data the cluster   *)
(* was synchronised with, the data a forced promotion started from, or the  *)
(* data that a migration copied.                                            *)
Lineage == {"blank", "original", "forced", "migrated"}
(* A resource that is up is StandAlone, or it connects, or its connections   *)
(* are established (joined): they come up together.                         *)
(* The promoter file of the profile: absent, NAME.toml, NAME.toml.disabled. *)
File  == {"absent", "toml", "disabled"}
Mount == {"none", "own", "other"}

NodeState ==
  [up: BOOLEAN, alone: BOOLEAN, joined: BOOLEAN, role: Role, disk: Disk, data: Lineage, fs: BOOLEAN,
   mount: Mount, stack: BOOLEAN, svc: BOOLEAN, boot: BOOLEAN, file: File, armed: BOOLEAN]

ClusterTypeOK ==
  /\ node \in [Node -> NodeState]
  /\ linked \in BOOLEAN

(* A node as create_profile leaves it before the first synchronisation.     *)
FreshNode ==
  [up |-> TRUE, alone |-> FALSE, joined |-> TRUE, role |-> "Secondary", disk |-> "Inconsistent",
   data |-> "blank", fs |-> FALSE, mount |-> "none", stack |-> FALSE, svc |-> FALSE,
   boot |-> FALSE, file |-> "toml", armed |-> TRUE]

(* A node with synchronised data and a filesystem, and one that serves it.   *)
SyncedNode == [FreshNode EXCEPT !.disk = "UpToDate", !.data = "original", !.fs = TRUE]
ServingNode == [SyncedNode EXCEPT !.role = "Primary", !.mount = "own", !.stack = TRUE, !.svc = TRUE]

---------------------------------------------------------------------------
(* What a node sees of its peers.                                           *)
Connected(s, l, m, n) ==
  /\ m # n /\ l
  /\ s[m].up /\ s[n].up
  /\ ~s[m].alone /\ ~s[n].alone
  /\ s[m].joined /\ s[n].joined

Peers(s, l, n) == {m \in Node : Connected(s, l, m, n)}

(* The nodes whose lines appear in `drbdadm status` on n: the local one and *)
(* one per connected peer.                                                  *)
Shown(n) == IF node[n].up THEN {n} \cup Peers(node, linked, n) ELSE {}

ShowsRole(n, r)  == \E m \in Shown(n) : node[m].role = r
ShowsDisk(n, d)  == \E m \in Shown(n) : node[m].disk = d
ShowsDiskless(n) == ShowsDisk(n, "NoMeta")

(* DRBD's own rules for `drbdadm primary`: never two connected Primaries,   *)
(* and a plain promotion needs UpToDate data on this node or on a peer.     *)
PeerIsPrimary(n) == \E m \in Peers(node, linked, n) : node[m].role = "Primary"
ReachesUpToDate(n) ==
  \/ node[n].disk = "UpToDate"
  \/ node[n].disk = "Inconsistent" /\ \E m \in Peers(node, linked, n) : node[m].disk = "UpToDate"
(* config-gen writes "quorum majority; on-no-quorum io-error": without a     *)
(* majority of the nodes a plain promotion is refused and all I/O fails.    *)
QuorumOff(n) == TRUE   \* mutant
HasQuorum(n) == 2 * (1 + Cardinality(Peers(node, linked, n))) > Cardinality(Node)
CanPromote(n) ==
  node[n].up /\ ~PeerIsPrimary(n) /\ ReachesUpToDate(n) /\ HasQuorum(n)
CanUse(n) == node[n].role = "Primary" /\ ReachesUpToDate(n) /\ HasQuorum(n)

(* A resync target takes the lineage and the filesystem of its source.      *)
SyncFrom(t, s) == [t EXCEPT !.disk = "UpToDate", !.data = s.data, !.fs = s.fs]

(* A node whose own disk is not current reads through a connected one.      *)
ReadsFs(n) ==
  IF node[n].disk = "UpToDate" THEN node[n].fs
  ELSE \E m \in Peers(node, linked, n) : node[m].disk = "UpToDate" /\ node[m].fs

(* The nodes whose disks hold what a write on n's device writes.            *)
Replicas(n) == {n} \cup {m \in Peers(node, linked, n) : node[m].disk = "UpToDate"}

(* Two disks both claim to be current and hold different histories.         *)
Diverged == \E m, n \in Node :
  /\ node[m].disk = "UpToDate" /\ node[n].disk = "UpToDate"
  /\ node[m].data # node[n].data

---------------------------------------------------------------------------
(* Steps of the outside world.                                              *)

(* drbd-reactor promotes a resource that nobody has promoted, starts the    *)
(* profile's stack once on a resource it finds promoted (mount, service),   *)
(* and shuts it down again when the node loses quorum.                      *)
ReactorPromote(n) ==
  /\ node[n].armed /\ node[n].role = "Secondary" /\ node[n].mount = "none" /\ CanPromote(n)
  /\ node' = [node EXCEPT ![n].role = "Primary", ![n].stack = FALSE]
  /\ UNCHANGED linked

ReactorStack(n) ==
  /\ node[n].armed /\ ~node[n].stack
  /\ CanUse(n) /\ ReadsFs(n) /\ node[n].mount # "other"
  /\ node' = [node EXCEPT ![n].mount = "own", ![n].stack = TRUE, ![n].svc = TRUE]
  /\ UNCHANGED linked

ReactorQuorumLoss(n) ==
  /\ node[n].armed /\ node[n].role = "Primary" /\ ~HasQuorum(n) /\ node[n].mount # "other"
  /\ node' = [node EXCEPT ![n].mount = "none", ![n].stack = FALSE, ![n].svc = FALSE,
                          ![n].role = "Secondary"]
  /\ UNCHANGED linked

(* A resync finishes: an Inconsistent node gets the data of a connected one.*)
ResyncDone(n) ==
  /\ node[n].disk = "Inconsistent"
  /\ \E m \in Peers(node, linked, n) :
       /\ node[m].disk = "UpToDate"
       /\ node' = [node EXCEPT ![n] = SyncFrom(@, node[m])]
  /\ UNCHANGED linked

(* drbdadm up returns before the peers have answered, and so does drbdadm   *)
(* connect: the handshake comes later.                                      *)
UpCommand(s)      == [s EXCEPT !.up = TRUE, !.joined = @ /\ s.up]
DownCommand(s)    == [s EXCEPT !.up = FALSE, !.alone = FALSE, !.joined = FALSE]
ConnectCommand(s) == [s EXCEPT !.alone = FALSE, !.joined = FALSE]

(* A node that meets another Primary than itself, or current data of        *)
(* another lineage, turns StandAlone.                                       *)
Conflict(s, t) ==
  \/ s.role = "Primary" /\ t.role = "Primary"
  \/ s.disk = "UpToDate" /\ t.disk = "UpToDate" /\ s.data # t.data
Met(n) == {m \in Node \ {n} : node[m].up /\ ~node[m].alone /\ node[m].joined}

Handshake(n) ==
  /\ linked /\ node[n].up /\ ~node[n].alone /\ ~node[n].joined
  /\ node' = [node EXCEPT ![n] = IF \E m \in Met(n) : Conflict(node[m], @)
                                 THEN [@ EXCEPT !.alone = TRUE] ELSE [@ EXCEPT !.joined = TRUE]]
  /\ UNCHANGED linked

(* The replication network goes away, and comes back.                       *)
LinkDown ==
  linked /\ linked' = FALSE /\ node' = [n \in Node |-> [node[n] EXCEPT !.joined = FALSE]]
LinkUp == ~linked /\ linked' = TRUE /\ UNCHANGED node

(* A node goes down, and comes back: drbd-reactor brings the resource of a   *)
(* profile it finds up as Secondary, nothing is mounted, and systemd starts *)
(* the units that are enabled at boot.                                      *)
Stopped(s) ==
  [DownCommand(s) EXCEPT !.role = "Secondary", !.mount = "none", !.stack = FALSE, !.svc = FALSE,
                         !.armed = FALSE]

NodeDown(n) ==
  /\ node[n].up
  /\ node' = [node EXCEPT ![n] = Stopped(@)]
  /\ UNCHANGED linked

Booted(s) ==
  [Stopped(s) EXCEPT !.up = (s.file = "toml"), !.armed = (s.file = "toml"), !.svc = s.boot]

Boot(n) ==
  /\ node' = [node EXCEPT ![n] = Booted(@)]
  /\ UNCHANGED linked

(* `systemctl reload drbd-reactor` arms the profiles it finds.  A profile    *)
(* whose file went away is dropped, its stack stopped or left running.       *)
Reloaded(s) ==
  IF s.file = "toml" THEN {[s EXCEPT !.armed = TRUE]}
  ELSE {[s EXCEPT !.armed = FALSE]} \cup
       (IF s.armed /\ s.stack
        THEN {[s EXCEPT !.armed = FALSE, !.stack = FALSE, !.svc = FALSE, !.mount = "none",
                        !.role = "Secondary"]}
        ELSE {})

(* reload_reactor reloads the daemons node after node; a node it cannot     *)
(* reach is reported and skipped.                                           *)
ReloadOutcomes ==
  {after \in [Node -> UNION {Reloaded(node[n]) \cup {node[n]} : n \in Node}] :
     \A n \in Node : after[n] = node[n] \/ after[n] \in Reloaded(node[n])}

(* `drbd-reactorctl disable` renames the profile's file and stops its stack. *)
ReactorDisabled(s) ==
  IF s.file # "toml" THEN s
  ELSE IF s.armed /\ s.stack
       THEN [s EXCEPT !.file = "disabled", !.armed = FALSE, !.stack = FALSE, !.svc = FALSE,
                      !.mount = "none", !.role = "Secondary"]
       ELSE [s EXCEPT !.file = "disabled", !.armed = FALSE]

============================================================================
