-------------------------- MODULE ActivateProfile --------------------------
(***************************************************************************)
(* The activate_profile handler (drbd-ha/src/api/ha/control.rs): one       *)
(* request runs a chain of commands on the controller.  Every command is   *)
(* an await: the cluster may change between two of them.                   *)
(***************************************************************************)
EXTENDS DrbdCluster

CONSTANTS Faults,      \* what may happen around the request:
(*   "partition"  the replication network may fail                          *)
(*   "failover"   nodes may go down and come back; the controller's request *)
(*                does not survive its own node                             *)
(*   "foreign"    minor 0 may belong to another resource                    *)
(*   "rejoin"     the controller's resource may be down or StandAlone when  *)
(*                the request comes                                         *)
          MaxFaults,   \* bounds how many of these happen
          MaxLooks     \* the looks of a waiting loop (30, 300)

ASSUME FaultsAssumption ==
  /\ Faults \subseteq {"partition", "failover", "foreign", "rejoin"}
  /\ MaxFaults \in Nat /\ MaxLooks \in Nat \ {0}

VARIABLES pc,       \* the command the request runs next, or how it was answered
          looks,    \* validation_attempts, sync_wait_attempts
          status,   \* what the handler keeps of the status it read last
          device,   \* the device it works on, and whether blkid found a filesystem
          marker,   \* /var/lib/drbd-ha/RES.activated exists on the controller
          minor0,   \* whose device /dev/drbd0 is on the controller
          otherFs,  \* the other resource's device holds a filesystem
          wiped,    \* ghost: the devices whose data an mkfs destroyed
          faults,   \* ghost: what has happened so far
          events    \* ghost: how many of them, bounded by MaxFaults

machineVars == <<marker, minor0, otherFs, wiped, faults, events>>
handlerVars == <<pc, looks, status, device, machineVars>>
vars == <<clusterVars, handlerVars>>

c == Controller

Terminal == {"idle", "active", "delegated", "failed", "notfound"}
Steps == {"up", "createMd", "upRetry", "attach", "connect", "checkRole", "promote",
          "skipSync", "forcePromote", "validate", "syncCheck", "syncWait", "pickDevice", "decide", "format",
          "mount", "services", "reload"}

TypeOK ==
  /\ ClusterTypeOK
  /\ pc \in Terminal \cup Steps /\ looks \in 0..(MaxLooks - 1)
  /\ status \in [diskless: BOOLEAN, alone: BOOLEAN]
  /\ device \in [path: {"none", "own", "other"}, fs: BOOLEAN]
  /\ marker \in BOOLEAN /\ otherFs \in BOOLEAN
  /\ minor0 \in {"own", "absent", "otherPrimary", "otherSecondary"}
  /\ wiped \subseteq {"own", "other"}
  /\ faults \subseteq Faults /\ events \in 0..MaxFaults

NoStatus == [diskless |-> FALSE, alone |-> FALSE]
NoDevice == [path |-> "none", fs |-> FALSE]

(* The cluster just created, in its first synchronisation, or in service on *)
(* one node, with at most one node caught in a resync, without a disk,      *)
(* down, StandAlone or without metadata; or nobody serves.                  *)
Joining ==
  {[FreshNode EXCEPT !.alone = TRUE, !.joined = FALSE],
   [FreshNode EXCEPT !.up = FALSE, !.joined = FALSE, !.disk = "NoMeta", !.armed = FALSE],
   [SyncedNode EXCEPT !.up = FALSE, !.joined = FALSE, !.armed = FALSE]}
Differing == Joining \cup {SyncedNode, FreshNode, [FreshNode EXCEPT !.disk = "NoMeta"]}

StartStates ==
  {[n \in Node |-> FreshNode]}
  \cup {[n \in Node |-> IF n = p THEN ServingNode ELSE IF n = q THEN s ELSE SyncedNode] :
          p \in Node, q \in Node, s \in Differing}
  \cup {[n \in Node |-> IF n = p THEN ServingNode ELSE FreshNode] : p \in Node}
  \cup {[n \in Node |-> IF n = c THEN s ELSE SyncedNode] :
          s \in Differing \cup
                {[FreshNode EXCEPT !.disk = "NoMeta", !.file = "disabled", !.armed = FALSE]}}

Init ==
  /\ node \in StartStates
  /\ linked = TRUE
  /\ \A n \in Node : node[n].role = "Primary" => HasQuorum(n)
  /\ pc = "idle" /\ looks = 0 /\ status = NoStatus /\ device = NoDevice
  /\ marker = FALSE /\ wiped = {}
  /\ minor0 \in {"own", "absent", "otherPrimary", "otherSecondary"} /\ otherFs \in BOOLEAN
  /\ otherFs => minor0 \in {"otherPrimary", "otherSecondary"}
  /\ faults = (IF minor0 \in {"otherPrimary", "otherSecondary"} THEN {"foreign"} ELSE {})
              \cup (IF node[c] \in Joining THEN {"rejoin"} ELSE {})
  /\ faults \subseteq Faults /\ events = Cardinality(faults) /\ events <= MaxFaults

---------------------------------------------------------------------------
Goto(p) == pc' = p /\ looks' = 0 /\ UNCHANGED machineVars
(* A look that found nothing: the next one, or q after the last.            *)
LookAgain(q) ==
  /\ pc' = IF looks + 1 = MaxLooks THEN q ELSE pc
  /\ looks' = (looks + 1) % MaxLooks /\ UNCHANGED machineVars
Keep    == UNCHANGED <<status, device>>
Quiet   == UNCHANGED clusterVars

(* Only NAME.toml is read: a profile kept as NAME.toml.disabled is unknown. *)
Request ==
  /\ pc \in Terminal
  /\ Goto(IF node[c].file = "toml" THEN "up" ELSE "notfound")
  /\ status' = NoStatus /\ device' = NoDevice /\ Quiet

(* The `?` after a command: the shell or the connection to the controller   *)
(* failed, or the client went away.  What was done stays done.              *)
Abort == pc \in Steps /\ Goto("failed") /\ Keep /\ Quiet

(* drbdadm up; a failure other than missing metadata is only logged.        *)
Up ==
  /\ pc = "up" /\ Keep
  /\ \/ /\ node[c].disk = "NoMeta"
        /\ node' = [node EXCEPT ![c] = UpCommand(@)] /\ Goto("createMd")
     \/ /\ node[c].disk # "NoMeta"
        /\ node' = [node EXCEPT ![c] = UpCommand(@)] /\ Goto("attach")
     \/ Goto("attach") /\ UNCHANGED node
  /\ UNCHANGED linked

CreateMd ==
  /\ pc = "createMd" /\ Keep
  /\ \/ node' = [node EXCEPT ![c].disk = "Inconsistent"] /\ Goto("upRetry")
     \/ UNCHANGED node /\ Goto("failed")
  /\ UNCHANGED linked

UpRetry == pc = "upRetry" /\ Keep /\ Quiet /\ (Goto("attach") \/ Goto("failed"))

(* One status decides both about attaching and, later, about connecting.    *)
Attach ==
  /\ pc = "attach" /\ Goto("connect")
  /\ status' = [diskless |-> ShowsDiskless(c), alone |-> node[c].up /\ node[c].alone]
  /\ \/ ShowsDiskless(c) /\ node[c].disk = "NoMeta"
        /\ node' = [node EXCEPT ![c].disk = "Inconsistent"]
     \/ UNCHANGED node
  /\ UNCHANGED <<linked, device>>

(* drbdadm connect; its result is only logged, and nothing waits for the    *)
(* handshake.                                                               *)
Connect ==
  /\ pc = "connect" /\ Goto("checkRole") /\ Keep /\ UNCHANGED linked
  /\ \/ status.alone /\ node[c].alone /\ node' = [node EXCEPT ![c] = ConnectCommand(@)]
     \/ UNCHANGED node

(* status_check_out.stdout.contains("role:Primary"): any line will do.      *)
CheckRole ==
  /\ pc = "checkRole" /\ Keep /\ Quiet
  /\ Goto(IF ShowsRole(c, "Primary") THEN "validate" ELSE "promote")

Promoted(s) == [s EXCEPT !.role = "Primary"]

(* "Need access to UpToDate data" is the answer when no current data can be *)
(* reached, and may be the answer when there is no quorum.                  *)
Promote ==
  /\ pc = "promote" /\ Keep
  /\ \/ /\ CanPromote(c)
        /\ node' = [node EXCEPT ![c] = Promoted(@)] /\ Goto("validate")
     \/ /\ ~CanPromote(c) /\ UNCHANGED node
        /\ \/ node[c].up /\ ~PeerIsPrimary(c) /\ Goto("skipSync")
           \/ (~node[c].up \/ PeerIsPrimary(c) \/ ReachesUpToDate(c)) /\ Goto("failed")
  /\ UNCHANGED linked

(* drbdadm new-current-uuid --clear-bitmap works on a resource all of whose *)
(* nodes are connected, Secondary and Inconsistent; its result is logged.   *)
SkipSync ==
  /\ pc = "skipSync" /\ Goto("forcePromote") /\ Keep
  /\ IF Shown(c) = Node /\ \A n \in Node : node[n].disk = "Inconsistent" /\ node[n].role = "Secondary"
     THEN node' = [n \in Node |-> [node[n] EXCEPT !.disk = "UpToDate", !.data = "forced"]]
     ELSE UNCHANGED node
  /\ UNCHANGED linked

(* drbdadm primary --force makes whatever the local disk holds current.     *)
ForcePromote ==
  /\ pc = "forcePromote" /\ Keep
  /\ \/ /\ node[c].up /\ node[c].disk # "NoMeta" /\ ~PeerIsPrimary(c)
        /\ node' = [node EXCEPT ![c] =
                      IF ReachesUpToDate(c) THEN Promoted(@)
                      ELSE [Promoted(@) EXCEPT !.disk = "UpToDate", !.data = "forced"]]
        /\ Goto("validate")
     \/ UNCHANGED node /\ Goto("failed")
  /\ UNCHANGED linked

(* Up to thirty looks at the status; again any line of it will do.          *)
LooksReady == ShowsRole(c, "Primary") /\ Shown(c) # {} /\ ~ShowsDiskless(c)

ValidateForever ==   \* mutant
  /\ pc = "validate" /\ Keep /\ Quiet
  /\ Goto(IF LooksReady THEN "syncCheck" ELSE "validate")

Validate ==
  /\ pc = "validate" /\ Keep /\ Quiet
  /\ \/ LooksReady /\ Goto("syncCheck")
     \/ ~LooksReady /\ LookAgain("failed")

(* A resync may be shown as "sync:"; the wait for its end proceeds either   *)
(* way after the last look.                                                 *)
Resyncing ==
  \E n \in Peers(node, linked, c) : {node[c].disk, node[n].disk} = {"UpToDate", "Inconsistent"}
SyncCheck ==
  pc = "syncCheck" /\ Keep /\ Quiet /\ (Goto("pickDevice") \/ (Resyncing /\ Goto("syncWait")))
SyncWait ==
  pc = "syncWait" /\ Keep /\ Quiet /\ (Goto("pickDevice") \/ (Resyncing /\ LookAgain("pickDevice")))

(* The candidate paths in the handler's order.  A name that is no number    *)
(* makes the first and the last one /dev/drbd0, whosever that is.           *)
Exists(path) ==
  CASE path = "drbd0"  -> minor0 \in {"otherPrimary", "otherSecondary"}
                          \/ (minor0 = "own" /\ node[c].up)
    [] path = "by-res" -> node[c].up
TargetIsPath(path) == path   \* mutant
Target(path) == IF path = "drbd0" /\ minor0 # "own" THEN "other" ELSE "own"
Candidates == <<"drbd0", "by-res", "drbd0">>

(* blkid reads the superblock of a device that can be opened: a Secondary   *)
(* device may or may not be.                                                *)
Readable(d) ==
  IF d = "own" THEN CanUse(c) ELSE minor0 = "otherPrimary"
HoldsFs(d)  == IF d = "own" THEN ReadsFs(c) ELSE otherFs

PickWithoutBlkid ==   \* mutant
  /\ pc = "pickDevice" /\ Quiet /\ UNCHANGED status
  /\ device' = [path |-> "own", fs |-> FALSE] /\ Goto("decide")

PickDevice ==
  /\ pc = "pickDevice" /\ Quiet /\ UNCHANGED status
  /\ LET found == {i \in 1..3 : Exists(Candidates[i])}
         first == CHOOSE i \in found : \A j \in found : i <= j
         d     == Target(Candidates[first])
     IN IF found = {}
        THEN Goto("failed") /\ UNCHANGED device
        ELSE \E seen \in (IF Readable(d) THEN {HoldsFs(d)} ELSE {FALSE, HoldsFs(d)}) :
               /\ device' = [path |-> d, fs |-> seen]
               /\ Goto(IF seen THEN "mount" ELSE "decide")

(* should_be_active: again any Primary in the output counts as this node;   *)
(* with no role in the output the first host name in order goes on.         *)
Decide ==
  /\ pc = "decide" /\ Keep /\ Quiet
  /\ \/ ShowsRole(c, "Primary") /\ Goto(IF marker THEN "mount" ELSE "format")
     \/ ~ShowsRole(c, "Primary") /\ Shown(c) # {} /\ Goto("delegated")
     \/ Shown(c) = {} /\ (Goto(IF marker THEN "mount" ELSE "format") \/ Goto("delegated"))

HasCurrentFs(d) ==
  \/ d = "other" /\ otherFs
  \/ d = "own" /\ \E n \in Replicas(c) : node[n].fs

(* mkfs needs a device that takes writes and is not mounted; touching the   *)
(* marker may fail unnoticed.                                               *)
Format ==
  /\ pc = "format" /\ Keep /\ looks' = 0 /\ UNCHANGED <<linked, minor0, faults, events>>
  /\ \/ /\ Readable(device.path) /\ node[c].mount # device.path
        /\ pc' = "mount" /\ marker' \in BOOLEAN
        /\ wiped' = IF HasCurrentFs(device.path) THEN wiped \cup {device.path} ELSE wiped
        /\ IF device.path = "own"
           THEN /\ node' = [n \in Node |-> IF n \in Replicas(c) THEN [node[n] EXCEPT !.fs = TRUE]
                                           ELSE node[n]]
                /\ UNCHANGED otherFs
           ELSE otherFs' = TRUE /\ UNCHANGED node
     \/ /\ pc' = "failed" /\ UNCHANGED <<node, marker, wiped, otherFs>>

(* The result of the mount is logged only.                                  *)
MountDevice ==
  /\ pc = "mount" /\ Goto("services") /\ Keep
  /\ \/ /\ Readable(device.path) /\ HoldsFs(device.path)
        /\ node' = [node EXCEPT ![c].mount = device.path]
     \/ UNCHANGED node
  /\ UNCHANGED linked

(* A reactor that manages the profile is left to start the stack, and the   *)
(* services are enabled; otherwise they are started here.                   *)
Services ==
  /\ pc = "services" /\ Keep /\ UNCHANGED linked
  /\ \/ /\ node[c].armed
        /\ node' = [node EXCEPT ![c].boot = TRUE] /\ Goto("reload")
     \/ /\ node[c].armed /\ UNCHANGED node /\ Goto("reload")
     \/ /\ ~node[c].armed
        /\ node' = [node EXCEPT ![c].svc = TRUE] /\ Goto("reload")
     \/ /\ ~node[c].armed /\ UNCHANGED node /\ Goto("failed")

(* reload_reactor's result is dropped.                                      *)
Reload ==
  /\ pc = "reload" /\ Goto("active") /\ Keep /\ UNCHANGED linked
  /\ node' \in ReloadOutcomes

---------------------------------------------------------------------------
Handler ==
  \/ Up \/ CreateMd \/ UpRetry \/ Attach \/ Connect \/ CheckRole \/ Promote
  \/ SkipSync \/ ForcePromote \/ Validate \/ SyncCheck \/ SyncWait \/ PickDevice
  \/ Decide \/ Format \/ MountDevice \/ Services \/ Reload

(* The other resource, when it has minor 0, moves between nodes as well.    *)
OtherFailover ==
  /\ minor0 \in {"otherPrimary", "otherSecondary"}
  /\ minor0' = IF minor0 = "otherPrimary" THEN "otherSecondary" ELSE "otherPrimary"
  /\ Quiet /\ UNCHANGED <<pc, looks, status, device, marker, otherFs, wiped, faults, events>>

Happens(f) == f \in Faults /\ faults' = faults \cup {f}
Fails(f)   == Happens(f) /\ events < MaxFaults /\ events' = events + 1

(* A node that goes down takes a request that runs on it along.             *)
NodeFails(n) ==
  /\ \/ NodeDown(n) /\ Fails("failover")
     \/ ~node[n].up /\ Boot(n) /\ Happens("failover") /\ UNCHANGED events
  /\ pc' = IF n = c /\ pc \in Steps THEN "failed" ELSE pc
  /\ UNCHANGED <<looks, status, device, marker, minor0, otherFs, wiped>>

NetworkFails ==
  /\ \/ LinkDown /\ Fails("partition")
     \/ LinkUp /\ UNCHANGED <<faults, events>>
  /\ UNCHANGED <<pc, looks, status, device, marker, minor0, otherFs, wiped>>

Environment ==
  \/ /\ UNCHANGED handlerVars
     /\ \E n \in Node : \/ ReactorPromote(n) \/ ReactorStack(n) \/ ReactorQuorumLoss(n)
                        \/ ResyncDone(n) \/ Handshake(n)
  \/ \E n \in Node : NodeFails(n)
  \/ NetworkFails \/ OtherFailover

Next == Request \/ Handler \/ Abort \/ Environment

Spec == Init /\ [][Next]_vars
(* The tokio runtime runs a started request on; clients, nodes and the      *)
(* network owe nothing.                                                     *)
FairSpec == Spec /\ WF_vars(Handler)

---------------------------------------------------------------------------
(* No mkfs of an activation destroys the profile's data as long as no node *)
(* and no link fails and the controller is connected when the request       *)
(* comes; and none destroys the data of another resource, unless that one   *)
(* has minor 0.  The blkid look, the role check and the marker together     *)
(* keep it from formatting a device that holds a filesystem.                *)
NeverFormatsData ==
  /\ faults \subseteq {"foreign"} => "own" \notin wiped
  /\ "foreign" \notin faults => "other" \notin wiped

(* A device that holds a filesystem is never formatted, whatever fails      *)
(* around the request ("Only format if no filesystem was found").           *)
FormatsNothing == wiped = {}

(* The forced promotion is for a resource whose first synchronisation is    *)
(* still to come ("Resource not synced yet"): it leaves no two replicas     *)
(* with different current data.                                             *)
NoDivergence == ~Diverged

(* A started request is answered: both waiting loops give up.               *)
RequestAnswered == (pc \in Steps) ~> (pc \in Terminal)

============================================================================
