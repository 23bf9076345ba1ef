---------------------------- MODULE CreateProfile ----------------------------
(***************************************************************************)
(* create_profile (drbd-ha/src/api/ha/create.rs): one request provisions a *)
(* volume on every node, configures and starts a DRBD resource on them,    *)
(* sets its device up or moves a service's data onto it                    *)
(* (drbd-migration/src/lib.rs), and hands the profile to the reactors.     *)
(* Nothing is undone when a step fails; the client sends the request again.*)
(* The port is left out: it is drawn and written together with the minor.  *)
(***************************************************************************)
EXTENDS DrbdCluster, Storage

CONSTANTS Requests,  \* the creations that clients ask for, see RequestType
          Others,    \* minors of other resources' .res files on the nodes
          MaxTurns,  \* polls of the wait for DRBD after a migration
          MaxRequests \* bound: how many creations are asked for

ASSUME MaxTurnsAssumption == MaxTurns \in Nat \ {0}
ASSUME MaxRequestsAssumption == MaxRequests \in Nat

VARIABLES requests, \* how many were asked for
          store,   \* the storage of each node
          res,     \* the minor in the resource's .res file on each node
          live,    \* the minor under which the resource is up on each node
          stopping, \* systemd has a job to stop the controller's service
          pc,      \* what the request does next, or how the last one was answered
          req,     \* its parameters
          todo,    \* nodes that its current loop has not visited
          broken,  \* a node of the current join_all failed
          temp,    \* migrate's temporary mount is there
          copied,  \* rsync_result is an Ok
          halted,  \* stopped_services is not empty
          turns,   \* sync_attempts
          tidy     \* ghost: no command that undoes a step of this request failed

machine == <<clusterVars, store, res, live, stopping, requests>>
handler == <<req, broken, temp, copied, halted, turns, tidy>>
vars == <<machine, pc, todo, handler>>

c == Controller
Remote == Node \ {c}

Answered == {"idle", "exists", "failed", "created"}
Running == {"provision", "writeLocal", "writeRemote", "mdLocal", "upLocal", "startRemote", "unit",
            "promote", "mkfs", "mount", "seed", "cleanUnmount", "cleanDemote", "unmount", "demote",
            "halt", "haltSource", "promoteSource", "device", "format", "mountTemp", "rsync",
            "unmountTemp", "resume", "demoteRemote", "wait", "overrides", "promoter", "autoDisable",
            "sync", "reload"}

NoMinor == 100
Minor == 0..7
RequestType ==
  [pool: Kind \cup {"none"}, thin: BOOLEAN, disks: SUBSET Node, minor: Minor \cup {NoMinor},
   init: BOOLEAN, migrate: BOOLEAN, format: BOOLEAN, disabled: BOOLEAN, auto: BOOLEAN]
NoRequest ==
  [pool |-> "none", thin |-> FALSE, disks |-> {}, minor |-> NoMinor, init |-> FALSE,
   migrate |-> FALSE, format |-> FALSE, disabled |-> FALSE, auto |-> FALSE]

ASSUME RequestsAssumption == Requests \subseteq RequestType
(* The minors of the model do not run out.                                  *)
ASSUME OthersAssumption ==
  \A a, b \in Minor \cup {NoMinor} : \E m \in Minor : m \notin Others \cup {a, b}

TypeOK ==
  /\ ClusterTypeOK
  /\ store \in [Node -> StorageState]
  /\ res \in [Node -> Minor \cup {NoMinor}] /\ live \in [Node -> Minor \cup {NoMinor}]
  /\ \A n \in Node : node[n].up <=> live[n] # NoMinor
  /\ pc \in Answered \cup Running /\ req \in RequestType /\ todo \subseteq Node
  /\ {broken, temp, copied, halted, tidy, stopping} \subseteq BOOLEAN
  /\ turns \in 0..MaxTurns /\ requests \in 0..MaxRequests

(* An empty cluster, or one whose resource was created through the resource *)
(* requests and holds data that is in sync on all nodes but at most one.    *)
Empty == [FreshNode EXCEPT !.up = FALSE, !.joined = FALSE, !.disk = "NoMeta", !.file = "absent",
                           !.armed = FALSE]
InSync == [SyncedNode EXCEPT !.file = "absent", !.armed = FALSE]

Init ==
  /\ \E n \in Node, s \in {InSync, [InSync EXCEPT !.disk = "Inconsistent"]}, running \in BOOLEAN :
       \/ /\ node = [m \in Node |-> [Empty EXCEPT !.svc = (m = c /\ running)]]
          /\ res = [m \in Node |-> NoMinor] /\ store = [m \in Node |-> BlankStorage]
       \/ /\ node = [m \in Node |-> [IF m = n THEN s ELSE InSync EXCEPT !.svc = (m = c /\ running)]]
          /\ res = [m \in Node |-> 1]
          /\ \E d \in Raw : store =
               [m \in Node |-> [BlankStorage EXCEPT !.raw[d] = "label", !.home["lvm"] = d,
                                                    !.vol["lvm"] = "fs"]]
  /\ live = res /\ linked = TRUE /\ stopping = FALSE /\ requests = 0
  /\ pc = "idle" /\ req = NoRequest /\ todo = {} /\ broken = FALSE /\ temp = FALSE
  /\ copied = FALSE /\ halted = FALSE /\ turns = 0 /\ tidy = TRUE

---------------------------------------------------------------------------
(* Steps through the request: a failure is an answer like any other.        *)
Quiet == UNCHANGED machine
Goto(p) == pc' = p /\ todo' = {}
Loop(p, nodes) == pc' = p /\ todo' = nodes
Start(p, q, nodes) == IF nodes = {} THEN Goto(q) ELSE Loop(p, nodes)
At(p, n) == pc = p /\ n \in todo
Visited(n, q, next) ==
  IF todo = {n} THEN Loop(q, next) ELSE pc' = pc /\ todo' = todo \ {n}
(* The handler's variables end with a request that failed.                  *)
Reset ==
  /\ req' = NoRequest /\ broken' = FALSE /\ temp' = FALSE /\ copied' = FALSE /\ halted' = FALSE
  /\ turns' = 0 /\ tidy' = TRUE
Keep == IF pc' = "failed" THEN Reset ELSE UNCHANGED handler
Change(n, s) == node' = [node EXCEPT ![n] = s] /\ UNCHANGED <<linked, store, res, live, stopping, requests>>
OnController(s) == Change(c, s)

(* The end of a join_all: the first error is returned when all have ended.  *)
Joined(n, ok, q, next) ==
  /\ IF todo = {n} /\ (broken \/ ~ok) THEN Goto("failed") ELSE Visited(n, q, next)
  /\ IF ok \/ todo = {n} THEN Keep
     ELSE broken' = TRUE /\ UNCHANGED <<req, temp, copied, halted, turns, tidy>>

(* The request's future is dropped, or a `?` ends it.                       *)
Abort == pc \in Running /\ Goto("failed") /\ Quiet /\ Keep

---------------------------------------------------------------------------
(* find_next_free_drbd_minor reads the .res files and the kernel; what it   *)
(* cannot read counts as unused.                                            *)
Lowest(used) == CHOOSE m \in Minor : m \notin used /\ \A k \in 0..(m - 1) : k \in used
UsedMinors(files, kernel) ==
  ((IF files THEN Others \cup {res[c]} ELSE {}) \cup (IF kernel THEN {live[c]} ELSE {})) \ {NoMinor}

(* Only NAME.toml is looked for, and a look that fails finds nothing.       *)
Create(rq) ==
  /\ pc \in Answered /\ requests < MaxRequests /\ requests' = requests + 1
  /\ UNCHANGED <<clusterVars, store, res, live, stopping>>
  /\ broken' = FALSE /\ temp' = FALSE /\ copied' = FALSE /\ halted' = FALSE
  /\ turns' = 0 /\ tidy' = TRUE
  /\ \/ node[c].file = "toml" /\ Goto("exists") /\ req' = NoRequest
     \/ /\ Loop(IF rq.pool # "none" THEN "provision" ELSE "unit",
                IF rq.pool # "none" THEN Node ELSE {})
        /\ \E files \in BOOLEAN, kernel \in BOOLEAN :
             req' = [rq EXCEPT !.minor = IF @ # NoMinor THEN @ ELSE Lowest(UsedMinors(files, kernel))]

(* A node without the pool needs a disk in node_disks; a volume of that     *)
(* name is used again.                                                      *)
Reused(k, s) == IF s.vol[k] # "none" THEN {Ok(s)} ELSE {}
Volume(k, thin, s) ==
  Reused(k, s) \cup (IF k = "lvm" /\ ~thin THEN CreateThickVolume(s) ELSE CreateVolume(k, s))
Provisioned(k, rq, n, s) ==
  IF PoolExists(k, s) THEN Volume(k, rq.thin, s)
  ELSE IF n \notin rq.disks THEN {Fail(s)}
  ELSE UNION {AndThen(InitPool(k, s, d, {}), LAMBDA t : Volume(k, rq.thin, t)) : d \in Raw}

Provision(n) ==
  /\ At("provision", n) /\ UNCHANGED <<clusterVars, res, live, stopping, requests>>
  /\ \/ \E o \in Provisioned(req.pool, req, n, store[n]) :
          /\ store' = [store EXCEPT ![n] = o.s]
          /\ IF o.ok THEN Visited(n, "writeLocal", {}) ELSE Goto("failed")
     \/ UNCHANGED store /\ Goto("failed")
  /\ Keep

WriteLocal ==
  /\ pc = "writeLocal" /\ UNCHANGED <<clusterVars, store, live, stopping, requests>>
  /\ \/ res' = [res EXCEPT ![c] = req.minor] /\ Start("writeRemote", "mdLocal", Remote)
     \/ UNCHANGED res /\ Goto("failed")
  /\ Keep

WriteIgnored(n) ==   \* mutant
  /\ At("writeRemote", n) /\ UNCHANGED <<clusterVars, store, live, stopping, requests>>
  /\ res' \in {res, [res EXCEPT ![n] = req.minor]} /\ Joined(n, TRUE, "mdLocal", {})

WriteRemote(n) ==
  /\ At("writeRemote", n) /\ UNCHANGED <<clusterVars, store, live, stopping, requests>>
  /\ \/ res' = [res EXCEPT ![n] = req.minor] /\ Joined(n, TRUE, "mdLocal", {})
     \/ res' \in {res, [res EXCEPT ![n] = req.minor]} /\ Joined(n, FALSE, "mdLocal", {})

(* drbdadm refuses a .res file that is missing or takes another's minor.    *)
Usable(n) == res[n] # NoMinor /\ res[n] \notin Others
WithMd(n) == IF Usable(n) /\ ~node[n].up THEN [node[n] EXCEPT !.disk = "Inconsistent"] ELSE node[n]
CanUp(n, s) == Usable(n) /\ ~s.up /\ s.disk # "NoMeta"
Upped(n, s) == IF CanUp(n, s) THEN [UpCommand(s) EXCEPT !.role = "Secondary"] ELSE s

(* Exit codes are not looked at: a command runs and does what it can.       *)
CreateMdLocal ==
  pc = "mdLocal" /\ Goto("upLocal") /\ OnController(WithMd(c)) /\ Keep

StartOn(n, s) ==
  /\ node' = [node EXCEPT ![n] = Upped(n, s)]
  /\ live' = [live EXCEPT ![n] = IF CanUp(n, s) THEN res[n] ELSE @]
  /\ UNCHANGED <<linked, store, res, stopping, requests>>

UpLocal == pc = "upLocal" /\ Start("startRemote", "unit", Remote) /\ StartOn(c, node[c]) /\ Keep

StartRemote(n) ==
  /\ At("startRemote", n)
  /\ \/ StartOn(n, WithMd(n)) /\ Joined(n, TRUE, "unit", {})
     \/ Change(n, WithMd(n)) /\ Joined(n, FALSE, "unit", {})
     \/ Quiet /\ Joined(n, FALSE, "unit", {})

WriteUnit ==
  /\ pc = "unit" /\ Quiet
  /\ \/ ~req.migrate /\ Goto(IF req.pool # "none" THEN "promote" ELSE "overrides")
     \/ req.migrate /\ Loop("halt", Node)
     \/ Goto("failed")
  /\ Keep

---------------------------------------------------------------------------
(* The device of a new profile is formatted, mounted, its services' data    *)
(* initialised, and all is undone.                                          *)
Promoted(s) == [s EXCEPT !.role = "Primary"]
PromoteForSetup ==
  /\ pc = "promote" /\ Goto("mkfs")
  /\ OnController(IF CanPromote(c) THEN Promoted(node[c]) ELSE node[c])
  /\ Keep

(* get_drbd_device_for_resource returns what follows "device": "/dev/drbd0" *)
(* where a .res file has just that, but the generator's files go on with    *)
(* "minor 0", and no command takes the result for a device.                 *)
DeviceNamed == FALSE

MkfsSetup ==
  /\ pc = "mkfs" /\ Goto(IF res[c] = NoMinor THEN "failed" ELSE "mount")
  /\ IF DeviceNamed /\ CanUse(c) /\ ~ReadsFs(c)
     THEN OnController([node[c] EXCEPT !.fs = TRUE]) ELSE Quiet
  /\ Keep

MountSetup ==
  /\ pc = "mount" /\ Goto(IF req.init THEN "seed" ELSE "unmount")
  /\ IF DeviceNamed /\ CanUse(c) /\ ReadsFs(c)
     THEN OnController([node[c] EXCEPT !.mount = "own"]) ELSE Quiet
  /\ Keep

(* ServiceInitializer works on the mount point, mounted or not: it changes  *)
(* directories that no other step reads.                                    *)
SeedServices ==
  pc = "seed" /\ (Goto("unmount") \/ Goto("cleanUnmount")) /\ Quiet /\ Keep

(* The same two commands end the setup and clean up after a failed one.     *)
Unmounted(s) == IF s.svc THEN s ELSE [s EXCEPT !.mount = "none"]
Demoted(s) == IF s.mount = "none" /\ ~temp THEN [s EXCEPT !.role = "Secondary", !.stack = FALSE] ELSE s
UndoSetup(p, undone, q) ==
  /\ pc = p /\ Goto(q)
  /\ \/ OnController(undone) /\ Keep
     \/ Quiet /\ tidy' = FALSE /\ UNCHANGED <<req, broken, temp, copied, halted, turns>>

CleanUnmount == UndoSetup("cleanUnmount", Unmounted(node[c]), "cleanDemote")
CleanDemote == UndoSetup("cleanDemote", Demoted(node[c]), "failed")
UnmountSetup == UndoSetup("unmount", Unmounted(node[c]), "demote")
DemoteKept == pc = "demote" /\ Goto("overrides") /\ Quiet /\ Keep   \* mutant
DemoteSetup == UndoSetup("demote", Demoted(node[c]), "overrides")

---------------------------------------------------------------------------
(* The first round of stops ignores its errors.  systemctl stop of another  *)
(* node waits for the service; on the controller StopUnit is only queued.   *)
StopQueued == stopping' = node[c].svc /\ UNCHANGED <<clusterVars, store, res, live, requests>>

Halt(n) ==
  /\ At("halt", n) /\ Visited(n, "haltSource", {})
  /\ \/ n # c /\ Change(n, [node[n] EXCEPT !.svc = FALSE])
     \/ n = c /\ StopQueued
     \/ Quiet
  /\ Keep

(* DataMigration::migrate stops its source's service if it is exactly       *)
(* "active": one that is still on its way up or down is passed over.        *)
HaltSource ==
  /\ pc = "haltSource"
  /\ \/ node[c].svc /\ ~stopping /\ StopQueued /\ halted' = TRUE /\ Goto("promoteSource")
     \/ Quiet /\ UNCHANGED halted /\ (Goto("promoteSource") \/ Goto("failed"))
  /\ UNCHANGED <<req, broken, temp, copied, turns, tidy>>

PromoteSource ==
  /\ pc = "promoteSource"
  /\ \/ (CanPromote(c) \/ node[c].role = "Primary") /\ node[c].up
          /\ OnController(Promoted(node[c])) /\ Goto("device")
     \/ Quiet /\ Goto("failed")
  /\ Keep

FindDevice ==
  pc = "device" /\ Goto(IF node[c].up THEN IF req.format THEN "format" ELSE "mountTemp" ELSE "failed")
    /\ Quiet /\ Keep

(* What is written on the controller's device is written to its replicas; a *)
(* disk that was out of reach is not current any more.                      *)
Missed(s) == [s EXCEPT !.disk = IF @ = "UpToDate" THEN "Inconsistent" ELSE @]
Write(change(_)) ==
  /\ node' = [n \in Node |-> IF n \in Replicas(c) THEN change(node[n]) ELSE Missed(node[n])]
  /\ UNCHANGED <<linked, store, res, live, stopping, requests>>

Format ==
  /\ pc = "format"
  /\ \/ /\ CanUse(c) /\ node[c].mount = "none" /\ Goto("mountTemp")
        /\ Write(LAMBDA s : [s EXCEPT !.fs = TRUE, !.data = "blank"])
     \/ Quiet /\ Goto("failed")
  /\ Keep

MountTemp ==
  /\ pc = "mountTemp" /\ Quiet
  /\ \/ CanUse(c) /\ ReadsFs(c) /\ temp' = TRUE /\ Goto("rsync")
     \/ UNCHANGED temp /\ Goto("failed")
  /\ UNCHANGED <<req, broken, copied, halted, turns, tidy>>

(* rsync --delete may stop with part of the old and of the new data.        *)
Rsync ==
  /\ pc = "rsync" /\ Goto("unmountTemp")
  /\ \/ CanUse(c) /\ Write(LAMBDA s : [s EXCEPT !.data = "migrated"]) /\ copied' = TRUE
     \/ CanUse(c) /\ Write(LAMBDA s : [s EXCEPT !.data = "blank"]) /\ UNCHANGED copied
     \/ Quiet /\ UNCHANGED copied
  /\ UNCHANGED <<req, broken, temp, halted, turns, tidy>>

UnmountUnchecked ==   \* mutant
  /\ pc = "unmountTemp" /\ Quiet /\ temp' = FALSE /\ Goto("resume")
  /\ UNCHANGED <<req, broken, copied, halted, turns, tidy>>

(* Whether rsync succeeded is looked at when its mount is gone.             *)
UnmountTemp ==
  /\ pc = "unmountTemp" /\ Quiet
  /\ \/ temp' = FALSE /\ Goto(IF copied THEN "resume" ELSE "failed")
     \/ UNCHANGED temp /\ Goto("failed")
  /\ UNCHANGED <<req, broken, copied, halted, turns, tidy>>

(* A start that is queued replaces the stop.                                *)
Serve ==
  /\ node' = [node EXCEPT ![c].svc = TRUE] /\ stopping' = FALSE
  /\ UNCHANGED <<linked, store, res, live, requests>>

(* keep_primary: nothing is demoted; what migrate stopped is started again. *)
Resume ==
  /\ pc = "resume"
  /\ \/ Start("demoteRemote", "wait", Remote)
        /\ IF halted THEN Serve ELSE Quiet
     \/ halted /\ Quiet /\ Goto("failed")
  /\ Keep

DemoteRemote(n) ==
  /\ At("demoteRemote", n) /\ Visited(n, "wait", {})
  /\ Quiet \/ Change(n, IF node[n].mount = "none" THEN [node[n] EXCEPT !.role = "Secondary"] ELSE node[n])
  /\ Keep

(* Ready when the controller is Primary and UpToDate, or when all are.      *)
Ready ==
  \/ node[c].role = "Primary" /\ node[c].disk = "UpToDate"
  \/ \A n \in Peers(node, linked, c) \cup {c} : node[n].disk = "UpToDate"
WaitForever ==   \* mutant
  pc = "wait" /\ Goto(IF Ready THEN "overrides" ELSE "wait") /\ Quiet /\ Keep

WaitLate ==   \* mutant
  /\ pc = "wait" /\ Quiet
  /\ \/ Ready /\ Goto("overrides") /\ UNCHANGED turns
     \/ turns' = turns + 1 /\ Goto(IF turns' > MaxTurns THEN "failed" ELSE "wait")
  /\ UNCHANGED <<req, broken, temp, copied, halted, tidy>>

Wait ==
  /\ pc = "wait" /\ Quiet
  /\ \/ Ready /\ Goto("overrides") /\ UNCHANGED turns
     \/ turns' = turns + 1 /\ Goto(IF turns' = MaxTurns THEN "failed" ELSE "wait")
  /\ UNCHANGED <<req, broken, temp, copied, halted, tidy>>

---------------------------------------------------------------------------
WriteOverrides == pc = "overrides" /\ (Goto("promoter") \/ Goto("failed")) /\ Quiet /\ Keep

FileOf(rq) == IF rq.disabled THEN "disabled" ELSE "toml"
WritePromoter ==
  /\ pc = "promoter"
  /\ \/ /\ OnController([node[c] EXCEPT !.file = FileOf(req)])
        /\ Loop(IF req.auto THEN "autoDisable" ELSE "sync", Node)
     \/ Quiet /\ Goto("failed")
  /\ Keep

AutoDisable(n) ==
  /\ At("autoDisable", n) /\ Visited(n, "sync", Node)
  /\ \/ n # c /\ Change(n, [node[n] EXCEPT !.svc = FALSE, !.boot = FALSE])
     \/ /\ n = c /\ stopping' = node[c].svc
        /\ node' = [node EXCEPT ![c].boot = FALSE]
        /\ UNCHANGED <<linked, store, res, live, requests>>
     \/ Quiet
  /\ Keep

(* ClusterSync::sync_to_node: the .res file, the promoter file, the reload  *)
(* of the reactor, up to the first that fails; sync_ha_config logs that.    *)
SyncToNode(n) ==
  /\ res' = [res EXCEPT ![n] = IF req.pool # "none" THEN res[c] ELSE @]
  /\ LET written == [node[n] EXCEPT !.file = FileOf(req)]
     IN \E s \in {node[n], written} \cup Reloaded(written) : node' = [node EXCEPT ![n] = s]
  /\ UNCHANGED <<linked, store, live, stopping, requests>>

Sync(n) ==
  /\ At("sync", n)
  /\ Visited(n, IF req.disabled THEN "created" ELSE "reload", IF req.disabled THEN {} ELSE Node)
  /\ Quiet \/ SyncToNode(n)
  /\ Keep

Reload(n) ==
  /\ At("reload", n) /\ Visited(n, "created", {})
  /\ \E s \in {node[n]} \cup Reloaded(node[n]) : Change(n, s)
  /\ Keep

---------------------------------------------------------------------------
(* The reactors, DRBD, the network and systemd.  A reactor that starts the  *)
(* service replaces the job to stop it; it cannot demote under migrate's    *)
(* mount.                                                                   *)
ServiceStops ==
  /\ stopping /\ stopping' = FALSE
  /\ node' = [node EXCEPT ![c].svc = FALSE] /\ UNCHANGED linked

Environment ==
  /\ UNCHANGED <<store, res, live, pc, todo, handler, requests>>
  /\ \/ /\ UNCHANGED stopping
        /\ \/ LinkDown \/ LinkUp
           \/ \E n \in Node : \/ ReactorPromote(n) \/ ResyncDone(n) \/ Handshake(n)
                              \/ ReactorQuorumLoss(n) /\ ~(n = c /\ temp)
     \/ /\ \E n \in Node : ReactorStack(n) /\ stopping' = (stopping /\ n # c)
        /\ ~temp
     \/ ServiceStops

Handler ==
  \/ WriteLocal \/ CreateMdLocal \/ UpLocal \/ WriteUnit
  \/ PromoteForSetup \/ MkfsSetup \/ MountSetup \/ SeedServices
  \/ CleanUnmount \/ CleanDemote \/ UnmountSetup \/ DemoteSetup
  \/ HaltSource \/ PromoteSource \/ FindDevice \/ Format \/ MountTemp \/ Rsync \/ UnmountTemp
  \/ Resume \/ Wait \/ WriteOverrides \/ WritePromoter
  \/ \E n \in Node :
       \/ Provision(n) \/ WriteRemote(n) \/ StartRemote(n) \/ Halt(n) \/ DemoteRemote(n)
       \/ AutoDisable(n) \/ Sync(n) \/ Reload(n)

Next == (\E rq \in Requests : Create(rq)) \/ Handler \/ Abort \/ Environment

Fairness == WF_vars(Handler)
Spec == Init /\ [][Next]_vars /\ Fairness

---------------------------------------------------------------------------
(* Before a reactor gets the promoter file of a profile whose volumes this  *)
(* request provided, every node has the same .res file of the resource,     *)
(* although writes fail on single nodes and earlier requests left others.   *)
(* Whether each node has metadata and is up is another matter: the exit     *)
(* codes of create-md and up are not looked at.                             *)
ReactorsGetWholeResource ==
  pc \in {"sync", "reload", "created"} /\ req.pool # "none" => \A n \in Node : res[n] = res[c]

(* A profile created with a migration has the copied data on every current  *)
(* replica: no failed copy is ever taken for a good one, and no reactor,    *)
(* resync or loss of the network brings the old data back.  It says nothing *)
(* of what a service that was still running wrote meanwhile.                *)
MigrationFaithful ==
  pc = "created" /\ req.migrate =>
    \A n \in Node : node[n].disk = "UpToDate" => node[n].data = "migrated"

(* A creation that goes on after the setup of a new volume has demoted the  *)
(* resource again: nothing but a command of the demotion that failed, or a  *)
(* reactor that runs the profile of an earlier request, leaves it Primary.  *)
(* A setup that failed half way, or was dropped, may do so.                 *)
SetupUndone ==
  pc = "overrides" /\ req.pool # "none" /\ ~req.migrate /\ tidy
    /\ ~node[c].armed /\ ~node[c].stack => node[c].role = "Secondary"

(* Every creation is answered: no loop of it runs forever.                  *)
RequestAnswered == pc \in Running ~> pc \in Answered

=============================================================================
