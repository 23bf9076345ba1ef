------------------------------ MODULE Resources ------------------------------
(***************************************************************************)
(* The requests of drbd-ha/src/api/resource.rs and the pool requests of    *)
(* drbd-ha/src/api/storage.rs: DRBD resources that no profile owns are     *)
(* configured, initialised, formatted, mounted and deleted by one request  *)
(* after another, each a chain of commands on the controller and over SSH. *)
(***************************************************************************)
EXTENDS Storage, Functions

CONSTANTS Node, Controller, Resource,
          System,    \* the raw disks of every node with a mounted filesystem
          Plans      \* the nodes of the registry, the create requests that clients
                     \* send and the other operations they ask for

ASSUME ControllerAssumption == Controller \in Node
ASSUME NodeAssumption == IsFiniteSet(Node)
ASSUME SystemAssumption == System \subseteq Raw
(* A creation that names a node which is not in the store is refused.        *)
CreateReq ==
  [op: {"create"}, name: Resource, minor: Nat, disk: Raw, dev: Device, hosts: SUBSET Node, force: BOOLEAN]
ASSUME PlansAssumption ==
  \A p \in Plans : /\ p.members \subseteq Node /\ p.creates \subseteq CreateReq
                   /\ \A rq \in p.creates : rq.hosts \subseteq p.members

VARIABLES plan,    \* what happens in this run, of Plans
          store,   \* the storage of each node
          conf,    \* the .res files in /etc/drbd.d of each node
          live,    \* the resources that are up in the kernel of each node
          pc,      \* what the request does next, or how the last one was answered
          req,     \* the request's parameters
          todo,    \* the nodes its current loop has not visited
          wrote,   \* written_hosts: the nodes create_resource wrote to
          warned,  \* init_resource: peer_warnings is not empty
          lost     \* ghost: the commands whose failure the request passed over, where
                   \* their success would have told it more or undone something

machine == <<store, conf, live>>
handler == <<pc, req, todo, wrote, warned, lost>>
vars == <<plan, machine, handler>>

c == Controller
(* The nodes of the store.                                                  *)
Remote == plan.members \ {c}

Answered == {"idle", "rejected", "notfound", "failed", "undone", "created", "initialized", "degraded",
             "done", "deleted"}
Running == {"chosen", "storage", "reach", "local", "remote", "write", "sync", "rollback",
            "known", "initSync", "mdLocal", "mdRemote", "upLocal", "upRemote",
            "promote", "force", "check", "mkfs", "demote", "discard",
            "removeLocal", "removeRemote", "targets", "pool"}

Minors == ({rq.minor : rq \in UNION {p.creates : p \in Plans}} \ {0}) \cup {2000}

(* forced and lost are ghosts: how the creation that wrote the file went.   *)
ConfState == [minor: Minors, dev: Device, hosts: SUBSET Node, forced: BOOLEAN, lost: SUBSET {"scan", "dump"}]
LiveState == [minor: Minors, dev: Device, role: {"Primary", "Secondary"},
              conn: BOOLEAN, mounted: BOOLEAN]

TypeOK ==
  /\ plan \in Plans
  /\ store \in [Node -> StorageState]
  /\ \A n \in Node : /\ DOMAIN conf[n] \subseteq Resource /\ Range(conf[n]) \subseteq ConfState
                     /\ DOMAIN live[n] \subseteq Resource /\ Range(live[n]) \subseteq LiveState
  /\ pc \in Answered \cup Running
  /\ todo \subseteq Node /\ wrote \subseteq Node
  /\ warned \in BOOLEAN /\ lost \subseteq {"scan", "dump", "up", "undo"}

Set(f, k, x) == [r \in DOMAIN f \cup {k} |-> IF r = k THEN x ELSE f[r]]
Drop(f, k)   == Restrict(f, DOMAIN f \ {k})
NoReq == [op |-> "none", name |-> CHOOSE r \in Resource : TRUE]

FreshStorage == [BlankStorage EXCEPT !.raw = [d \in Raw |-> IF d \in System THEN "fs" ELSE "blank"]]

Init ==
  /\ plan \in Plans
  /\ store = [n \in Node |-> FreshStorage]
  /\ conf = [n \in Node |-> <<>>] /\ live = [n \in Node |-> <<>>]
  /\ pc = "idle" /\ req = NoReq /\ todo = {} /\ wrote = {} /\ warned = FALSE /\ lost = {}

---------------------------------------------------------------------------
(* The world around the handlers.                                           *)

(* What drbdadm and the kernel have open on n.                              *)
Held(n) == System \cup {live[n][r].dev : r \in DOMAIN live[n]}

(* drbdadm refuses every command while two .res files claim a minor.        *)
ConfigValid(n) ==
  \A r, s \in DOMAIN conf[n] : r # s => conf[n][r].minor # conf[n][s].minor

Usable(n, r) == r \in DOMAIN conf[n] /\ ConfigValid(n) /\ n \in conf[n][r].hosts

(* drbdadm create-md --force writes to any device it can open.              *)
CanCreateMd(n, r) ==
  Usable(n, r) /\ LET d == conf[n][r].dev
                  IN Exists(store[n], d) /\ d \notin Held(n) \cup Busy(store[n], Held(n))
WithMd(n, r) == [store EXCEPT ![n] = Put(@, conf[n][r].dev, "md")]

(* drbdadm up.                                                              *)
MinorTaken(n, r) == \E s \in DOMAIN live[n] : s # r /\ live[n][s].minor = conf[n][r].minor
CanUp(n, r) ==
  Usable(n, r) /\ ~MinorTaken(n, r) /\ r \notin DOMAIN live[n]
  /\ CanCreateMd(n, r) /\ Contains(store[n], conf[n][r].dev) = "md"
UpState(n, r) ==
  [live EXCEPT ![n] = Set(@, r, [minor |-> conf[n][r].minor, dev |-> conf[n][r].dev,
                                 role |-> "Secondary", conn |-> TRUE, mounted |-> FALSE])]

Linked(n, m, r) ==
  m # n /\ r \in DOMAIN live[m] /\ r \in DOMAIN live[n] /\ live[m][r].conn /\ live[n][r].conn
PeerPrimary(n, r) == \E m \in Node : Linked(n, m, r) /\ live[m][r].role = "Primary"
With(n, r, x) == [live EXCEPT ![n] = Set(@, r, x)]

---------------------------------------------------------------------------
Quiet == UNCHANGED machine
(* A handler's variables end with it, but for those of the answers that the *)
(* properties below look at.                                                *)
Kept == Running \cup {"undone", "initialized"}
Keeps ==
  IF pc' \in Kept THEN UNCHANGED <<req, wrote, warned>>
  ELSE req' = NoReq /\ wrote' = {} /\ warned' = FALSE
Losing(x) == Keeps /\ lost' = (IF pc' \in Kept THEN lost \cup x ELSE {})
Rest == Losing({})
Goto(p) == pc' = p /\ todo' = (IF p \in Answered THEN {} ELSE todo)

(* The loops visit their nodes in the order of a hash map or of the store;  *)
(* the next phase starts when all are done.                                 *)
Start(p, q, nodes) == IF nodes = {} THEN pc' = q /\ todo' = {} ELSE pc' = p /\ todo' = nodes
At(p, n) == pc = p /\ n \in todo
Visited(q, n, next) ==
  IF todo = {n} THEN pc' = q /\ todo' = next ELSE pc' = pc /\ todo' = todo \ {n}

TakeLosing(rq, p, x) ==
  /\ pc \in Answered /\ Goto(p)
  /\ req' = (IF p \in Running THEN rq ELSE NoReq)
  /\ wrote' = {} /\ warned' = FALSE /\ lost' = (IF p \in Running THEN x ELSE {})
Take(rq, p) == TakeLosing(rq, p, {})

(* The future is dropped with its connection, or a `?` on the command       *)
(* channel to the controller ends the request; nothing is undone.           *)
Abort == pc \in Running /\ Goto("failed") /\ Quiet /\ Rest

---------------------------------------------------------------------------
(* create_resource.                                                         *)

(* parse_res_file_for_minors reads "device /dev/drbd7;", and nothing from   *)
(* the "device /dev/drbd7 minor 7;" that the generator writes.              *)
ParsedMinors(n, r) == {}
UsedMinors(n) == UNION {ParsedMinors(n, r) : r \in DOMAIN conf[n]}
AllocateLow(used) == CHOOSE m \in 0..99 : m \notin used /\ \A k \in 0..(m - 1) : k \in used   \* mutant
AllocateMinor(used) ==
  CHOOSE m \in 2000..2099 : m \notin used /\ \A k \in 2000..(m - 1) : k \in used

(* grep -F 'device /dev/drbdN' matches every number that begins with N.     *)
BeginsWith(m, n) == m = n \/ \E k \in 1..6 : m \div (10 ^ k) = n
DeviceScanOff(m) == TRUE   \* mutant
DeviceUnique(m) == \A r \in DOMAIN conf[c] : ~BeginsWith(conf[c][r].minor, m)

(* The name is only checked for its form: a resource of that name may be    *)
(* there already.  A scan that cannot run, or that fails, is only warned    *)
(* about, and the creation goes on as if it had found nothing.              *)
CreateResource(rq) ==
  /\ rq.hosts # {} /\ Quiet
  /\ LET minor == IF rq.minor = 0 THEN AllocateMinor(UsedMinors(c)) ELSE rq.minor
         drawn == [rq EXCEPT !.minor = minor]
         taken == rq.minor # 0 /\ rq.minor \in UsedMinors(c)
     IN \/ (taken \/ ~DeviceUnique(minor)) /\ Take(drawn, "rejected")
        \/ ~taken /\ TakeLosing(drawn, IF rq.dev # rq.disk THEN "chosen" ELSE "reach",
                                IF DeviceUnique(minor) THEN {} ELSE {"scan"})

ChooseStorage ==
  pc = "chosen" /\ Start("storage", "reach", req.hosts) /\ Quiet /\ Rest

(* LVM and ZFS are initialised node by node, before any of the checks below.*)
InitStorage(n) ==
  /\ At("storage", n) /\ UNCHANGED <<conf, live>>
  /\ \/ \E o \in InitChain(req.dev, store[n], req.disk, Held(n)) :
          /\ store' = [store EXCEPT ![n] = o.s]
          /\ IF o.ok THEN Visited("reach", n, {}) ELSE Goto("failed")
     \/ n # c /\ Goto("failed") /\ UNCHANGED store
  /\ Rest

(* verify_all_nodes_reachable asks every remote node for an echo.           *)
MayBeUnreachable(hosts) == hosts \ {c} # {}
VerifyReachable ==
  /\ pc = "reach" /\ Quiet
  /\ Goto("local") \/ (MayBeUnreachable(req.hosts) /\ Goto("failed"))
  /\ Rest

(* The dump prints the disks of all hosts of the node's own files.  It is   *)
(* "drbdadm dump all 2>/dev/null || true": one that fails prints nothing,   *)
(* and every disk looks free.                                               *)
DumpOff(n, d)    == FALSE   \* mutant
Configured(n, d) == \E r \in DOMAIN conf[n] : conf[n][r].dev = d
Dumped(n, d)     == {FALSE, ConfigValid(n) /\ Configured(n, d)}
Missed(n, d, seen) == IF Configured(n, d) /\ ~seen THEN {"dump"} ELSE {}
Mounted(d)       == d \in System
Unfit(n, d)      == ~Exists(store[n], d) \/ Mounted(d)
(* On the controller the disk of the root filesystem is looked for, too.    *)
RootDisk(d)      == d \in System

CheckLocal ==
  /\ pc = "local" /\ Quiet
  /\ \/ c \notin req.hosts /\ Goto("remote") /\ Rest
     \/ c \in req.hosts /\ \E seen \in Dumped(c, req.dev) :
          /\ Goto(IF (Unfit(c, req.dev) \/ seen \/ RootDisk(req.dev)) /\ ~req.force
                  THEN "failed" ELSE "remote")
          /\ Losing(Missed(c, req.dev, seen))

(* Every command of a check may fail, and then ends the request; that a     *)
(* peer's dump shows the disk is one of the outcomes of the last line.      *)
CheckRemote ==
  /\ pc = "remote" /\ Quiet
  /\ \/ (req.force \/ \A n \in req.hosts \ {c} : ~Unfit(n, req.dev)) /\ Goto("write")
     \/ req.hosts \ {c} # {} /\ Goto("failed")
  /\ Rest

NewConf == [minor |-> req.minor, dev |-> req.dev, hosts |-> req.hosts, forced |-> req.force,
            lost |-> lost \cap {"scan", "dump"}]
Written(n) == [conf EXCEPT ![n] = Set(@, req.name, NewConf)]
Removed(n) == [conf EXCEPT ![n] = Drop(@, req.name)]

(* The controller's file is emptied before it is written, and a write over  *)
(* SSH may fail after it took effect; drbdadm finds nothing in a file that  *)
(* is cut short.                                                            *)
WriteLocal ==
  /\ pc = "write" /\ UNCHANGED <<store, live>>
  /\ \/ conf' = Written(c) /\ Start("sync", "created", Remote)
     \/ conf' \in {conf, Written(c), Removed(c)} /\ Goto("failed")
  /\ Rest

(* All nodes of the store get the file.  A write that fails may have moved  *)
(* the file into place before it did.                                       *)
WriteRemote(n) ==
  /\ At("sync", n) /\ conf' = Written(n) /\ UNCHANGED <<store, live>>
  /\ Visited("created", n, {})
  /\ IF pc' = "sync" THEN wrote' = wrote \cup {n} /\ UNCHANGED <<req, warned, lost>> ELSE Rest

(* The node whose write failed is not among those the rollback visits.      *)
WriteFails(n) ==
  /\ At("sync", n) /\ pc' = "rollback" /\ todo' = wrote
  /\ conf' \in {conf, Written(n)}
  /\ UNCHANGED <<store, live, req, wrote, warned, lost>>

RollbackRemote(n) ==
  /\ At("rollback", n) /\ todo' = todo \ {n} /\ UNCHANGED pc
  /\ \/ conf' = Removed(n) /\ UNCHANGED lost
     \/ UNCHANGED conf /\ lost' = lost \cup {"undo"}
  /\ UNCHANGED <<store, live, req, wrote, warned>>

RollbackUndone ==   \* mutant
  pc = "rollback" /\ todo = {} /\ Goto("undone") /\ Quiet /\ Rest

RollbackLocal ==
  /\ pc = "rollback" /\ todo = {} /\ Goto("undone")
  /\ \/ conf' = Removed(c) /\ UNCHANGED lost
     \/ UNCHANGED conf /\ lost' = lost \cup {"undo"}
  /\ UNCHANGED <<store, live, req, wrote, warned>>

---------------------------------------------------------------------------
(* init_resource.                                                           *)
(* A check for the file that fails counts as no file.                       *)
InitResource(r) ==
  /\ "init" \in plan.ops /\ Quiet
  /\ \/ Take([op |-> "init", name |-> r], "notfound")
     \/ r \in DOMAIN conf[c] /\ Take([op |-> "init", name |-> r], "known")

ListNodes == pc = "known" /\ Start("initSync", "mdLocal", Remote) /\ Quiet /\ Rest

(* A check that fails counts as missing; a write that fails is only logged. *)
SyncMissing(n) ==
  /\ At("initSync", n) /\ Visited("mdLocal", n, {}) /\ UNCHANGED <<store, live>>
  /\ \/ UNCHANGED conf
     \/ conf' = [conf EXCEPT ![n] = Set(@, req.name, conf[c][req.name])]
  /\ Rest

CreateMdLocal ==
  /\ pc = "mdLocal" /\ UNCHANGED <<conf, live>>
  /\ \/ CanCreateMd(c, req.name) /\ store' = WithMd(c, req.name) /\ Start("mdRemote", "upLocal", Remote)
     \/ UNCHANGED store /\ Goto("failed")
  /\ Rest

(* A peer that fails is remembered in peer_warnings, but for one that says  *)
(* "already initialized", which it does of a device that has metadata.      *)
HasMd(n, r) == Usable(n, r) /\ Contains(store[n], conf[n][r].dev) = "md"
CreateMdRemote(n) ==
  /\ At("mdRemote", n) /\ Visited("upLocal", n, {}) /\ UNCHANGED <<conf, live, req, wrote, lost>>
  /\ \/ CanCreateMd(n, req.name) /\ store' = WithMd(n, req.name) /\ UNCHANGED warned
     \/ HasMd(n, req.name) /\ UNCHANGED <<store, warned>>
     \/ UNCHANGED store /\ warned' = TRUE

InitAnswer(w) == IF w THEN "degraded" ELSE "initialized"

UpLocal ==
  /\ pc = "upLocal" /\ UNCHANGED <<store, conf>>
  /\ \/ /\ \/ CanUp(c, req.name) /\ live' = UpState(c, req.name)
           \/ req.name \in DOMAIN live[c] /\ UNCHANGED live
        /\ Start("upRemote", InitAnswer(warned), Remote)
     \/ UNCHANGED live /\ Goto("failed")
  /\ Rest

UpLost(n) ==   \* mutant
  At("upRemote", n) /\ Visited(InitAnswer(warned), n, {}) /\ Quiet /\ Rest

(* "Re-running drbdadm up on an already-configured resource is benign": so  *)
(* is any failure whose text has "already" or "is configured" in it, be it  *)
(* about the resource, a minor ("Minor or volume exists already"), an       *)
(* address or anything else.                                                *)
UpRemote(n) ==
  /\ At("upRemote", n) /\ UNCHANGED <<store, conf>>
  /\ \/ CanUp(n, req.name) /\ live' = UpState(n, req.name) /\ Visited(InitAnswer(warned), n, {}) /\ Rest
     \/ /\ UNCHANGED live /\ Visited(InitAnswer(warned), n, {})
        /\ Losing(IF req.name \in DOMAIN live[n] THEN {} ELSE {"up"})
     \/ /\ UNCHANGED live /\ Visited("degraded", n, {})
        /\ IF pc' = "degraded" THEN Rest ELSE warned' = TRUE /\ UNCHANGED <<req, wrote, lost>>

---------------------------------------------------------------------------
(* resource_action, recover_split_brain: commands on the controller only.   *)
Commands == {"up", "down", "primary", "secondary", "connect", "disconnect"}

AfterCommand(a, r) ==
  LET l == live[c][r] IN
  CASE a = "down"       -> IF l.role = "Primary" THEN live ELSE [live EXCEPT ![c] = Drop(@, r)]
    [] a = "primary"    -> IF PeerPrimary(c, r) THEN live ELSE With(c, r, [l EXCEPT !.role = "Primary"])
    [] a = "secondary"  -> IF l.mounted THEN live ELSE With(c, r, [l EXCEPT !.role = "Secondary"])
    [] a = "connect"    -> With(c, r, [l EXCEPT !.conn = TRUE])
    [] a = "disconnect" -> With(c, r, [l EXCEPT !.conn = FALSE])

ResourceAction(a, r) ==
  /\ a \in plan.ops /\ Take([op |-> a, name |-> r], "done") /\ UNCHANGED <<store, conf>>
  /\ \/ UNCHANGED live
     \/ a = "up" /\ CanUp(c, r) /\ live' = UpState(c, r)
     \/ a # "up" /\ r \in DOMAIN live[c] /\ live' = AfterCommand(a, r)

RecoverSplitBrain(r) ==
  /\ "recover" \in plan.ops /\ UNCHANGED <<store, conf>>
  /\ \/ /\ r \in DOMAIN live[c] /\ live' = AfterCommand("disconnect", r)
        /\ Take([op |-> "recover", name |-> r], "demote")
     \/ UNCHANGED live /\ Take([op |-> "recover", name |-> r], "failed")

DemoteVictim ==
  /\ pc = "demote" /\ UNCHANGED <<store, conf>>
  /\ live' = AfterCommand("secondary", req.name)
  /\ Goto(IF live'[c][req.name].role = "Secondary" THEN "discard" ELSE "failed")
  /\ Rest

ConnectDiscarding ==
  /\ pc = "discard" /\ UNCHANGED <<store, conf>>
  /\ live' = AfterCommand("connect", req.name) \/ UNCHANGED live
  /\ Goto("done") /\ Rest

---------------------------------------------------------------------------
(* create_filesystem, mount_resource, umount_resource.                      *)
CreateFilesystem(r) ==
  /\ "mkfs" \in plan.ops /\ Quiet
  /\ Take([op |-> "mkfs", name |-> r],
          IF r \notin DOMAIN live[c] THEN "notfound"
          ELSE IF live[c][r].role = "Primary" THEN "check" ELSE "promote")

(* "Need access to UpToDate data" leads to a forced promotion.              *)
PromoteFor(p, next) ==
  /\ pc = p /\ UNCHANGED <<store, conf>>
  /\ \/ ~PeerPrimary(c, req.name) /\ live' = AfterCommand("primary", req.name) /\ Goto("check")
     \/ UNCHANGED live /\ Goto("failed")
     \/ ~PeerPrimary(c, req.name) /\ UNCHANGED live /\ Goto(next)
  /\ Rest

(* /proc/mounts is searched for the device's path as a substring.           *)
MountedDevice(m) ==
  \E r \in DOMAIN live[c] : live[c][r].mounted /\ BeginsWith(live[c][r].minor, m)

CheckMkfs ==
  /\ pc = "check" /\ Quiet
  /\ Goto(IF MountedDevice(live[c][req.name].minor) THEN "failed" ELSE "mkfs")
  /\ Rest

Mkfs == pc = "mkfs" /\ Goto("done") /\ Quiet /\ Rest

MountResource(r) ==
  /\ "mount" \in plan.ops /\ UNCHANGED <<store, conf>>
  /\ \/ r \notin DOMAIN live[c] /\ Take(NoReq, "notfound") /\ UNCHANGED live
     \/ /\ r \in DOMAIN live[c] /\ live[c][r].role = "Secondary"
        /\ Take(NoReq, "rejected") /\ UNCHANGED live
     \/ /\ r \in DOMAIN live[c] /\ live[c][r].role = "Primary" /\ Take(NoReq, "done")
        /\ live' \in {live, With(c, r, [live[c][r] EXCEPT !.mounted = TRUE])}

UmountResource(r) ==
  /\ "mount" \in plan.ops /\ Take(NoReq, "done") /\ UNCHANGED <<store, conf>>
  /\ \/ UNCHANGED live
     \/ r \in DOMAIN live[c] /\ live' = With(c, r, [live[c][r] EXCEPT !.mounted = FALSE])

---------------------------------------------------------------------------
(* delete_resource: only the controller's resource is brought down, and the *)
(* result is dropped; an existence check that fails counts as no file.      *)
DeleteResource(r) ==
  /\ "delete" \in plan.ops /\ Take([op |-> "delete", name |-> r], "removeLocal")
  /\ UNCHANGED <<store, conf>>
  /\ \/ UNCHANGED live
     \/ r \in DOMAIN live[c] /\ Usable(c, r) /\ live' = AfterCommand("down", r)

RemoveLocal ==
  /\ pc = "removeLocal" /\ UNCHANGED <<store, live>>
  /\ \/ conf' \in {conf, Removed(c)} /\ Start("removeRemote", "deleted", Remote)
     \/ UNCHANGED conf /\ Goto("failed")
  /\ Rest

RemoveRemote(n) ==
  /\ At("removeRemote", n) /\ Visited("deleted", n, {}) /\ UNCHANGED <<store, live>>
  /\ conf' \in {conf, Removed(n)}
  /\ Rest

---------------------------------------------------------------------------
(* create_pool, create_volume of the storage API.                           *)
CreatePool(k, d, targets) ==
  /\ "pool" \in plan.ops /\ targets # {} /\ Quiet
  /\ Take([op |-> "pool", name |-> NoReq.name, dev |-> k, disk |-> d, hosts |-> targets], "targets")

ResolveTargets == pc = "targets" /\ Start("pool", "done", req.hosts) /\ Quiet /\ Rest

(* Each target is checked just before its pool is made; an error ends the   *)
(* request and the targets before it keep their pools.                      *)
MakePool(n) ==
  /\ At("pool", n) /\ UNCHANGED <<conf, live>>
  /\ \/ \E seen \in Dumped(n, req.disk) :
          /\ ~Unfit(n, req.disk) /\ ~seen /\ ~PoolExists(req.dev, store[n])
          /\ \E o \in InitPool(req.dev, store[n], req.disk, Held(n)) :
               /\ store' = [store EXCEPT ![n] = o.s]
               /\ IF o.ok THEN Visited("done", n, {}) ELSE Goto("failed")
          /\ lost' = Missed(n, req.disk, seen)
     \/ Goto("failed") /\ UNCHANGED store /\ lost' = {}
  /\ Keeps

CreatePoolVolume(kinds) ==
  /\ "pool" \in plan.ops /\ UNCHANGED <<conf, live>>
  /\ LET found == DetectedKinds(store[c]) \cap kinds
     IN IF Cardinality(found) # 1 \/ \E k \in found : store[c].vol[k] # "none"
        THEN Take(NoReq, "rejected") /\ UNCHANGED store
        ELSE \E k \in found : \E o \in CreateVolume(k, store[c]) \cup {Fail(store[c])} :
               /\ store' = [store EXCEPT ![c] = o.s]
               /\ Take(NoReq, IF o.ok THEN "done" ELSE "failed")

---------------------------------------------------------------------------
Request ==
  \/ \E rq \in plan.creates : CreateResource(rq)
  \/ \E r \in Resource :
       \/ InitResource(r) \/ CreateFilesystem(r) \/ MountResource(r) \/ UmountResource(r)
       \/ DeleteResource(r) \/ RecoverSplitBrain(r)
       \/ \E a \in Commands : ResourceAction(a, r)
  \/ \E k \in Kind, d \in Raw, targets \in SUBSET plan.members : CreatePool(k, d, targets)
  \/ \E kinds \in {{k} : k \in Kind} \cup {Kind} : CreatePoolVolume(kinds)

Handler ==
  \/ ChooseStorage \/ VerifyReachable \/ CheckLocal \/ CheckRemote \/ WriteLocal \/ RollbackLocal
  \/ ListNodes \/ CreateMdLocal \/ UpLocal \/ DemoteVictim \/ ConnectDiscarding
  \/ PromoteFor("promote", "force") \/ PromoteFor("force", "failed") \/ CheckMkfs \/ Mkfs
  \/ RemoveLocal \/ ResolveTargets
  \/ \E n \in Node :
       \/ InitStorage(n) \/ WriteRemote(n) \/ WriteFails(n) \/ RollbackRemote(n)
       \/ SyncMissing(n) \/ CreateMdRemote(n) \/ UpRemote(n) \/ RemoveRemote(n) \/ MakePool(n)

Next == (Request \/ Handler \/ Abort) /\ UNCHANGED plan

Spec == Init /\ [][Next]_vars

---------------------------------------------------------------------------
(* Two resource files of the controller claim the same minor only if the    *)
(* device scan of one of their creations failed: nothing else guards the    *)
(* minor, for the search of the files by minor finds nothing.               *)
MinorsUnique ==
  \A r, s \in DOMAIN conf[c] :
     r # s /\ conf[c][r].minor = conf[c][s].minor => "scan" \in conf[c][r].lost \cup conf[c][s].lost

(* Two resources share a device of the controller only if the creation of   *)
(* one was forced, or the dump it asked failed and every disk looked free   *)
(* to it; requests that failed, were dropped or left files behind change    *)
(* nothing in that.  (Other hosts may share one: their own files are asked, *)
(* and a creation dropped before it sent its file there left no trace.)     *)
DevicesApart ==
  \A r, s \in DOMAIN conf[c] :
     r # s /\ conf[c][r].dev = conf[c][s].dev /\ c \in conf[c][r].hosts \cap conf[c][s].hosts
       => \/ conf[c][r].forced \/ conf[c][s].forced
          \/ "dump" \in conf[c][r].lost \cup conf[c][s].lost

(* A creation that fails after it wrote a file has removed it from the      *)
(* controller and from every node whose write was reported as done, if no   *)
(* command of the rollback was lost.  The node whose write failed is not    *)
(* visited: it keeps the file if the write had taken effect.                *)
RollbackClean ==
  pc = "undone" /\ "undo" \notin lost => \A n \in wrote \cup {c} : req.name \notin DOMAIN conf[n]

(* An initialisation reported as complete left metadata on every node of    *)
(* the store, and has the resource up on all of them unless a peer's error  *)
(* had "already" or "is configured" in it: no other failure of create-md or *)
(* up on a peer goes unreported.                                            *)
InitReportsPeers ==
  pc = "initialized" =>
    \A n \in plan.members :
      /\ req.name \in DOMAIN conf[n] /\ Contains(store[n], conf[n][req.name].dev) = "md"
      /\ "up" \notin lost => req.name \in DOMAIN live[n]

(* A pool request whose dump did not fail takes no configured resource's    *)
(* backing device from it, be it a disk or the volume of another pool: the  *)
(* check knows the former, and only the kernel's hold on the disk protects  *)
(* the latter.  (A creation that makes its pool asks nothing before it.)    *)
PoolsSpareResources ==
  [][pc = "pool" /\ "dump" \notin lost' => \A n \in Node : \A r \in DOMAIN conf[n] :
       LET d == conf[n][r].dev
       IN n \in conf[n][r].hosts =>
            /\ Contains(store'[n], d) = Contains(store[n], d)
            /\ Exists(store[n], d) /\ d \in Kind => store'[n].home[d] = store[n].home[d]]_vars

(* "a degraded cluster (peers without metadata / not brought up) is         *)
(* surfaced instead of being silently reported as a fully-created resource" *)
InitSurfacesPeers ==
  pc = "initialized" => \A n \in conf[c][req.name].hosts : req.name \in DOMAIN live[n]

============================================================================
