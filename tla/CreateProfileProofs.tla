------------------------- MODULE CreateProfileProofs -------------------------
(***************************************************************************)
(* Proofs about CreateProfile for every finite set of nodes and of disks,  *)
(* every set of requests and any number of polls: the types, and what a    *)
(* creation promises about the resource it configures, the data it moves   *)
(* and the setup it undoes, whatever fails and whatever an earlier request *)
(* or a reactor that knows the profile already does meanwhile.             *)
(***************************************************************************)
EXTENDS CreateProfile, TLAPS

(* What is true of a node all the time: only what is up is current or       *)
(* Primary, and only a reactor mounts the profile's filesystem.             *)
Good(s) ==
  /\ s \in NodeState
  /\ s.disk = "UpToDate" => s.up = TRUE
  /\ s.role = "Primary" => s.up = TRUE
  /\ s.mount # "none" => s.mount = "own" /\ s.stack = TRUE

Cluster ==
  /\ node \in [Node -> NodeState] /\ \A n \in Node : Good(node[n])
  /\ linked \in BOOLEAN

Machines ==
  /\ Cluster
  /\ store \in [Node -> StorageState]
  /\ res \in [Node -> Minor \cup {NoMinor}] /\ live \in [Node -> Minor \cup {NoMinor}]
  /\ \A n \in Node : (node[n].up = TRUE) <=> live[n] # NoMinor
  /\ stopping \in BOOLEAN /\ requests \in 0..MaxRequests

---------------------------------------------------------------------------
(* The commands and steps of the world, one node at a time, keep it so, and *)
(* bring nothing up or down but StartOn.                                    *)
Keeps(t, s) == Good(t) /\ t.up = s.up

LEMMA ServiceKeeps ==
  ASSUME NEW s, Good(s)
  PROVE  /\ Keeps(s, s)
         /\ \A b \in BOOLEAN : Keeps([s EXCEPT !.svc = b], s)
         /\ Keeps([s EXCEPT !.svc = FALSE, !.boot = FALSE], s)
         /\ Keeps([s EXCEPT !.boot = FALSE], s)
         /\ \A b \in BOOLEAN : Keeps([s EXCEPT !.joined = b], s) /\ Keeps([s EXCEPT !.alone = b], s)
         /\ \A f \in File : Keeps([s EXCEPT !.file = f], s)
         /\ Keeps([s EXCEPT !.mount = "none"], s)
         /\ Keeps([s EXCEPT !.role = "Secondary"], s)
BY DEF Keeps, Good, NodeState, Mount, Role

LEMMA RoleKeeps ==
  ASSUME NEW s, Good(s)
  PROVE  /\ s.up = TRUE => Keeps(Promoted(s), s)
         /\ s.up = TRUE /\ s.mount = "none" => Keeps([s EXCEPT !.role = "Primary", !.stack = FALSE], s)
         /\ s.up = TRUE => Keeps([s EXCEPT !.mount = "own", !.stack = TRUE, !.svc = TRUE], s)
         /\ Keeps(Unmounted(s), s)
         /\ Keeps(Demoted(s), s)
BY DEF Keeps, Good, Promoted, Unmounted, Demoted, NodeState, Mount, Role

LEMMA DataKeeps ==
  ASSUME NEW s, Good(s)
  PROVE  /\ s.up = FALSE => Keeps([s EXCEPT !.disk = "Inconsistent"], s)
         /\ \A d \in Lineage : Keeps([s EXCEPT !.data = d], s)
         /\ Keeps([s EXCEPT !.fs = TRUE, !.data = "blank"], s)
         /\ \A t : Good(t) /\ s.up = TRUE => Keeps(SyncFrom(s, t), s)
         /\ Keeps(Missed(s), s)
<1>0. Keeps(Missed(s), s)
  BY DEF Keeps, Good, Missed, NodeState, Disk
<1>1. /\ s.up = FALSE => Keeps([s EXCEPT !.disk = "Inconsistent"], s)
      /\ \A d \in Lineage : Keeps([s EXCEPT !.data = d], s)
      /\ Keeps([s EXCEPT !.fs = TRUE, !.data = "blank"], s)
  BY DEF Keeps, Good, NodeState, Disk, Lineage
<1>2. ASSUME NEW t, Good(t), s.up = TRUE
      PROVE  Keeps(SyncFrom(s, t), s)
  <2>1. t.data \in Lineage /\ t.fs \in BOOLEAN
    BY <1>2 DEF Good, NodeState
  <2>2. QED
    BY <1>2, <2>1 DEF Keeps, Good, SyncFrom, NodeState, Disk
<1>3. QED
  BY <1>0, <1>1, <1>2

LEMMA ReloadedKeeps ==
  ASSUME NEW s, Good(s), NEW t \in Reloaded(s)
  PROVE  Keeps(t, s)
<1>1. \/ t = [s EXCEPT !.armed = TRUE]
      \/ t = [s EXCEPT !.armed = FALSE]
      \/ t = [s EXCEPT !.armed = FALSE, !.stack = FALSE, !.svc = FALSE, !.mount = "none", !.role = "Secondary"]
  BY DEF Reloaded
<1>2. Keeps([s EXCEPT !.armed = TRUE], s) /\ Keeps([s EXCEPT !.armed = FALSE], s)
  BY DEF Keeps, Good, NodeState
<1>3. Keeps([s EXCEPT !.armed = FALSE, !.stack = FALSE, !.svc = FALSE, !.mount = "none", !.role = "Secondary"], s)
  BY DEF Keeps, Good, NodeState, Mount, Role
<1>4. QED
  BY <1>1, <1>2, <1>3

LEMMA WithMdKeeps ==
  ASSUME Cluster, NEW n \in Node
  PROVE  Keeps(WithMd(n), node[n])
<1>1. Good(node[n]) /\ node[n].up \in BOOLEAN
  BY DEF Cluster, NodeState
<1>2. QED
  BY <1>1, ServiceKeeps, DataKeeps DEF WithMd

LEMMA UppedGood ==
  ASSUME NEW n \in Node, NEW s, Good(s)
  PROVE  /\ Good(Upped(n, s))
         /\ Upped(n, s).up = (IF CanUp(n, s) THEN TRUE ELSE s.up)
<1>1. CASE CanUp(n, s)
  BY <1>1 DEF Upped, UpCommand, Good, NodeState, Role
<1>2. CASE ~CanUp(n, s)
  BY <1>2 DEF Upped
<1>3. QED
  BY <1>1, <1>2

(* What changes of all machines keep them.                                  *)
LEMMA QuietMachines ==
  ASSUME Machines, Quiet
  PROVE  Machines'
BY DEF Machines, Cluster, Quiet, machine, clusterVars

LEMMA ChangeMachines ==
  ASSUME Machines, NEW n \in Node, NEW t, Keeps(t, node[n]), Change(n, t)
  PROVE  Machines'
<1>1. node' = [node EXCEPT ![n] = t] /\ UNCHANGED <<linked, store, res, live, stopping, requests>>
  BY DEF Change
<1>2. t \in NodeState /\ Good(t) /\ t.up = node[n].up
  BY DEF Keeps, Good
<1>3. QED
  BY <1>1, <1>2 DEF Machines, Cluster

(* A job for the service is queued, replaced or done.                       *)
LEMMA ServiceMachines ==
  ASSUME Machines, stopping' \in BOOLEAN, UNCHANGED <<linked, store, res, live, requests>>,
         UNCHANGED node \/ \E n \in Node : \E t : Keeps(t, node[n]) /\ node' = [node EXCEPT ![n] = t]
  PROVE  Machines'
<1>1. CASE UNCHANGED node
  BY <1>1 DEF Machines, Cluster
<1>2. ASSUME NEW n \in Node, NEW t, Keeps(t, node[n]), node' = [node EXCEPT ![n] = t]
      PROVE  Machines'
  <2>1. t \in NodeState /\ Good(t) /\ t.up = node[n].up
    BY <1>2 DEF Keeps, Good
  <2>2. QED
    BY <1>2, <2>1 DEF Machines, Cluster
<1>3. QED
  BY <1>1, <1>2

LEMMA StartOnMachines ==
  ASSUME Machines, NEW n \in Node, NEW s, Keeps(s, node[n]), StartOn(n, s)
  PROVE  Machines'
<1>1. /\ node' = [node EXCEPT ![n] = Upped(n, s)]
      /\ live' = [live EXCEPT ![n] = IF CanUp(n, s) THEN res[n] ELSE @]
      /\ UNCHANGED <<linked, store, res, stopping, requests>>
  BY DEF StartOn
<1>2. /\ Good(Upped(n, s)) /\ Upped(n, s) \in NodeState
      /\ Upped(n, s).up = (IF CanUp(n, s) THEN TRUE ELSE node[n].up)
  BY UppedGood DEF Keeps, Good
<1>3. CanUp(n, s) => res[n] # NoMinor
  BY DEF CanUp, Usable
<1>4. Cluster'
  BY <1>1, <1>2 DEF Machines, Cluster
<1>5. live' \in [Node -> Minor \cup {NoMinor}]
  BY <1>1 DEF Machines
<1>6. ASSUME NEW m \in Node PROVE (node'[m].up = TRUE) <=> live'[m] # NoMinor
  <2>1. CASE m = n
    BY <1>1, <1>2, <1>3, <2>1 DEF Machines, Cluster
  <2>2. CASE m # n
    BY <1>1, <2>2 DEF Machines, Cluster
  <2>3. QED
    BY <2>1, <2>2
<1>7. QED
  BY <1>1, <1>4, <1>5, <1>6 DEF Machines

---------------------------------------------------------------------------
(* Where a request may be, and what its variables are there.                *)
Making  == {"provision", "writeLocal", "writeRemote", "mdLocal", "upLocal", "startRemote"}
Setup   == {"promote", "mkfs", "mount", "seed", "cleanUnmount", "cleanDemote", "unmount", "demote"}
Moving  == {"halt", "haltSource", "promoteSource", "device", "format", "mountTemp", "rsync"}
Moved   == {"resume", "demoteRemote", "wait"}
Handing == {"overrides", "promoter", "autoDisable", "sync", "reload"}

Control ==
  /\ pc \in Answered \cup Running /\ todo \subseteq Node
  /\ req \in RequestType /\ turns \in 0..MaxTurns
  /\ broken \in BOOLEAN /\ temp \in BOOLEAN /\ copied \in BOOLEAN
  /\ halted \in BOOLEAN /\ tidy \in BOOLEAN
  /\ pc \in Making \cup Setup => req.pool # "none"
  /\ pc \in Setup => req.migrate = FALSE
  /\ pc \in Moving \cup Moved \cup {"unmountTemp"} => req.migrate = TRUE
  /\ temp = TRUE => pc \in {"rsync", "unmountTemp", "failed"}
  /\ copied = TRUE => pc \in {"unmountTemp", "created", "failed"} \cup Moved \cup Handing
  /\ turns # 0 => pc \in {"wait", "created", "failed"} \cup Handing
  /\ pc = "wait" => turns < MaxTurns
  /\ pc = "writeRemote" => c \notin todo

Typed == Machines /\ Control

(* The ways from phase to phase on which a request keeps its variables.     *)
Ways ==
  {<<"provision", "writeLocal">>, <<"writeLocal", "writeRemote">>, <<"writeLocal", "mdLocal">>,
   <<"writeRemote", "mdLocal">>, <<"mdLocal", "upLocal">>, <<"upLocal", "startRemote">>, <<"upLocal", "unit">>,
   <<"startRemote", "unit">>, <<"promote", "mkfs">>, <<"mkfs", "mount">>, <<"mount", "seed">>,
   <<"mount", "unmount">>, <<"seed", "unmount">>, <<"seed", "cleanUnmount">>, <<"cleanUnmount", "cleanDemote">>,
   <<"unmount", "demote">>, <<"demote", "overrides">>, <<"halt", "haltSource">>, <<"haltSource", "promoteSource">>,
   <<"promoteSource", "device">>, <<"device", "format">>, <<"device", "mountTemp">>, <<"format", "mountTemp">>,
   <<"resume", "demoteRemote">>, <<"resume", "wait">>, <<"demoteRemote", "wait">>, <<"overrides", "promoter">>,
   <<"promoter", "autoDisable">>, <<"promoter", "sync">>, <<"autoDisable", "sync">>,
   <<"sync", "created">>, <<"sync", "reload">>, <<"reload", "created">>}
OnItsWay == pc' = pc \/ <<pc, pc'>> \in Ways

LEMMA FailedControl ==
  ASSUME pc' = "failed", todo' \subseteq Node, Reset
  PROVE  Control'
<1>1. NoRequest \in RequestType
  BY DEF NoRequest, RequestType
<1>2. /\ req' \in RequestType /\ broken' = FALSE /\ temp' = FALSE /\ copied' = FALSE /\ halted' = FALSE
      /\ turns' = 0 /\ tidy' = TRUE
  BY <1>1 DEF Reset
<1>3. turns' \in 0..MaxTurns
  BY <1>2, MaxTurnsAssumption
<1>4. pc' \in Answered /\ pc' \notin Making \cup Setup \cup Moving \cup Moved \cup {"unmountTemp", "wait", "writeRemote"}
  BY DEF Answered, Making, Setup, Moving, Moved
<1>5. QED
  BY <1>2, <1>3, <1>4 DEF Control

LEMMA WayControl ==
  ASSUME Control, OnItsWay, todo' \subseteq Node, pc' = "writeRemote" => c \notin todo',
         UNCHANGED <<req, temp, copied, turns>>,
         broken' \in BOOLEAN, halted' \in BOOLEAN, tidy' \in BOOLEAN
  PROVE  Control'
<1>1. CASE pc' = pc
  BY <1>1 DEF Control, c
<1>2. CASE <<pc, pc'>> \in Ways
  <2>1. pc' \in Answered \cup Running
    BY <1>2 DEF Ways, Answered, Running
  <2>2. /\ pc' \in Making \cup Setup => pc \in Making \cup Setup
        /\ pc' \in Setup => pc \in Setup
        /\ pc' \in Moving \cup Moved \cup {"unmountTemp"} => pc \in Moving \cup Moved
    BY <1>2 DEF Ways, Making, Setup, Moving, Moved
  <2>3. pc \notin {"rsync", "unmountTemp", "failed", "created", "wait"}
    BY <1>2 DEF Ways
  <2>4. pc \in Moved \cup Handing => pc' \in {"created"} \cup Moved \cup Handing
    BY <1>2 DEF Ways, Moved, Handing
  <2>5. pc \in Handing => pc' \in {"created"} \cup Handing
    BY <1>2 DEF Ways, Handing
  <2>6. pc' = "wait" => turns = 0
    BY <1>2 DEF Ways, Control, Handing
  <2>7. QED
    BY <2>1, <2>2, <2>3, <2>4, <2>5, <2>6, MaxTurnsAssumption DEF Control, c
<1>3. QED
  BY <1>1, <1>2 DEF OnItsWay

LEMMA KeepControl ==
  ASSUME Control, Keep, todo' \subseteq Node, pc' = "writeRemote" => c \notin todo',
         OnItsWay \/ (pc' = "failed" /\ todo' = {})
  PROVE  Control'
<1>1. CASE pc' = "failed"
  BY <1>1, FailedControl DEF Keep
<1>2. CASE pc' # "failed"
  BY <1>2, WayControl DEF Keep, handler, Control
<1>3. QED
  BY <1>1, <1>2

(* Steps that go on, or fail, with the request's variables kept.            *)
LEMMA PlainControl ==
  ASSUME Control,
         \/ WriteLocal \/ CreateMdLocal \/ UpLocal \/ PromoteForSetup \/ MkfsSetup \/ MountSetup \/ SeedServices
         \/ PromoteSource \/ FindDevice \/ Format \/ Resume \/ WriteOverrides \/ WritePromoter
  PROVE  Control'
<1>1. Keep
  BY DEF WriteLocal, CreateMdLocal, UpLocal, PromoteForSetup, MkfsSetup, MountSetup, SeedServices,
         PromoteSource, FindDevice, Format, Resume, WriteOverrides, WritePromoter
<1>2. Remote \subseteq Node /\ c \notin Remote
  BY DEF Remote
<1>3. todo' \subseteq Node /\ (pc' = "writeRemote" => c \notin todo')
  BY <1>2 DEF WriteLocal, CreateMdLocal, UpLocal, PromoteForSetup, MkfsSetup, MountSetup, SeedServices,
         PromoteSource, FindDevice, Format, Resume, WriteOverrides, WritePromoter, Start, Goto, Loop
<1>4. OnItsWay \/ (pc' = "failed" /\ todo' = {})
  <2>1. CASE WriteLocal \/ CreateMdLocal \/ UpLocal \/ PromoteForSetup \/ MkfsSetup \/ MountSetup \/ SeedServices
    BY <2>1 DEF WriteLocal, CreateMdLocal, UpLocal, PromoteForSetup, MkfsSetup, MountSetup, SeedServices,
           Start, Goto, Loop, OnItsWay, Ways
  <2>2. CASE PromoteSource \/ FindDevice \/ Format \/ Resume \/ WriteOverrides \/ WritePromoter
    BY <2>2 DEF PromoteSource, FindDevice, Format, Resume, WriteOverrides, WritePromoter,
           Start, Goto, Loop, OnItsWay, Ways
  <2>3. QED
    BY <2>1, <2>2
<1>5. QED
  BY <1>1, <1>3, <1>4, KeepControl

LEMMA LoopControl ==
  ASSUME Control, NEW n \in Node, Provision(n) \/ Halt(n) \/ DemoteRemote(n) \/ AutoDisable(n) \/ Sync(n) \/ Reload(n)
  PROVE  Control'
<1>1. Keep
  BY DEF Provision, Halt, DemoteRemote, AutoDisable, Sync, Reload
<1>2. todo' \subseteq Node /\ pc' # "writeRemote"
  BY DEF Provision, Halt, DemoteRemote, AutoDisable, Sync, Reload, At, Visited, Loop, Goto, Control
<1>3. OnItsWay \/ (pc' = "failed" /\ todo' = {})
  BY DEF Provision, Halt, DemoteRemote, AutoDisable, Sync, Reload, At, Visited, Loop, Goto, OnItsWay, Ways
<1>4. QED
  BY <1>1, <1>2, <1>3, KeepControl

LEMMA JoinedControl ==
  ASSUME Control, NEW n \in Node, WriteRemote(n) \/ StartRemote(n)
  PROVE  Control'
<1>1. PICK ok \in BOOLEAN, q \in {"mdLocal", "unit"} :
        /\ Joined(n, ok, q, {}) /\ n \in todo
        /\ (pc = "writeRemote" /\ q = "mdLocal") \/ (pc = "startRemote" /\ q = "unit")
  BY DEF WriteRemote, StartRemote, At
<1>2. /\ OnItsWay \/ (pc' = "failed" /\ todo' = {})
      /\ todo' \subseteq todo /\ todo \subseteq Node
  BY <1>1 DEF Joined, Visited, Loop, Goto, OnItsWay, Ways, Control
<1>3. CASE Keep
  BY <1>1, <1>2, <1>3, KeepControl DEF Control, OnItsWay, Ways
<1>4. CASE broken' = TRUE /\ UNCHANGED <<req, temp, copied, halted, turns, tidy>> /\ todo # {n}
  <2>1. pc' = pc /\ todo' \subseteq todo
    BY <1>1, <1>2, <1>4 DEF Joined, Visited
  <2>2. QED
    BY <1>2, <1>4, <2>1, WayControl DEF Control, OnItsWay
<1>5. QED
  BY <1>1, <1>3, <1>4 DEF Joined

LEMMA WriteUnitControl ==
  ASSUME Control, WriteUnit
  PROVE  Control'
<1>1. /\ pc = "unit" /\ Keep /\ todo' \subseteq Node
      /\ \/ pc' = "promote" /\ req.migrate = FALSE /\ req.pool # "none"
         \/ pc' = "overrides" /\ req.migrate = FALSE
         \/ pc' = "halt" /\ req.migrate = TRUE
         \/ pc' = "failed" /\ todo' = {}
  <2>1. req.migrate \in BOOLEAN
    BY DEF Control, RequestType
  <2>2. QED
    BY <2>1 DEF WriteUnit, Goto, Loop
<1>2. CASE pc' = "failed" /\ todo' = {}
  BY <1>1, <1>2, KeepControl
<1>3. CASE pc' # "failed"
  <2>1. UNCHANGED handler
    BY <1>1, <1>3 DEF Keep
  <2>2. QED
    BY <1>1, <1>3, <2>1
       DEF handler, Control, Running, Making, Setup, Moving, Moved, Handing
<1>4. QED
  BY <1>1, <1>2, <1>3

LEMMA UndoControl ==
  ASSUME Control, CleanUnmount \/ CleanDemote \/ UnmountSetup \/ DemoteSetup
  PROVE  Control'
<1>1. PICK p, q, s : /\ UndoSetup(p, s, q)
                     /\ <<p, q>> \in {<<"cleanUnmount", "cleanDemote">>, <<"cleanDemote", "failed">>,
                                      <<"unmount", "demote">>, <<"demote", "overrides">>}
  BY DEF CleanUnmount, CleanDemote, UnmountSetup, DemoteSetup
<1>2. pc = p /\ pc' = q /\ todo' = {} /\ (Keep \/ (tidy' = FALSE /\ UNCHANGED <<req, broken, temp, copied, halted, turns>>))
  BY <1>1 DEF UndoSetup, Goto
<1>3. OnItsWay \/ (pc = "cleanDemote" /\ pc' = "failed")
  BY <1>1, <1>2 DEF OnItsWay, Ways
<1>4. CASE Keep
  BY <1>2, <1>3, <1>4, KeepControl
<1>5. CASE tidy' = FALSE /\ UNCHANGED <<req, broken, temp, copied, halted, turns>> /\ OnItsWay
  BY <1>1, <1>2, <1>5, WayControl DEF Control
<1>6. CASE tidy' = FALSE /\ UNCHANGED <<req, broken, temp, copied, halted, turns>> /\ pc' = "failed"
  BY <1>2, <1>6 DEF Control, Answered, Making, Setup, Moving, Moved, Handing
<1>7. QED
  BY <1>2, <1>3, <1>4, <1>5, <1>6

(* The steps of a migration that change the request's variables.            *)
LEMMA MigrateControl ==
  ASSUME Typed, HaltSource \/ MountTemp \/ Rsync \/ UnmountTemp \/ Wait
  PROVE  Control'
<1> USE DEF Typed
<1>1. CASE HaltSource
  <2>1. node[c].svc \in BOOLEAN
    BY ControllerAssumption DEF Machines, Cluster, NodeState, c
  <2>2. QED
    BY <1>1, <2>1 DEF HaltSource, Goto, Control, Answered, Running, Making, Setup, Moving, Moved, Handing
<1>2. CASE MountTemp
  BY <1>2 DEF MountTemp, Goto, Control, Answered, Running, Making, Setup, Moving, Moved, Handing
<1>3. CASE Rsync
  BY <1>3 DEF Rsync, Goto, Control, Answered, Running, Making, Setup, Moving, Moved, Handing
<1>4. CASE UnmountTemp
  BY <1>4 DEF UnmountTemp, Goto, Control, Answered, Running, Making, Setup, Moving, Moved, Handing
<1>5. CASE Wait
  BY <1>5, MaxTurnsAssumption DEF Wait, Goto, Control, Answered, Running, Making, Setup, Moving, Moved, Handing
<1>6. QED
  BY <1>1, <1>2, <1>3, <1>4, <1>5

(* The minor that is drawn for a creation is one of those that are free.    *)
LEMMA LowestIsFree ==
  ASSUME NEW a \in Minor \cup {NoMinor}, NEW b \in Minor \cup {NoMinor},
         NEW used, used \subseteq Others \cup {a, b}
  PROVE  Lowest(used) \in Minor \ used
<1>1. PICK m \in Minor : m \notin used
  BY OthersAssumption
<1>2. \E k \in Minor : k \notin used /\ \A j \in 0..(k - 1) : j \in used
  <2>1. CASE 0 \notin used
    BY <2>1 DEF Minor
  <2>2. CASE 0 \in used /\ 1 \notin used
    BY <2>2 DEF Minor
  <2>3. CASE {0, 1} \subseteq used /\ 2 \notin used
    BY <2>3 DEF Minor
  <2>4. CASE {0, 1, 2} \subseteq used /\ 3 \notin used
    BY <2>4 DEF Minor
  <2>5. CASE {0, 1, 2, 3} \subseteq used /\ 4 \notin used
    BY <2>5 DEF Minor
  <2>6. CASE {0, 1, 2, 3, 4} \subseteq used /\ 5 \notin used
    BY <2>6 DEF Minor
  <2>7. CASE {0, 1, 2, 3, 4, 5} \subseteq used /\ 6 \notin used
    BY <2>7 DEF Minor
  <2>8. CASE {0, 1, 2, 3, 4, 5, 6} \subseteq used /\ 7 \notin used
    BY <2>8 DEF Minor
  <2>9. QED
    BY <1>1, <2>1, <2>2, <2>3, <2>4, <2>5, <2>6, <2>7, <2>8 DEF Minor
<1>3. QED
  BY <1>2 DEF Lowest

LEMMA CreateControl ==
  ASSUME Typed, NEW rq \in Requests, Create(rq)
  PROVE  Control'
<1>1. /\ broken' = FALSE /\ temp' = FALSE /\ copied' = FALSE /\ halted' = FALSE
      /\ turns' = 0 /\ tidy' = TRUE
  BY DEF Create
<1>2. turns' \in 0..MaxTurns
  BY <1>1, MaxTurnsAssumption
<1>3. rq \in RequestType /\ NoRequest \in RequestType
  BY RequestsAssumption DEF NoRequest, RequestType
<1>4. CASE Goto("exists") /\ req' = NoRequest
  BY <1>1, <1>2, <1>3, <1>4 DEF Goto, Control, Answered, Making, Setup, Moving, Moved
<1>5. ASSUME NEW files \in BOOLEAN, NEW kernel \in BOOLEAN,
             req' = [rq EXCEPT !.minor = IF @ # NoMinor THEN @ ELSE Lowest(UsedMinors(files, kernel))],
             Loop(IF rq.pool # "none" THEN "provision" ELSE "unit", IF rq.pool # "none" THEN Node ELSE {})
      PROVE  Control'
  <2>1. res[c] \in Minor \cup {NoMinor} /\ live[c] \in Minor \cup {NoMinor}
    BY ControllerAssumption DEF Typed, Machines, c
  <2>2. UsedMinors(files, kernel) \subseteq Others \cup {res[c], live[c]}
    BY DEF UsedMinors
  <2>3. Lowest(UsedMinors(files, kernel)) \in Minor
    BY <2>1, <2>2, LowestIsFree
  <2>4. rq.minor # NoMinor => rq.minor \in Minor
    BY <1>3 DEF RequestType
  <2> DEFINE m == IF rq.minor # NoMinor THEN rq.minor ELSE Lowest(UsedMinors(files, kernel))
  <2>5. req' = [rq EXCEPT !.minor = m] /\ m \in Minor
    BY <1>5, <2>3, <2>4
  <2> HIDE DEF m
  <2>6. req' \in RequestType /\ req'.pool = rq.pool
    BY <1>3, <2>5 DEF RequestType
  <2>7. /\ todo' \subseteq Node
        /\ (pc' = "provision" /\ rq.pool # "none") \/ pc' = "unit"
    BY <1>5 DEF Loop
  <2>8. QED
    BY <1>1, <1>2, <2>6, <2>7 DEF Control, Running, Making, Setup, Moving, Moved
<1>6. QED
  BY <1>4, <1>5 DEF Create

LEMMA OtherControl ==
  ASSUME Typed, Abort \/ Environment
  PROVE  Control'
<1>1. CASE Abort
  BY <1>1, KeepControl DEF Abort, Goto, Typed
<1>2. CASE Environment
  BY <1>2 DEF Environment, handler, Typed, Control, c
<1>3. QED
  BY <1>1, <1>2

LEMMA ControlKept ==
  ASSUME Typed, Next
  PROVE  Control'
BY PlainControl, LoopControl, JoinedControl, WriteUnitControl, UndoControl, MigrateControl, CreateControl, OtherControl
   DEF Typed, Next, Handler

---------------------------------------------------------------------------
(* The same for the machines.  Storage and .res files first: a command on    *)
(* volumes, one on pools and their chain.                                   *)
LEMMA BlankTyped == BlankStorage \in StorageState
BY DisksAssumption DEF BlankStorage, StorageState, Kind, Content, NoDisk

LEMMA VolumeMade ==
  ASSUME NEW s \in StorageState,
         NEW o \in CreateThinVolume(s) \cup CreateThickVolume(s) \cup ZfsCreateVolume(s)
  PROVE  o.s \in StorageState
<1>1. "lvm" \in Kind /\ "zfs" \in Kind
  BY DEF Kind
<1>2. \A k \in Kind : [s EXCEPT !.vol[k] = "blank"] \in StorageState
  BY DEF StorageState
<1>3. \/ o = Fail(s) \/ o = Ok([s EXCEPT !.vol["lvm"] = "blank"])
      \/ o = Ok([s EXCEPT !.vol["zfs"] = "blank"])
  BY DEF CreateThinVolume, CreateThickVolume, ZfsCreateVolume
<1>4. Fail(s).s = s /\ \A t : Ok(t).s = t
  BY DEF Fail, Ok
<1>5. QED
  BY <1>1, <1>2, <1>3, <1>4

LEMMA VolumeTyped ==
  ASSUME NEW k \in Kind, NEW thin, NEW s \in StorageState, NEW o \in Volume(k, thin, s)
  PROVE  o.s \in StorageState
<1>1. CASE o \in Reused(k, s)
  BY <1>1 DEF Reused, Ok
<1>2. CASE o \in CreateVolume(k, s)
  <2>1. \/ o \in CreateThinVolume(s) \/ o.s = s
        \/ \E q \in ZfsCreateVolume(s) : o.s = q.s
    BY <1>2 DEF CreateVolume, LvmCreateVolume, ZfsProviderVolume, Ok, Fail
  <2>2. QED
    BY <2>1, VolumeMade
<1>3. CASE o \in CreateThickVolume(s)
  BY <1>3, VolumeMade
<1>4. QED
  BY <1>1, <1>2, <1>3 DEF Volume

LEMMA PoolTyped ==
  ASSUME NEW s \in StorageState, NEW d \in Raw, NEW k, NEW o \in InitPool(k, s, d, {})
  PROVE  o.s \in StorageState
<1>1. Labelled(s, d) \in StorageState
  BY DisksAssumption DEF Labelled, StorageState, Content
<1>2. \A t \in StorageState, j \in Kind : [t EXCEPT !.home[j] = d] \in StorageState
  BY DEF StorageState
<1>3. "lvm" \in Kind /\ "zfs" \in Kind
  BY DEF Kind
<1>4. ASSUME NEW q \in PvCreate(s, d, {}) PROVE q.s \in StorageState
  BY <1>1, <1>4 DEF PvCreate, Ok, Fail
<1>5. ASSUME NEW t \in StorageState, NEW q \in VgCreate(t, d) PROVE q.s \in StorageState
  BY <1>2, <1>3, <1>5 DEF VgCreate, Ok, Fail
<1>6. ASSUME NEW q \in ZpoolCreate(s, d, {}) PROVE q.s \in StorageState
  <2>1. q.s = s \/ q.s = [Labelled(s, d) EXCEPT !.home["zfs"] = d]
    BY DEF ZpoolCreate, Ok, Fail
  <2>2. QED
    BY <1>1, <1>2, <1>3, <2>1
<1>7. CASE o \in LvmInitPool(s, d, {})
  <2>1. PICK q \in PvCreate(s, d, {}) : o \in (IF q.ok THEN VgCreate(q.s, d) ELSE {q})
    BY <1>7 DEF LvmInitPool, AndThen
  <2>2. o = q \/ o \in VgCreate(q.s, d)
    BY <2>1
  <2>3. QED
    BY <1>4, <1>5, <2>2
<1>8. CASE o = Ok(s) \/ o \in ZpoolCreate(s, d, {})
  BY <1>6, <1>8 DEF Ok
<1>9. QED
  BY <1>7, <1>8 DEF InitPool, ZfsInitPool

LEMMA ProvisionedTyped ==
  ASSUME NEW k \in Kind, NEW rq, NEW n, NEW s \in StorageState, NEW o \in Provisioned(k, rq, n, s)
  PROVE  o.s \in StorageState
<1>1. CASE o \in Volume(k, rq.thin, s)
  BY <1>1, VolumeTyped
<1>2. CASE o = Fail(s)
  BY <1>2 DEF Fail
<1>3. ASSUME NEW d \in Raw, o \in AndThen(InitPool(k, s, d, {}), LAMBDA t : Volume(k, rq.thin, t))
      PROVE  o.s \in StorageState
  <2>1. PICK q \in InitPool(k, s, d, {}) : o \in (IF q.ok THEN Volume(k, rq.thin, q.s) ELSE {q})
    BY <1>3 DEF AndThen
  <2>2. q.s \in StorageState
    BY PoolTyped
  <2>3. o = q \/ o \in Volume(k, rq.thin, q.s)
    BY <2>1
  <2>4. QED
    BY <2>2, <2>3, VolumeTyped
<1>4. QED
  BY <1>1, <1>2, <1>3 DEF Provisioned

LEMMA ProvisionMachines ==
  ASSUME Typed, NEW n \in Node, Provision(n)
  PROVE  Machines'
<1>1. pc = "provision" /\ UNCHANGED <<clusterVars, res, live, stopping, requests>>
  BY DEF Provision, At
<1>2. req.pool \in Kind
  BY <1>1 DEF Typed, Control, RequestType, Making
<1>3. CASE UNCHANGED store
  BY <1>1, <1>3, QuietMachines DEF Typed, Quiet, machine
<1>4. ASSUME NEW o \in Provisioned(req.pool, req, n, store[n]), store' = [store EXCEPT ![n] = o.s]
      PROVE  Machines'
  <2>1. store[n] \in StorageState
    BY DEF Typed, Machines
  <2>2. o.s \in StorageState
    BY <1>2, <1>4, <2>1, ProvisionedTyped
  <2>3. QED
    BY <1>1, <1>4, <2>2 DEF Typed, Machines, Cluster, clusterVars
<1>5. QED
  BY <1>3, <1>4 DEF Provision

LEMMA ResMachines ==
  ASSUME Typed, NEW n \in Node, NEW m \in Minor \cup {NoMinor},
         res' = [res EXCEPT ![n] = m] \/ UNCHANGED res, UNCHANGED <<clusterVars, store, live, stopping, requests>>
  PROVE  Machines'
BY DEF Typed, Machines, Cluster, clusterVars

(* A creation that configures a resource has a minor for it.                *)
LEMMA WriteMachines ==
  ASSUME Typed, WriteLocal \/ \E n \in Node : WriteRemote(n)
  PROVE  Machines'
<1>1. req.minor \in Minor \cup {NoMinor} /\ c \in Node
  BY ControllerAssumption DEF Typed, Control, RequestType, c
<1>2. \E n \in Node : /\ res' = [res EXCEPT ![n] = req.minor] \/ UNCHANGED res
                      /\ UNCHANGED <<clusterVars, store, live, stopping, requests>>
  BY <1>1 DEF WriteLocal, WriteRemote
<1>3. QED
  BY <1>1, <1>2, ResMachines

(* The controller and the nodes one after another.                          *)
LEMMA OnControllerMachines ==
  ASSUME Machines, NEW t, Keeps(t, node[c]), OnController(t)
  PROVE  Machines'
BY ChangeMachines, ControllerAssumption DEF OnController, c

LEMMA StartMachines ==
  ASSUME Machines, CreateMdLocal \/ UpLocal \/ \E n \in Node : StartRemote(n)
  PROVE  Machines'
<1>0. c \in Node /\ Cluster
  BY ControllerAssumption DEF c, Machines
<1>1. CASE CreateMdLocal
  BY <1>0, <1>1, WithMdKeeps, OnControllerMachines DEF CreateMdLocal
<1>2. CASE UpLocal
  <2>1. Keeps(node[c], node[c])
    BY <1>0, ServiceKeeps DEF Cluster
  <2>2. QED
    BY <1>0, <1>2, <2>1, StartOnMachines DEF UpLocal
<1>3. ASSUME NEW n \in Node, StartRemote(n)
      PROVE  Machines'
  BY <1>0, <1>3, WithMdKeeps, StartOnMachines, ChangeMachines, QuietMachines DEF StartRemote
<1>4. QED
  BY <1>1, <1>2, <1>3

LEMMA SetupMachines ==
  ASSUME Machines,
         \/ WriteUnit \/ PromoteForSetup \/ MkfsSetup \/ MountSetup \/ SeedServices
         \/ CleanUnmount \/ CleanDemote \/ UnmountSetup \/ DemoteSetup
  PROVE  Machines'
<1>0. c \in Node /\ Good(node[c])
  BY ControllerAssumption DEF c, Machines, Cluster
<1>1. \/ Quiet \/ OnController(node[c]) \/ (CanPromote(c) /\ OnController(Promoted(node[c])))
      \/ OnController(Unmounted(node[c])) \/ OnController(Demoted(node[c]))
  BY DEF WriteUnit, PromoteForSetup, MkfsSetup, MountSetup, SeedServices, CleanUnmount, CleanDemote,
         UnmountSetup, DemoteSetup, UndoSetup, DeviceNamed
<1>2. CanPromote(c) => node[c].up = TRUE
  BY <1>0 DEF CanPromote, Good, NodeState
<1>3. QED
  BY <1>0, <1>1, <1>2, QuietMachines, OnControllerMachines, ServiceKeeps, RoleKeeps

(* A migration: services stop and start, data is written to the replicas.   *)
LEMMA MoveMachines ==
  ASSUME Machines,
         \/ HaltSource \/ PromoteSource \/ FindDevice \/ MountTemp \/ UnmountTemp \/ Resume \/ Wait
         \/ WriteOverrides \/ WritePromoter
  PROVE  Machines'
<1>0. c \in Node /\ Good(node[c])
  BY ControllerAssumption DEF c, Machines, Cluster
<1>1. \/ Quiet \/ StopQueued \/ Serve
      \/ (node[c].up = TRUE /\ OnController(Promoted(node[c])))
      \/ \E f \in File : OnController([node[c] EXCEPT !.file = f])
  <2>1. CASE PromoteSource
    BY <1>0, <2>1 DEF PromoteSource, Good, NodeState
  <2>2. CASE WritePromoter
    BY <2>2 DEF WritePromoter, FileOf, File
  <2>3. CASE HaltSource \/ FindDevice \/ MountTemp \/ UnmountTemp \/ Resume \/ Wait \/ WriteOverrides
    BY <2>3 DEF HaltSource, FindDevice, MountTemp, UnmountTemp, Resume, Wait, WriteOverrides
  <2>4. QED
    BY <2>1, <2>2, <2>3
<1>2. StopQueued \/ Serve => Machines'
  <2>1. node[c].svc \in BOOLEAN /\ node \in [Node -> NodeState]
    BY <1>0 DEF Good, NodeState, Machines, Cluster
  <2>2. StopQueued => Machines'
    BY <2>1, ServiceMachines DEF StopQueued, clusterVars
  <2>3. Serve => node' = [node EXCEPT ![c] = [node[c] EXCEPT !.svc = TRUE]]
    BY <2>1 DEF Serve
  <2>4. Keeps([node[c] EXCEPT !.svc = TRUE], node[c])
    BY <1>0, ServiceKeeps
  <2>5. Serve => Machines'
    BY <1>0, <2>3, <2>4, ServiceMachines DEF Serve
  <2>6. QED
    BY <2>2, <2>5
<1>3. QED
  BY <1>0, <1>1, <1>2, QuietMachines, OnControllerMachines, ServiceKeeps, RoleKeeps

LEMMA DataMachines ==
  ASSUME Machines, Format \/ Rsync
  PROVE  Machines'
<1>1. \/ Quiet
      \/ Write(LAMBDA s : [s EXCEPT !.fs = TRUE, !.data = "blank"])
      \/ Write(LAMBDA s : [s EXCEPT !.data = "migrated"])
      \/ Write(LAMBDA s : [s EXCEPT !.data = "blank"])
  BY DEF Format, Rsync
<1>2. CASE Quiet
  BY <1>2, QuietMachines
<1>3. CASE ~Quiet
  <2>1. UNCHANGED <<linked, store, res, live, stopping, requests>>
    BY <1>1, <1>3 DEF Write
  <2>2. /\ DOMAIN node' = Node
        /\ \A n \in Node : node'[n] \in {Missed(node[n]), [node[n] EXCEPT !.fs = TRUE, !.data = "blank"],
                                         [node[n] EXCEPT !.data = "migrated"], [node[n] EXCEPT !.data = "blank"]}
    BY <1>1, <1>3 DEF Write
  <2>3. \A n \in Node : Good(node[n])
    BY DEF Machines, Cluster
  <2>4. ASSUME NEW n \in Node PROVE Keeps(node'[n], node[n])
    <3>1. Good(node[n]) /\ "migrated" \in Lineage /\ "blank" \in Lineage
      BY <2>3 DEF Lineage
    <3>2. Keeps(Missed(node[n]), node[n])
      BY <3>1, DataKeeps
    <3>3. /\ Keeps([node[n] EXCEPT !.fs = TRUE, !.data = "blank"], node[n])
          /\ Keeps([node[n] EXCEPT !.data = "migrated"], node[n])
          /\ Keeps([node[n] EXCEPT !.data = "blank"], node[n])
      BY <3>1, DataKeeps
    <3>4. QED
      BY <2>2, <3>2, <3>3
  <2>5. node' = [n \in Node |-> node'[n]]
    BY <1>1, <1>3 DEF Write
  <2>6. QED
    BY <2>1, <2>4, <2>5 DEF Machines, Cluster, Keeps, Good
<1>4. QED
  BY <1>2, <1>3

LEMMA LoopMachines ==
  ASSUME Machines, NEW n \in Node, Halt(n) \/ DemoteRemote(n) \/ AutoDisable(n) \/ Reload(n)
  PROVE  Machines'
<1>1. Good(node[n])
  BY DEF Machines, Cluster
<1>2. CASE Quiet \/ \E t : Keeps(t, node[n]) /\ Change(n, t)
  BY <1>2, QuietMachines, ChangeMachines
<1>3. node[n].svc \in BOOLEAN /\ node \in [Node -> NodeState]
  BY <1>1 DEF Good, NodeState, Machines, Cluster
<1>4. CASE n = c /\ StopQueued
  BY <1>3, <1>4, ServiceMachines DEF StopQueued, clusterVars
<1>5. CASE /\ n = c /\ stopping' = node[c].svc /\ node' = [node EXCEPT ![c].boot = FALSE]
           /\ UNCHANGED <<linked, store, res, live, requests>>
  <2>1. node' = [node EXCEPT ![n] = [node[n] EXCEPT !.boot = FALSE]]
    BY <1>3, <1>5
  <2>2. Keeps([node[n] EXCEPT !.boot = FALSE], node[n])
    BY <1>1, ServiceKeeps
  <2>3. QED
    BY <1>3, <1>5, <2>1, <2>2, ServiceMachines
<1>6. QED
  BY <1>1, <1>2, <1>4, <1>5, ServiceKeeps, ReloadedKeeps DEF Halt, DemoteRemote, AutoDisable, Reload

LEMMA SyncMachines ==
  ASSUME Machines, NEW n \in Node, Sync(n)
  PROVE  Machines'
<1>1. CASE Quiet
  BY <1>1, QuietMachines
<1>2. CASE SyncToNode(n)
  <2> DEFINE written == [node[n] EXCEPT !.file = FileOf(req)]
  <2>1. /\ Good(node[n]) /\ Keeps(node[n], node[n])
        /\ Keeps(written, node[n])
    BY ServiceKeeps DEF Machines, Cluster, FileOf, File
  <2>2. PICK t \in {node[n], written} \cup Reloaded(written) : node' = [node EXCEPT ![n] = t]
    BY <1>2 DEF SyncToNode
  <2> HIDE DEF written
  <2>3. Keeps(t, node[n])
    BY <2>1, ReloadedKeeps DEF Keeps
  <2>4. /\ res' = [res EXCEPT ![n] = IF req.pool # "none" THEN res[c] ELSE @]
        /\ UNCHANGED <<linked, store, live, stopping, requests>>
    BY <1>2 DEF SyncToNode
  <2>5. res[c] \in Minor \cup {NoMinor}
    BY ControllerAssumption DEF Machines, c
  <2>6. QED
    BY <2>2, <2>3, <2>4, <2>5 DEF Machines, Cluster, Keeps, Good
<1>3. QED
  BY <1>1, <1>2 DEF Sync

(* The reactors, DRBD, the network and systemd.                             *)
LEMMA EnvironmentKeeps ==
  ASSUME Machines, NEW n \in Node,
         \/ ReactorPromote(n) \/ ReactorStack(n) \/ ResyncDone(n) \/ Handshake(n) \/ ReactorQuorumLoss(n)
  PROVE  UNCHANGED linked /\ \E t : Keeps(t, node[n]) /\ node' = [node EXCEPT ![n] = t]
<1>1. node \in [Node -> NodeState] /\ \A m \in Node : Good(node[m]) /\ node[m].up \in BOOLEAN
  BY DEF Machines, Cluster, NodeState
<1>2. CASE ReactorPromote(n)
  <2>1. node[n].up = TRUE /\ node[n].mount = "none"
    BY <1>1, <1>2 DEF ReactorPromote, CanPromote
  <2>2. node' = [node EXCEPT ![n] = [node[n] EXCEPT !.role = "Primary", !.stack = FALSE]] /\ UNCHANGED linked
    BY <1>1, <1>2 DEF ReactorPromote
  <2>3. QED
    BY <1>1, <2>1, <2>2, RoleKeeps
<1>3. CASE ReactorStack(n)
  <2>1. node[n].up = TRUE
    BY <1>1, <1>3 DEF ReactorStack, CanUse, Good
  <2>2. node' = [node EXCEPT ![n] = [node[n] EXCEPT !.mount = "own", !.stack = TRUE, !.svc = TRUE]]
        /\ UNCHANGED linked
    BY <1>1, <1>3 DEF ReactorStack
  <2>3. QED
    BY <1>1, <2>1, <2>2, RoleKeeps
<1>4. CASE ResyncDone(n)
  <2>1. PICK m \in Peers(node, linked, n) : node' = [node EXCEPT ![n] = SyncFrom(node[n], node[m])]
    BY <1>1, <1>4 DEF ResyncDone
  <2>2. m \in Node /\ node[n].up = TRUE
    BY <1>1, <2>1 DEF Peers, Connected
  <2>3. UNCHANGED linked
    BY <1>4 DEF ResyncDone
  <2>4. QED
    BY <1>1, <2>1, <2>2, <2>3, DataKeeps
<1>5. CASE Handshake(n)
  <2>1. /\ UNCHANGED linked
        /\ \/ node' = [node EXCEPT ![n] = [node[n] EXCEPT !.alone = TRUE]]
           \/ node' = [node EXCEPT ![n] = [node[n] EXCEPT !.joined = TRUE]]
    BY <1>1, <1>5 DEF Handshake
  <2>2. QED
    BY <1>1, <2>1, ServiceKeeps
<1>6. CASE ReactorQuorumLoss(n)
  <2> DEFINE t == [node[n] EXCEPT !.mount = "none", !.stack = FALSE, !.svc = FALSE, !.role = "Secondary"]
  <2>1. node' = [node EXCEPT ![n] = t] /\ UNCHANGED linked
    BY <1>1, <1>6 DEF ReactorQuorumLoss
  <2>2. Keeps(t, node[n])
    BY <1>1 DEF Keeps, Good, NodeState, Mount, Role
  <2>3. QED
    BY <2>1, <2>2
<1>7. QED
  BY <1>2, <1>3, <1>4, <1>5, <1>6

LEMMA EnvironmentMachines ==
  ASSUME Machines, Environment
  PROVE  Machines'
<1>1. /\ UNCHANGED <<store, res, live, requests>> /\ c \in Node /\ stopping \in BOOLEAN
      /\ node \in [Node -> NodeState] /\ \A n \in Node : Good(node[n])
  BY ControllerAssumption DEF Environment, Machines, Cluster, c
<1>2. ASSUME NEW n \in Node, stopping' \in BOOLEAN,
             \/ ReactorPromote(n) \/ ReactorStack(n) \/ ResyncDone(n) \/ Handshake(n) \/ ReactorQuorumLoss(n)
      PROVE  Machines'
  BY <1>1, <1>2, EnvironmentKeeps, ServiceMachines
<1>3. CASE LinkDown /\ UNCHANGED stopping
  <2>1. linked' = FALSE /\ node' = [n \in Node |-> [node[n] EXCEPT !.joined = FALSE]]
    BY <1>3 DEF LinkDown
  <2>2. ASSUME NEW n \in Node PROVE Keeps(node'[n], node[n])
    BY <1>1, <2>1, ServiceKeeps
  <2>3. node' \in [Node -> NodeState] /\ \A n \in Node : Good(node'[n]) /\ node'[n].up = node[n].up
    BY <2>1, <2>2 DEF Keeps, Good
  <2>4. linked' \in BOOLEAN
    BY <2>1, Zenon
  <2>5. QED
    BY <1>1, <1>3, <2>3, <2>4 DEF Machines, Cluster
<1>4. CASE LinkUp /\ UNCHANGED stopping
  <2>1. linked' \in BOOLEAN
    BY <1>4, Zenon DEF LinkUp
  <2>2. QED
    BY <1>1, <1>4, <2>1 DEF LinkUp, Machines, Cluster
<1>5. CASE ServiceStops
  <2>1. node' = [node EXCEPT ![c] = [node[c] EXCEPT !.svc = FALSE]] /\ UNCHANGED linked
    BY <1>1, <1>5 DEF ServiceStops
  <2>2. stopping' \in BOOLEAN
    BY <1>5, Zenon DEF ServiceStops
  <2>3. Keeps([node[c] EXCEPT !.svc = FALSE], node[c])
    BY <1>1, ServiceKeeps
  <2>4. QED
    BY <1>1, <2>1, <2>2, <2>3, ServiceMachines
<1>6. ASSUME NEW n \in Node, ReactorStack(n), stopping' = (stopping /\ n # c)
      PROVE  Machines'
  <2>1. stopping' \in BOOLEAN
    BY <1>6, Zenon
  <2>2. QED
    BY <1>2, <1>6, <2>1
<1>7. QED
  BY <1>1, <1>2, <1>3, <1>4, <1>5, <1>6 DEF Environment

LEMMA MachinesKept ==
  ASSUME Typed, Next
  PROVE  Machines'
<1>1. CASE \E rq \in Requests : Create(rq)
  <2>1. /\ requests' \in 0..MaxRequests
        /\ UNCHANGED <<clusterVars, store, res, live, stopping>>
    BY <1>1, MaxRequestsAssumption DEF Create, Typed, Machines
  <2>2. QED
    BY <2>1 DEF Typed, Machines, Cluster, clusterVars
<1>2. CASE Abort
  BY <1>2, QuietMachines DEF Abort, Typed
<1>3. CASE Environment
  BY <1>3, EnvironmentMachines DEF Typed
<1>4. CASE Handler
  BY <1>4, ProvisionMachines, WriteMachines, StartMachines, SetupMachines, MoveMachines, DataMachines,
     LoopMachines, SyncMachines DEF Handler, Typed
<1>5. QED
  BY <1>1, <1>2, <1>3, <1>4 DEF Next

---------------------------------------------------------------------------
LEMMA InitTyped == Init => Typed
<1> SUFFICES ASSUME Init PROVE Typed
  OBVIOUS
<1>1. Good(Empty) /\ Good(InSync) /\ Good([InSync EXCEPT !.disk = "Inconsistent"])
      /\ Empty.up = FALSE /\ InSync.up = TRUE
  BY DEF Good, Empty, InSync, SyncedNode, FreshNode, NodeState, Role, Disk, Lineage, Mount, File
<1>00. linked \in BOOLEAN /\ stopping \in BOOLEAN /\ requests \in 0..MaxRequests
  <2>1. linked = TRUE /\ stopping = FALSE /\ requests = 0
    BY DEF Init
  <2>2. linked \in BOOLEAN /\ stopping \in BOOLEAN
    BY <2>1, Zenon
  <2>3. QED
    BY <2>1, <2>2, MaxRequestsAssumption
<1>0. Control
  <2>1. NoRequest \in RequestType
    BY DEF NoRequest, RequestType
  <2>2. turns = 0 /\ 0 \in 0..MaxTurns
    <3>1. turns = 0
      BY DEF Init
    <3>2. QED
      BY <3>1, MaxTurnsAssumption
  <2>3. pc = "idle" /\ pc \in Answered /\ pc \notin Making \cup Setup \cup Moving \cup Moved
    BY DEF Init, Answered, Making, Setup, Moving, Moved
  <2>4. QED
    BY <2>1, <2>2, <2>3 DEF Init, Control
<1>2. CASE res = [m \in Node |-> NoMinor] /\ store = [m \in Node |-> BlankStorage]
           /\ \E running \in BOOLEAN : node = [m \in Node |-> [Empty EXCEPT !.svc = (m = c /\ running)]]
  <2>1. PICK running \in BOOLEAN : node = [m \in Node |-> [Empty EXCEPT !.svc = (m = c /\ running)]]
    BY <1>2
  <2>2. \A m \in Node : Keeps([Empty EXCEPT !.svc = (m = c /\ running)], Empty)
    BY <1>1, ServiceKeeps
  <2>3. \A m \in Node : Good(node[m]) /\ node[m].up = FALSE /\ node[m] \in NodeState
    BY <1>1, <2>1, <2>2 DEF Keeps, Good
  <2>4. Machines
    BY <1>00, <1>2, <2>1, <2>3, BlankTyped DEF Init, Machines, Cluster
  <2>5. QED
    BY <1>0, <2>4 DEF Typed
<1>3. ASSUME NEW n \in Node, NEW s \in {InSync, [InSync EXCEPT !.disk = "Inconsistent"]}, NEW running \in BOOLEAN,
             node = [m \in Node |-> [IF m = n THEN s ELSE InSync EXCEPT !.svc = (m = c /\ running)]],
             res = [m \in Node |-> 1], NEW d \in Raw,
             store = [m \in Node |-> [BlankStorage EXCEPT !.raw[d] = "label", !.home["lvm"] = d, !.vol["lvm"] = "fs"]]
      PROVE  Typed
  <2>1. Good(s) /\ s.up = TRUE
    BY <1>1 DEF InSync, SyncedNode, FreshNode
  <2>2. \A m \in Node : Keeps([(IF m = n THEN s ELSE InSync) EXCEPT !.svc = (m = c /\ running)], IF m = n THEN s ELSE InSync)
    BY <1>1, <2>1, ServiceKeeps
  <2> DEFINE start(m) == IF m = n THEN s ELSE InSync
  <2>3. ASSUME NEW m \in Node PROVE Good(node[m]) /\ node[m].up = TRUE /\ node[m] \in NodeState
    <3>1. start(m).up = TRUE
      BY <1>1, <2>1
    <3>2. node[m] = [start(m) EXCEPT !.svc = (m = c /\ running)]
      BY <1>3
    <3>3. Keeps(node[m], start(m))
      BY <2>2, <3>2
    <3> HIDE DEF start
    <3>4. QED
      BY <3>1, <3>3 DEF Keeps, Good
  <2>4. [BlankStorage EXCEPT !.raw[d] = "label", !.home["lvm"] = d, !.vol["lvm"] = "fs"] \in StorageState
    BY DisksAssumption DEF StorageState, BlankStorage, Kind, Content, NoDisk
  <2>5. 1 \in Minor /\ 1 # NoMinor
    BY DEF Minor, NoMinor
  <2>6. Machines
    BY <1>00, <1>3, <2>3, <2>4, <2>5 DEF Init, Machines, Cluster
  <2>7. QED
    BY <1>0, <2>6 DEF Typed
<1>4. PICK n \in Node, s \in {InSync, [InSync EXCEPT !.disk = "Inconsistent"]}, running \in BOOLEAN :
        \/ /\ node = [m \in Node |-> [Empty EXCEPT !.svc = (m = c /\ running)]]
           /\ res = [m \in Node |-> NoMinor] /\ store = [m \in Node |-> BlankStorage]
        \/ /\ node = [m \in Node |-> [IF m = n THEN s ELSE InSync EXCEPT !.svc = (m = c /\ running)]]
           /\ res = [m \in Node |-> 1]
           /\ \E d \in Raw : store =
                [m \in Node |-> [BlankStorage EXCEPT !.raw[d] = "label", !.home["lvm"] = d, !.vol["lvm"] = "fs"]]
  BY DEF Init
<1>5. CASE /\ node = [m \in Node |-> [Empty EXCEPT !.svc = (m = c /\ running)]]
           /\ res = [m \in Node |-> NoMinor] /\ store = [m \in Node |-> BlankStorage]
  BY <1>2, <1>5
<1>6. CASE /\ node = [m \in Node |-> [IF m = n THEN s ELSE InSync EXCEPT !.svc = (m = c /\ running)]]
           /\ res = [m \in Node |-> 1]
           /\ \E d \in Raw : store =
                [m \in Node |-> [BlankStorage EXCEPT !.raw[d] = "label", !.home["lvm"] = d, !.vol["lvm"] = "fs"]]
  <2>1. PICK d \in Raw : store =
          [m \in Node |-> [BlankStorage EXCEPT !.raw[d] = "label", !.home["lvm"] = d, !.vol["lvm"] = "fs"]]
    BY <1>6
  <2>2. QED
    BY <1>3, <1>6, <2>1
<1>7. QED
  BY <1>4, <1>5, <1>6

(* What is true of the machines, of the request's variables and of the      *)
(* phase they belong to: only what is up is current or Primary, only a      *)
(* reactor mounts the filesystem, no volume stands without its pool, and    *)
(* what a migration leaves (its mount, its result, its polls) outlives only *)
(* the phases that use it.  Every step keeps it, so it holds all the time.  *)
THEOREM TypedInvariant == Spec => []Typed
<1>1. Typed /\ [Next]_vars => Typed'
  <2>1. Typed /\ Next => Typed'
    BY ControlKept, MachinesKept DEF Typed
  <2>2. Typed /\ UNCHANGED vars => Typed'
    BY DEF vars, machine, clusterVars, handler, Typed, Machines, Cluster, Control, c
  <2>3. QED
    BY <2>1, <2>2
<1>2. QED
  BY InitTyped, <1>1, PTL DEF Spec

(* Every reachable state of a creation is of the declared types, and a      *)
(* resource is up on a node if and only if it is up under a minor.          *)
THEOREM TypeCorrect == Spec => []TypeOK
<1>1. Typed => TypeOK
  <2> SUFFICES ASSUME Typed PROVE TypeOK
    OBVIOUS
  <2>1. ClusterTypeOK
    BY DEF Typed, Machines, Cluster, ClusterTypeOK
  <2>2. \A n \in Node : node[n].up <=> live[n] # NoMinor
    BY DEF Typed, Machines, Cluster, NodeState
  <2>3. {broken, temp, copied, halted, tidy, stopping} \subseteq BOOLEAN
    BY DEF Typed, Control, Machines
  <2>4. QED
    BY <2>1, <2>2, <2>3 DEF Typed, Machines, Control, TypeOK
<1>2. QED
  BY <1>1, TypedInvariant, PTL

---------------------------------------------------------------------------
(* What the three promises of a creation rest on, phase by phase.            *)
(* A loop of writes of which none failed has written the nodes it visited.  *)
Written == {"mdLocal", "upLocal", "startRemote", "unit", "unmountTemp", "created"}
             \cup Setup \cup Moving \cup Moved \cup Handing
Configured ==
  /\ pc \in {"provision", "writeLocal"} => broken = FALSE
  /\ pc = "writeRemote" /\ broken = FALSE => \A n \in Node \ todo : res[n] = req.minor
  /\ pc \in Written /\ req.pool # "none" => \A n \in Node : res[n] = res[c]

Copied ==
  \/ pc \in Moved \cup Handing \cup {"created"} /\ req.migrate = TRUE
  \/ pc = "unmountTemp" /\ copied = TRUE
AllMigrated == \A n \in Node : node[n].disk = "UpToDate" => node[n].data = "migrated"
Faithful == Copied => AllMigrated

Undone ==
  pc = "overrides" /\ req.pool # "none" /\ req.migrate = FALSE /\ tidy = TRUE
    /\ node[c].armed = FALSE /\ node[c].stack = FALSE =>
    node[c].role = "Secondary"

---------------------------------------------------------------------------
(* Where each step goes.                                                    *)
LEMMA CreateGoes ==
  ASSUME NEW rq \in Requests, Create(rq)
  PROVE  /\ pc' \in {"exists", "provision", "unit"} /\ broken' = FALSE
         /\ pc' = "unit" => req'.pool = "none"
<1>1. rq \in RequestType
  BY RequestsAssumption
<1>2. CASE Goto("exists")
  BY <1>2 DEF Create, Goto
<1>3. ASSUME NEW m, req' = [rq EXCEPT !.minor = m],
             Loop(IF rq.pool # "none" THEN "provision" ELSE "unit", IF rq.pool # "none" THEN Node ELSE {})
      PROVE  pc' \in {"provision", "unit"} /\ (pc' = "unit" => req'.pool = "none")
  BY <1>1, <1>3 DEF Loop, RequestType
<1>4. QED
  BY <1>2, <1>3 DEF Create

LEMMA MakingGoes ==
  /\ WriteLocal => pc = "writeLocal" /\ pc' \in {"writeRemote", "mdLocal", "failed"}
  /\ CreateMdLocal => pc = "mdLocal" /\ pc' = "upLocal"
  /\ UpLocal => pc = "upLocal" /\ pc' \in {"startRemote", "unit"}
  /\ WriteUnit => pc = "unit" /\ pc' \in {"promote", "overrides", "halt", "failed"}
  /\ \A n \in Node :
       /\ Provision(n) => pc = "provision" /\ pc' \in {"provision", "writeLocal", "failed"}
       /\ WriteRemote(n) => pc = "writeRemote" /\ pc' \in {"writeRemote", "mdLocal", "failed"}
       /\ StartRemote(n) => pc = "startRemote" /\ pc' \in {"startRemote", "unit", "failed"}
BY DEF WriteLocal, CreateMdLocal, UpLocal, WriteUnit, Provision, WriteRemote, StartRemote,
       Start, Goto, Loop, At, Visited, Joined

LEMMA SetupGoes ==
  /\ PromoteForSetup => pc = "promote" /\ pc' = "mkfs"
  /\ MkfsSetup => pc = "mkfs" /\ pc' \in {"mount", "failed"}
  /\ MountSetup => pc = "mount" /\ pc' \in {"seed", "unmount"}
  /\ SeedServices => pc = "seed" /\ pc' \in {"unmount", "cleanUnmount"}
  /\ CleanUnmount => pc = "cleanUnmount" /\ pc' = "cleanDemote"
  /\ CleanDemote => pc = "cleanDemote" /\ pc' = "failed"
  /\ UnmountSetup => pc = "unmount" /\ pc' = "demote"
  /\ DemoteSetup => pc = "demote" /\ pc' = "overrides"
BY DEF PromoteForSetup, MkfsSetup, MountSetup, SeedServices, CleanUnmount, CleanDemote, UnmountSetup,
       DemoteSetup, UndoSetup, Goto

LEMMA MovingGoes ==
  /\ HaltSource => pc = "haltSource" /\ pc' \in {"promoteSource", "failed"}
  /\ PromoteSource => pc = "promoteSource" /\ pc' \in {"device", "failed"}
  /\ FindDevice => pc = "device" /\ pc' \in {"format", "mountTemp", "failed"}
  /\ Format => pc = "format" /\ pc' \in {"mountTemp", "failed"}
  /\ MountTemp => pc = "mountTemp" /\ pc' \in {"rsync", "failed"}
  /\ Rsync => pc = "rsync" /\ pc' = "unmountTemp"
  /\ UnmountTemp => pc = "unmountTemp" /\ pc' \in {"resume", "failed"}
  /\ Resume => pc = "resume" /\ pc' \in {"demoteRemote", "wait", "failed"}
  /\ Wait => pc = "wait" /\ pc' \in {"overrides", "wait", "failed"}
  /\ \A n \in Node :
       /\ Halt(n) => pc = "halt" /\ pc' \in {"halt", "haltSource"}
       /\ DemoteRemote(n) => pc = "demoteRemote" /\ pc' \in {"demoteRemote", "wait"}
BY DEF HaltSource, PromoteSource, FindDevice, Format, MountTemp, Rsync, UnmountTemp, Resume, Wait, Halt,
       DemoteRemote, Start, Goto, Loop, At, Visited

LEMMA HandingGoes ==
  /\ WriteOverrides => pc = "overrides" /\ pc' \in {"promoter", "failed"}
  /\ WritePromoter => pc = "promoter" /\ pc' \in {"autoDisable", "sync", "failed"}
  /\ \A n \in Node :
       /\ AutoDisable(n) => pc = "autoDisable" /\ pc' \in {"autoDisable", "sync"}
       /\ Sync(n) => pc = "sync" /\ pc' \in {"sync", "reload", "created"}
       /\ Reload(n) => pc = "reload" /\ pc' \in {"reload", "created"}
BY DEF WriteOverrides, WritePromoter, AutoDisable, Sync, Reload, Goto, Loop, At, Visited

(* What the world changes on a node: a node without the profile keeps its   *)
(* role and its stack; data comes from current disks.                       *)
LEMMA EnvironmentNode ==
  ASSUME Typed, Environment, NEW n \in Node
  PROVE  /\ node'[n].armed = node[n].armed
         /\ node[n].armed = FALSE => UNCHANGED <<node[n].stack, node[n].role>>
         /\ \/ UNCHANGED <<node[n].disk, node[n].data>>
            \/ \E m \in Node : node[m].disk = "UpToDate" /\ node'[n].data = node[m].data
<1> USE DEF Typed, Machines, Cluster
<1> DEFINE Same(t, s) == /\ t.armed = s.armed /\ t.disk = s.disk /\ t.data = s.data
                         /\ s.armed = FALSE => t.stack = s.stack /\ t.role = s.role
<1>0. node \in [Node -> NodeState] /\ c \in Node
  BY ControllerAssumption DEF c
<1>1. ASSUME NEW m \in Node, ReactorPromote(m) \/ ReactorStack(m) \/ ReactorQuorumLoss(m)
      PROVE  Same(node'[n], node[n])
  BY <1>0, <1>1 DEF ReactorPromote, ReactorStack, ReactorQuorumLoss, NodeState
<1>2. ASSUME NEW m \in Node, Handshake(m)
      PROVE  Same(node'[n], node[n])
  BY <1>0, <1>2 DEF Handshake, NodeState
<1>3. LinkDown \/ LinkUp \/ ServiceStops => Same(node'[n], node[n])
  BY <1>0 DEF LinkDown, LinkUp, ServiceStops, NodeState
<1>4. ASSUME NEW m \in Node, ResyncDone(m)
      PROVE  \/ node'[n] = node[n]
             \/ \E k \in Node : node[k].disk = "UpToDate" /\ node'[n] = SyncFrom(node[n], node[k])
  <2>1. PICK k \in Peers(node, linked, m) : node[k].disk = "UpToDate" /\ node' = [node EXCEPT ![m] = SyncFrom(@, node[k])]
    BY <1>4 DEF ResyncDone
  <2>2. QED
    BY <2>1 DEF Peers
<1>5. CASE \E m \in Node : ResyncDone(m)
  <2>1. ASSUME NEW k \in Node, node'[n] = SyncFrom(node[n], node[k])
        PROVE  /\ node'[n].armed = node[n].armed /\ node'[n].stack = node[n].stack
               /\ node'[n].role = node[n].role /\ node'[n].data = node[k].data
    BY <1>0, <2>1 DEF SyncFrom, NodeState
  <2>2. QED
    BY <1>4, <1>5, <2>1
<1>6. CASE Same(node'[n], node[n])
  BY <1>6
<1>7. QED
  BY <1>1, <1>2, <1>3, <1>5, <1>6 DEF Environment

---------------------------------------------------------------------------
(* The .res files: written one after another, by the loop that fails when   *)
(* one write did, and by the synchronisation at the end.                    *)
ResActions ==
  \/ WriteLocal
  \/ \E n \in Node : WriteRemote(n) \/ Sync(n)

LEMMA ResKept ==
  ASSUME Next, ~ResActions
  PROVE  res' = res
<1>1. CASE Handler
  <2>1. CASE \/ CreateMdLocal \/ UpLocal \/ WriteUnit \/ PromoteForSetup \/ MkfsSetup \/ MountSetup \/ SeedServices
             \/ CleanUnmount \/ CleanDemote \/ UnmountSetup \/ DemoteSetup
    BY <2>1 DEF CreateMdLocal, UpLocal, WriteUnit, PromoteForSetup, MkfsSetup, MountSetup, SeedServices, CleanUnmount,
           CleanDemote, UnmountSetup, DemoteSetup, UndoSetup, OnController, Change, StartOn, Quiet, machine
  <2>2. CASE \/ HaltSource \/ PromoteSource \/ FindDevice \/ Format \/ MountTemp \/ Rsync \/ UnmountTemp
             \/ Resume \/ Wait \/ WriteOverrides \/ WritePromoter
    BY <2>2 DEF HaltSource, PromoteSource, FindDevice, Format, MountTemp, Rsync, UnmountTemp,
           Resume, Wait, WriteOverrides, WritePromoter, Write, OnController, Change, Quiet, machine, StopQueued, Serve
  <2>3. ASSUME NEW n \in Node, Provision(n) \/ StartRemote(n) \/ Halt(n) \/ DemoteRemote(n) \/ AutoDisable(n) \/ Reload(n)
        PROVE  res' = res
    BY <2>3 DEF Provision, StartRemote, Halt, DemoteRemote, AutoDisable, Reload, StartOn, Change, Quiet, machine, StopQueued
  <2>4. QED
    BY <1>1, <2>1, <2>2, <2>3 DEF Handler, ResActions
<1>2. CASE Environment
  BY <1>2 DEF Environment
<1>3. CASE Abort \/ \E rq \in Requests : Create(rq)
  BY <1>3 DEF Abort, Create, Quiet, machine
<1>4. QED
  BY <1>1, <1>2, <1>3 DEF Next

LEMMA WriteConfigures ==
  ASSUME Typed, Configured, WriteLocal \/ \E n \in Node : WriteRemote(n)
  PROVE  Configured'
<1>0. c \in Node /\ res \in [Node -> Minor \cup {NoMinor}] /\ todo \subseteq Node
  BY ControllerAssumption DEF c, Typed, Machines, Control
<1>1. CASE pc' = "failed"
  BY <1>1 DEF Configured, Written, Setup, Moving, Moved, Handing
<1>2. CASE WriteLocal /\ pc' # "failed"
  <2>1. /\ res' = [res EXCEPT ![c] = req.minor] /\ UNCHANGED req
        /\ \/ pc' = "mdLocal" /\ Remote = {}
           \/ pc' = "writeRemote" /\ todo' = Remote
    BY <1>2 DEF WriteLocal, Start, Goto, Loop, Keep, handler
  <2>2. CASE pc' = "mdLocal" /\ Remote = {}
    BY <1>0, <2>1, <2>2 DEF Remote, Configured, c
  <2>3. CASE pc' = "writeRemote" /\ todo' = Remote
    BY <1>0, <2>1, <2>3 DEF Remote, Configured, Written, Setup, Moving, Moved, Handing, c
  <2>4. QED
    BY <2>1, <2>2, <2>3
<1>3. ASSUME NEW n \in Node, WriteRemote(n), pc' # "failed"
      PROVE  Configured'
  <2>1. pc = "writeRemote" /\ n \in todo /\ pc' \in {"writeRemote", "mdLocal"}
    BY <1>3, MakingGoes DEF WriteRemote, At
  <2>2. CASE todo = {n}
    <3>1. broken = FALSE /\ pc' = "mdLocal" /\ res' = [res EXCEPT ![n] = req.minor]
      BY <1>3, <2>2 DEF WriteRemote, Joined, Visited, Loop, Goto, Typed, Control
    <3>2. \A m \in Node : res'[m] = req.minor
      BY <1>0, <2>1, <2>2, <3>1 DEF Configured
    <3>3. QED
      BY <1>0, <3>1, <3>2 DEF Configured, c
  <2>3. CASE todo # {n}
    <3>1. pc' = "writeRemote" /\ todo' = todo \ {n} /\ UNCHANGED req
      BY <1>3, <2>1, <2>3 DEF WriteRemote, Joined, Visited, Keep, handler
    <3>2. \/ broken' = TRUE
          \/ broken' = broken /\ res' = [res EXCEPT ![n] = req.minor]
      BY <1>3, <2>3, <3>1 DEF WriteRemote, Joined, Keep, handler
    <3>3. QED
      BY <1>0, <2>1, <3>1, <3>2 DEF Configured, Written, Setup, Moving, Moved, Handing
  <2>4. QED
    BY <2>2, <2>3
<1>4. QED
  BY <1>1, <1>2, <1>3

LEMMA SyncConfigures ==
  ASSUME Typed, Configured, NEW n \in Node, Sync(n)
  PROVE  Configured'
<1>0. c \in Node /\ res \in [Node -> Minor \cup {NoMinor}]
  BY ControllerAssumption DEF c, Typed, Machines
<1>1. pc = "sync" /\ pc' \in {"sync", "reload", "created"} /\ UNCHANGED req
  BY HandingGoes DEF Sync, Keep, handler
<1>2. res' = res \/ res' = [res EXCEPT ![n] = IF req.pool # "none" THEN res[c] ELSE @]
  BY DEF Sync, SyncToNode, Quiet, machine
<1>3. req.pool # "none" => \A m \in Node : res[m] = res[c]
  BY <1>1 DEF Configured, Written, Handing
<1>4. req.pool # "none" => \A m \in Node : res'[m] = res'[c]
  BY <1>0, <1>2, <1>3
<1>5. QED
  BY <1>1, <1>4 DEF Configured, c

LEMMA ConfiguredKept ==
  ASSUME Typed, Configured, Next
  PROVE  Configured'
<1>1. CASE ResActions
  BY <1>1, WriteConfigures, SyncConfigures DEF ResActions
<1>2. CASE \E rq \in Requests : Create(rq)
  BY <1>2, CreateGoes DEF Configured, Written, Setup, Moving, Moved, Handing
<1>3. CASE pc' = "failed"
  BY <1>3 DEF Configured, Written, Setup, Moving, Moved, Handing
<1>4. CASE Environment
  BY <1>4 DEF Environment, handler, Configured, c
<1>5. CASE Handler /\ ~ResActions /\ pc' # "failed"
  <2>1. res' = res
    BY <1>5, ResKept DEF Next
  <2>2. UNCHANGED req
    BY <1>5 DEF Handler, ResActions, Provision, CreateMdLocal, UpLocal, StartRemote, Joined, WriteUnit, PromoteForSetup,
       MkfsSetup, MountSetup, SeedServices, CleanUnmount, CleanDemote, UnmountSetup, DemoteSetup, UndoSetup,
       HaltSource, PromoteSource, FindDevice, Format, MountTemp, Rsync, UnmountTemp, Resume, Wait, WriteOverrides,
       WritePromoter, Halt, DemoteRemote, AutoDisable, Reload, Keep, handler
  <2>3. \/ \E n \in Node : Provision(n)
        \/ pc \in Written /\ pc' \in Written
    BY <1>5, MakingGoes, SetupGoes, MovingGoes, HandingGoes
       DEF Handler, ResActions, Written, Setup, Moving, Moved, Handing
  <2>4. CASE pc \in Written /\ pc' \in Written
    BY <2>1, <2>2, <2>4 DEF Configured, Written, Setup, Moving, Moved, Handing, c
  <2>5. ASSUME NEW n \in Node, Provision(n)
        PROVE  Configured'
    <3>1. pc = "provision" /\ pc' \in {"provision", "writeLocal"} /\ broken' = broken
      BY <1>5, <2>5, MakingGoes DEF Provision, Keep, handler
    <3>2. QED
      BY <3>1 DEF Configured, Written, Setup, Moving, Moved, Handing
  <2>6. QED
    BY <2>3, <2>4, <2>5
<1>6. QED
  BY <1>1, <1>2, <1>3, <1>4, <1>5 DEF Next, Abort, Goto

(* Before a reactor gets the promoter file of a profile whose volumes the   *)
(* request provided, all nodes have the same .res file, on any number of    *)
(* nodes, whichever writes failed and whatever earlier requests left.       *)
THEOREM WholeResource == Spec => []ReactorsGetWholeResource
<1>1. Init => Configured
  BY DEF Init, Configured, Written, Setup, Moving, Moved, Handing
<1>2. Typed /\ Configured /\ [Next]_vars => Configured'
  <2>1. Typed /\ Configured /\ Next => Configured'
    BY ConfiguredKept
  <2>2. Configured /\ UNCHANGED vars => Configured'
    BY DEF vars, machine, handler, Configured, c
  <2>3. QED
    BY <2>1, <2>2
<1>3. Configured => ReactorsGetWholeResource
  BY DEF Configured, ReactorsGetWholeResource, Written, Handing
<1>4. QED
  BY <1>1, <1>2, <1>3, TypedInvariant, PTL DEF Spec

---------------------------------------------------------------------------
(* The data of a migration.  A successful rsync writes it to every disk     *)
(* that stays current.                                                      *)
LEMMA RsyncFaithful ==
  ASSUME Typed, Rsync
  PROVE  Faithful'
<1>1. pc = "rsync" /\ pc' = "unmountTemp" /\ copied = FALSE
  BY MovingGoes DEF Typed, Control, Moved, Handing
<1>2. CASE copied' = FALSE
  BY <1>1, <1>2 DEF Faithful, Copied, Moved, Handing
<1>3. CASE CanUse(c) /\ Write(LAMBDA s : [s EXCEPT !.data = "migrated"])
  <2>1. node' = [n \in Node |-> IF n \in Replicas(c) THEN [node[n] EXCEPT !.data = "migrated"]
                                ELSE Missed(node[n])]
    BY <1>3 DEF Write
  <2>2. ASSUME NEW n \in Node, node'[n].disk = "UpToDate"
        PROVE  node'[n].data = "migrated"
    <3>1. node[n] \in NodeState
      BY DEF Typed, Machines, Cluster
    <3>2. Missed(node[n]).disk # "UpToDate"
      BY <3>1 DEF Missed, NodeState
    <3>3. n \in Replicas(c)
      BY <2>1, <2>2, <3>2
    <3>4. QED
      BY <2>1, <3>1, <3>3 DEF NodeState
  <2>3. QED
    BY <2>2 DEF Faithful, AllMigrated
<1>4. QED
  BY <1>1, <1>2, <1>3 DEF Rsync

(* The steps after it write no data.                                        *)
LEMMA AfterwardsFaithful ==
  ASSUME Typed, AllMigrated,
         \/ UnmountTemp \/ Resume \/ Wait \/ WriteOverrides \/ WritePromoter
         \/ \E n \in Node : DemoteRemote(n) \/ AutoDisable(n) \/ Sync(n) \/ Reload(n)
  PROVE  AllMigrated'
<1> DEFINE Like(t, s) == t.disk = s.disk /\ t.data = s.data
<1>0. c \in Node /\ node \in [Node -> NodeState]
  BY ControllerAssumption DEF c, Typed, Machines, Cluster
<1>1. ASSUME NEW s \in NodeState
      PROVE  /\ \A b : Like([s EXCEPT !.svc = b], s)
             /\ \A f : Like([s EXCEPT !.file = f], s) /\ [s EXCEPT !.file = f].file = f
             /\ Like([s EXCEPT !.role = "Secondary"], s)
             /\ Like([s EXCEPT !.svc = FALSE, !.boot = FALSE], s)
             /\ Like([s EXCEPT !.boot = FALSE], s)
  BY DEF NodeState
<1>2. ASSUME NEW s \in NodeState, NEW t \in Reloaded(s)
      PROVE  Like(t, s)
  BY <1>2 DEF Reloaded, NodeState
<1>3. UNCHANGED node \/ \E n \in Node : \E t : Like(t, node[n]) /\ node' = [node EXCEPT ![n] = t]
  <2>1. CASE UnmountTemp \/ Wait \/ WriteOverrides
    BY <2>1 DEF UnmountTemp, Wait, WriteOverrides, Quiet, machine, clusterVars
  <2>2. CASE Resume \/ WritePromoter
    <3>1. UNCHANGED node \/ (\E b \in BOOLEAN : node' = [node EXCEPT ![c] = [node[c] EXCEPT !.svc = b]])
          \/ \E f \in File : node' = [node EXCEPT ![c] = [node[c] EXCEPT !.file = f]]
      <4>1. Serve => node' = [node EXCEPT ![c] = [node[c] EXCEPT !.svc = TRUE]]
        BY <1>0 DEF Serve
      <4>2. Resume => Serve \/ UNCHANGED node
        BY DEF Resume, Quiet, machine, clusterVars
      <4>3. WritePromoter => UNCHANGED node
              \/ \E f \in File : node' = [node EXCEPT ![c] = [node[c] EXCEPT !.file = f]]
        BY DEF WritePromoter, OnController, Change, Quiet, machine, clusterVars, FileOf, File
      <4>4. QED
        BY <2>2, <4>1, <4>2, <4>3
    <3>2. node[c] \in NodeState
      BY <1>0
    <3>3. /\ \A b : Like([node[c] EXCEPT !.svc = b], node[c])
          /\ \A f : Like([node[c] EXCEPT !.file = f], node[c])
      BY <1>1, <3>2
    <3> HIDE DEF Like
    <3>4. QED
      BY <1>0, <3>1, <3>3
  <2>3. ASSUME NEW n \in Node, DemoteRemote(n) \/ AutoDisable(n) \/ Reload(n)
        PROVE  UNCHANGED node \/ \E t : Like(t, node[n]) /\ node' = [node EXCEPT ![n] = t]
    <3>1. CASE DemoteRemote(n) \/ AutoDisable(n)
      <4>1. UNCHANGED node \/ node' = [node EXCEPT ![n] = node[n]]
            \/ node' = [node EXCEPT ![n] = [node[n] EXCEPT !.role = "Secondary"]]
            \/ node' = [node EXCEPT ![n] = [node[n] EXCEPT !.svc = FALSE, !.boot = FALSE]]
            \/ node' = [node EXCEPT ![n] = [node[n] EXCEPT !.boot = FALSE]]
        BY <1>0, <3>1 DEF DemoteRemote, AutoDisable, Change, Quiet, machine, clusterVars
      <4>2. /\ Like(node[n], node[n]) /\ Like([node[n] EXCEPT !.role = "Secondary"], node[n])
            /\ Like([node[n] EXCEPT !.svc = FALSE, !.boot = FALSE], node[n])
            /\ Like([node[n] EXCEPT !.boot = FALSE], node[n])
        BY <1>0, <1>1
      <4> HIDE DEF Like
      <4>3. QED
        BY <4>1, <4>2
    <3>2. CASE Reload(n)
      <4>1. PICK t \in {node[n]} \cup Reloaded(node[n]) : node' = [node EXCEPT ![n] = t]
        BY <3>2 DEF Reload, Change
      <4>2. Like(t, node[n])
        BY <1>0, <1>2, <4>1
      <4>3. QED
        BY <4>1, <4>2
    <3>3. QED
      BY <2>3, <3>1, <3>2
  <2>4. ASSUME NEW n \in Node, Sync(n)
        PROVE  UNCHANGED node \/ \E t : Like(t, node[n]) /\ node' = [node EXCEPT ![n] = t]
    <3> DEFINE written == [node[n] EXCEPT !.file = FileOf(req)]
    <3>1. UNCHANGED node \/ \E t \in {node[n], written} \cup Reloaded(written) : node' = [node EXCEPT ![n] = t]
      BY <2>4 DEF Sync, SyncToNode, Quiet, machine, clusterVars
    <3>2. written \in NodeState /\ Like(written, node[n])
      BY <1>0 DEF NodeState, FileOf, File
    <3> HIDE DEF written
    <3>3. \A t \in Reloaded(written) : Like(t, node[n])
      BY <1>2, <3>2
    <3>4. QED
      BY <3>1, <3>2, <3>3
  <2>5. QED
    BY <2>1, <2>2, <2>3, <2>4
<1>4. QED
  BY <1>0, <1>3 DEF AllMigrated

LEMMA FaithfulKept ==
  ASSUME Typed, Faithful, Next
  PROVE  Faithful'
<1>1. CASE Rsync
  BY <1>1, RsyncFaithful
<1> DEFINE After == \/ UnmountTemp \/ Resume \/ Wait \/ WriteOverrides \/ WritePromoter
                    \/ \E n \in Node : DemoteRemote(n) \/ AutoDisable(n) \/ Sync(n) \/ Reload(n)
<1>2. CASE After
  <2>1. CASE pc' = "failed"
    BY <2>1 DEF Faithful, Copied, Moved, Handing
  <2>2. CASE pc' # "failed"
    <3>1. UNCHANGED req
      BY <1>2, <2>2 DEF UnmountTemp, Resume, Wait, WriteOverrides, WritePromoter, DemoteRemote, AutoDisable, Sync,
         Reload, Keep, handler
    <3>2. /\ pc \in Moved \cup Handing \/ (pc = "unmountTemp" /\ copied = TRUE)
          /\ pc' # "unmountTemp"
      <4>1. CASE UnmountTemp
        BY <2>2, <4>1, MovingGoes DEF UnmountTemp, Goto, Typed, Control
      <4>2. CASE ~UnmountTemp
        BY <1>2, <2>2, <4>2, MovingGoes, HandingGoes DEF Moved, Handing
      <4>3. QED
        BY <4>1, <4>2
    <3>3. Copied' => Copied
      BY <3>1, <3>2 DEF Copied
    <3>4. QED
      BY <1>2, <3>3, AfterwardsFaithful DEF Faithful
  <2>3. QED
    BY <2>1, <2>2
<1>3. CASE Environment
  <2>1. Copied' => Copied
    BY <1>3 DEF Environment, handler, Copied
  <2>2. AllMigrated => AllMigrated'
    <3>1. ASSUME AllMigrated, NEW n \in Node, node'[n].disk = "UpToDate"
          PROVE  node'[n].data = "migrated"
      <4>1. CASE UNCHANGED <<node[n].disk, node[n].data>>
        BY <3>1, <4>1 DEF AllMigrated
      <4>2. CASE \E m \in Node : node[m].disk = "UpToDate" /\ node'[n].data = node[m].data
        BY <3>1, <4>2 DEF AllMigrated
      <4>3. QED
        BY <1>3, <3>1, <4>1, <4>2, EnvironmentNode
    <3>2. QED
      BY <3>1 DEF AllMigrated
  <2>3. QED
    BY <2>1, <2>2 DEF Faithful
<1>4. CASE Abort \/ \E rq \in Requests : Create(rq)
  BY <1>4, CreateGoes DEF Abort, Goto, Faithful, Copied, Moved, Handing
<1>5. CASE Handler /\ ~Rsync /\ ~After
  <2>1. \/ pc' \notin Moved \cup Handing \cup {"created", "unmountTemp"}
        \/ pc' = "overrides" /\ (WriteUnit \/ DemoteSetup)
    BY <1>5, MakingGoes, SetupGoes, MovingGoes, HandingGoes DEF Handler, Moved, Handing
  <2>2. WriteUnit /\ pc' = "overrides" => req'.migrate = FALSE
    BY DEF WriteUnit, Goto, Loop, Keep, handler, Typed, Control, RequestType
  <2>3. DemoteSetup => req'.migrate = FALSE
    <3>1. DemoteSetup => pc = "demote" /\ pc' # "failed" /\ UNCHANGED req
      BY SetupGoes DEF DemoteSetup, UndoSetup, Keep, handler
    <3>2. QED
      BY <3>1 DEF Typed, Control, Setup
  <2>4. QED
    BY <2>1, <2>2, <2>3 DEF Faithful, Copied
<1>6. QED
  BY <1>1, <1>2, <1>3, <1>4, <1>5 DEF Next

(* A profile created with a migration has the service's data on every       *)
(* current replica, on any number of nodes: a copy that stopped half way is *)
(* never taken for a good one, and no reactor, resync or loss of the        *)
(* network undoes it.                                                       *)
THEOREM MigrationIsFaithful == Spec => []MigrationFaithful
<1>1. Init => Faithful
  BY DEF Init, Faithful, Copied, Moved, Handing
<1>2. Typed /\ Faithful /\ [Next]_vars => Faithful'
  <2>1. Typed /\ Faithful /\ Next => Faithful'
    BY FaithfulKept
  <2>2. Faithful /\ UNCHANGED vars => Faithful'
    BY DEF vars, machine, clusterVars, handler, Faithful, Copied, AllMigrated
  <2>3. QED
    BY <2>1, <2>2
<1>3. Typed /\ Faithful => MigrationFaithful
  BY DEF Faithful, MigrationFaithful, Copied, AllMigrated, Typed, Control, RequestType
<1>4. QED
  BY <1>1, <1>2, <1>3, TypedInvariant, PTL DEF Spec

---------------------------------------------------------------------------
(* The setup of a new volume ends with a demotion.                          *)
LEMMA UndoneKept ==
  ASSUME Typed, Undone, Next
  PROVE  Undone'
<1>0. c \in Node /\ Good(node[c]) /\ node \in [Node -> NodeState]
  BY ControllerAssumption DEF c, Typed, Machines, Cluster
<1>1. CASE DemoteSetup
  <2>1. pc = "demote" /\ temp = FALSE /\ (OnController(Demoted(node[c])) \/ tidy' = FALSE)
    BY <1>1, SetupGoes DEF DemoteSetup, UndoSetup, Typed, Control
  <2>2. CASE OnController(Demoted(node[c])) /\ node[c].mount = "none"
    <3>1. node'[c] = [node[c] EXCEPT !.role = "Secondary", !.stack = FALSE]
      BY <1>0, <2>1, <2>2 DEF OnController, Change, Demoted
    <3>2. QED
      BY <1>0, <3>1 DEF Undone, NodeState, c
  <2>3. CASE OnController(Demoted(node[c])) /\ node[c].mount # "none"
    <3>1. node'[c] = node[c] /\ node[c].stack = TRUE
      BY <1>0, <2>3 DEF OnController, Change, Demoted, Good
    <3>2. QED
      BY <3>1 DEF Undone, c
  <2>4. QED
    BY <2>1, <2>2, <2>3 DEF Undone
<1>2. CASE Environment
  <2>1. UNCHANGED <<pc, req, tidy>>
    BY <1>2 DEF Environment, handler
  <2>2. /\ node'[c].armed = node[c].armed
        /\ node[c].armed = FALSE => node'[c].stack = node[c].stack /\ node'[c].role = node[c].role
    BY <1>0, <1>2, EnvironmentNode
  <2>3. QED
    BY <2>1, <2>2 DEF Undone, c
<1>3. CASE WriteUnit
  BY <1>3 DEF WriteUnit, Goto, Loop, Keep, handler, Undone
<1>4. CASE Wait
  BY <1>4 DEF Wait, Goto, Undone, Typed, Control, Moved
<1>5. CASE Abort \/ \E rq \in Requests : Create(rq)
  BY <1>5, CreateGoes DEF Abort, Goto, Undone
<1>6. CASE Handler /\ ~DemoteSetup /\ ~WriteUnit /\ ~Wait
  BY <1>6, MakingGoes, SetupGoes, MovingGoes, HandingGoes DEF Handler, Undone
<1>7. QED
  BY <1>1, <1>2, <1>3, <1>4, <1>5, <1>6 DEF Next

(* A creation goes on after the setup of a new volume only when it has      *)
(* demoted the resource, unless a command of the demotion failed or a       *)
(* reactor runs the profile of an earlier request.                          *)
THEOREM SetupIsUndone == Spec => []SetupUndone
<1>1. Init => Undone
  BY DEF Init, Undone
<1>2. Typed /\ Undone /\ [Next]_vars => Undone'
  <2>1. Typed /\ Undone /\ Next => Undone'
    BY UndoneKept
  <2>2. Undone /\ UNCHANGED vars => Undone'
    BY DEF vars, machine, clusterVars, handler, Undone, c
  <2>3. QED
    BY <2>1, <2>2
<1>3. Typed /\ Undone => SetupUndone
  <2> SUFFICES ASSUME Typed, Undone PROVE SetupUndone
    OBVIOUS
  <2>1. /\ Good(node[c]) /\ node[c].armed \in BOOLEAN /\ node[c].stack \in BOOLEAN
        /\ req.migrate \in BOOLEAN /\ tidy \in BOOLEAN
    BY ControllerAssumption DEF Typed, Machines, Cluster, NodeState, Control, RequestType, c
  <2>2. QED
    BY <2>1 DEF Undone, SetupUndone, Good
<1>4. QED
  BY <1>1, <1>2, <1>3, TypedInvariant, PTL DEF Spec
=============================================================================
