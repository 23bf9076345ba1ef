--------------------------- MODULE ResourcesProofs ---------------------------
(***************************************************************************)
(* Proofs about Resources for every finite set of nodes, of resources and  *)
(* of disks, and for every plan of requests.  First what the command       *)
(* chains make of a node's storage; then the types, with what each         *)
(* request's parameters are while it runs; then, on top of these, one      *)
(* invariant for each thing a request must keep true over its commands.    *)
(***************************************************************************)
EXTENDS Resources, TLAPS

---------------------------------------------------------------------------
(* What the command chains of the requests make of the storage of a node.   *)

(* A volume, or a thin pool, lies in a pool that is there.                  *)
Founded(s) ==
  /\ \A k \in Kind : s.vol[k] # "none" => s.home[k] # NoDisk
  /\ s.thin => s.home["lvm"] # NoDisk
Sound(s) == s \in StorageState /\ Founded(s)

(* What a command on disk d may make of a storage: it stays sound, and the  *)
(* other disks, the volumes there are and their pools stay what they were.  *)
Spares(t, s, d) ==
  /\ Sound(t)
  /\ \A e \in Raw \ {d} : t.raw[e] = s.raw[e]
  /\ \A k \in Kind : s.vol[k] # "none" => t.vol[k] = s.vol[k] /\ t.home[k] = s.home[k]

(* Every node begins with a sound storage, and sparing goes through chains. *)
LEMMA BlankSound == Sound(BlankStorage)
BY DisksAssumption DEF Sound, Founded, BlankStorage, StorageState, Kind, Content, NoDisk

LEMMA SparesItself ==
  ASSUME NEW s, Sound(s), NEW d
  PROVE  Spares(s, s, d)
BY DEF Spares

LEMMA SparesChain ==
  ASSUME NEW s, NEW t, NEW u, NEW d, Spares(t, s, d), Spares(u, t, d)
  PROVE  Spares(u, s, d)
BY DEF Spares

(* The commands one by one.                                                 *)
LEMMA LabelledSpares ==
  ASSUME NEW s, Sound(s), NEW d \in Raw, NEW held, d \notin Busy(s, held)
  PROVE  Spares(Labelled(s, d), s, d)
<1>1. /\ s.home["lvm"] = d => ~s.thin /\ s.vol["lvm"] = "none"
      /\ s.home["zfs"] # d
  BY DEF Busy
<1>2. Labelled(s, d) \in StorageState
  BY DisksAssumption DEF Labelled, Sound, StorageState, Content
<1>3. /\ \A e \in Raw \ {d} : Labelled(s, d).raw[e] = s.raw[e]
      /\ Labelled(s, d).vol = s.vol /\ Labelled(s, d).thin = s.thin
      /\ \A k \in Kind : Labelled(s, d).home[k] = IF s.home[k] = d THEN NoDisk ELSE s.home[k]
  BY DEF Labelled, Sound, StorageState
<1>4. QED
  BY <1>1, <1>2, <1>3 DEF Spares, Sound, Founded, Kind

LEMMA PvCreateSpares ==
  ASSUME NEW s, Sound(s), NEW d \in Raw, NEW held, NEW o \in PvCreate(s, d, held)
  PROVE  Spares(o.s, s, d)
<1>1. CASE d \in Busy(s, held)
  BY <1>1, SparesItself DEF PvCreate, Fail
<1>2. CASE d \notin Busy(s, held)
  BY <1>2, LabelledSpares DEF PvCreate, Ok
<1>3. QED
  BY <1>1, <1>2

LEMMA VgCreateSpares ==
  ASSUME NEW s, Sound(s), NEW d \in Raw, NEW o \in VgCreate(s, d)
  PROVE  Spares(o.s, s, d)
<1>1. CASE s.home["lvm"] = NoDisk
  <2>1. o.s = [s EXCEPT !.home["lvm"] = d]
    BY <1>1 DEF VgCreate, Ok
  <2>2. s.vol["lvm"] = "none" /\ ~s.thin
    BY <1>1 DEF Sound, Founded, Kind
  <2>3. o.s \in StorageState
    BY <2>1 DEF Sound, StorageState, Kind
  <2>4. /\ o.s.raw = s.raw /\ o.s.vol = s.vol /\ o.s.thin = s.thin
        /\ o.s.home["zfs"] = s.home["zfs"]
    BY <2>1 DEF Sound, StorageState, Kind
  <2>5. QED
    BY <2>2, <2>3, <2>4 DEF Spares, Sound, Founded, Kind
<1>2. CASE s.home["lvm"] # NoDisk
  BY <1>2, SparesItself DEF VgCreate, Fail
<1>3. QED
  BY <1>1, <1>2

LEMMA ZpoolCreateSpares ==
  ASSUME NEW s, Sound(s), NEW d \in Raw, NEW held, NEW o \in ZpoolCreate(s, d, held)
  PROVE  Spares(o.s, s, d)
<1>1. CASE s.home["zfs"] # NoDisk \/ d \in Busy(s, held)
  BY <1>1, SparesItself DEF ZpoolCreate, Fail
<1>2. CASE s.home["zfs"] = NoDisk /\ d \notin Busy(s, held)
  <2> DEFINE l == Labelled(s, d)
  <2>1. o.s = [l EXCEPT !.home["zfs"] = d]
    BY <1>2 DEF ZpoolCreate, Ok
  <2>2. Spares(l, s, d)
    BY <1>2, LabelledSpares
  <2>3. s.vol["zfs"] = "none" /\ l.vol = s.vol
    BY <1>2 DEF Sound, Founded, Kind, Labelled, StorageState
  <2>4. l \in StorageState /\ Founded(l)
    BY <2>2 DEF Spares, Sound
  <2> HIDE DEF l
  <2>5. o.s \in StorageState
    BY <2>1, <2>4 DEF StorageState, Kind
  <2>6. /\ o.s.raw = l.raw /\ o.s.vol = l.vol /\ o.s.thin = l.thin
        /\ o.s.home["lvm"] = l.home["lvm"]
    BY <2>1, <2>4 DEF StorageState, Kind
  <2>7. QED
    BY <2>2, <2>3, <2>4, <2>5, <2>6 DEF Spares, Sound, Founded, Kind
<1>3. QED
  BY <1>1, <1>2

LEMMA CreateThinPoolSpares ==
  ASSUME NEW s, Sound(s), NEW d, NEW o \in CreateThinPool(s)
  PROVE  Spares(o.s, s, d)
<1>1. CASE o.s = s
  BY <1>1, SparesItself
<1>2. CASE s.home["lvm"] # NoDisk /\ o.s = [s EXCEPT !.thin = TRUE]
  BY <1>2 DEF Spares, Sound, Founded, StorageState, Kind
<1>3. o.s = s \/ (s.home["lvm"] # NoDisk /\ o.s = [s EXCEPT !.thin = TRUE])
  <2>1. o = Fail(s) \/ (s.home["lvm"] # NoDisk /\ o = Ok([s EXCEPT !.thin = TRUE]))
    BY DEF CreateThinPool
  <2>2. Fail(s).s = s /\ \A t : Ok(t).s = t
    BY DEF Fail, Ok
  <2>3. QED
    BY <2>1, <2>2
<1>4. QED
  BY <1>1, <1>2, <1>3

LEMMA NewVolumeSpares ==
  ASSUME NEW s, Sound(s), NEW d, NEW k \in Kind, s.home[k] # NoDisk, s.vol[k] = "none"
  PROVE  Spares([s EXCEPT !.vol[k] = "blank"], s, d)
<1> DEFINE t == [s EXCEPT !.vol[k] = "blank"]
<1>1. t \in StorageState
  BY DEF Sound, StorageState
<1>2. /\ t.raw = s.raw /\ t.home = s.home /\ t.thin = s.thin
      /\ \A j \in Kind \ {k} : t.vol[j] = s.vol[j]
  BY DEF Sound, StorageState
<1> HIDE DEF t
<1>3. Spares(t, s, d)
  BY <1>1, <1>2 DEF Spares, Sound, Founded
<1>4. QED
  BY <1>3 DEF t

LEMMA CreateThinVolumeSpares ==
  ASSUME NEW s, Sound(s), NEW d, NEW o \in CreateThinVolume(s)
  PROVE  Spares(o.s, s, d)
<1>1. \/ o.s = s
      \/ s.home["lvm"] # NoDisk /\ s.vol["lvm"] = "none" /\ o.s = [s EXCEPT !.vol["lvm"] = "blank"]
  BY DEF CreateThinVolume, Fail, Ok
<1>2. "lvm" \in Kind
  BY DEF Kind
<1>3. CASE o.s = s
  BY <1>3, SparesItself
<1>4. ASSUME s.home["lvm"] # NoDisk, s.vol["lvm"] = "none"
      PROVE  Spares([s EXCEPT !.vol["lvm"] = "blank"], s, d)
  BY <1>2, <1>4, NewVolumeSpares
<1>5. QED
  BY <1>1, <1>3, <1>4

LEMMA ZfsCreateVolumeSpares ==
  ASSUME NEW s, Sound(s), NEW d, NEW o \in ZfsCreateVolume(s)
  PROVE  Spares(o.s, s, d)
<1>1. \/ o.s = s
      \/ s.home["zfs"] # NoDisk /\ s.vol["zfs"] = "none" /\ o.s = [s EXCEPT !.vol["zfs"] = "blank"]
  BY DEF ZfsCreateVolume, Fail, Ok
<1>2. "zfs" \in Kind
  BY DEF Kind
<1>3. CASE o.s = s
  BY <1>3, SparesItself
<1>4. ASSUME s.home["zfs"] # NoDisk, s.vol["zfs"] = "none"
      PROVE  Spares([s EXCEPT !.vol["zfs"] = "blank"], s, d)
  BY <1>2, <1>4, NewVolumeSpares
<1>5. QED
  BY <1>1, <1>3, <1>4

(* The chains: a pool, a volume, and a pool with its volume.                *)
LEMMA LvmInitPoolSpares ==
  ASSUME NEW s, Sound(s), NEW d \in Raw, NEW held, NEW o \in LvmInitPool(s, d, held)
  PROVE  Spares(o.s, s, d)
<1>1. PICK q \in PvCreate(s, d, held) : o \in (IF q.ok THEN VgCreate(q.s, d) ELSE {q})
  BY DEF LvmInitPool, AndThen
<1>2. Spares(q.s, s, d) /\ Sound(q.s)
  BY PvCreateSpares DEF Spares
<1>3. o = q \/ o \in VgCreate(q.s, d)
  BY <1>1
<1>4. QED
  BY <1>2, <1>3, VgCreateSpares, SparesChain

LEMMA InitPoolSpares ==
  ASSUME NEW s, Sound(s), NEW d \in Raw, NEW held, NEW k, NEW o \in InitPool(k, s, d, held)
  PROVE  Spares(o.s, s, d)
<1>1. \/ o \in LvmInitPool(s, d, held) \/ o = Ok(s) \/ o \in ZpoolCreate(s, d, held)
  BY DEF InitPool, ZfsInitPool
<1>2. Ok(s).s = s
  BY DEF Ok
<1>3. QED
  BY <1>1, <1>2, LvmInitPoolSpares, ZpoolCreateSpares, SparesItself

LEMMA InitPoolMakesNoVolume ==
  ASSUME NEW s, Sound(s), NEW d \in Raw, NEW held, NEW k, NEW o \in InitPool(k, s, d, held)
  PROVE  o.s.vol = s.vol
<1>1. Labelled(s, d).vol = s.vol
  BY DEF Labelled, Sound, StorageState
<1>2. ASSUME NEW q \in PvCreate(s, d, held) PROVE Sound(q.s) /\ q.s.vol = s.vol
  BY <1>1, PvCreateSpares DEF PvCreate, Ok, Fail, Spares
<1>3. ASSUME NEW t, Sound(t), NEW q \in VgCreate(t, d) PROVE q.s.vol = t.vol
  BY <1>3 DEF VgCreate, Ok, Fail, Sound, StorageState
<1>4. ASSUME NEW q \in ZpoolCreate(s, d, held) PROVE q.s.vol = s.vol
  <2>1. q.s = s \/ q.s = [Labelled(s, d) EXCEPT !.home["zfs"] = d]
    BY DEF ZpoolCreate, Ok, Fail
  <2>2. [Labelled(s, d) EXCEPT !.home["zfs"] = d].vol = Labelled(s, d).vol
    BY DEF Labelled, Sound, StorageState
  <2>3. QED
    BY <1>1, <2>1, <2>2
<1>5. CASE o \in LvmInitPool(s, d, held)
  <2>1. PICK q \in PvCreate(s, d, held) : o \in (IF q.ok THEN VgCreate(q.s, d) ELSE {q})
    BY <1>5 DEF LvmInitPool, AndThen
  <2>2. o = q \/ o \in VgCreate(q.s, d)
    BY <2>1
  <2>3. QED
    BY <1>2, <1>3, <2>1, <2>2
<1>6. CASE o = Ok(s) \/ o \in ZpoolCreate(s, d, held)
  BY <1>4, <1>6 DEF Ok
<1>7. QED
  BY <1>5, <1>6 DEF InitPool, ZfsInitPool

LEMMA LvmChainSpares ==
  ASSUME NEW s, Sound(s), NEW d \in Raw, NEW held, NEW o \in LvmChain(s, d, held)
  PROVE  Spares(o.s, s, d)
<1>1. PICK q \in LvmInitPool(s, d, held) :
        o \in (IF q.ok THEN AndThen(CreateThinPool(q.s), CreateThinVolume) ELSE {q})
  BY DEF LvmChain, AndThen
<1>2. Spares(q.s, s, d) /\ Sound(q.s)
  BY LvmInitPoolSpares DEF Spares
<1>3. CASE o = q
  BY <1>2, <1>3
<1>4. CASE o \in AndThen(CreateThinPool(q.s), CreateThinVolume)
  <2>1. PICK p \in CreateThinPool(q.s) : o \in (IF p.ok THEN CreateThinVolume(p.s) ELSE {p})
    BY <1>4 DEF AndThen
  <2>2. Spares(p.s, q.s, d) /\ Sound(p.s)
    BY <1>2, CreateThinPoolSpares DEF Spares
  <2>3. Spares(p.s, s, d)
    BY <1>2, <2>2, SparesChain
  <2>4. o = p \/ o \in CreateThinVolume(p.s)
    BY <2>1
  <2>5. QED
    BY <2>2, <2>3, <2>4, CreateThinVolumeSpares, SparesChain
<1>5. QED
  BY <1>1, <1>3, <1>4

LEMMA InitChainSpares ==
  ASSUME NEW s, Sound(s), NEW d \in Raw, NEW held, NEW k, NEW o \in InitChain(k, s, d, held)
  PROVE  Spares(o.s, s, d)
<1>1. CASE o \in LvmChain(s, d, held)
  BY <1>1, LvmChainSpares
<1>2. CASE o \in ZfsChain(s, d, held)
  <2>1. PICK q \in (IF PoolExists("zfs", s) THEN {Ok(s)} ELSE ZpoolCreate(s, d, held)) :
          o \in (IF q.ok THEN ZfsCreateVolume(q.s) ELSE {q})
    BY <1>2 DEF ZfsChain, AndThen
  <2>2. Spares(q.s, s, d) /\ Sound(q.s)
    BY <2>1, SparesItself, ZpoolCreateSpares DEF Ok, Spares
  <2>3. o = q \/ o \in ZfsCreateVolume(q.s)
    BY <2>1
  <2>4. QED
    BY <2>2, <2>3, ZfsCreateVolumeSpares, SparesChain
<1>3. QED
  BY <1>1, <1>2 DEF InitChain

LEMMA CreateVolumeSpares ==
  ASSUME NEW s, Sound(s), NEW d, NEW k, NEW o \in CreateVolume(k, s)
  PROVE  Spares(o.s, s, d)
<1>1. \/ o \in CreateThinVolume(s)
      \/ o.s = s
      \/ \E q \in ZfsCreateVolume(s) : o.s = q.s
  BY DEF CreateVolume, LvmCreateVolume, ZfsProviderVolume, Ok, Fail
<1>2. QED
  BY <1>1, SparesItself, CreateThinVolumeSpares, ZfsCreateVolumeSpares

(* Metadata or a filesystem on a device that exists.                        *)
LEMMA PutSound ==
  ASSUME NEW s, Sound(s), NEW d \in Device, Exists(s, d), NEW x \in {"fs", "md"}
  PROVE  Sound(Put(s, d, x))
<1>1. CASE d \in Raw
  BY <1>1 DEF Put, Sound, Founded, StorageState, Content
<1>2. CASE d \notin Raw
  <2>1. d \in Kind /\ s.vol[d] # "none"
    BY <1>2 DEF Device, Exists, Contains
  <2> DEFINE t == [s EXCEPT !.vol[d] = x]
  <2>2. t \in StorageState
    BY <2>1 DEF Sound, StorageState
  <2>3. /\ t.home = s.home /\ t.thin = s.thin
        /\ \A j \in Kind \ {d} : t.vol[j] = s.vol[j]
    BY <2>1 DEF Sound, StorageState
  <2>4. t = Put(s, d, x)
    BY <1>2 DEF Put
  <2> HIDE DEF t
  <2>5. Sound(t)
    BY <2>1, <2>2, <2>3 DEF Sound, Founded
  <2>6. QED
    BY <2>4, <2>5
<1>3. QED
  BY <1>1, <1>2

---------------------------------------------------------------------------
(* The types, and before them the steps of each kind of request.           *)
Creating     == {"chosen", "storage", "reach", "local", "remote", "write", "sync", "rollback"}
Initializing == {"known", "initSync", "mdLocal", "mdRemote", "upLocal", "upRemote"}
Commanding   == {"promote", "force", "check", "mkfs", "demote", "discard"}
Pooling      == {"targets", "pool"}
(* The loops over the other nodes of the store.                             *)
Visiting == {"sync", "initSync", "mdRemote", "upRemote", "removeRemote"}

(* The .res files, or the resources in the kernel, of one node.             *)
IsTable(f, S) == DOMAIN f \subseteq Resource /\ \A r \in DOMAIN f : f[r] \in S

Tables ==
  /\ DOMAIN conf = Node /\ \A n \in Node : IsTable(conf[n], ConfState)
  /\ DOMAIN live = Node /\ \A n \in Node : IsTable(live[n], LiveState)

Stores == store \in [Node -> StorageState] /\ \A n \in Node : Founded(store[n])

Losses == {"scan", "dump", "up", "undo"}
IsCreate(rq) == rq \in CreateReq /\ rq.minor \in Minors /\ rq.hosts \subseteq plan.members

(* What the parameters are that a request runs with.                        *)
Parameters ==
  /\ pc \in Creating \cup {"undone"} => IsCreate(req)
  /\ pc \in Initializing \cup {"initialized"} => req.name \in DOMAIN conf[c]
  /\ pc \in Commanding => req.name \in DOMAIN live[c]
  /\ pc \in Pooling => req.disk \in Raw /\ req.hosts \subseteq plan.members

Control ==
  /\ plan \in Plans /\ pc \in Answered \cup Running
  /\ todo \subseteq Node /\ wrote \subseteq Node
  /\ warned \in BOOLEAN /\ lost \subseteq Losses
  /\ pc \in Visiting => todo \subseteq Remote
  /\ Parameters

Typed == Tables /\ Stores /\ Control

---------------------------------------------------------------------------
(* What the operators on tables leave in a table.                           *)
LEMMA SetTable ==
  ASSUME NEW f, NEW S, IsTable(f, S), NEW r \in Resource, NEW x \in S
  PROVE  /\ IsTable(Set(f, r, x), S)
         /\ DOMAIN Set(f, r, x) = DOMAIN f \cup {r}
         /\ Set(f, r, x)[r] = x
         /\ \A s \in DOMAIN f \ {r} : Set(f, r, x)[s] = f[s]
BY DEF IsTable, Set

LEMMA DropTable ==
  ASSUME NEW f, NEW S, IsTable(f, S), NEW r
  PROVE  /\ IsTable(Drop(f, r), S)
         /\ DOMAIN Drop(f, r) = DOMAIN f \ {r}
         /\ \A s \in DOMAIN f \ {r} : Drop(f, r)[s] = f[s]
BY DEF IsTable, Drop, Restrict

(* What the actions leave of the tables and the storage.                    *)
LEMMA QuietTyped ==
  ASSUME Tables, Stores, Quiet
  PROVE  Tables' /\ Stores'
BY DEF Tables, Stores, Quiet, machine

LEMMA WrittenTables ==
  ASSUME Tables, NEW n \in Node, IsCreate(req), conf' = Written(n), UNCHANGED live
  PROVE  /\ Tables'
         /\ DOMAIN conf'[n] = DOMAIN conf[n] \cup {req.name}
         /\ conf'[n][req.name] = NewConf
         /\ \A s \in DOMAIN conf[n] \ {req.name} : conf'[n][s] = conf[n][s]
         /\ \A m \in Node \ {n} : conf'[m] = conf[m]
<1>1. NewConf \in ConfState /\ req.name \in Resource
  BY DEF NewConf, ConfState, IsCreate, CreateReq
<1>2. IsTable(conf[n], ConfState)
  BY DEF Tables
<1>3. conf'[n] = Set(conf[n], req.name, NewConf) /\ DOMAIN conf' = Node
      /\ \A m \in Node \ {n} : conf'[m] = conf[m]
  BY DEF Tables, Written
<1>4. /\ IsTable(conf'[n], ConfState)
      /\ DOMAIN conf'[n] = DOMAIN conf[n] \cup {req.name}
      /\ conf'[n][req.name] = NewConf
      /\ \A s \in DOMAIN conf[n] \ {req.name} : conf'[n][s] = conf[n][s]
  BY <1>1, <1>2, <1>3, SetTable
<1>5. QED
  BY <1>3, <1>4 DEF Tables

LEMMA RemovedTables ==
  ASSUME Tables, NEW n \in Node, conf' = Removed(n), UNCHANGED live
  PROVE  /\ Tables'
         /\ DOMAIN conf'[n] = DOMAIN conf[n] \ {req.name}
         /\ \A s \in DOMAIN conf[n] \ {req.name} : conf'[n][s] = conf[n][s]
         /\ \A m \in Node \ {n} : conf'[m] = conf[m]
<1>1. IsTable(conf[n], ConfState)
  BY DEF Tables
<1>2. conf'[n] = Drop(conf[n], req.name) /\ DOMAIN conf' = Node
      /\ \A m \in Node \ {n} : conf'[m] = conf[m]
  BY DEF Tables, Removed
<1>3. /\ IsTable(conf'[n], ConfState)
      /\ DOMAIN conf'[n] = DOMAIN conf[n] \ {req.name}
      /\ \A s \in DOMAIN conf[n] \ {req.name} : conf'[n][s] = conf[n][s]
  <2>1. /\ IsTable(Drop(conf[n], req.name), ConfState)
        /\ DOMAIN Drop(conf[n], req.name) = DOMAIN conf[n] \ {req.name}
        /\ \A s \in DOMAIN conf[n] \ {req.name} : Drop(conf[n], req.name)[s] = conf[n][s]
    BY <1>1, DropTable
  <2>2. QED
    BY <1>2, <2>1
<1>4. QED
  BY <1>2, <1>3 DEF Tables

LEMMA WithTables ==
  ASSUME Tables, NEW n \in Node, NEW r \in Resource, NEW x \in LiveState,
         live' = With(n, r, x), UNCHANGED conf
  PROVE  /\ Tables'
         /\ DOMAIN live'[n] = DOMAIN live[n] \cup {r}
         /\ live'[n][r] = x
         /\ \A s \in DOMAIN live[n] \ {r} : live'[n][s] = live[n][s]
         /\ \A m \in Node \ {n} : live'[m] = live[m]
<1>1. IsTable(live[n], LiveState)
  BY DEF Tables
<1>2. live'[n] = Set(live[n], r, x) /\ DOMAIN live' = Node
      /\ \A m \in Node \ {n} : live'[m] = live[m]
  BY DEF Tables, With
<1>3. /\ IsTable(live'[n], LiveState)
      /\ DOMAIN live'[n] = DOMAIN live[n] \cup {r}
      /\ live'[n][r] = x
      /\ \A s \in DOMAIN live[n] \ {r} : live'[n][s] = live[n][s]
  <2> DEFINE f == live[n]
  <2>1. /\ IsTable(Set(f, r, x), LiveState)
        /\ DOMAIN Set(f, r, x) = DOMAIN f \cup {r}
        /\ Set(f, r, x)[r] = x
        /\ \A s \in DOMAIN f \ {r} : Set(f, r, x)[s] = f[s]
    <3> HIDE DEF f
    <3>1. IsTable(f, LiveState)
      BY <1>1 DEF f
    <3>2. QED
      BY <3>1, SetTable
  <2>2. QED
    BY <1>2, <2>1
<1>4. QED
  BY <1>2, <1>3 DEF Tables

LEMMA UpTables ==
  ASSUME Tables, NEW n \in Node, NEW r \in DOMAIN conf[n], live' = UpState(n, r), UNCHANGED conf
  PROVE  /\ Tables'
         /\ DOMAIN live'[n] = DOMAIN live[n] \cup {r}
         /\ \A s \in DOMAIN live[n] \ {r} : live'[n][s] = live[n][s]
         /\ \A m \in Node \ {n} : live'[m] = live[m]
<1> DEFINE x == [minor |-> conf[n][r].minor, dev |-> conf[n][r].dev,
                 role |-> "Secondary", conn |-> TRUE, mounted |-> FALSE]
<1>1. r \in Resource /\ conf[n][r] \in ConfState
  BY DEF Tables, IsTable
<1>2. x \in LiveState
  BY <1>1 DEF ConfState, LiveState
<1>3. live' = With(n, r, x)
  BY DEF UpState, With
<1> HIDE DEF x
<1>4. QED
  BY <1>1, <1>2, <1>3, WithTables

(* A command on the controller keeps every resource up but the one that is  *)
(* brought down.                                                            *)
LEMMA CommandTables ==
  ASSUME Tables, c \in Node, NEW a \in Commands \ {"up"}, NEW r \in DOMAIN live[c],
         live' = AfterCommand(a, r), UNCHANGED conf
  PROVE  /\ Tables'
         /\ a # "down" => r \in DOMAIN live'[c]
<1> DEFINE l == live[c][r]
<1>1. r \in Resource /\ l \in LiveState
  BY DEF Tables, IsTable
<1>2. CASE live' = live
  BY <1>2 DEF Tables
<1>3. CASE a = "down" /\ live' = [live EXCEPT ![c] = Drop(@, r)]
  <2>1. IsTable(Drop(live[c], r), LiveState)
    BY DropTable DEF Tables
  <2>2. QED
    BY <1>3, <2>1 DEF Tables
<1>4. ASSUME NEW x \in LiveState, live' = With(c, r, x)
      PROVE  Tables' /\ r \in DOMAIN live'[c]
  BY <1>1, <1>4, WithTables
<1>5. /\ [l EXCEPT !.role = "Primary"] \in LiveState
      /\ [l EXCEPT !.role = "Secondary"] \in LiveState
      /\ [l EXCEPT !.conn = TRUE] \in LiveState
      /\ [l EXCEPT !.conn = FALSE] \in LiveState
  BY <1>1 DEF LiveState
<1>6. \/ live' = live
      \/ a = "down" /\ live' = [live EXCEPT ![c] = Drop(@, r)]
      \/ live' = With(c, r, [l EXCEPT !.role = "Primary"])
      \/ live' = With(c, r, [l EXCEPT !.role = "Secondary"])
      \/ live' = With(c, r, [l EXCEPT !.conn = TRUE])
      \/ live' = With(c, r, [l EXCEPT !.conn = FALSE])
  BY DEF AfterCommand, Commands
<1> HIDE DEF l
<1>7. QED
  BY <1>2, <1>3, <1>4, <1>5, <1>6

LEMMA OneStore ==
  ASSUME Stores, NEW n \in Node, NEW s, Sound(s), store' = [store EXCEPT ![n] = s]
  PROVE  Stores'
BY DEF Stores, Sound

---------------------------------------------------------------------------
(* The minor of a creation: the search by minor finds nothing taken, so it  *)
(* always draws the first.                                                  *)
LEMMA AllocatesFirst == AllocateMinor(UsedMinors(c)) = 2000
<1>1. UsedMinors(c) = {}
  BY DEF UsedMinors, ParsedMinors
<1>2. \A m \in 2000..2099 : (\A k \in 2000..(m - 1) : k \in {}) <=> m = 2000
  <2>1. SUFFICES ASSUME NEW m \in 2000..2099, \A k \in 2000..(m - 1) : k \in {}
                 PROVE  m = 2000
    OBVIOUS
  <2>2. 2000 \notin 2000..(m - 1)
    BY <2>1
  <2>3. QED
    BY <2>2
<1>3. 2000 \in 2000..2099
  OBVIOUS
<1>4. QED
  BY <1>1, <1>2, <1>3 DEF AllocateMinor

LEMMA CreateTyped ==
  ASSUME plan \in Plans, NEW rq \in plan.creates, CreateResource(rq), pc' \in Running
  PROVE  /\ IsCreate(req') /\ pc' \in {"chosen", "reach"}
         /\ "scan" \notin lost' => DeviceUnique(req'.minor)
         /\ lost' \subseteq {"scan"}
<1> DEFINE minor == IF rq.minor = 0 THEN AllocateMinor(UsedMinors(c)) ELSE rq.minor
<1>1. rq \in CreateReq /\ rq.hosts \subseteq plan.members
  BY PlansAssumption
<1>2. minor \in Nat /\ minor \in Minors
  <2>1. rq.minor \in Nat
    BY <1>1 DEF CreateReq
  <2>2. rq.minor # 0 => rq.minor \in Minors
    BY <2>1 DEF Minors
  <2>3. QED
    BY <2>1, <2>2, AllocatesFirst DEF Minors
<1>3. /\ pc' \in {"rejected", "chosen", "reach"}
      /\ pc' \in Running => /\ req' = [rq EXCEPT !.minor = minor]
                            /\ pc' # "rejected" => lost' = IF DeviceUnique(minor) THEN {} ELSE {"scan"}
  BY DEF CreateResource, Take, TakeLosing, Goto, Running
<1>4. pc' # "rejected"
  BY <1>3 DEF Running
<1> HIDE DEF minor
<1>5. req' = [rq EXCEPT !.minor = minor]
  BY <1>3
<1>6. [rq EXCEPT !.minor = minor] \in CreateReq
  BY <1>1, <1>2 DEF CreateReq
<1>7. req'.minor = minor /\ req'.hosts = rq.hosts
  BY <1>1, <1>5 DEF CreateReq
<1>8. QED
  BY <1>1, <1>2, <1>3, <1>4, <1>5, <1>6, <1>7 DEF IsCreate

(* An answer needs no parameters, but for those of a rollback and of an     *)
(* initialisation.                                                          *)
LEMMA AnsweredControl ==
  ASSUME Control, UNCHANGED plan, pc' \in Answered \ {"undone", "initialized"},
         todo' \subseteq Node, wrote' \subseteq Node, warned' \in BOOLEAN, lost' \subseteq Losses
  PROVE  Control'
BY DEF Control, Parameters, Answered, Creating, Initializing, Commanding, Pooling, Visiting, Remote

(* A new request finds the last one answered.                               *)
LEMMA TakeControl ==
  ASSUME Control, UNCHANGED plan, NEW rq, NEW p \in Answered \cup Running,
         NEW x \in SUBSET Losses, TakeLosing(rq, p, x),
         p \notin {"undone", "initialized"}, p \notin Visiting,
         p \in Running => Parameters'
  PROVE  Control'
<1>1. /\ pc' = p /\ todo' \subseteq Node /\ wrote' = {} /\ warned' = FALSE /\ lost' \subseteq Losses
  BY DEF TakeLosing, Goto, Control
<1>2. CASE p \in Answered
  BY <1>1, <1>2, AnsweredControl
<1>3. CASE p \in Running
  BY <1>1, <1>3 DEF Control
<1>4. QED
  BY <1>2, <1>3

LEMMA NoLoss == {} \in SUBSET Losses
OBVIOUS

LEMMA RequestTyped ==
  ASSUME Typed, Request, UNCHANGED plan
  PROVE  Typed'
<1> USE DEF Typed
<1>c. c \in Node
  BY ControllerAssumption DEF c
<1>1. CASE \E rq \in plan.creates : CreateResource(rq)
  <2>1. PICK rq \in plan.creates : CreateResource(rq)
    BY <1>1
  <2>2. Tables' /\ Stores'
    BY <2>1, QuietTyped DEF CreateResource
  <2>3. PICK x, p, y : TakeLosing(x, p, y) /\ p \in {"rejected", "chosen", "reach"} /\ y \in SUBSET Losses
    BY <2>1 DEF CreateResource, Take, Losses
  <2>4. pc' = p
    BY <2>3 DEF TakeLosing, Goto
  <2>5. p \in Running => Parameters'
    <3>1. SUFFICES ASSUME p \in Running PROVE Parameters'
      OBVIOUS
    <3>2. plan \in Plans /\ pc' \in Running
      BY <2>4, <3>1 DEF Control
    <3>3. IsCreate(req') /\ pc' \in {"chosen", "reach"}
      BY <2>1, <3>2, CreateTyped
    <3>4. QED
      BY <3>3 DEF Parameters, IsCreate, Creating, Initializing, Commanding, Pooling
  <2>6. Control'
    BY <2>3, <2>5, TakeControl DEF Answered, Running, Visiting
  <2>7. QED
    BY <2>2, <2>6
<1>2. ASSUME NEW r \in Resource, InitResource(r)
      PROVE  Typed'
  <2>1. Tables' /\ Stores' /\ UNCHANGED conf
    BY <1>2, QuietTyped DEF InitResource, Quiet, machine
  <2>2. PICK x, p : Take(x, p) /\ p \in {"known", "notfound"} /\ x.name = r /\ (p = "known" => r \in DOMAIN conf[c])
    BY <1>2 DEF InitResource
  <2>3. p \in Running => Parameters'
    BY <2>1, <2>2 DEF Take, TakeLosing, Goto, Parameters, Running, Creating, Initializing, Commanding, Pooling
  <2>4. Control'
    BY <2>2, <2>3, TakeControl, NoLoss DEF Take, Answered, Running, Visiting
  <2>5. QED
    BY <2>1, <2>4
<1>3. ASSUME NEW r \in Resource, CreateFilesystem(r)
      PROVE  Typed'
  <2>1. Tables' /\ Stores' /\ UNCHANGED live
    BY <1>3, QuietTyped DEF CreateFilesystem, Quiet, machine
  <2>2. PICK x, p : /\ Take(x, p) /\ p \in {"notfound", "check", "promote"} /\ x.name = r
                    /\ (p # "notfound" => r \in DOMAIN live[c])
    BY <1>3 DEF CreateFilesystem
  <2>3. p \in Running => Parameters'
    BY <2>1, <2>2 DEF Take, TakeLosing, Goto, Parameters, Running, Creating, Initializing, Commanding, Pooling
  <2>4. Control'
    BY <2>2, <2>3, TakeControl, NoLoss DEF Take, Answered, Running, Visiting
  <2>5. QED
    BY <2>1, <2>4
<1>4. ASSUME NEW r \in Resource, MountResource(r) \/ UmountResource(r)
      PROVE  Typed'
  <2>1. UNCHANGED <<store, conf>>
    BY <1>4 DEF MountResource, UmountResource
  <2>2. \/ UNCHANGED live
        \/ \E b \in BOOLEAN : r \in DOMAIN live[c] /\ live' = With(c, r, [live[c][r] EXCEPT !.mounted = b])
    BY <1>4 DEF MountResource, UmountResource
  <2>3. Stores'
    BY <2>1 DEF Stores
  <2>4. Tables'
    <3>1. CASE UNCHANGED live
      BY <2>1, <3>1 DEF Tables
    <3>2. ASSUME NEW b \in BOOLEAN, r \in DOMAIN live[c], live' = With(c, r, [live[c][r] EXCEPT !.mounted = b])
          PROVE  Tables'
      <4>1. live[c][r] \in LiveState
        BY <1>c, <3>2 DEF Tables, IsTable
      <4>2. [live[c][r] EXCEPT !.mounted = b] \in LiveState
        BY <4>1 DEF LiveState
      <4>3. QED
        BY <1>c, <2>1, <3>2, <4>2, WithTables
    <3>3. QED
      BY <2>2, <3>1, <3>2
  <2>5. PICK p \in {"notfound", "rejected", "done"} : Take(NoReq, p)
    BY <1>4 DEF MountResource, UmountResource
  <2>6. p \in Answered /\ p \notin Running
    BY DEF Answered, Running
  <2>7. Control'
    BY <2>5, <2>6, TakeControl, NoLoss DEF Take, Answered, Visiting
  <2>8. QED
    BY <2>3, <2>4, <2>7
<1>5. ASSUME NEW r \in Resource, DeleteResource(r)
      PROVE  Typed'
  <2>1. UNCHANGED <<store, conf>> /\ Take([op |-> "delete", name |-> r], "removeLocal")
    BY <1>5 DEF DeleteResource
  <2>2. Tables'
    <3>1. CASE UNCHANGED live
      BY <2>1, <3>1 DEF Tables
    <3>2. CASE r \in DOMAIN live[c] /\ live' = AfterCommand("down", r)
      BY <1>c, <2>1, <3>2, CommandTables DEF Commands
    <3>3. QED
      BY <1>5, <3>1, <3>2 DEF DeleteResource
  <2>3. Parameters'
    BY <2>1 DEF Take, TakeLosing, Goto, Parameters, Creating, Initializing, Commanding, Pooling
  <2>4. Control'
    BY <2>1, <2>3, TakeControl, NoLoss DEF Take, Answered, Running, Visiting
  <2>5. QED
    BY <2>1, <2>2, <2>4 DEF Stores
<1>6. ASSUME NEW r \in Resource, RecoverSplitBrain(r)
      PROVE  Typed'
  <2>1. UNCHANGED <<store, conf>>
    BY <1>6 DEF RecoverSplitBrain
  <2>2. CASE r \in DOMAIN live[c] /\ live' = AfterCommand("disconnect", r) /\ Take([op |-> "recover", name |-> r], "demote")
    <3>1. Tables' /\ r \in DOMAIN live'[c]
      BY <1>c, <2>1, <2>2, CommandTables DEF Commands
    <3>2. Parameters'
      BY <2>2, <3>1 DEF Take, TakeLosing, Goto, Running, Parameters, Creating, Initializing, Commanding, Pooling
    <3>3. Control'
      BY <2>2, <3>2, TakeControl, NoLoss DEF Take, Answered, Running, Visiting
    <3>4. QED
      BY <2>1, <3>1, <3>3 DEF Stores
  <2>3. CASE UNCHANGED live /\ Take([op |-> "recover", name |-> r], "failed")
    <3>1. "failed" \in Answered /\ "failed" \notin Running
      BY DEF Answered, Running
    <3>2. Control'
      BY <2>3, <3>1, TakeControl, NoLoss DEF Take, Visiting
    <3>3. QED
      BY <2>1, <2>3, <3>2 DEF Tables, Stores
  <2>4. QED
    BY <1>6, <2>2, <2>3 DEF RecoverSplitBrain
<1>7. ASSUME NEW r \in Resource, NEW a \in Commands, ResourceAction(a, r)
      PROVE  Typed'
  <2>1. UNCHANGED <<store, conf>> /\ Take([op |-> a, name |-> r], "done")
    BY <1>7 DEF ResourceAction
  <2>2. Tables'
    <3>1. CASE UNCHANGED live
      BY <2>1, <3>1 DEF Tables
    <3>2. CASE CanUp(c, r) /\ live' = UpState(c, r)
      <4>1. r \in DOMAIN conf[c]
        BY <3>2 DEF CanUp, Usable
      <4>2. QED
        BY <1>c, <2>1, <3>2, <4>1, UpTables
    <3>3. CASE a # "up" /\ r \in DOMAIN live[c] /\ live' = AfterCommand(a, r)
      BY <1>c, <2>1, <3>3, CommandTables
    <3>4. QED
      BY <1>7, <3>1, <3>2, <3>3 DEF ResourceAction
  <2>3. "done" \in Answered /\ "done" \notin Running
    BY DEF Answered, Running
  <2>4. Control'
    BY <2>1, <2>3, TakeControl, NoLoss DEF Take, Visiting
  <2>5. QED
    BY <2>1, <2>2, <2>4 DEF Stores
<1>8. ASSUME NEW k \in Kind, NEW d \in Raw, NEW targets \in SUBSET plan.members, CreatePool(k, d, targets)
      PROVE  Typed'
  <2>1. Tables' /\ Stores'
    BY <1>8, QuietTyped DEF CreatePool
  <2>2. PICK x : Take(x, "targets") /\ x.disk = d /\ x.hosts = targets
    BY <1>8 DEF CreatePool
  <2>3. Parameters'
    BY <2>2 DEF Take, TakeLosing, Goto, Running, Parameters, Creating, Initializing, Commanding, Pooling
  <2>4. Control'
    BY <2>2, <2>3, TakeControl, NoLoss DEF Take, Answered, Running, Visiting
  <2>5. QED
    BY <2>1, <2>4
<1>9. ASSUME NEW kinds, CreatePoolVolume(kinds)
      PROVE  Typed'
  <2>1. UNCHANGED <<conf, live>>
    BY <1>9 DEF CreatePoolVolume
  <2>2. PICK p \in {"rejected", "done", "failed"} : Take(NoReq, p)
    BY <1>9 DEF CreatePoolVolume
  <2>3. Stores'
    <3>1. CASE UNCHANGED store
      BY <3>1 DEF Stores
    <3>2. ASSUME NEW k, NEW o \in CreateVolume(k, store[c]) \cup {Fail(store[c])}, store' = [store EXCEPT ![c] = o.s]
          PROVE  Stores'
      <4>1. Sound(store[c])
        BY <1>c DEF Stores, Sound
      <4>2. o.s = store[c] \/ o \in CreateVolume(k, store[c])
        BY <3>2 DEF Fail
      <4>3. Sound(o.s)
        <5>1. CASE o.s = store[c]
          BY <4>1, <5>1
        <5>2. CASE o \in CreateVolume(k, store[c])
          <6>1. Spares(o.s, store[c], "none")
            BY <4>1, <5>2, CreateVolumeSpares
          <6>2. QED
            BY <6>1 DEF Spares
        <5>3. QED
          BY <4>2, <5>1, <5>2
      <4>4. QED
        BY <1>c, <3>2, <4>3, OneStore
    <3>3. QED
      BY <1>9, <3>1, <3>2 DEF CreatePoolVolume
  <2>4. p \in Answered /\ p \notin Running
    BY DEF Answered, Running
  <2>5. Control'
    BY <2>2, <2>4, TakeControl, NoLoss DEF Take, Answered, Visiting
  <2>6. QED
    BY <2>1, <2>3, <2>5 DEF Tables
<1>10. QED
  BY <1>1, <1>2, <1>3, <1>4, <1>5, <1>6, <1>7, <1>8, <1>9 DEF Request

---------------------------------------------------------------------------
(* A request that goes on keeps its parameters, and all it has lost.        *)
LEMMA LosesOn ==
  ASSUME NEW x \in SUBSET Losses, Losing(x), pc' \in Kept
  PROVE  UNCHANGED <<req, wrote, warned>> /\ lost' = lost \cup x
BY DEF Losing, Keeps

LEMMA GoesOn ==
  ASSUME Rest, pc' \in Kept
  PROVE  UNCHANGED <<req, wrote, warned, lost>>
BY DEF Rest, Losing, Keeps

LEMMA LosingControl ==
  ASSUME Control, UNCHANGED plan, NEW x \in SUBSET Losses, Losing(x),
         pc' \in Answered \cup Running, todo' \subseteq Node,
         pc' \in Visiting => todo' \subseteq Remote,
         pc' \in Kept => Parameters'
  PROVE  Control'
<1>1. wrote' \subseteq Node /\ warned' \in BOOLEAN /\ lost' \subseteq Losses
  BY DEF Losing, Keeps, Control
<1>2. CASE pc' \in Kept
  BY <1>1, <1>2 DEF Control, Remote
<1>3. CASE pc' \notin Kept
  <2>1. pc' \in Answered \ {"undone", "initialized"}
    BY <1>3 DEF Kept
  <2>2. QED
    BY <1>1, <2>1, AnsweredControl
<1>4. QED
  BY <1>2, <1>3

LEMMA RestControl ==
  ASSUME Control, UNCHANGED plan, Rest, pc' \in Answered \cup Running, todo' \subseteq Node,
         pc' \in Visiting => todo' \subseteq Remote,
         pc' \in Kept => Parameters'
  PROVE  Control'
BY NoLoss, LosingControl DEF Rest

(* Steps of a request that leave the machines alone.                        *)
LEMMA AbortTyped ==
  ASSUME Typed, UNCHANGED plan, Abort
  PROVE  Typed'
<1>1. Tables' /\ Stores'
  BY QuietTyped DEF Typed, Abort
<1>2. pc' = "failed" /\ todo' = {} /\ Rest
  BY DEF Abort, Goto, Answered
<1>3. "failed" \in Answered /\ "failed" \notin Kept
  BY DEF Answered, Running, Kept
<1>4. Control'
  BY <1>2, <1>3, RestControl DEF Typed, Visiting
<1>5. QED
  BY <1>1, <1>4 DEF Typed

(* What a request needs of its parameters, it needed before.                *)
LEMMA SameParameters ==
  ASSUME Parameters, UNCHANGED <<plan, req>>,
         DOMAIN conf[c] \subseteq DOMAIN conf'[c] \/ pc' \notin Initializing \cup {"initialized"},
         DOMAIN live[c] \subseteq DOMAIN live'[c] \/ pc' \notin Commanding,
         pc' \in Creating \cup {"undone"} => pc \in Creating,
         pc' \in Initializing \cup {"initialized"} => pc \in Initializing,
         pc' \in Commanding => pc \in Commanding,
         pc' \in Pooling => pc \in Pooling
  PROVE  Parameters'
BY DEF Parameters, IsCreate

LEMMA QuietStepsTyped ==
  ASSUME Typed, UNCHANGED plan,
         \/ ChooseStorage \/ VerifyReachable \/ CheckLocal \/ CheckRemote
         \/ ListNodes \/ CheckMkfs \/ Mkfs \/ ResolveTargets
  PROVE  Typed'
<1>1. Quiet /\ \E x \in SUBSET Losses : Losing(x)
  BY DEF ChooseStorage, VerifyReachable, CheckLocal, CheckRemote, ListNodes, CheckMkfs, Mkfs, ResolveTargets,
     Rest, Missed, Losses
<1>2. Tables' /\ Stores' /\ UNCHANGED <<conf, live>>
  BY <1>1, QuietTyped DEF Typed, Quiet, machine
<1>3. \/ pc = "chosen" /\ Start("storage", "reach", req.hosts)
      \/ pc = "reach" /\ (Goto("local") \/ Goto("failed"))
      \/ pc = "local" /\ (Goto("remote") \/ Goto("failed"))
      \/ pc = "remote" /\ (Goto("write") \/ Goto("failed"))
      \/ pc = "known" /\ Start("initSync", "mdLocal", Remote)
      \/ pc = "check" /\ (Goto("mkfs") \/ Goto("failed"))
      \/ pc = "mkfs" /\ Goto("done")
      \/ pc = "targets" /\ Start("pool", "done", req.hosts)
  BY DEF ChooseStorage, VerifyReachable, CheckLocal, CheckRemote, ListNodes, CheckMkfs, Mkfs, ResolveTargets
<1>4. Remote \subseteq Node /\ todo \subseteq Node
      /\ (pc \in {"chosen", "targets"} => req.hosts \subseteq Node)
  BY PlansAssumption DEF Typed, Control, Parameters, IsCreate, Remote, Creating, Pooling
<1>5. /\ pc' \in Answered \cup Running /\ todo' \subseteq Node
      /\ pc' \in Visiting => todo' \subseteq Remote
  BY <1>3, <1>4 DEF Start, Goto, Answered, Running, Visiting
<1>6. pc' \in Kept => Parameters'
  <2>1. pc' \in Kept => UNCHANGED req
    BY <1>1, LosesOn
  <2>2. /\ pc' \in Kept /\ pc' \in Creating \cup {"undone"} => pc \in Creating
        /\ pc' \in Kept /\ pc' \in Initializing \cup {"initialized"} => pc \in Initializing
        /\ pc' \in Kept /\ pc' \in Commanding => pc \in Commanding
        /\ pc' \in Kept /\ pc' \in Pooling => pc \in Pooling
    BY <1>3 DEF Start, Goto, Creating, Initializing, Commanding, Pooling
  <2>3. QED
    BY <1>2, <2>1, <2>2, SameParameters DEF Typed, Control
<1>7. Control'
  BY <1>1, <1>5, <1>6, LosingControl DEF Typed
<1>8. QED
  BY <1>2, <1>7 DEF Typed

(* A loop that visits a node stays in its phase or goes to the next.        *)
LEMMA VisitedControl ==
  ASSUME Typed, NEW n, NEW q, Visited(q, n, {})
  PROVE  /\ todo' \subseteq Node /\ todo' \subseteq todo
         /\ pc' \in {pc, q} /\ (pc' # pc => pc' = q /\ todo' = {})
BY DEF Visited, Typed, Control

(* Creation: storage, files and their rollback.                             *)
LEMMA InitStorageTyped ==
  ASSUME Typed, UNCHANGED plan, NEW n \in Node, InitStorage(n)
  PROVE  Typed'
<1>1. pc = "storage" /\ UNCHANGED <<conf, live>> /\ Rest
  BY DEF InitStorage, At
<1>2. IsCreate(req) /\ req.disk \in Raw
  BY <1>1 DEF Typed, Control, Parameters, IsCreate, CreateReq, Creating
<1>3. Stores'
  <2>1. Stores /\ Sound(store[n])
    BY DEF Typed, Stores, Sound
  <2>2. CASE UNCHANGED store
    BY <2>1, <2>2 DEF Stores
  <2>3. ASSUME NEW o \in InitChain(req.dev, store[n], req.disk, Held(n)), store' = [store EXCEPT ![n] = o.s]
        PROVE  Stores'
    <3>1. Spares(o.s, store[n], req.disk)
      BY <1>2, <2>1, <2>3, InitChainSpares
    <3>2. QED
      BY <2>1, <2>3, <3>1, OneStore DEF Spares
  <2>4. QED
    BY <2>2, <2>3 DEF InitStorage
<1>4. Visited("reach", n, {}) \/ Goto("failed")
  BY DEF InitStorage
<1>5. /\ pc' \in {"storage", "reach", "failed"} /\ todo' \subseteq Node
  BY <1>1, <1>4, VisitedControl DEF Goto, Typed, Control
<1>6. pc' \in Kept => Parameters'
  BY <1>1, <1>2, <1>5, GoesOn
     DEF Kept, Running, Parameters, IsCreate, Creating, Initializing, Commanding, Pooling
<1>7. Control'
  BY <1>1, <1>5, <1>6, RestControl DEF Typed, Answered, Running, Visiting
<1>8. QED
  BY <1>1, <1>3, <1>7 DEF Typed, Tables

LEMMA WritesTyped ==
  ASSUME Typed, UNCHANGED plan, WriteLocal \/ \E n \in Node : WriteRemote(n) \/ WriteFails(n)
  PROVE  Typed'
<1>1. pc \in {"write", "sync"} /\ UNCHANGED <<store, live>> /\ IsCreate(req)
  BY DEF WriteLocal, WriteRemote, WriteFails, At, Typed, Control, Parameters, Creating
<1>2. UNCHANGED conf \/ \E n \in Node : conf' = Written(n) \/ conf' = Removed(n)
  BY ControllerAssumption DEF WriteLocal, WriteRemote, WriteFails, c
<1>3. Tables' /\ Stores'
  BY <1>1, <1>2, WrittenTables, RemovedTables DEF Typed, Tables, Stores
<1>4. Remote \subseteq Node /\ (pc = "sync" => todo \subseteq Remote)
  BY PlansAssumption DEF Typed, Control, Remote, Visiting
<1> DEFINE Goes ==
      /\ pc' \in {"sync", "created", "failed", "rollback"}
      /\ todo' \subseteq Node /\ wrote' \subseteq Node /\ warned' \in BOOLEAN /\ lost' \subseteq Losses
      /\ pc' = "sync" => todo' \subseteq Remote
      /\ pc' \in {"sync", "rollback"} => req' = req
<1>5. Goes
  <2>1. CASE WriteLocal
    BY <1>4, <2>1 DEF WriteLocal, Start, Goto, Rest, Losing, Keeps, Kept, Running, Answered, Typed, Control
  <2>2. ASSUME NEW n \in Node, WriteRemote(n)
        PROVE  Goes
    <3>1. /\ pc = "sync" /\ n \in todo
          /\ (pc' = "created" /\ todo' = {}) \/ (pc' = "sync" /\ todo' = todo \ {n})
      BY <2>2 DEF WriteRemote, At, Visited
    <3>2. IF pc' = "sync" THEN wrote' = wrote \cup {n} /\ UNCHANGED <<req, warned, lost>> ELSE Rest
      BY <2>2 DEF WriteRemote
    <3>3. CASE pc' = "sync"
      BY <1>4, <3>1, <3>2, <3>3 DEF Typed, Control
    <3>4. CASE pc' = "created"
      BY <1>4, <3>1, <3>2, <3>4 DEF Rest, Losing, Keeps, Typed, Control
    <3>5. QED
      BY <3>1, <3>3, <3>4
  <2>3. ASSUME NEW n \in Node, WriteFails(n)
        PROVE  Goes
    BY <2>3 DEF WriteFails, Typed, Control
  <2>4. QED
    BY <2>1, <2>2, <2>3
<1>6. Control'
  <2>1. CASE pc' \in {"sync", "rollback"}
    <3>1. Parameters'
      BY <1>1, <1>5, <2>1 DEF Parameters, IsCreate, Creating, Initializing, Commanding, Pooling
    <3>2. QED
      BY <1>5, <2>1, <3>1 DEF Typed, Control, Running, Visiting, Remote
  <2>2. CASE pc' \in {"created", "failed"}
    BY <1>5, <2>2, AnsweredControl DEF Typed, Answered
  <2>3. QED
    BY <1>5, <2>1, <2>2
<1>7. QED
  BY <1>3, <1>6 DEF Typed

LEMMA RollbackTyped ==
  ASSUME Typed, UNCHANGED plan, RollbackLocal \/ \E n \in Node : RollbackRemote(n)
  PROVE  Typed'
<1>1. /\ pc = "rollback" /\ UNCHANGED <<store, live, req, wrote, warned>>
      /\ pc' \in {"rollback", "undone"} /\ todo' \subseteq Node
      /\ lost' \subseteq Losses
  BY DEF RollbackLocal, RollbackRemote, At, Goto, Typed, Control, Losses
<1>2. UNCHANGED conf \/ \E n \in Node : conf' = Removed(n)
  BY ControllerAssumption DEF RollbackLocal, RollbackRemote, c
<1>3. Tables' /\ Stores'
  BY <1>1, <1>2, RemovedTables DEF Typed, Tables, Stores
<1>4. Parameters'
  BY <1>1 DEF Typed, Control, Parameters, IsCreate, Creating, Initializing, Commanding, Pooling
<1>5. Control'
  BY <1>1, <1>4 DEF Typed, Control, Answered, Running, Visiting
<1>6. QED
  BY <1>3, <1>5 DEF Typed

(* Initialisation: files, metadata, and the resource brought up.            *)
LEMMA SyncMissingTyped ==
  ASSUME Typed, UNCHANGED plan, NEW n \in Node, SyncMissing(n)
  PROVE  Typed' /\ conf'[c] = conf[c] /\ n \in Remote
<1>1. /\ pc = "initSync" /\ n \in todo /\ Visited("mdLocal", n, {}) /\ UNCHANGED <<store, live>> /\ Rest
  BY DEF SyncMissing, At
<1>2. n \in Remote /\ n # c /\ c \in Node
  BY <1>1, ControllerAssumption DEF Typed, Control, Remote, Visiting, c
<1>3. req.name \in DOMAIN conf[c]
  BY <1>1 DEF Typed, Control, Parameters, Initializing
<1>4. Tables' /\ conf'[c] = conf[c]
  <2>1. CASE UNCHANGED conf
    BY <1>1, <2>1 DEF Typed, Tables
  <2>2. CASE conf' = [conf EXCEPT ![n] = Set(@, req.name, conf[c][req.name])]
    <3>1. req.name \in Resource /\ conf[c][req.name] \in ConfState /\ IsTable(conf[n], ConfState)
      BY <1>2, <1>3 DEF Typed, Tables, IsTable
    <3>2. IsTable(Set(conf[n], req.name, conf[c][req.name]), ConfState)
      BY <3>1, SetTable
    <3>3. QED
      BY <1>1, <1>2, <2>2, <3>2 DEF Typed, Tables
  <2>3. QED
    BY <2>1, <2>2 DEF SyncMissing
<1>5. /\ pc' \in {"initSync", "mdLocal"} /\ todo' \subseteq Node
      /\ todo' \subseteq Remote
  BY <1>1, VisitedControl DEF Typed, Control, Visiting
<1>6. Parameters'
  BY <1>1, <1>3, <1>4, <1>5, GoesOn
     DEF Kept, Running, Parameters, Creating, Initializing, Commanding, Pooling
<1>7. Control'
  BY <1>1, <1>5, <1>6, RestControl DEF Typed, Running
<1>8. QED
  BY <1>1, <1>2, <1>4, <1>7 DEF Typed, Stores

LEMMA MetadataSound ==
  ASSUME Typed, NEW n \in Node, CanCreateMd(n, req.name), store' = WithMd(n, req.name)
  PROVE  Stores'
<1>1. Stores /\ Sound(store[n])
  BY DEF Typed, Stores, Sound
<1>2. req.name \in DOMAIN conf[n] /\ Exists(store[n], conf[n][req.name].dev)
  BY DEF CanCreateMd, Usable
<1>3. conf[n][req.name].dev \in Device
  BY <1>2 DEF Typed, Tables, IsTable, ConfState
<1>4. Sound(Put(store[n], conf[n][req.name].dev, "md"))
  BY <1>1, <1>2, <1>3, PutSound
<1>5. store' = [store EXCEPT ![n] = Put(store[n], conf[n][req.name].dev, "md")]
  BY DEF WithMd
<1>6. QED
  BY <1>1, <1>4, <1>5, OneStore

LEMMA MetadataTyped ==
  ASSUME Typed, UNCHANGED plan, CreateMdLocal \/ \E n \in Node : CreateMdRemote(n)
  PROVE  Typed'
<1>1. pc \in {"mdLocal", "mdRemote"} /\ UNCHANGED <<conf, live>>
  BY DEF CreateMdLocal, CreateMdRemote, At
<1>2. Tables' /\ Stores'
  <2>1. UNCHANGED store \/ \E n \in Node : CanCreateMd(n, req.name) /\ store' = WithMd(n, req.name)
    BY ControllerAssumption DEF CreateMdLocal, CreateMdRemote, c
  <2>2. QED
    BY <1>1, <2>1, MetadataSound DEF Typed, Tables, Stores
<1>3. Remote \subseteq Node /\ (pc = "mdRemote" => todo \subseteq Remote)
  BY PlansAssumption DEF Typed, Control, Remote, Visiting
<1> DEFINE Goes ==
      /\ pc' \in {"mdRemote", "upLocal", "failed"} /\ todo' \subseteq Node
      /\ wrote' \subseteq Node /\ warned' \in BOOLEAN /\ lost' \subseteq Losses
      /\ pc' # "failed" => req' = req /\ todo' \subseteq Remote
<1>4. Goes
  <2>1. CASE CreateMdLocal
    BY <1>3, <2>1 DEF CreateMdLocal, Start, Goto, Rest, Losing, Keeps, Kept, Running, Answered, Typed, Control
  <2>2. ASSUME NEW n \in Node, CreateMdRemote(n)
        PROVE  Goes
    BY <1>3, <2>2 DEF CreateMdRemote, At, Visited, Typed, Control
  <2>3. QED
    BY <2>1, <2>2
<1>5. CASE pc' = "failed"
  BY <1>2, <1>4, <1>5, AnsweredControl DEF Typed, Answered
<1>6. CASE pc' \in {"mdRemote", "upLocal"}
  <2>1. req.name \in DOMAIN conf[c]
    BY <1>1 DEF Typed, Control, Parameters, Initializing
  <2>2. Parameters'
    BY <1>1, <1>4, <1>6, <2>1 DEF Parameters, Creating, Initializing, Commanding, Pooling
  <2>3. Control'
    BY <1>4, <1>6, <2>2 DEF Typed, Control, Running, Visiting, Remote
  <2>4. QED
    BY <1>2, <2>3 DEF Typed
<1>7. QED
  BY <1>4, <1>5, <1>6

LEMMA UpLocalTyped ==
  ASSUME Typed, UNCHANGED plan, UpLocal
  PROVE  Typed'
<1>1. pc = "upLocal" /\ UNCHANGED <<store, conf>> /\ Rest /\ c \in Node
  BY ControllerAssumption DEF UpLocal, c
<1>2. req.name \in DOMAIN conf[c]
  BY <1>1 DEF Typed, Control, Parameters, Initializing
<1>3. Tables'
  <2>1. UNCHANGED live \/ live' = UpState(c, req.name)
    BY DEF UpLocal
  <2>2. QED
    BY <1>1, <1>2, <2>1, UpTables DEF Typed, Tables
<1>4. Remote \subseteq Node
  BY PlansAssumption DEF Typed, Control, Remote
<1>5. /\ pc' \in {"upRemote", "degraded", "initialized", "failed"}
      /\ todo' \subseteq Remote
  BY <1>4 DEF UpLocal, Start, Goto, InitAnswer, Answered
<1>6. pc' \in Kept => Parameters'
  BY <1>1, <1>2, <1>5, GoesOn DEF Kept, Running, Parameters, Creating, Initializing, Commanding, Pooling
<1>7. Control'
  BY <1>1, <1>4, <1>5, <1>6, RestControl DEF Typed, Answered, Running
<1>8. QED
  BY <1>1, <1>3, <1>7 DEF Typed, Stores

LEMMA UpRemoteTyped ==
  ASSUME Typed, UNCHANGED plan, NEW n \in Node, UpRemote(n)
  PROVE  Typed'
<1>1. pc = "upRemote" /\ n \in todo /\ UNCHANGED <<store, conf>>
  BY DEF UpRemote, At
<1>2. req.name \in DOMAIN conf[c]
  BY <1>1 DEF Typed, Control, Parameters, Initializing
<1>3. Tables'
  <2>1. UNCHANGED live \/ (CanUp(n, req.name) /\ live' = UpState(n, req.name))
    BY DEF UpRemote
  <2>2. CASE UNCHANGED live
    BY <1>1, <2>2 DEF Typed, Tables
  <2>3. CASE CanUp(n, req.name) /\ live' = UpState(n, req.name)
    <3>1. req.name \in DOMAIN conf[n]
      BY <2>3 DEF CanUp, Usable
    <3>2. QED
      BY <1>1, <2>3, <3>1, UpTables DEF Typed
  <2>4. QED
    BY <2>1, <2>2, <2>3
<1>4. /\ pc' \in {"upRemote", "degraded", "initialized"}
      /\ todo' \subseteq Node /\ todo' \subseteq Remote
  BY <1>1 DEF UpRemote, Visited, InitAnswer, Typed, Control, Visiting
<1>5. /\ wrote' \subseteq Node /\ warned' \in BOOLEAN /\ lost' \subseteq Losses
      /\ pc' # "degraded" => req' = req
  <2>1. ASSUME NEW x \in SUBSET Losses, Losing(x)
        PROVE  /\ wrote' \subseteq Node /\ warned' \in BOOLEAN /\ lost' \subseteq Losses
               /\ pc' # "degraded" => req' = req
    BY <1>4, <2>1 DEF Losing, Keeps, Kept, Running, Typed, Control
  <2>2. CASE warned' = TRUE /\ UNCHANGED <<req, wrote, lost>>
    BY <2>2 DEF Typed, Control
  <2>3. (\E x \in SUBSET Losses : Losing(x)) \/ (warned' = TRUE /\ UNCHANGED <<req, wrote, lost>>)
    BY NoLoss DEF UpRemote, Rest, Losses
  <2>4. QED
    BY <2>1, <2>2, <2>3
<1>6. CASE pc' = "degraded"
  BY <1>1, <1>3, <1>4, <1>5, <1>6, AnsweredControl DEF Typed, Stores, Answered
<1>7. CASE pc' # "degraded"
  <2>1. Parameters'
    BY <1>1, <1>2, <1>4, <1>5, <1>7 DEF Parameters, Creating, Initializing, Commanding, Pooling
  <2>2. Control'
    BY <1>4, <1>5, <1>7, <2>1 DEF Typed, Control, Answered, Running, Remote
  <2>3. QED
    BY <1>1, <1>3, <2>2 DEF Typed, Stores
<1>8. QED
  BY <1>6, <1>7

(* Commands on the controller.                                              *)
LEMMA CommandsTyped ==
  ASSUME Typed, UNCHANGED plan,
         \/ DemoteVictim \/ ConnectDiscarding
         \/ PromoteFor("promote", "force") \/ PromoteFor("force", "failed")
  PROVE  Typed'
<1>1. /\ pc \in {"demote", "discard", "promote", "force"}
      /\ UNCHANGED <<store, conf>> /\ Rest /\ c \in Node
  BY ControllerAssumption DEF DemoteVictim, ConnectDiscarding, PromoteFor, c
<1>2. req.name \in DOMAIN live[c]
  BY <1>1 DEF Typed, Control, Parameters, Commanding
<1>3. Tables' /\ req.name \in DOMAIN live'[c]
  <2>1. \/ UNCHANGED live
        \/ \E a \in {"secondary", "connect", "primary"} : live' = AfterCommand(a, req.name)
    BY DEF DemoteVictim, ConnectDiscarding, PromoteFor
  <2>2. CASE UNCHANGED live
    BY <1>1, <1>2, <2>2 DEF Typed, Tables
  <2>3. ASSUME NEW a \in {"secondary", "connect", "primary"}, live' = AfterCommand(a, req.name)
        PROVE  Tables' /\ req.name \in DOMAIN live'[c]
    <3>1. a \in Commands \ {"up"} /\ a # "down"
      BY DEF Commands
    <3>2. QED
      BY <1>1, <1>2, <2>3, <3>1, CommandTables DEF Typed
  <2>4. QED
    BY <2>1, <2>2, <2>3
<1>4. pc' \in {"discard", "failed", "done", "check", "force"} /\ todo' \subseteq Node
  BY DEF DemoteVictim, ConnectDiscarding, PromoteFor, Goto, Typed, Control
<1>5. pc' \in Kept => Parameters'
  BY <1>3, <1>4, <1>1, GoesOn DEF Kept, Running, Parameters, Creating, Initializing, Commanding, Pooling
<1>6. Control'
  BY <1>1, <1>4, <1>5, RestControl DEF Typed, Answered, Running, Visiting
<1>7. QED
  BY <1>1, <1>3, <1>6 DEF Typed, Stores

(* Deletion.                                                                *)
LEMMA RemovesTyped ==
  ASSUME Typed, UNCHANGED plan, RemoveLocal \/ \E n \in Node : RemoveRemote(n)
  PROVE  Typed'
<1>1. pc \in {"removeLocal", "removeRemote"} /\ UNCHANGED <<store, live>> /\ Rest
  BY DEF RemoveLocal, RemoveRemote, At
<1>2. Tables' /\ Stores'
  <2>1. UNCHANGED conf \/ \E n \in Node : conf' = Removed(n)
    BY ControllerAssumption DEF RemoveLocal, RemoveRemote, c
  <2>2. QED
    BY <1>1, <2>1, RemovedTables DEF Typed, Tables, Stores
<1>3. Remote \subseteq Node /\ (pc = "removeRemote" => todo \subseteq Remote)
  BY PlansAssumption DEF Typed, Control, Remote, Visiting
<1>4. pc' \in {"removeRemote", "deleted", "failed"} /\ todo' \subseteq Remote
  BY <1>3 DEF RemoveLocal, RemoveRemote, At, Start, Goto, Visited, Answered
<1>5. pc' \in Kept => Parameters'
  BY <1>4 DEF Kept, Running, Parameters, Creating, Initializing, Commanding, Pooling
<1>6. Control'
  BY <1>1, <1>3, <1>4, <1>5, RestControl DEF Typed, Answered, Running
<1>7. QED
  BY <1>2, <1>6 DEF Typed

(* The storage API: a pool spares all but its disk.                         *)
LEMMA MakePoolSpares ==
  ASSUME Typed, NEW n \in Node, MakePool(n)
  PROVE  \/ UNCHANGED store
         \/ /\ "dump" \notin lost' => ~Configured(n, req.disk)
            /\ req.disk \in Raw
            /\ \E s : /\ Spares(s, store[n], req.disk) /\ s.vol = store[n].vol
                      /\ store' = [store EXCEPT ![n] = s]
<1>1. pc = "pool"
  BY DEF MakePool, At
<1>2. req.disk \in Raw
  BY <1>1 DEF Typed, Control, Parameters, Pooling
<1>3. Sound(store[n])
  BY DEF Typed, Stores, Sound
<1>4. ASSUME NEW o \in InitPool(req.dev, store[n], req.disk, Held(n))
      PROVE  Spares(o.s, store[n], req.disk) /\ o.s.vol = store[n].vol
  BY <1>2, <1>3, InitPoolSpares, InitPoolMakesNoVolume
<1>5. CASE UNCHANGED store
  BY <1>5
<1>6. ASSUME NEW seen \in Dumped(n, req.disk), ~seen, lost' = Missed(n, req.disk, seen),
             NEW o \in InitPool(req.dev, store[n], req.disk, Held(n)),
             store' = [store EXCEPT ![n] = o.s]
      PROVE  /\ "dump" \notin lost' => ~Configured(n, req.disk)
             /\ req.disk \in Raw
             /\ \E s : /\ Spares(s, store[n], req.disk) /\ s.vol = store[n].vol
                       /\ store' = [store EXCEPT ![n] = s]
  BY <1>2, <1>4, <1>6 DEF Missed
<1>7. QED
  BY <1>5, <1>6 DEF MakePool

LEMMA MakePoolTyped ==
  ASSUME Typed, UNCHANGED plan, NEW n \in Node, MakePool(n)
  PROVE  Typed'
<1>1. pc = "pool" /\ UNCHANGED <<conf, live>> /\ Keeps /\ lost' \subseteq Losses
  BY DEF MakePool, At, Missed, Losses
<1>2. Stores'
  BY MakePoolSpares, OneStore DEF Typed, Stores, Spares
<1>3. pc' \in {"pool", "done", "failed"} /\ todo' \subseteq Node
  <2>1. Visited("done", n, {}) \/ Goto("failed")
    BY DEF MakePool
  <2>2. QED
    BY <1>1, <2>1, VisitedControl DEF Goto, Typed, Control
<1>4. pc' \in Kept => Parameters'
  BY <1>1, <1>3 DEF Keeps, Kept, Running, Parameters, Creating, Initializing, Commanding, Pooling, Typed, Control
<1>5. Control'
  <2>1. wrote' \subseteq Node /\ warned' \in BOOLEAN
    BY <1>1 DEF Keeps, Typed, Control
  <2>2. CASE pc' = "pool"
    BY <1>1, <1>3, <1>4, <2>1, <2>2 DEF Typed, Control, Running, Kept, Visiting
  <2>3. CASE pc' \in {"done", "failed"}
    BY <1>1, <1>3, <2>1, <2>3, AnsweredControl DEF Typed, Answered
  <2>4. QED
    BY <1>3, <2>2, <2>3
<1>6. QED
  BY <1>1, <1>2, <1>5 DEF Typed, Tables

---------------------------------------------------------------------------
(* Nothing is configured and nothing runs at first.                         *)
LEMMA InitTyped == Init => Typed
<1> SUFFICES ASSUME Init PROVE Typed
  OBVIOUS
<1>1. Tables
  BY DEF Init, Tables, IsTable
<1>2. FreshStorage \in StorageState /\ Founded(FreshStorage)
  BY DEF FreshStorage, BlankStorage, StorageState, Founded, Kind, Content, NoDisk
<1>3. Stores
  BY <1>2 DEF Init, Stores
<1>4. Control
  BY DEF Init, Control, Parameters, Answered, Creating, Initializing, Commanding, Pooling, Visiting
<1>5. QED
  BY <1>1, <1>3, <1>4 DEF Typed

LEMMA NextTyped == Typed /\ [Next]_vars => Typed'
<1> SUFFICES ASSUME Typed, [Next]_vars PROVE Typed'
  OBVIOUS
<1>1. CASE Request /\ UNCHANGED plan
  BY <1>1, RequestTyped
<1>2. CASE Abort /\ UNCHANGED plan
  BY <1>2, AbortTyped
<1>3. CASE Handler /\ UNCHANGED plan
  BY <1>3, QuietStepsTyped, InitStorageTyped, WritesTyped, RollbackTyped, SyncMissingTyped, MetadataTyped,
     UpLocalTyped, UpRemoteTyped, CommandsTyped, RemovesTyped, MakePoolTyped DEF Handler
<1>4. CASE UNCHANGED vars
  BY <1>4 DEF vars, machine, handler, Typed, Tables, Stores, Control, Parameters, IsCreate, Remote
<1>5. QED
  BY <1>1, <1>2, <1>3, <1>4 DEF Next

(* Every reachable state has tables, storage and parameters as they should  *)
(* be; pools never lose the disk under a volume.                            *)
THEOREM TypedInvariant == Spec => []Typed
<1>1. QED
  BY InitTyped, NextTyped, PTL DEF Spec

(* Storage, files, kernel and handler of every node keep their types in any *)
(* sequence of requests of resource.rs and storage.rs.                      *)
THEOREM TypeCorrect == Spec => []TypeOK
<1>1. Typed => TypeOK
  BY DEF Typed, Tables, Stores, Control, Losses, IsTable, TypeOK, Range
<1>2. QED
  BY <1>1, TypedInvariant, PTL

(* A pool request whose dump did not fail takes no configured resource's    *)
(* backing device: the disks of the .res files are refused, and the kernel  *)
(* keeps what has a volume on it.                                           *)
THEOREM PoolsSpare == Spec => PoolsSpareResources
<1> DEFINE
      Untouched(n, r) ==
        LET d == conf[n][r].dev
        IN n \in conf[n][r].hosts =>
             /\ Contains(store'[n], d) = Contains(store[n], d)
             /\ Exists(store[n], d) /\ d \in Kind => store'[n].home[d] = store[n].home[d]
      Step == pc = "pool" /\ "dump" \notin lost' => \A n \in Node : \A r \in DOMAIN conf[n] : Untouched(n, r)
<1>1. Typed /\ [Next]_vars => [Step]_vars
  <2> SUFFICES ASSUME Typed, [Next]_vars, pc = "pool", "dump" \notin lost', NEW n \in Node, NEW r \in DOMAIN conf[n]
               PROVE  Untouched(n, r)
    BY DEF vars
  <2>1. CASE UNCHANGED store
    BY <2>1
  <2>2. ASSUME NEW m \in Node, MakePool(m)
        PROVE  Untouched(n, r)
    <3>1. CASE UNCHANGED store
      BY <3>1
    <3>2. ASSUME ~Configured(m, req.disk), NEW s, Spares(s, store[m], req.disk), s.vol = store[m].vol,
                 store' = [store EXCEPT ![m] = s]
          PROVE  Untouched(n, r)
      <4> DEFINE d == conf[n][r].dev
      <4>1. d \in Device
        BY DEF Typed, Tables, IsTable, ConfState
      <4>2. CASE m # n
        BY <3>2, <4>2 DEF Typed, Stores
      <4>3. CASE m = n
        <5>1. store'[n] = s
          BY <3>2, <4>3 DEF Typed, Stores
        <5>2. d # req.disk
          BY <3>2, <4>3 DEF Configured
        <5>3. CASE d \in Raw
          BY <3>2, <4>3, <5>1, <5>2, <5>3, DisksAssumption DEF Spares, Contains
        <5>4. CASE d \notin Raw
          <6>1. d \in Kind
            BY <4>1, <5>4 DEF Device
          <6>2. Untouched(n, r)
            BY <3>2, <4>3, <5>1, <5>4, <6>1 DEF Spares, Contains, Exists
          <6>3. QED
            BY <6>2
        <5>5. QED
          BY <5>3, <5>4
      <4>4. QED
        BY <4>2, <4>3
    <3>3. QED
      BY <2>2, <3>1, <3>2, MakePoolSpares
  <2>3. UNCHANGED store \/ \E m \in Node : MakePool(m)
    <3>1. CASE Request
      BY <3>1 DEF Request, Answered, CreateResource, InitResource, CreateFilesystem, MountResource,
         UmountResource, DeleteResource, RecoverSplitBrain, ResourceAction, CreatePool, CreatePoolVolume, Take, TakeLosing
    <3>2. CASE Abort
      BY <3>2 DEF Abort, Quiet, machine
    <3>3. CASE Handler
      BY <3>3 DEF Handler, ChooseStorage, VerifyReachable, CheckLocal, CheckRemote, WriteLocal, RollbackLocal,
         ListNodes, CreateMdLocal, UpLocal, DemoteVictim, ConnectDiscarding, PromoteFor, CheckMkfs, Mkfs,
         RemoveLocal, ResolveTargets, InitStorage, WriteRemote, WriteFails, RollbackRemote, SyncMissing,
         CreateMdRemote, UpRemote, RemoveRemote, At, Quiet, machine
    <3>4. QED
      BY <3>1, <3>2, <3>3 DEF Next, vars, machine
  <2>4. QED
    BY <2>1, <2>2, <2>3
<1>2. QED
  BY <1>1, TypedInvariant, PTL DEF Spec, PoolsSpareResources

---------------------------------------------------------------------------
(* Which actions lead where.  A request begins with no file changed.        *)
Drawing == {"chosen", "storage", "reach", "local", "remote", "write"}

LEMMA RequestBegins ==
  ASSUME Request
  PROVE  /\ conf' = conf
         /\ pc' \notin {"storage", "local", "remote", "write", "sync", "rollback", "undone",
                        "mdRemote", "upLocal", "upRemote", "initialized"}
         /\ pc' \in {"chosen", "reach"} => \E rq \in plan.creates : CreateResource(rq)
<1>1. CASE \E rq \in plan.creates : CreateResource(rq)
  BY <1>1 DEF CreateResource, Take, TakeLosing, Goto, Quiet, machine
<1>2. ASSUME NEW r \in Resource, InitResource(r) \/ CreateFilesystem(r)
      PROVE  conf' = conf /\ pc' \in {"known", "notfound", "check", "promote"}
  BY <1>2 DEF InitResource, CreateFilesystem, Take, TakeLosing, Goto, Quiet, machine
<1>3. ASSUME NEW r \in Resource, MountResource(r) \/ UmountResource(r) \/ DeleteResource(r) \/ RecoverSplitBrain(r)
      PROVE  conf' = conf /\ pc' \in {"notfound", "rejected", "done", "removeLocal", "demote", "failed"}
  BY <1>3 DEF MountResource, UmountResource, DeleteResource, RecoverSplitBrain, Take, TakeLosing, Goto
<1>4. ASSUME NEW r \in Resource, NEW a \in Commands, ResourceAction(a, r)
      PROVE  conf' = conf /\ pc' = "done"
  BY <1>4 DEF ResourceAction, Take, TakeLosing, Goto
<1>5. ASSUME NEW k, NEW d, NEW targets, CreatePool(k, d, targets)
      PROVE  conf' = conf /\ pc' = "targets"
  BY <1>5 DEF CreatePool, Take, TakeLosing, Goto, Quiet, machine
<1>6. ASSUME NEW kinds, CreatePoolVolume(kinds)
      PROVE  conf' = conf /\ pc' \in {"rejected", "done", "failed"}
  BY <1>6 DEF CreatePoolVolume, Take, TakeLosing, Goto
<1>7. QED
  BY <1>1, <1>2, <1>3, <1>4, <1>5, <1>6 DEF Request

(* A handler goes from one phase to the next with its parameters; the       *)
(* phases that the invariants below speak of are entered by these actions.  *)
LEMMA HandlerGoes ==
  ASSUME Typed, Handler
  PROVE  /\ pc' \in Kept => req' = req
         /\ pc' \in Drawing => /\ pc \in Drawing /\ conf' = conf /\ lost \subseteq lost'
                               /\ pc' = "remote" => CheckLocal
                               /\ pc' = "write" => pc = "remote"
         /\ pc' = "rollback" => \E n \in Node : WriteFails(n) \/ RollbackRemote(n)
         /\ pc' = "undone" => RollbackLocal
         /\ pc' \in {"mdRemote", "upLocal"} => CreateMdLocal \/ \E n \in Node : CreateMdRemote(n)
         /\ pc' \in {"upRemote", "initialized"} => UpLocal \/ \E n \in Node : UpRemote(n)
<1> USE DEF Drawing
<1>1. CASE \/ ChooseStorage \/ VerifyReachable \/ CheckLocal \/ CheckRemote
           \/ ListNodes \/ CheckMkfs \/ Mkfs \/ ResolveTargets
  <2>1. conf' = conf /\ \E x \in SUBSET Losses : Losing(x)
    BY <1>1 DEF ChooseStorage, VerifyReachable, CheckLocal, CheckRemote, ListNodes, CheckMkfs, Mkfs,
       ResolveTargets, Quiet, machine, Rest, Missed, Losses
  <2>2. \/ pc = "chosen" /\ pc' \in {"storage", "reach"}
        \/ pc = "reach" /\ pc' \in {"local", "failed"}
        \/ CheckLocal /\ pc = "local" /\ pc' \in {"remote", "failed"}
        \/ pc = "remote" /\ pc' \in {"write", "failed"}
        \/ pc' \in {"initSync", "mdLocal", "mkfs", "failed", "done", "pool"}
    BY <1>1 DEF ChooseStorage, VerifyReachable, CheckLocal, CheckRemote, ListNodes, CheckMkfs, Mkfs,
       ResolveTargets, Start, Goto
  <2>3. pc' \in Kept => req' = req /\ lost \subseteq lost'
    BY <2>1, LosesOn
  <2>4. Drawing \subseteq Kept
    BY DEF Kept, Running
  <2>5. QED
    BY <2>2, <2>1, <2>3, <2>4
<1>2. ASSUME NEW n \in Node, InitStorage(n)
      PROVE  /\ pc = "storage" /\ conf' = conf /\ pc' \in {"storage", "reach", "failed"}
             /\ pc' \in Kept => req' = req /\ lost' = lost
  BY <1>2, GoesOn DEF InitStorage, At, Visited, Goto
<1>3. ASSUME WriteLocal \/ \E n \in Node : WriteRemote(n)
      PROVE  (pc' \in Kept => req' = req) /\ pc' \in {"sync", "created", "failed"}
  BY <1>3 DEF WriteLocal, WriteRemote, At, Start, Goto, Visited, Rest, Losing, Keeps, Kept, Running
<1>4. ASSUME NEW n \in Node, WriteFails(n) \/ RollbackRemote(n)
      PROVE  req' = req /\ pc' = "rollback"
  BY <1>4 DEF WriteFails, RollbackRemote, At
<1>5. CASE RollbackLocal
  BY <1>5 DEF RollbackLocal, Goto
<1>6. ASSUME NEW n \in Node, SyncMissing(n) \/ RemoveRemote(n) \/ MakePool(n)
      PROVE  Keeps /\ pc' \in {"initSync", "mdLocal", "removeRemote", "deleted", "pool", "done", "failed"}
  BY <1>6 DEF SyncMissing, RemoveRemote, MakePool, At, Visited, Goto, Rest, Losing
<1>7. ASSUME CreateMdLocal \/ \E n \in Node : CreateMdRemote(n)
      PROVE  (pc' \in Kept => req' = req) /\ pc' \in {"mdRemote", "upLocal", "failed"}
  BY <1>7 DEF CreateMdLocal, CreateMdRemote, At, Start, Visited, Goto, Rest, Losing, Keeps, Kept
<1>8. ASSUME UpLocal \/ \E n \in Node : UpRemote(n)
      PROVE  /\ pc' \in Kept => req' = req
             /\ pc' \in {"upRemote", "degraded", "initialized", "failed"}
  <2>1. pc' \in {"upRemote", "degraded", "initialized", "failed"}
    BY <1>8 DEF UpLocal, UpRemote, At, Start, Visited, Goto, InitAnswer
  <2>2. Keeps \/ req' = req
    <3>1. CASE UpLocal
      BY <3>1 DEF UpLocal, Rest, Losing
    <3>2. ASSUME NEW n \in Node, UpRemote(n)
          PROVE  Keeps \/ req' = req
      BY <3>2 DEF UpRemote, Rest, Losing
    <3>3. QED
      BY <1>8, <3>1, <3>2
  <2>3. QED
    BY <2>1, <2>2 DEF Keeps
<1>9. ASSUME \/ DemoteVictim \/ ConnectDiscarding \/ RemoveLocal
             \/ PromoteFor("promote", "force") \/ PromoteFor("force", "failed")
      PROVE  Rest /\ pc' \in {"discard", "failed", "done", "check", "force", "removeRemote", "deleted"}
  BY <1>9 DEF DemoteVictim, ConnectDiscarding, RemoveLocal, PromoteFor, Goto, Start
<1>10. QED
  <2> DEFINE Goes ==
        /\ pc' \in Kept => req' = req
        /\ pc' \in Drawing => /\ pc \in Drawing /\ conf' = conf /\ lost \subseteq lost'
                              /\ pc' = "remote" => CheckLocal
                              /\ pc' = "write" => pc = "remote"
        /\ pc' = "rollback" => \E n \in Node : WriteFails(n) \/ RollbackRemote(n)
        /\ pc' = "undone" => RollbackLocal
        /\ pc' \in {"mdRemote", "upLocal"} => CreateMdLocal \/ \E n \in Node : CreateMdRemote(n)
        /\ pc' \in {"upRemote", "initialized"} => UpLocal \/ \E n \in Node : UpRemote(n)
  <2>1. ASSUME NEW n \in Node, InitStorage(n)
        PROVE  Goes
    BY <1>2, <2>1 DEF Kept, Running
  <2>2. CASE WriteLocal \/ \E n \in Node : WriteRemote(n)
    BY <1>3, <2>2
  <2>3. ASSUME NEW n \in Node, WriteFails(n) \/ RollbackRemote(n)
        PROVE  Goes
    BY <1>4, <2>3
  <2>4. CASE RollbackLocal
    BY <1>5, <2>4 DEF RollbackLocal, Goto
  <2>5. ASSUME NEW n \in Node, SyncMissing(n) \/ RemoveRemote(n) \/ MakePool(n)
        PROVE  Goes
    BY <1>6, <2>5 DEF Keeps
  <2>6. CASE CreateMdLocal \/ \E n \in Node : CreateMdRemote(n)
    BY <1>7, <2>6
  <2>7. CASE UpLocal \/ \E n \in Node : UpRemote(n)
    BY <1>8, <2>7
  <2>8. CASE \/ DemoteVictim \/ ConnectDiscarding \/ RemoveLocal
             \/ PromoteFor("promote", "force") \/ PromoteFor("force", "failed")
    BY <1>9, <2>8, GoesOn
  <2>9. QED
    BY <1>1, <2>1, <2>2, <2>3, <2>4, <2>5, <2>6, <2>7, <2>8 DEF Handler

(* Only three actions touch the controller's own files: the others' loops   *)
(* visit the other nodes.                                                   *)
LEMMA ControllerFiles ==
  ASSUME Typed, Next
  PROVE  \/ conf'[c] = conf[c]
         \/ WriteLocal /\ conf' = Written(c)
         \/ conf' = Removed(c) /\ UNCHANGED live
<1>c. c \in Node /\ DOMAIN conf = Node
  BY ControllerAssumption DEF c, Typed, Tables
<1>1. CASE Request
  BY <1>1, RequestBegins
<1>2. CASE Abort
  BY <1>2 DEF Abort, Quiet, machine
<1>3. CASE Handler
  <2>1. CASE \/ ChooseStorage \/ VerifyReachable \/ CheckLocal \/ CheckRemote
             \/ ListNodes \/ CheckMkfs \/ Mkfs \/ ResolveTargets
    BY <2>1 DEF ChooseStorage, VerifyReachable, CheckLocal, CheckRemote, ListNodes, CheckMkfs, Mkfs,
       ResolveTargets, Quiet, machine
  <2>2. CASE WriteLocal \/ RollbackLocal \/ RemoveLocal
    BY <2>2 DEF WriteLocal, RollbackLocal, RemoveLocal
  <2>3. ASSUME NEW n \in Node, WriteRemote(n) \/ WriteFails(n) \/ SyncMissing(n) \/ RemoveRemote(n)
        PROVE  conf'[c] = conf[c]
    <3>1. n # c
      BY <2>3 DEF WriteRemote, WriteFails, SyncMissing, RemoveRemote, At, Typed, Control, Visiting, Remote
    <3>2. \/ conf' = conf \/ conf' = Written(n) \/ conf' = Removed(n)
          \/ conf' = [conf EXCEPT ![n] = Set(@, req.name, conf[c][req.name])]
      BY <2>3 DEF WriteRemote, WriteFails, SyncMissing, RemoveRemote
    <3>3. QED
      BY <1>c, <3>1, <3>2 DEF Written, Removed
  <2>4. ASSUME NEW n \in Node, RollbackRemote(n)
        PROVE  conf'[c] = conf[c] \/ (conf' = Removed(c) /\ UNCHANGED live)
    BY <1>c, <2>4 DEF RollbackRemote, Removed
  <2>5. ASSUME \/ DemoteVictim \/ ConnectDiscarding \/ CreateMdLocal \/ UpLocal
               \/ PromoteFor("promote", "force") \/ PromoteFor("force", "failed")
               \/ \E n \in Node : InitStorage(n) \/ CreateMdRemote(n) \/ UpRemote(n) \/ MakePool(n)
        PROVE  conf' = conf
    BY <2>5 DEF DemoteVictim, ConnectDiscarding, CreateMdLocal, UpLocal, PromoteFor, InitStorage,
       CreateMdRemote, UpRemote, MakePool
  <2>6. QED
    BY <1>3, <2>1, <2>2, <2>3, <2>4, <2>5 DEF Handler
<1>4. QED
  BY <1>1, <1>2, <1>3 DEF Next

(* The files of the controller: what a creation has drawn or checked there  *)
(* is still so when it writes its own, since nothing else writes meanwhile. *)
DrawnMinor ==
  pc \in Drawing /\ "scan" \notin lost => \A r \in DOMAIN conf[c] : conf[c][r].minor # req.minor
CheckedDevice ==
  pc \in {"remote", "write"} /\ c \in req.hosts /\ req.force = FALSE /\ "dump" \notin lost
    => \A r \in DOMAIN conf[c] : conf[c][r].dev # req.dev
FilesInv == MinorsUnique /\ DrawnMinor /\ DevicesApart /\ CheckedDevice

(* The entries of the controller after each kind of step.                   *)
LEMMA FewerFiles ==
  ASSUME FilesInv, DOMAIN conf'[c] \subseteq DOMAIN conf[c],
         \A r \in DOMAIN conf'[c] : conf'[c][r] = conf[c][r]
  PROVE  MinorsUnique' /\ DevicesApart'
BY DEF FilesInv, MinorsUnique, DevicesApart, c

LEMMA WriteLocalApart ==
  ASSUME Typed, FilesInv, WriteLocal, conf' = Written(c)
  PROVE  MinorsUnique' /\ DevicesApart'
<1>1. pc = "write" /\ IsCreate(req) /\ UNCHANGED live /\ c \in Node
  BY ControllerAssumption DEF WriteLocal, Typed, Control, Parameters, Creating, c
<1>2. /\ DOMAIN conf'[c] = DOMAIN conf[c] \cup {req.name}
      /\ conf'[c][req.name] = NewConf
      /\ \A s \in DOMAIN conf[c] \ {req.name} : conf'[c][s] = conf[c][s]
  BY <1>1, WrittenTables DEF Typed
<1>3. /\ NewConf.minor = req.minor /\ NewConf.dev = req.dev
      /\ NewConf.hosts = req.hosts /\ NewConf.forced = req.force
      /\ "scan" \in NewConf.lost <=> "scan" \in lost
      /\ "dump" \in NewConf.lost <=> "dump" \in lost
  BY DEF NewConf
<1>4. /\ "scan" \notin lost => \A r \in DOMAIN conf[c] : conf[c][r].minor # req.minor
      /\ c \in req.hosts /\ req.force = FALSE /\ "dump" \notin lost
           => \A r \in DOMAIN conf[c] : conf[c][r].dev # req.dev
  BY <1>1 DEF FilesInv, DrawnMinor, CheckedDevice, Drawing
<1>5. ASSUME NEW r \in DOMAIN conf'[c], NEW s \in DOMAIN conf'[c], r # s, conf'[c][r].minor = conf'[c][s].minor
      PROVE  "scan" \in conf'[c][r].lost \cup conf'[c][s].lost
  <2>1. CASE r # req.name /\ s # req.name
    BY <1>2, <1>5, <2>1 DEF FilesInv, MinorsUnique
  <2>2. CASE r = req.name \/ s = req.name
    <3>1. \E t \in DOMAIN conf[c] : conf[c][t].minor = req.minor
      BY <1>2, <1>3, <1>5, <2>2
    <3>2. QED
      BY <1>2, <1>3, <1>4, <2>2, <3>1
  <2>3. QED
    BY <2>1, <2>2
<1>6. MinorsUnique'
  BY <1>5 DEF MinorsUnique, c
<1>7. req.force \in BOOLEAN
  BY <1>1 DEF IsCreate, CreateReq
<1>8. ASSUME NEW r \in DOMAIN conf'[c], NEW s \in DOMAIN conf'[c], r # s, conf'[c][r].dev = conf'[c][s].dev,
             c \in conf'[c][r].hosts \cap conf'[c][s].hosts
      PROVE  \/ conf'[c][r].forced \/ conf'[c][s].forced
             \/ "dump" \in conf'[c][r].lost \cup conf'[c][s].lost
  <2>1. CASE r # req.name /\ s # req.name
    BY <1>2, <1>8, <2>1 DEF FilesInv, DevicesApart
  <2>2. CASE r = req.name \/ s = req.name
    <3>1. c \in req.hosts /\ \E t \in DOMAIN conf[c] : conf[c][t].dev = req.dev
      BY <1>2, <1>3, <1>8, <2>2
    <3>2. req.force = TRUE \/ "dump" \in lost
      BY <1>4, <1>7, <3>1
    <3>3. QED
      BY <1>2, <1>3, <2>2, <3>2
  <2>3. QED
    BY <2>1, <2>2
<1>9. DevicesApart'
  BY <1>8 DEF DevicesApart, c
<1>10. QED
  BY <1>6, <1>9

LEMMA FilesKept ==
  ASSUME Typed, FilesInv, Next
  PROVE  MinorsUnique' /\ DevicesApart'
<1>c. c \in Node
  BY ControllerAssumption DEF c
<1>1. CASE conf'[c] = conf[c]
  BY <1>1, FewerFiles
<1>2. CASE WriteLocal /\ conf' = Written(c)
  BY <1>2, WriteLocalApart
<1>3. CASE conf' = Removed(c) /\ UNCHANGED live
  <2>1. /\ DOMAIN conf'[c] = DOMAIN conf[c] \ {req.name}
        /\ \A s \in DOMAIN conf[c] \ {req.name} : conf'[c][s] = conf[c][s]
    BY <1>c, <1>3, RemovedTables DEF Typed
  <2>2. QED
    BY <2>1, FewerFiles
<1>4. QED
  BY <1>1, <1>2, <1>3, ControllerFiles

LEMMA DrawnMinorKept ==
  ASSUME Typed, FilesInv, UNCHANGED plan, Next
  PROVE  DrawnMinor'
<1> SUFFICES ASSUME pc' \in Drawing, "scan" \notin lost', NEW r \in DOMAIN conf'[c]
             PROVE  conf'[c][r].minor # req'.minor
  BY DEF DrawnMinor, c
<1>1. CASE Request
  <2>1. PICK rq \in plan.creates : CreateResource(rq)
    BY <1>1, RequestBegins DEF Drawing
  <2>2. plan \in Plans /\ pc' \in Running /\ conf' = conf
    BY <1>1, RequestBegins DEF Typed, Control, Drawing, Running
  <2>3. DeviceUnique(req'.minor)
    BY <2>1, <2>2, CreateTyped
  <2>4. QED
    BY <2>2, <2>3 DEF DeviceUnique, BeginsWith
<1>2. CASE Abort
  BY <1>2 DEF Abort, Goto, Drawing
<1>3. CASE Handler
  <2>1. pc \in Drawing /\ conf' = conf /\ lost \subseteq lost' /\ (pc' \in Kept => req' = req)
    BY <1>3, HandlerGoes
  <2>2. pc' \in Kept
    BY DEF Drawing, Kept, Running
  <2>3. QED
    BY <2>1, <2>2 DEF FilesInv, DrawnMinor
<1>4. QED
  BY <1>1, <1>2, <1>3 DEF Next

LEMMA CheckedDeviceKept ==
  ASSUME Typed, FilesInv, UNCHANGED plan, Next
  PROVE  CheckedDevice'
<1> SUFFICES ASSUME pc' \in {"remote", "write"}, c \in req'.hosts, req'.force = FALSE,
                    "dump" \notin lost', NEW r \in DOMAIN conf'[c]
             PROVE  conf'[c][r].dev # req'.dev
  BY DEF CheckedDevice, c
<1>1. Handler
  BY RequestBegins DEF Next, Abort, Goto
<1>2. req' = req /\ conf' = conf /\ lost \subseteq lost'
  BY <1>1, HandlerGoes DEF Drawing, Kept, Running
<1>3. CASE pc' = "remote"
  <2>1. CheckLocal
    BY <1>1, <1>3, HandlerGoes DEF Drawing
  <2>2. PICK seen \in Dumped(c, req.dev) : ~seen /\ Losing(Missed(c, req.dev, seen))
    BY <1>2, <1>3, <2>1 DEF CheckLocal, Goto
  <2>3. lost' = lost \cup Missed(c, req.dev, seen)
    BY <1>3, <2>2 DEF Losing, Kept, Running
  <2>4. ~Configured(c, req.dev)
    BY <2>2, <2>3 DEF Missed
  <2>5. QED
    BY <1>2, <2>4 DEF Configured
<1>4. CASE pc' = "write"
  <2>1. pc = "remote"
    BY <1>1, <1>4, HandlerGoes DEF Drawing
  <2>2. QED
    BY <1>2, <2>1 DEF FilesInv, CheckedDevice
<1>5. QED
  BY <1>3, <1>4

LEMMA FilesInvariant == Spec => []FilesInv
<1>1. Init => FilesInv
  BY ControllerAssumption DEF Init, FilesInv, MinorsUnique, DrawnMinor, DevicesApart,
     CheckedDevice, Drawing, c
<1>2. Typed /\ FilesInv /\ [Next]_vars => FilesInv'
  <2> SUFFICES ASSUME Typed, FilesInv, [Next]_vars PROVE FilesInv'
    OBVIOUS
  <2>1. CASE Next
    BY <2>1, FilesKept, DrawnMinorKept, CheckedDeviceKept DEF Next, FilesInv
  <2>2. CASE UNCHANGED vars
    BY <2>2 DEF vars, machine, handler, FilesInv, MinorsUnique, DrawnMinor,
       DevicesApart, CheckedDevice, c
  <2>3. QED
    BY <2>1, <2>2
<1>3. QED
  BY <1>1, <1>2, TypedInvariant, PTL DEF Spec

(* Two .res files of the controller claim one minor only if the scan by     *)
(* device failed for one of them: it refuses a minor that is taken, where   *)
(* the search for used minors finds none of the files that are written.     *)
THEOREM MinorsStayUnique == Spec => []MinorsUnique
<1>1. FilesInv => MinorsUnique
  BY DEF FilesInv
<1>2. QED
  BY <1>1, FilesInvariant, PTL

(* Two resources share a device of the controller only if the creation of   *)
(* one was forced, or its dump of the configuration failed.                 *)
THEOREM DevicesStayApart == Spec => []DevicesApart
<1>1. FilesInv => DevicesApart
  BY DEF FilesInv
<1>2. QED
  BY <1>1, FilesInvariant, PTL

---------------------------------------------------------------------------
(* A rollback has taken the file from every node it has visited.            *)
RolledBack ==
  /\ pc = "rollback" /\ "undo" \notin lost => \A n \in wrote \ todo : req.name \notin DOMAIN conf[n]
  /\ RollbackClean

LEMMA RolledBackKept ==
  ASSUME Typed, RolledBack, Next
  PROVE  RolledBack'
<1> DEFINE Visited1 == \A n \in wrote \ todo : req.name \notin DOMAIN conf[n]
<1>1. ASSUME pc' = "rollback", "undo" \notin lost'
      PROVE  \A n \in wrote' \ todo' : req'.name \notin DOMAIN conf'[n]
  <2>1. Handler
    BY <1>1, RequestBegins DEF Next, Abort, Goto
  <2>2. CASE \E n \in Node : WriteFails(n)
    BY <2>2 DEF WriteFails
  <2>3. ASSUME NEW m \in Node, RollbackRemote(m)
        PROVE  \A n \in wrote' \ todo' : req'.name \notin DOMAIN conf'[n]
    <3>1. /\ pc = "rollback" /\ todo' = todo \ {m} /\ UNCHANGED <<req, wrote, live>>
          /\ wrote \subseteq Node
      BY <2>3 DEF RollbackRemote, At, Typed, Control
    <3>2. "undo" \notin lost /\ conf' = Removed(m)
      BY <1>1, <2>3 DEF RollbackRemote, Typed, Control
    <3>3. Visited1
      BY <3>1, <3>2 DEF RolledBack
    <3>4. /\ DOMAIN conf'[m] = DOMAIN conf[m] \ {req.name}
          /\ \A n \in Node \ {m} : conf'[n] = conf[n]
      BY <3>1, <3>2, RemovedTables DEF Typed
    <3>5. QED
      BY <3>1, <3>3, <3>4
  <2>4. QED
    BY <1>1, <2>1, <2>2, <2>3, HandlerGoes
<1>2. ASSUME pc' = "undone", "undo" \notin lost'
      PROVE  \A n \in wrote' \cup {c} : req'.name \notin DOMAIN conf'[n]
  <2>1. Handler
    BY <1>2, RequestBegins DEF Next, Abort, Goto
  <2>2. /\ RollbackLocal /\ pc = "rollback" /\ todo = {} /\ UNCHANGED <<req, wrote, live>>
        /\ wrote \subseteq Node /\ c \in Node
    BY <1>2, <2>1, HandlerGoes, ControllerAssumption DEF RollbackLocal, Typed, Control, c
  <2>3. "undo" \notin lost /\ conf' = Removed(c)
    BY <1>2, <2>2 DEF RollbackLocal, Typed, Control
  <2>4. Visited1
    BY <2>2, <2>3 DEF RolledBack
  <2>5. /\ DOMAIN conf'[c] = DOMAIN conf[c] \ {req.name}
        /\ \A n \in Node \ {c} : conf'[n] = conf[n]
    BY <2>2, <2>3, RemovedTables DEF Typed
  <2>6. QED
    BY <2>2, <2>4, <2>5
<1>3. QED
  BY <1>1, <1>2 DEF RolledBack, RollbackClean, c

(* A creation that fails after its first file and loses no command of the   *)
(* rollback leaves its file on no node that had reported it written.        *)
THEOREM RollbacksAreClean == Spec => []RollbackClean
<1>1. Init => RolledBack
  BY DEF Init, RolledBack, RollbackClean
<1>2. Typed /\ RolledBack /\ [Next]_vars => RolledBack'
  <2>1. UNCHANGED vars /\ RolledBack => RolledBack'
    BY DEF vars, machine, handler, RolledBack, RollbackClean, c
  <2>2. QED
    BY <2>1, RolledBackKept
<1>3. RolledBack => RollbackClean
  BY DEF RolledBack
<1>4. QED
  BY <1>1, <1>2, <1>3, TypedInvariant, PTL DEF Spec

---------------------------------------------------------------------------
(* An initialisation that has warned of nobody has made metadata on every   *)
(* node it visited, and has it up there if it passed over no error.         *)
Marked(n) == req.name \in DOMAIN conf[n] /\ Contains(store[n], conf[n][req.name].dev) = "md"
IsUp(n)   == req.name \in DOMAIN live[n]
All       == {c} \cup Remote

Reached ==
  /\ pc = "mdRemote" /\ warned = FALSE => \A n \in All \ todo : Marked(n)
  /\ pc \in {"upLocal", "upRemote"} /\ warned = FALSE => \A n \in All : Marked(n)
  /\ pc = "upRemote" /\ warned = FALSE /\ "up" \notin lost => \A n \in All \ todo : IsUp(n)
  /\ pc = "initialized" => \A n \in All : Marked(n) /\ ("up" \notin lost => IsUp(n))

LEMMA PutContains ==
  ASSUME NEW s \in StorageState, NEW d \in Device
  PROVE  Contains(Put(s, d, "md"), d) = "md"
BY DEF Put, Contains, StorageState, Device

LEMMA MdMarks ==
  ASSUME Typed, NEW n \in Node, CanCreateMd(n, req.name), store' = WithMd(n, req.name),
         UNCHANGED <<conf, req>>
  PROVE  Marked(n)' /\ \A m \in Node \ {n} : Marked(m) => Marked(m)'
<1>1. req.name \in DOMAIN conf[n] /\ conf[n][req.name].dev \in Device
  BY DEF CanCreateMd, Usable, Typed, Tables, IsTable, ConfState
<1>2. /\ store'[n] = Put(store[n], conf[n][req.name].dev, "md")
      /\ \A m \in Node \ {n} : store'[m] = store[m]
  BY DEF WithMd, Typed, Stores
<1>3. Contains(store'[n], conf[n][req.name].dev) = "md"
  BY <1>1, <1>2, PutContains DEF Typed, Stores
<1>4. QED
  BY <1>1, <1>2, <1>3 DEF Marked

LEMMA ReachedByMetadata ==
  ASSUME Typed, Reached, UNCHANGED plan, CreateMdLocal \/ \E n \in Node : CreateMdRemote(n)
  PROVE  Reached'
<1>c. c \in Node /\ Remote \subseteq Node /\ c \notin Remote
  BY PlansAssumption, ControllerAssumption DEF Typed, Control, Remote, c
<1>1. CASE CreateMdLocal
  <2> SUFFICES ASSUME pc' \in {"mdRemote", "upLocal"}
               PROVE  Reached'
    BY <1>1 DEF CreateMdLocal, Start, Goto, Reached
  <2>1. UNCHANGED <<conf, req>> /\ CanCreateMd(c, req.name) /\ store' = WithMd(c, req.name)
    BY <1>1, GoesOn DEF CreateMdLocal, Goto, Kept, Running
  <2>2. Marked(c)'
    BY <1>c, <2>1, MdMarks
  <2>3. todo' = Remote /\ (pc' = "upLocal" => Remote = {})
    BY <1>1 DEF CreateMdLocal, Start, Goto
  <2>4. QED
    BY <2>2, <2>3 DEF Reached, All, Remote, c
<1>2. ASSUME NEW n \in Node, CreateMdRemote(n)
      PROVE  Reached'
  <2>1. /\ pc = "mdRemote" /\ n \in todo /\ UNCHANGED <<conf, req>>
        /\ \/ pc' = "mdRemote" /\ todo' = todo \ {n}
           \/ pc' = "upLocal" /\ todo = {n}
    BY <1>2 DEF CreateMdRemote, At, Visited
  <2>2. CASE warned' = TRUE
    BY <2>1, <2>2 DEF Reached
  <2>3. CASE /\ UNCHANGED warned
             /\ \/ CanCreateMd(n, req.name) /\ store' = WithMd(n, req.name)
                \/ HasMd(n, req.name) /\ UNCHANGED store
    <3>1. Marked(n)' /\ \A m \in Node \ {n} : Marked(m) => Marked(m)'
      BY <2>1, <2>3, MdMarks DEF HasMd, Usable, Marked
    <3>2. warned = FALSE => \A m \in All \ todo : Marked(m)
      BY <2>1 DEF Reached
    <3>3. warned' = FALSE => \A m \in All \ (todo \ {n}) : Marked(m)'
      BY <1>c, <2>3, <3>1, <3>2 DEF All
    <3>4. All' = All
      BY DEF All, Remote, c
    <3>5. QED
      BY <2>1, <3>3, <3>4 DEF Reached
  <2>4. QED
    BY <1>2, <2>2, <2>3 DEF CreateMdRemote
<1>3. QED
  BY <1>1, <1>2

LEMMA ReachedByUpLocal ==
  ASSUME Typed, Reached, UNCHANGED plan, UpLocal
  PROVE  Reached'
<1> SUFFICES ASSUME pc' \in {"upRemote", "initialized"}
             PROVE  Reached'
  BY DEF Reached, UpLocal, Start, Goto, InitAnswer
<1>1. /\ pc = "upLocal" /\ UNCHANGED <<store, conf, req, warned>> /\ c \in Node
      /\ req.name \in DOMAIN conf[c]
  BY GoesOn, ControllerAssumption DEF UpLocal, Kept, Running, Typed, Control, Parameters, Initializing, c
<1>2. IsUp(c)'
  BY <1>1, UpTables DEF UpLocal, Goto, Typed, IsUp
<1>3. /\ todo' = Remote
      /\ pc' = "initialized" => Remote = {} /\ warned = FALSE
  BY DEF UpLocal, Start, Goto, InitAnswer, Typed, Control
<1>4. warned = FALSE => \A n \in All : Marked(n)'
  BY <1>1 DEF Reached, Marked
<1>5. All' = All
  BY DEF All, Remote, c
<1>6. QED
  BY <1>1, <1>2, <1>3, <1>4, <1>5 DEF Reached, All

LEMMA ReachedByUpRemote ==
  ASSUME Typed, Reached, UNCHANGED plan, NEW n \in Node, UpRemote(n)
  PROVE  Reached'
<1>1. /\ pc = "upRemote" /\ n \in todo /\ UNCHANGED <<store, conf>>
      /\ c \in Node /\ Remote \subseteq Node /\ All' = All
  BY PlansAssumption, ControllerAssumption DEF UpRemote, At, Typed, Control, Remote, All, c
<1>2. ASSUME NEW x \in SUBSET Losses, Losing(x), Visited(InitAnswer(warned), n, {}),
             \/ CanUp(n, req.name) /\ live' = UpState(n, req.name)
             \/ UNCHANGED live /\ (IsUp(n) \/ "up" \in x)
      PROVE  Reached'
  <2> SUFFICES ASSUME pc' = "initialized" \/ (pc' = "upRemote" /\ warned' = FALSE)
               PROVE  Reached'
    BY <1>1, <1>2 DEF Reached, Visited, InitAnswer, Typed, Control
  <2>1. UNCHANGED <<req, warned>> /\ lost' = lost \cup x
    BY <1>2, LosesOn DEF Kept, Running
  <2>2. warned = FALSE
    BY <1>1, <1>2, <2>1 DEF Visited, InitAnswer, Typed, Control
  <2>3. \A m \in All : Marked(m)'
    BY <1>1, <2>1, <2>2 DEF Reached, Marked
  <2>4. ASSUME "up" \notin lost'
        PROVE  \A m \in All \ (todo \ {n}) : IsUp(m)'
    <3>1. \A m \in All \ todo : IsUp(m)
      BY <1>1, <2>1, <2>2, <2>4 DEF Reached
    <3>2. CASE CanUp(n, req.name) /\ live' = UpState(n, req.name)
      <4>1. req.name \in DOMAIN conf[n]
        BY <3>2 DEF CanUp, Usable
      <4>2. /\ DOMAIN live'[n] = DOMAIN live[n] \cup {req.name}
            /\ \A k \in Node \ {n} : live'[k] = live[k]
        BY <1>1, <3>2, <4>1, UpTables DEF Typed
      <4>3. QED
        BY <1>1, <2>1, <3>1, <4>2 DEF IsUp, All
    <3>3. CASE UNCHANGED live /\ IsUp(n)
      BY <2>1, <3>1, <3>3 DEF IsUp
    <3>4. QED
      BY <1>2, <2>1, <2>4, <3>2, <3>3
  <2>5. \/ pc' = "upRemote" /\ todo' = todo \ {n}
        \/ pc' = "initialized" /\ todo = {n}
    BY <1>1, <1>2 DEF Visited, InitAnswer
  <2>6. QED
    BY <1>1, <2>3, <2>4, <2>5 DEF Reached
<1>3. CASE Visited("degraded", n, {}) /\ IF pc' = "degraded" THEN Rest ELSE warned' = TRUE
  BY <1>1, <1>3 DEF Visited, Reached
<1>4. \/ Visited("degraded", n, {}) /\ IF pc' = "degraded" THEN Rest ELSE warned' = TRUE
      \/ \E x \in SUBSET Losses :
           /\ Losing(x) /\ Visited(InitAnswer(warned), n, {})
           /\ \/ CanUp(n, req.name) /\ live' = UpState(n, req.name)
              \/ UNCHANGED live /\ (IsUp(n) \/ "up" \in x)
  BY NoLoss DEF UpRemote, Rest, IsUp, Losses
<1>5. QED
  BY <1>2, <1>3, <1>4

(* An initialisation answered as complete left metadata on every node, and  *)
(* has the resource up there unless an error with "already" or "is          *)
(* configured" in it was passed over: no other failure of a peer is silent. *)
THEOREM InitReports == Spec => []InitReportsPeers
<1>1. Init => Reached
  BY DEF Init, Reached
<1>2. Typed /\ Reached /\ [Next]_vars => Reached'
  <2> SUFFICES ASSUME Typed, Reached, [Next]_vars PROVE Reached'
    OBVIOUS
  <2>1. CASE UNCHANGED vars
    BY <2>1 DEF vars, machine, handler, Reached, Marked, IsUp, All, Remote, c
  <2>2. CASE Next /\ pc' \in {"mdRemote", "upLocal", "upRemote", "initialized"}
    <3>1. Handler /\ UNCHANGED plan
      BY <2>2, RequestBegins DEF Next, Abort, Goto
    <3>2. \/ CreateMdLocal \/ UpLocal
          \/ \E n \in Node : CreateMdRemote(n) \/ UpRemote(n)
      BY <2>2, <3>1, HandlerGoes
    <3>3. QED
      BY <3>1, <3>2, ReachedByMetadata, ReachedByUpLocal, ReachedByUpRemote
  <2>3. CASE pc' \notin {"mdRemote", "upLocal", "upRemote", "initialized"}
    BY <2>3 DEF Reached
  <2>4. QED
    BY <2>1, <2>2, <2>3
<1>3. Reached => InitReportsPeers
  BY DEF Reached, InitReportsPeers, Marked, IsUp, All, Remote
<1>4. QED
  BY <1>1, <1>2, <1>3, TypedInvariant, PTL DEF Spec
=============================================================================
