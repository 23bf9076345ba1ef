------------------------------- MODULE Storage -------------------------------
(***************************************************************************)
(* The storage of one node as the LVM and ZFS commands of the repository   *)
(* leave it (lvm-utils, zfs-utils, drbd-ha/src/core/storage and            *)
(* drbd-ha/src/api/storage.rs).  An operator returns the set of results    *)
(* [ok, s] a command may have on the storage s: one pool of each kind, of  *)
(* the name the requests use, and one volume in each pool.                 *)
(***************************************************************************)
EXTENDS Naturals, FiniteSets, Sequences

CONSTANT Raw        \* the raw disks of a node

Kind    == {"lvm", "zfs"}
NoDisk  == "no disk"
ASSUME DisksAssumption == Raw \cap (Kind \cup {NoDisk}) = {}

Content == {"blank", "fs", "label", "md"}
(* Devices a resource can be put on: a disk, or the volume of a pool.       *)
Device  == Raw \cup Kind

StorageState ==
  [raw: [Raw -> Content], home: [Kind -> Raw \cup {NoDisk}],
   thin: BOOLEAN, vol: [Kind -> {"none", "blank", "fs", "md"}]]

BlankStorage ==
  [raw |-> [d \in Raw |-> "blank"], home |-> [k \in Kind |-> NoDisk],
   thin |-> FALSE, vol |-> [k \in Kind |-> "none"]]

Ok(s)   == [ok |-> TRUE, s |-> s]
Fail(s) == [ok |-> FALSE, s |-> s]

Contains(s, dev) == IF dev \in Raw THEN s.raw[dev] ELSE s.vol[dev]
Exists(s, dev)   == Contains(s, dev) # "none"
Put(s, dev, x)   == IF dev \in Raw THEN [s EXCEPT !.raw[dev] = x] ELSE [s EXCEPT !.vol[dev] = x]

(* The kernel keeps a disk open under a pool that has something active on   *)
(* it; a zpool always is.  held: devices that DRBD or a mount has open.     *)
Busy(s, held) ==
  (held \cap Raw)
  \cup {d \in Raw : d = s.home["lvm"] /\ (s.thin \/ s.vol["lvm"] # "none")}
  \cup {d \in Raw : d = s.home["zfs"]}

(* A disk is labelled anew: a pool that lived on it is gone.                *)
Labelled(s, d) ==
  [s EXCEPT !.raw[d] = "label",
            !.home = [k \in Kind |-> IF @[k] = d THEN NoDisk ELSE @[k]]]

---------------------------------------------------------------------------
(* pvcreate -y -ff takes any disk it can open, whatever is on it.           *)
PvCreate(s, d, held) ==
  IF d \in Busy(s, held) THEN {Fail(s)} ELSE {Ok(Labelled(s, d))}

VgCreate(s, d) ==
  IF s.home["lvm"] = NoDisk THEN {Ok([s EXCEPT !.home["lvm"] = d])} ELSE {Fail(s)}

CreateThinPool(s) ==
  {Fail(s)} \cup (IF s.home["lvm"] # NoDisk /\ ~s.thin THEN {Ok([s EXCEPT !.thin = TRUE])} ELSE {})

(* A thin volume needs its thin pool.                                       *)
CreateThinVolume(s) ==
  {Fail(s)} \cup
  (IF s.home["lvm"] # NoDisk /\ s.thin /\ s.vol["lvm"] = "none"
   THEN {Ok([s EXCEPT !.vol["lvm"] = "blank"])} ELSE {})

CreateThickVolume(s) ==
  {Fail(s)} \cup (IF s.home["lvm"] # NoDisk /\ s.vol["lvm"] = "none"
                  THEN {Ok([s EXCEPT !.vol["lvm"] = "blank"])} ELSE {})

(* zpool create -f: like pvcreate it takes any disk it can open.            *)
ZpoolCreate(s, d, held) ==
  IF s.home["zfs"] # NoDisk \/ d \in Busy(s, held) THEN {Fail(s)}
  ELSE {Ok([Labelled(s, d) EXCEPT !.home["zfs"] = d])}

ZfsCreateVolume(s) ==
  {Fail(s)} \cup (IF s.home["zfs"] # NoDisk /\ s.vol["zfs"] = "none"
                  THEN {Ok([s EXCEPT !.vol["zfs"] = "blank"])} ELSE {})

(* cmd1 && cmd2: the second runs on what the first left, if it succeeded.   *)
AndThen(first, second(_)) ==
  UNION {IF o.ok THEN second(o.s) ELSE {o} : o \in first}

---------------------------------------------------------------------------
(* LvmProvider and ZfsProvider.  The LVM provider puts its volumes in a     *)
(* thin pool that nobody creates.  The ZFS provider keeps a pool or volume  *)
(* that exists, and takes a command that ran for one that succeeded.        *)
LvmInitPool(s, d, held) == AndThen(PvCreate(s, d, held), LAMBDA t : VgCreate(t, d))

ZfsInitPool(s, d, held) ==
  IF s.home["zfs"] # NoDisk THEN {Ok(s)} ELSE ZpoolCreate(s, d, held)

InitPool(k, s, d, held) ==
  IF k = "lvm" THEN LvmInitPool(s, d, held) ELSE ZfsInitPool(s, d, held)

LvmCreateVolume(s) == CreateThinVolume(s)

ZfsProviderVolume(s) ==
  IF s.home["zfs"] = NoDisk THEN {Fail(s)}
  ELSE IF s.vol["zfs"] # "none" THEN {Ok(s)}
  ELSE {Ok(o.s) : o \in ZfsCreateVolume(s)}

CreateVolume(k, s) == IF k = "lvm" THEN LvmCreateVolume(s) ELSE ZfsProviderVolume(s)

(* get_vg_info, get_pool_info: found, or not found.                         *)
PoolExists(k, s) == s.home[k] # NoDisk

(* The two command chains create_resource runs itself.                      *)
LvmChain(s, d, held) ==
  AndThen(LvmInitPool(s, d, held), LAMBDA t : AndThen(CreateThinPool(t), CreateThinVolume))

ZfsChain(s, d, held) ==
  AndThen(IF PoolExists("zfs", s) THEN {Ok(s)} ELSE ZpoolCreate(s, d, held), ZfsCreateVolume)

InitChain(k, s, d, held) == IF k = "lvm" THEN LvmChain(s, d, held) ELSE ZfsChain(s, d, held)

(* detect_pool_kind_on_node without a requested kind: exactly one must be.  *)
DetectedKinds(s) == {k \in Kind : PoolExists(k, s)}

============================================================================
