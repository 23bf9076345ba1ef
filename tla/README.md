# DRBD-HA: a TLA+ verification project

DRBD-HA is a management server for small DRBD clusters: it creates replicated
resources, writes the `drbd-reactor` promoter files that fail a mount and its
services over, and activates, deactivates and deletes these *HA profiles*. This
directory holds TLA+ models of its handlers, TLC configurations that check them
on small clusters, and TLAPS proofs. Paths below are relative to the repository.

## 1. Inventory

The server has few variables of its own. Nearly all state is on the nodes (DRBD,
mounts, systemd units, files), and a request is a chain of shell commands with an
`await` at each: the cluster is free to change between any two. No handler takes a
lock, no command's effect is recorded, and there is no recovery at start-up.

| Component | State it keeps | Operations | Interacts with | Hard behaviour | What makes it correct |
|---|---|---|---|---|---|
| profile control, `drbd-ha/src/api/ha/control.rs` | none; `/var/lib/drbd-ha/RES.activated` | activate, deactivate | DRBD and systemd on the controller, reactors everywhere | failover during the request, status read once and used later, forced promotion, mkfs | no data destroyed, no fork of the data, an answer |
| profile deletion, `.../ha/delete.rs` | none | delete | all nodes, phase by phase | reactors still armed, nodes not reached, order of wipe and removal | never two writers, nothing left behind, only what was asked |
| profile creation, `.../ha/create.rs` | none | create | storage and DRBD on all nodes, migration, synchronisation, reactors | one node failing after the others; no rollback; a retry after any of it | reactors get a whole resource; the setup is undone; an answer |
| profile files, `.../ha/ops.rs`, `toml_edit.rs`, `toml_parse.rs`, `vip.rs`, `core/cluster_sync.rs` | promoter files on each node; in the browser, the start array that is being edited | enable, disable, evict, edit, sync | reactors, node registry | partial failure, concurrent edits, readers that are no TOML parsers | no text of another origin on the nodes; an edit keeps the rest; what is reported synced is |
| profile status, `.../ha/list.rs` | none | list, details | reactors and DRBD of all nodes, one after another | a failover or a switch between two looks, lost looks | an active node that was one; a steady cluster told as it is |
| transaction manager, `core/transaction.rs` | one transaction: state, results | execute, rollback | shell or SSH | failing operations and failing rollbacks | rollback compensates, in reverse order |
| node registry, `core/store.rs`, `api/cluster.rs` | `nodes.toml` | list/import, add, update, delete, check | every handler reads it | unlocked read-modify-write, truncate-then-write, SSH check in the middle | no lost, duplicated or resurrected node |
| controller target, `state.rs`, `core/shell_cmd.rs` | process-wide command proxy | refresh | node registry | changes while a request runs | one request, one controller |
| DRBD resources, `api/resource.rs` | `.res` files on each node | create, init, action, split-brain recovery, delete | storage and DRBD on all nodes | half-created and half-deleted resources, files missing or stale on single nodes | a rollback is complete, devices and minors are not shared, an incomplete init is told |
| pools and volumes, `api/storage.rs`, `core/storage`, `lvm-utils`, `zfs-utils` | none; LVM and ZFS on each node | create, list, resize, remove | creation of resources and profiles | chains of commands of which one fails | nobody's disk is taken |
| data migration, `drbd-migration` | none | migrate | systemd, DRBD | an error after the services were stopped, stops that are queued and not waited for | a created profile has the data; the copy should be of a source at rest (it need not be, see 3) |
| minor and port allocation, `.../ha/utils.rs` | none | find free minor, port | `.res` files | check-then-use, end of the range | unique numbers |
| reactor reload and import, `.../ha/reactor.rs` | none | reload, discover, import | reactors | unreachable nodes | each reachable node reloads |
| dashboards, metrics, events, MCP, UI, generators | none that is read back | reads, single commands, rendering | the above | | |

`PROJECT.json` lists every component with its sources and status, and, under
`hazards`, each place where the code is exposed to one of these behaviours, with
the properties that cover it or the plan to cover it.

## 2. Modules

| Module | Models | State and actions |
|---|---|---|
| `DrbdCluster` | the outside world the handlers act on, from how they use it | per node a record: resource up, StandAlone, connections established (`joined`), role, backing disk, lineage of its data, filesystem, mount, service stack, running and boot-enabled service, promoter file, armed reactor; steps of drbd-reactor, handshake, resynchronisation, network, node failures; the meaning of each command |
| `ActivateProfile` | `activate_profile` | `pc` is the next command; `looks` the counter of its two waiting loops; `status`, `device` the locals kept across awaits; one action per command with every outcome it can have; `faults`, `events`: what has gone wrong around it |
| `DeactivateProfile` | `deactivate_profile` | the same, with `attempt`, the attempts to unmount, and `busy` for holders of a lazily unmounted filesystem |
| `DeleteProfile` | `delete_profile` | `pc` is the phase, `todo` the nodes it has not visited, `res` the nodes with a `.res` file |
| `Transaction` | `Transaction::execute`, `rollback` | `executed` is the vector of results, `undo` the rollback's position in it, `effect` what each operation left on its node |
| `NodeRegistry` | `NodeStore` and the requests of `cluster.rs`, `ensure_node_in_store` | `file` is `nodes.toml` (parses or not, and the list), per request the node or list it holds across an await; an import leaves out `.res` files it cannot read, any of them |
| `Storage` | LVM and ZFS on one node (`core/storage`, `lvm-utils`, `zfs-utils`, `create_resource`'s own chains) | what each raw disk and volume contains and where the pools are; an operator per command gives the set of results it may have, `AndThen` is the shell's `&&` |
| `Resources` | the requests of `api/resource.rs` and the pool requests of `storage.rs` | per node storage, `.res` files (`conf`) and what the kernel has up (`live`); of the request `pc`, the nodes its loop has left (`todo`), `written_hosts` (`wrote`), `peer_warnings` (`warned`), and which failures it has passed over (`lost`) |
| `CreateProfile` | `create_profile`, and `migrate` of `drbd-migration` | the cluster of `DrbdCluster`, the storage of each node, the minor in its `.res` file and in its kernel, the stop job systemd has queued (`stopping`); of the request `pc`, `todo`, and the flags the code keeps across steps |
| `PromoterFile` | the text of a promoter file, as far as its writers and its readers tell texts apart | the items of the start array, on one line or on many; rendering, parsing a profile back, listing the array, replacing it, and the beginnings a reader sees while one is written |
| `ProfileFiles` | `vip.rs`, `toml_edit.rs`, `toml_parse.rs`, `ops.rs`, `list.rs`, `cluster_sync.rs`, and the editor of the user interface | `toml`, `dis` (the `.disabled` file) and `loaded` per node, the reload that systemd has queued, who serves; of each client `pc`, the text its request holds, its answer so far; writing the controller's file is two steps, and so are writing a peer's and reloading it |
| `PublishedTexts` | the abstract specification of `ProfileFiles` | the texts that somebody wrote to the controller's file, the texts each node has, whole or begun |
| `ActivateProfileProofs`, `DeactivateProfileProofs`, `DeleteProfileProofs`, `TransactionProofs`, `ProfileFilesProofs`, `ResourcesProofs`, `CreateProfileProofs`, `NodeRegistryProofs` | theorems and lemmas about the modules whose names they have | |
| `MC...` | the requests, plans and symmetry TLC is given | |

`ActivateProfile`, `DeactivateProfile`, `DeleteProfile` and `CreateProfile` extend
`DrbdCluster`; `CreateProfile` and `Resources` extend `Storage`; `ProfileFiles` extends
`PromoterFile` and instantiates `PublishedTexts`. A step is a command of the request, a client's new request, or a step of the outside.
Results that the code only logs become two outcomes of which both go on; a `?` is
an outcome that ends in `failed`; an early return is an outcome with its own
terminal value of `pc`.

Assumptions about the outside (`DrbdCluster`), each read off the handlers' commands:

* `drbdadm status` prints the local node and its connected peers, and the handlers
  search its whole text; hence `ShowsRole` and not the node's own role.
* A plain promotion needs no connected Primary, reachable UpToDate data and quorum.
  The quorum rule comes from the template in `config-gen/src/lib.rs`
  (`quorum majority; on-no-quorum io-error`). A forced promotion makes the local
  disk current whatever it holds.
* `drbdadm up` and `drbdadm connect` return before the peers have answered; until the handshake a node
  sees no peer, and DRBD decides by the local disk alone. A node that meets another Primary or
  current data of another lineage turns StandAlone.
* An armed reactor promotes a Secondary when DRBD lets it, starts its stack once,
  and stops it on loss of quorum. `reload` arms what it finds and drops what is gone.
* A command on another node has its effect, fails, or is lost on the way (`Lost`).
* `drbdadm` refuses everything while two `.res` files claim one minor; the kernel refuses a
  minor that is taken, with "already exists" in what it says; `create-md --force` writes to
  every device it can open. LVM and ZFS keep a disk open while a pool of theirs is active on it.
* A write or removal of a file over SSH that fails may have taken effect before it did.
* `tokio::fs::write` and `cat >` over SSH empty a file and then fill it, so a reader, or a crash, may
  find an empty or cut text. In external mode the controller's file is a temporary file in `/tmp`
  that `mv` renames or, from another filesystem, copies (`ssh-cmd/src/lib.rs`). Two writes at the very same
  moment are done one after the other.
* systemd's `StopUnit` and `ReloadUnit` queue a job and return (`systemd-utils/src/client.rs`).

The bounds are 2 or 3 nodes, the sizes the README of the tool names; one profile,
and in the activation runs, where `Faults` has "foreign", one other resource; a single
service per profile, since the code treats them in a loop and no property tells them
apart. One controller serves a request. Handlers' inputs are the profiles create can
leave behind; all nodes are in the registry when a profile is deleted. Wording, progress
events, notifications, mount unit and override files are left out. `Abort` in the modules
of whole requests is the future that axum drops, or a server that stops: the request is over
and what it did stays.

## 3. Runs

Passing runs (each property has a mutant in `PROJECT.json` that breaks it):

| Run | Bounds | Shows |
|---|---|---|
| `ActivateProfile` | 3 nodes, every start state of `StartStates`, `MaxFaults` = 1: one partition, node failure, other resource with minor 0 or controller that is not connected yet, at any step; `MaxLooks` = 2 looks of a waiting loop | `NeverFormatsData`: blkid, role check and marker protect the profile's data as long as nothing fails and the controller is connected, and another resource's as long as it does not have minor 0; `RequestAnswered`: the waiting loops end |
| `DeactivateFailover` | 3 nodes, peers restart | `AnswerTellsFile`: what the answer says of the promoter file is so, and nothing that can fail the request comes after its removal; `RequestAnswered`: the attempts to unmount end |
| `DeleteLossy` | 3 nodes, commands lost, profile disabled or served, symmetry of the other nodes | `CleanDelete`: order of the phases and completeness on every node; `SingleWriter` |
| `TransactionMixed` | 5 operations of all kinds | `CommittedComplete`, `RolledBackClean`, `UndoesInReverse`, `Ends`, and the inductive invariant `IInv` |
| `RegistrySequential` | 2 hosts, 3 addresses, 2 drawn ids, one host with two addresses in `.res` files, any of them unreadable at any time, one request at a time, restarts | `AddedDistinct`, `KeepsAdded` (unless an evict or enable may take the address), `DeletedStaysDeleted` (unless a `.res` file or a later evict or enable names the host), `ListDeduplicates` |
| `CreateProfile` | 2 nodes, `MaxRequests` = 2; three kinds of creation (a volume of an LVM pool with a set-up filesystem; two migrations, formatting or not), in any order, each failing, dropped or repeated anywhere; a minor 0 taken by another resource; `MaxTurns` = 2 polls of the synchronisation; reactors at work, the network failing, services that stop late | `ReactorsGetWholeResource`, `MigrationFaithful`, `SetupUndone`, `RequestAnswered` |
| `Resources` | 2 resources, one raw disk per node and a pool of each kind; 2 nodes with 7 creations (a drawn minor, a given one, forced or not, on one host or both) and every other operation, and 3 nodes with 2 creations and init, so that a rollback and a degraded init have peers behind them; one request after another, each failing anywhere, checks unanswered | `MinorsUnique` unless a scan failed, `DevicesApart` unless forced or a dump failed, `RollbackClean`, `InitReportsPeers` unless an "already" was passed over, `PoolsSpareResources` unless the dump failed |
| `ProfileFiles` | 3 nodes, 2 clients, 6 plans of 2 or 3 requests of both, commands lost, files read while they are written, a failover, and in the last plan three sets of start states; the server on the controller or elsewhere | `Published` (the refinement), `SyncedHold`, `EditKeepsRest`, `SteadyStatus`, `ActiveWasPrimary` |

Three nodes are enough for the cluster's properties: a node, the one it works
against, and one that decides the majority. Five operations let a critical failure
come after two operations to undo with others between them. In the registry two drawn
ids let two additions clash, the third address makes a node that no `.res` file speaks
of, and two addresses of one host let the import replace what it has found. A second host in the
`.res` files takes the run past five minutes; `ListsDeduplicate` is proved for any number of them.
Two looks make a waiting loop one that goes round, which is all that its end depends on; one
fault is enough to break each of the promises that `NeverFormatsData` makes on condition.

One request after another is enough for the resource and creation runs because their
hazards are what a request that failed left for the next one; two at a time draw the same
minor without any model. Minors are few: one that is taken, one that is free, one that a
client names. `ProfileFiles` does interleave: its plans give each client the requests
that read, write or send the same files as the other's, and the number of requests each
may send. More than two clients add interleavings of the same pairs. The texts are a file
as creation renders it, with an agent whose parameter holds a bracket (the one value that
the array parser cuts), and one that a client puts with another order; and the
beginnings of both.

Ghost variables say which promises apply. `faults`: what has failed around an activation; `wiped`:
the devices that mkfs destroyed data on. `tidy`: the profile to delete was disabled and no
command was lost; in `CreateProfile`, no command that undoes something was lost. `lost`: the failed
checks and commands that a resource request passed over (a device scan, a dump, an "already" of `up`,
a step of the rollback). `cut`: a restart came between truncation and write. `deleted`: the ids whose
deletion was answered. `published`: the texts that were written to the controller's file. `calm`:
no other request has changed a file while this one ran, and no command of its own was lost.
`was`: who served the profile while this request ran.

A promise is made on such a condition only where the code breaks it otherwise, and the hazards and
the list below say how. Deadlock checking is on except for `TransactionMixed` and
`ProfileFiles`, where the transaction and the clients' plans end.

Runs that end in a violation are disagreements of code and documentation; each is a
`finding` in `PROJECT.json` with the quoted line. In short:

* `ActivateFailoverFormat`: blkid on an unreadable Secondary finds nothing, a peer is
  Primary so this node "should be active", the peer fails over, mkfs runs.
* `ActivateEarlyForce`: on a healthy network the controller's resource is just coming up; nothing waits
  for the handshake, the plain promotion is refused for want of UpToDate data, and the forced
  one makes stale data current: the peers' data and the controller's have parted.
* `RegistryLostUpdate`: unlocked rewriting loses a node that was added.
* `ResourceInit`: a peer whose kernel refuses the resource's minor says "already exists", which
  `init_resource` takes for "already up" and leaves out of its warnings.

Also seen while modelling, and not given a run because one step or one reading of
the code already decides them, or because a run above has the same cause. In activation,
deactivation, deletion and the registry:

* `control.rs:618`: `role:Primary` of a peer is taken for the local role ("This node is
  already Primary", `:619`); it is the first half of `ActivateFailoverFormat`.
* `control.rs:263`: the nodes with the current data are down or cut off, "Need access to
  UpToDate data" is taken for a fresh resource and the promotion is forced: the data forks, as in
  `ActivateEarlyForce`.
* `control.rs`: `/dev/drbd0` is tried first for a resource name that is no number, and
  another resource's filesystem is mounted.
* `control.rs:1158`: the reactor can start the service again between demotion and reload,
  and the answer still says the profile is on standby.
* `delete.rs`: `delete_resource` of the query is not read (`_query`): the resource always goes.
* `control.rs:40`: a profile written as `.toml.disabled` cannot be activated, though
  `skills/drbd-ha-ops/references/create-ha-service.md:46` says so.
* `control.rs:824`: activation enables services at boot, against `README.md:228`.
* `control.rs:1274`: a complete deactivation answers 404, it looks for the file it removed, where
  `control.rs:935` documents 200 and 404 for a profile that is not there. `AnswerTellsFile` says what
  each answer is worth.
* `delete.rs:88`, `:321`: the unmount "on the active node only" always runs on the controller. The
  active node keeps its mount, DRBD refuses to demote it and to take it down, and the chain goes on.
* `delete.rs:691`: a node that was not reached keeps its promoter file and the answer is 204.
* `store.rs:124`, `cluster.rs:282`: a restart between truncation and write empties the list
  (`KeepsAdded` excludes it with `cut`). With two requests at once one host is added twice
  (`cluster.rs:349`), and a status check inserts what it read before its SSH check: a node that was
  deleted or updated meanwhile comes back as it was (`:699`).
* `cluster.rs:282`: a deleted node that a `.res` file names is imported again by the next list.
* `cluster.rs:138`: a node that is two entries of the list already (by name the one, by address the
  other) replaces the first of them only. When a `.res` file names a host with another host's
  address, the import leaves both, and the list has two entries for one address, against
  `cluster.rs:286`; `RegistrySequential` gives one host two addresses, but no two hosts the same.
* `ops.rs:22`: `ensure_node_in_store` looks for the host's name only and writes by id. Where the name
  resolves to the address of an added node, it may overwrite a renamed node that is listed before the
  added one; the next import then finds two nodes at that address and drops the added one.
  `KeepsAdded` therefore promises nodes to whose address no other host's name resolves (`Free`).
* `cluster.rs:217`: a stored node with one host's name and another's address makes the
  import drop a configured host.

In creation, resources and storage:

* `create.rs:102`: only `NAME.toml` is looked for, and a look that was lost counts as "not
  there"; a profile created disabled and created again has both files.
* `create.rs:775`: without a migration the promotion is not forced, fails on a fresh resource
  and is not checked; nor are mkfs and mount after it. The device name is cut from text
  that says "minor N". The data of the services is copied from the server's own disk
  (`core/service_init.rs`) to a directory that nothing is mounted on.
* `resource.rs:553`: a creation that is dropped after the controller's file was written leaves no
  trace on the peers. A later creation that is only hosted by a peer passes its check there, and
  the two claim one disk (`DevicesApart` promises the controller's devices only).
* `drbd-migration/src/lib.rs`: an error after the services were stopped leaves them stopped,
  the resource Primary, and sometimes the temporary mount.
* `drbd-migration/src/lib.rs:166`: a stop only queues a job with systemd, a unit that is not exactly
  "active" is skipped, and after the second round nobody looks: rsync may copy under a service that is
  still writing, against the "proper service shutdown" of the file's header. `MigrationFaithful` is
  about the copy and not about what such a service wrote.
* `create.rs:834`: a setup that fails, or is dropped with its connection, leaves the new resource Primary;
  `SetupUndone` is about one that goes on. Exit codes of `create-md` and `up` are not looked at, so a
  reactor may get a resource that has no metadata or is not up on a node.
* `validator.rs:208`: a device scan that fails is logged, and the minor counts as free; the search by
  minor in the files finds nothing (`drbd-utils/src/parser.rs:145`), so nothing else guards it. `safety.rs:193`: so
  does a disk when `drbdadm dump all` fails, as it does while two files claim a minor.
* `resource.rs:300`: a creation with its pool runs `pvcreate` before any check, and takes the disk of a
  resource that is not up.
* `resource.rs:740`: the node whose write failed is not rolled back, and keeps its file if the write
  took effect.
* `resource.rs:1286`: any error with "already" or "is configured" in it is passed over, an address in use
  too; `InitReportsPeers` leaves out what was passed over. `resource.rs:952`: a look for the file that fails is
  answered with 404.
* `create.rs:150`: a retry draws a new minor, and the kernel keeps the resource on the old one.
  A listing that was lost counts as a node without resources (`utils.rs:123`).
* `utils.rs:178`: the search for a free port runs past 65535.
* In the Filesystem agent of a generated file the device carries the whole line it was cut from.

In the files of a profile:

* `vip.rs`: an address change renders the file anew from what it could parse: the mount unit,
  other agents and the advanced settings are gone, and of an array on one line (which the
  editor writes) the services too. `EditKeepsRest` therefore promises services of
  arrays on many lines only.
* `toml_parse.rs:476`: an array on many lines ends at the first `]`, also inside a string;
  the editor's save then drops the services behind it.
* `state.rs:257`: the server's own write empties the file and fills it. A synchronisation that reads
  meanwhile, or after a write that failed half way, sends the empty or cut text to every node and
  reloads it. `Published` says no more than that every text comes from a write to the controller's file.
* `vip.rs:60`, `toml_edit.rs:335`: an edit reads the file, works on the text and writes it: of two
  edits that overlap one is lost. `EditKeepsRest` is about edits that nobody disturbs.
* `toml_edit.rs:205`: with the server outside the cluster a synchronisation writes the text it
  has read back to the controller, over a `PUT` that came in between. That text was published,
  so `Published` holds.
* `toml_edit.rs:220`, `:394`: the reload is a job queued on the server's own machine, which outside the
  cluster is no node of it; nothing waits for it or looks at its result.
* `cluster_sync.rs`, `toml_edit.rs`, `vip.rs`: a text is written to `NAME.toml` on a node where
  the profile was disabled, next to the old `.disabled` file. The status shows such a node
  as disabled, and enabling it renames the old text over the new one.
* `toml_edit.rs:488`: the reload on the other nodes has its arguments in the wrong order
  (`systemd-utils/src/remote.rs:211`), so they keep the old array; `SyncedHold` promises
  `loaded` for the other edits only.
* `ops.rs:287`: enable and disable look at the server's own disk: 404 from outside the cluster.
* `list.rs`: a disable between the looks at the two files is answered with "not found"; after
  a failover between two looks the node list may have one node twice and miss another; the
  list of profiles may have one twice. `DrbdReactorClient::status` never returns an error, so the
  branch for one is dead.

Fairness. `WF_vars(Handler)` (in `Transaction` `Work`) says that the tokio runtime keeps polling a
request that was started: its next command returns. Commands have no time limit in the code, so this
assumes that `drbdadm`, SSH and `systemctl` come back. Nothing is assumed of clients, reactors, the
network, systemd's jobs or failing nodes. It is assumed where the code goes round a loop that the world
can keep from succeeding, which its own counter must end: the waits of an activation (30 and 300 looks,
`MaxLooks`), the three attempts to unmount, the wait after a migration (`MaxTurns`), and the loops
of a transaction. The other modules state no liveness: their requests are chains and walks
over a finite list, which end whatever the code does.

## 4. Proofs

TLAPS proves, for every value of the constants:

| Module | Theorem | States | Strengthening |
|---|---|---|---|
| `TransactionProofs` | `RollbackCompensates`, `CommitIsComplete`, `ReverseOrder` | `RolledBackClean`, `CommittedComplete`, `UndoesInReverse` | `IInv` |
| `ActivateProfileProofs` | `TypeCorrect` | `TypeOK` | |
| | `ActivationInvariant`, `NeverFormats` | `NeverFormatsData` | `IInv` |
| `DeactivateProfileProofs` | `TypeCorrect`, `AnswersTell` | `TypeOK`, `AnswerTellsFile` | `FileKept` |
| `DeleteProfileProofs` | `TypeCorrect`, `OneWriter` | `TypeOK`, `SingleWriter` | `Exclusive` |
| | `DeletesClean` | `CleanDelete` | `CleanInv` |
| `ResourcesProofs` | `TypedInvariant`, `TypeCorrect`, `PoolsSpare` | `TypeOK`, `PoolsSpareResources` | `Typed` |
| | `MinorsStayUnique`, `DevicesStayApart` | `MinorsUnique`, `DevicesApart` | `FilesInv` |
| | `RollbacksAreClean`, `InitReports` | `RollbackClean`, `InitReportsPeers` | `RolledBack`, `Reached` |
| `CreateProfileProofs` | `TypedInvariant`, `TypeCorrect` | `TypeOK` | `Typed` |
| | `WholeResource`, `MigrationIsFaithful` | `ReactorsGetWholeResource`, `MigrationFaithful` | `Configured`, `Faithful` |
| | `SetupIsUndone` | `SetupUndone` | `Undone` |
| `ProfileFilesProofs` | `FilesInvariant`, `TextsArePublished` | `Published` (the refinement) | `FInv` |
| | `ActiveServed`, `ReportedAreSynced` | `ActiveWasPrimary`, `SyncedHold` | `SeenInv`, `SendInv` |
| | `StatusIsRight`, `FilesAreTyped`, `EditsKeepTheRest` | `SteadyStatus`, `TypeOK`, `EditKeepsRest` | `SteadyInv`, `TypeInv`, `KeepInv` |
| `NodeRegistryProofs` | `RegistryTyped` | `TypeOK` | `TypeInv` |
| | `ListsDeduplicate` (`Settled`) | `ListDeduplicates` | `ListsApart` |
| | `DeletedStays` (`Sequential`) | `DeletedStaysDeleted` | `ForgetInv` |
| | `AddedStayApart` (`Settled`, `Sequential`) | `AddedDistinct` | `SoundInv` |
| | `AddedAreKept` (`Settled`, `Sequential`) | `KeepsAdded` | `SoundInv` |

Every invariant below was given to TLC on the runs' instances before it was proved.

* Transactions. `RolledBackClean` is not inductive: it speaks of the end only. `IInv` adds where
  the rollback is (`UndoPlace`), that operations beyond the last result are untouched
  (`Untouched`), that a critical failure is the last result (`FailuresAllowed`), that what
  succeeded still stands below the rollback's position (`SuccessStands`) and is compensated
  above it (`Compensated`).
* Activation. `NeverFormatsData` is true of the profile's data only while `faults` holds at most
  "foreign": with a failover between two commands it is false (`ActivateFailoverFormat`), and before the
  handshake a forced promotion may make a disk current that never had the data (`ActivateEarlyForce`).
  While it holds, `Safe` says where current data is (`Data`: on the controller or in reach of it, of one lineage, and
  formatted everywhere if anywhere), who may be Primary (`Primaries`), that every node that is up and
  not StandAlone is connected (`Good`), and what the request has seen (`Places`). The last part of it
  is the argument about mkfs: a device on which blkid missed the filesystem is one the controller could
  not use, since it lacked quorum or a peer was Primary (`Unserved`), and no reactor changes that before
  mkfs, which then fails. Most steps leave data and connections alone (`HealthStays`,
  `UntouchedIsHealthy`); promotions, the skipped and the finished synchronisation and mkfs have a lemma
  each. More nodes in reach never cost a quorum (`PeersStay`). For another resource's data `Alone` is
  enough: without one at minor 0 no candidate path leads to it. That what has gone wrong stays in
  `faults` (`FaultsGrow`) joins the two halves in `IInv`, which is proved for every `Faults`.
* Deactivation. No step but the removal touches the controller's file, whatever reactors, restarts and a
  reload do, and no command can fail the request after it: `FileKept` lists the places where the file is
  in place, those after the removal, and what the three answers mean.
* Deletion. `Exclusive`: two connected nodes are never both Primary. Every step but a reactor's
  promotion turns a node into a `Weaker` one (no new Primary, no new connection), one lemma per
  command; the promotion needs `~PeerIsPrimary`. `QuorumConnects`: of two disjoint groups of peers
  one has no majority, so two nodes with quorum are connected, by the cardinality theorems.
  `CleanInv` says what each phase has made true of the nodes it has visited (down, wiped, without
  `.res` file, without promoter file), and that it stays true: a node that is `Unserved` is brought
  up by nobody. A node without a `.res` file has been wiped by a request before, or it would keep
  its metadata for ever.
* Resources. `Typed` says, besides the types, which parameters a request has while it runs (a
  creation's hosts are members, an initialised resource is in the controller's file) and that no
  volume stands without its pool (`Founded`; the lemmas at the start of `ResourcesProofs` go through the storage commands). On it
  rest three invariants. `FilesInv`: the minors of the controller's files are distinct and their devices
  apart, but for those whose creation noted a failed scan or dump, and so is what a request has drawn
  (`DrawnMinor`) or checked (`CheckedDevice`) and not written yet, since nothing else writes meanwhile.
  `RolledBack`: unless a command of the rollback failed, its loop has removed the file from every node
  of `wrote` it has left. `Reached`: while `warned` is not set, the loops of an initialisation have left
  metadata on every node they have passed, and the resource up, unless an error was passed over.
  `PoolsSpare` is about steps: a pool takes a disk that nothing holds, `Spares` says so of each command
  and goes through the chains.
* Creation. `Typed` adds for each phase what it finds in the request's variables (`Control`), and of
  each node (`Good`) that only what is up is current or Primary and that only a reactor mounts the
  filesystem. `Configured`: a loop of writes of which none has failed (`broken`) has written every node
  it left. `Faithful`: from a good copy on, every current disk has the migrated data. The copy goes to the
  current replicas that are connected and makes the others outdated, and afterwards current data only
  comes from current disks (`EnvironmentNode`, `AfterwardsFaithful`), over links that fail and come
  back. `Undone`: the device is demoted, unless its mount, which only a reactor makes, is in the way.
* Files. `Published` alone does not carry through a step: a request sends a text it read earlier.
  `FInv` adds that what a request is about to send is a published text or a beginning of one
  (`SendsPublished`), and that what it is about to write is one text (`WritesOne`), which the write
  itself publishes when it begins. A beginning of a beginning is a beginning (`CutTwice`,
  `PartsOfParts`), so texts that were cut and sent on stay among the parts of what was published.
  Every action copies such parts (`Copies`) or writes the controller's file (`Writes`), whence
  `Texts!Copy` and `Texts!Publish`.
* Answers. Every step of a client touches its own request only, or is seen by the others' ghosts
  (`Own`: `Local`, `Fails` or `Shared`). So what a request has noted stays true as long as `calm` says
  that nobody changed what it is about, and `was` only grows. On that rest, per request: who is noted as
  active is in `was` (`SeenInv`); while `calm`, the text about to be sent is the controller's and the nodes
  reported have it (`SendInv`); what a status has noted so far is what the files and reactors say
  (`SteadyInv`); an editor keeps what it parsed, and a text about to be written keeps the rest of the
  file (`KeepInv`). `TypeInv` needs that one text at most is in a file and that a render is a file again.
* Registry. A list is gone through by a recursive function of the number of entries done. That such a
  function exists on `0..n` (`LoopRuns`), and that what each round keeps holds at the end (`Climb`),
  is argued by a least counterexample (`LeastNatural`), once for all loops. From it follow the facts about
  `Put`, `Without`, `Sorted`, `Discovered` and `Merge`; `Sorted` only moves entries
  (`Moved`: entries at two places come from two places), so nothing has to be known of its order.
  `ListsApart`: the list an import is about to write has no two entries for a host. `ForgetInv`: the id
  of a deleted node that no `.res` file names is in no list, no copy and no request. `SoundInv`: in the file and in the
  list about to be written names differ and ids differ, added nodes are different hosts, and those that are
  `Free` are there and alone with their name, address and id; and what a
  duplicate check told a request before the SSH check still holds when it loads the list
  (`StillChecked`). The hypotheses are the code's own limits, each met by the run:
  `Sequential`, one request at a time, since overlapping ones lose updates (run
  `RegistryLostUpdate`); `Settled`, the `.res` files agree on who is who, or name one host only, since
  otherwise `cluster.rs:138` leaves two entries for an address.
  `RegistryTyped` and `ListsDeduplicate` hold for any number of overlapping requests.

The assumptions are those of the modules. Besides finiteness and membership (`Controller \in Node`,
the operations' subsets in `1..N`) they are: a disk's name is none of a pool's or of "no disk"
(`DisksAssumption`); a creation names nodes of the store, since `create_resource` refuses others, and
its parameters are of their types (`PlansAssumption`); the few minors of the creation model do not run
out (`OthersAssumption`: the search in `utils.rs:141` counts on until it finds one); a host's name is
none of the ids that are drawn (`RegistryAssumption`: those are UUIDs). TLC evaluates each on every run.

Model-checked only: the liveness properties (`RequestAnswered`, `Ends`), since this prover does not
reach ENABLED. Every safety property of the passing runs, and the refinement, is stated by a theorem,
under the hypotheses named above where it has any. No module that is proved about declares a
recursive operator: loops are recursive functions.

## 5. Not modelled, and what is next

Not modelled, and why:

* `DrbdTransaction` and the other builders fill a `Transaction` with operations; no request
  executes them. `remove_ha_config` and `remove_drbd_resource` of `ClusterSync` are not called.
* A change of the controller target (`state.rs:118`) while requests run: the models keep one
  controller for a run, and `plan.embedded` says whether the server is on it.
* Ports and NFS exports, which are drawn and written as minors and mounts are.
* Resizing, removal and listing of pools and volumes: single commands.
* Dashboards, metrics, event stream, MCP, the rest of the user interface: they read the above.
* An embedded controller that does not start on a `nodes.toml` that does not parse (`state.rs:462`),
  and a boot that starts what activation enabled: one step each, described above.

Next, in this order:

1. `ControllerTarget` as a variable that `ProfileFiles` and `CreateProfile` follow: all commands
   of a request run on one node, or not.
2. Two creations at a time in `Resources`, with the promises that then still hold.
