---------------------------- MODULE NodeRegistry ----------------------------
(***************************************************************************)
(* The list of managed nodes: NodeStore (drbd-ha/src/core/store.rs), one   *)
(* TOML file rewritten as a whole under no lock, and the requests of       *)
(* drbd-ha/src/api/cluster.rs that read it, await an SSH check and write   *)
(* it.  fs::write truncates the file before it writes: a reader in between *)
(* finds no valid TOML, and so does everybody after a crash in between.    *)
(* The controller is external (the default): it starts whatever the file.  *)
(***************************************************************************)
EXTENDS Naturals, Sequences, FiniteSets, SequencesExt

CONSTANTS Host, Ip,   \* host names and addresses, numbered in their sort order
          Dns,        \* the address a host name resolves to
          Uuid,       \* the ids add_node may draw (bounds the number of adds)
          Res,        \* the [host, ip] entries of the .res files, in reading order
          Proc,       \* the requests that may run at the same time
          Crashes     \* TRUE: the server may be restarted

ASSUME RegistryAssumption ==
  /\ Res \in Seq([host: Host, ip: Ip]) /\ Dns \in [Host -> Ip]
  /\ Crashes \in BOOLEAN /\ Host \cap Uuid = {}

VARIABLES file,      \* nodes.toml: whether it parses, and the nodes in it
          pc, req,   \* per request: its next step, and its operation with its node
          seen,      \* the list it read before it awaited
          copy,      \* the list it is about to write
          longest,   \* the longest list others wrote since it truncated the file
          added,     \* ghost: the nodes whose addition was answered with 201
          deleted,   \* ghost: the ids whose deletion was answered with 204, and
                     \*   that no evict or enable request has named since
          cut        \* ghost: a restart cut a write short

vars == <<file, pc, req, seen, copy, longest, added, deleted, cut>>

NodeRec == [id: Uuid \cup Host, host: Host, ip: Ip]
NoReq   == [op |-> "none", node |-> {}]
Torn    == [ok |-> FALSE, nodes |-> <<>>]

TypeOK ==
  /\ file.ok \in BOOLEAN /\ file.nodes \in Seq(NodeRec)
  /\ pc \in [Proc -> {"idle", "verify", "load", "import", "truncate", "write"}]
  /\ \A p \in Proc :
       /\ req[p].op \in {"none", "add", "ensure", "update", "delete", "check", "list"}
       /\ req[p].node \subseteq NodeRec
       /\ seen[p] \in Seq(NodeRec) /\ copy[p] \in Seq(NodeRec)
  /\ longest \in [Proc -> Nat]
  /\ added \subseteq NodeRec /\ deleted \subseteq Uuid \cup Host /\ cut \in BOOLEAN

Init ==
  /\ file = [ok |-> TRUE, nodes |-> <<>>]
  /\ pc = [p \in Proc |-> "idle"] /\ req = [p \in Proc |-> NoReq]
  /\ seen = [p \in Proc |-> <<>>] /\ copy = [p \in Proc |-> <<>>]
  /\ longest = [p \in Proc |-> 0]
  /\ added = {} /\ deleted = {} /\ cut = FALSE

---------------------------------------------------------------------------
(* nodes_refer_to_same_host, find_existing_node, insert_or_replace_node and *)
(* merge_discovered_and_existing_nodes.                                     *)
SameHost(m, n) == m.host = n.host \/ m.ip = n.ip \/ m.id = n.id

OfHost(nodes, h)     == {k \in DOMAIN nodes : nodes[k].host = h}
OfIp(nodes, i)       == {k \in DOMAIN nodes : nodes[k].ip = i}
OfId(nodes, n)       == {k \in DOMAIN nodes : nodes[k].id = n.id}
OfSameHost(nodes, n) == {k \in DOMAIN nodes : SameHost(nodes[k], n)}

(* Mutant: a host that is not in the store yet gets no id.                  *)
IdForKnown(nodes, e) ==
  IF OfHost(nodes, e.host) # {} THEN nodes[Min(OfHost(nodes, e.host))].id ELSE 0

IdFor(nodes, e) ==
  IF OfHost(nodes, e.host) # {} THEN nodes[Min(OfHost(nodes, e.host))].id
  ELSE IF OfIp(nodes, e.ip) # {} THEN nodes[Min(OfIp(nodes, e.ip))].id
  ELSE e.host

(* n replaces the first of the nodes at the positions K, or comes last.     *)
Put(nodes, K, n) == IF K = {} THEN Append(nodes, n) ELSE [nodes EXCEPT ![Min(K)] = n]

InsertOrReplace(nodes, n) == Put(nodes, OfSameHost(nodes, n), n)
Upsert(nodes, n)          == Put(nodes, OfId(nodes, n), n)

(* The loops over a list are recursive functions of the number of entries   *)
(* they have gone through.  Mutant: the condition of retain is turned round. *)
WithoutTurned(nodes, n) ==
  LET kept[k \in 0..Len(nodes)] ==
        IF k = 0 THEN <<>>
        ELSE IF nodes[k].id = n.id THEN Append(kept[k - 1], nodes[k]) ELSE kept[k - 1]
  IN kept[Len(nodes)]

Without(nodes, n) ==
  LET kept[k \in 0..Len(nodes)] ==
        IF k = 0 THEN <<>>
        ELSE IF nodes[k].id # n.id THEN Append(kept[k - 1], nodes[k]) ELSE kept[k - 1]
  IN kept[Len(nodes)]

(* The order of sort_by, and a list put in that order.                      *)
Before(m, n) ==
  \/ m.host < n.host
  \/ m.host = n.host /\ (m.ip < n.ip \/ (m.ip = n.ip /\ m.id < n.id))

SortIn(nodes, n) ==
  LET later == {k \in DOMAIN nodes : Before(n, nodes[k])}
  IN IF later = {} THEN Append(nodes, n) ELSE InsertAt(nodes, Min(later), n)

Sorted(nodes) ==
  LET done[k \in 0..Len(nodes)] == IF k = 0 THEN <<>> ELSE SortIn(done[k - 1], nodes[k])
  IN done[Len(nodes)]

(* The node that import_nodes_from_drbd_configs makes of an entry.          *)
Found(existing, e) == [id |-> IdFor(existing, e), host |-> e.host, ip |-> e.ip]

(* readable: the entries of the files that could be read; there are none     *)
(* when the directory cannot be listed.                                     *)
Discovered(existing, readable) ==
  LET found[k \in 0..Len(Res)] ==
        IF k = 0 THEN <<>>
        ELSE IF k \in readable THEN InsertOrReplace(found[k - 1], Found(existing, Res[k]))
        ELSE found[k - 1]
  IN Sorted(found[Len(Res)])

(* Mutants: the nodes that no .res file names are dropped; a node is taken   *)
(* for the same only when the ids agree.                                    *)
MergeDiscovered(discovered, existing) == discovered

MergeById(discovered, existing) ==
  LET merged[k \in 0..Len(existing)] ==
        IF k = 0 THEN discovered
        ELSE IF OfId(merged[k - 1], existing[k]) # {} THEN merged[k - 1]
        ELSE Append(merged[k - 1], existing[k])
  IN Sorted(merged[Len(existing)])

Merge(discovered, existing) ==
  LET merged[k \in 0..Len(existing)] ==
        IF k = 0 THEN discovered
        ELSE IF OfSameHost(merged[k - 1], existing[k]) # {} THEN merged[k - 1]
        ELSE Append(merged[k - 1], existing[k])
  IN Sorted(merged[Len(existing)])

---------------------------------------------------------------------------
Nodes        == ToSet(file.nodes)
Ghosts       == UNCHANGED <<added, deleted, cut>>
Clashes(n, h, i) == n.ip = i \/ n.host = h
FreshIds     == Uuid \ ({n.id : n \in added} \cup deleted
                        \cup {n.id : n \in UNION {req[p].node : p \in Proc}}
                        \cup {n.id : n \in Nodes})

(* A request that has read the list goes on with its node.                  *)
Begin(p, op, n, step) ==
  /\ pc[p] = "idle" /\ file.ok
  /\ req' = [req EXCEPT ![p] = [op |-> op, node |-> {n}]]
  /\ pc' = [pc EXCEPT ![p] = step]
  /\ UNCHANGED <<file, seen, copy, longest>> /\ Ghosts

(* Mutant: only the address is looked for among the known nodes.            *)
AddByIp(p, h, i) ==
  /\ ~ \E n \in Nodes : n.ip = i
  /\ \E u \in FreshIds : Begin(p, "add", [id |-> u, host |-> h, ip |-> i], "verify")

(* add_node: the duplicate check; the SSH check is awaited before the write. *)
Add(p, h, i) ==
  /\ ~ \E n \in Nodes : Clashes(n, h, i)
  /\ \E u \in FreshIds : Begin(p, "add", [id |-> u, host |-> h, ip |-> i], "verify")

(* ensure_node_in_store of the evict and enable requests.                   *)
Ensure(p, h) ==
  /\ ~ \E n \in Nodes : n.host = h
  /\ Begin(p, "ensure", [id |-> h, host |-> h, ip |-> Dns[h]], "load")

(* update_node: no other node, of another name, may have the new name or ip. *)
Update(p, n, h, i) ==
  /\ ~ \E m \in Nodes : m.id # n.id /\ m.host # n.host /\ Clashes(m, h, i)
  /\ Begin(p, "update", [n EXCEPT !.host = h, !.ip = i], "load")

Delete(p, n) == Begin(p, "delete", n, "load")

(* check_node_status: the node read here is inserted again after the check. *)
CheckStatus(p, n) == Begin(p, "check", n, "verify")

(* list_nodes: an unreadable store counts as an empty one.                  *)
List(p) ==
  /\ pc[p] = "idle"
  /\ seen' = [seen EXCEPT ![p] = file.nodes]
  /\ req' = [req EXCEPT ![p] = [op |-> "list", node |-> {}]]
  /\ pc' = [pc EXCEPT ![p] = "import"]
  /\ UNCHANGED <<file, copy, longest>> /\ Ghosts

Verify(p) ==
  /\ pc[p] = "verify" /\ pc' = [pc EXCEPT ![p] = "load"]
  /\ UNCHANGED <<file, req, seen, copy, longest>> /\ Ghosts

(* The read of NodeStore::insert, update and delete: a torn file fails them  *)
(* all, and the last two want the id to be there still.                      *)
Load(p) ==
  LET n   == CHOOSE m \in req[p].node : TRUE
      has == \E m \in Nodes : m.id = n.id
  IN /\ pc[p] = "load"
     /\ IF file.ok /\ (has \/ req[p].op \notin {"update", "delete"})
        THEN /\ pc' = [pc EXCEPT ![p] = "truncate"]
             /\ copy' = [copy EXCEPT ![p] =
                  IF req[p].op = "delete" THEN Without(file.nodes, n) ELSE Upsert(file.nodes, n)]
             /\ UNCHANGED req
        ELSE /\ pc' = [pc EXCEPT ![p] = "idle"] /\ req' = [req EXCEPT ![p] = NoReq]
             /\ UNCHANGED copy
     /\ UNCHANGED <<file, seen, longest>> /\ Ghosts

(* The .res files are read, those that can be; the store is read again, and  *)
(* both are merged.                                                         *)
Import(p) ==
  /\ pc[p] = "import" /\ pc' = [pc EXCEPT ![p] = "truncate"]
  /\ \E readable \in SUBSET DOMAIN Res :
       copy' = [copy EXCEPT ![p] = Merge(Discovered(seen[p], readable), file.nodes)]
  /\ seen' = [seen EXCEPT ![p] = <<>>]
  /\ UNCHANGED <<file, req, longest>> /\ Ghosts

Truncate(p) ==
  /\ pc[p] = "truncate" /\ pc' = [pc EXCEPT ![p] = "write"]
  /\ file' = Torn /\ longest' = [longest EXCEPT ![p] = 0]
  /\ UNCHANGED <<req, seen, copy>> /\ Ghosts

(* The ids of the request's node that add_node drew.                        *)
Drawn(p) == {n.id : n \in req[p].node} \cap Uuid

(* A list written over a longer one that another request wrote since the    *)
(* truncation leaves the other's tail behind, and the file does not parse.  *)
Write(p) ==
  LET size == Len(copy[p])
      op   == req[p].op
  IN /\ pc[p] = "write" /\ pc' = [pc EXCEPT ![p] = "idle"]
     /\ \/ size >= longest[p] /\ file' = [ok |-> TRUE, nodes |-> copy[p]]
        \/ size <= longest[p] /\ longest[p] > 0 /\ file' = Torn
     /\ longest' = [q \in Proc |-> IF q = p THEN 0
                     ELSE IF pc[q] = "write" /\ longest[q] < size THEN size ELSE longest[q]]
     /\ copy' = [copy EXCEPT ![p] = <<>>] /\ req' = [req EXCEPT ![p] = NoReq]
     /\ added' = CASE op = "add" -> added \cup req[p].node
                   [] op \in {"update", "delete"} ->
                        {n \in added : n.id \notin Drawn(p)}
                        \cup {n \in req[p].node : op = "update" /\ n.id \in Uuid}
                   [] OTHER -> added
     /\ deleted' = CASE op = "delete" -> deleted \cup {n.id : n \in req[p].node}
                     [] op = "ensure" -> deleted \ {n.id : n \in req[p].node}
                     [] OTHER -> deleted
     /\ UNCHANGED <<seen, cut>>

(* The server restarts: requests vanish, the file stays as it is.           *)
Restart ==
  /\ Crashes /\ \E p \in Proc : pc[p] # "idle"
  /\ pc' = [p \in Proc |-> "idle"] /\ req' = [p \in Proc |-> NoReq]
  /\ seen' = [p \in Proc |-> <<>>] /\ copy' = [p \in Proc |-> <<>>]
  /\ longest' = [p \in Proc |-> 0]
  /\ cut' = (cut \/ \E p \in Proc : pc[p] = "write")
  /\ UNCHANGED <<file, added, deleted>>

Next ==
  \/ \E p \in Proc, h \in Host : Ensure(p, h)
  \/ \E p \in Proc, h \in Host, i \in Ip :
       Add(p, h, i) \/ \E n \in Nodes : Update(p, n, h, i)
  \/ \E p \in Proc, n \in Nodes : Delete(p, n) \/ CheckStatus(p, n)
  \/ \E p \in Proc : List(p) \/ Verify(p) \/ Load(p) \/ Import(p) \/ Truncate(p) \/ Write(p)
  \/ Restart

Spec == Init /\ [][Next]_vars

---------------------------------------------------------------------------
AtRest == \A p \in Proc : pc[p] = "idle"

(* Two nodes that add_node accepted never are the same host: its 409 answer  *)
(* ("Node already exists") and that of update_node keep them apart.          *)
AddedDistinct ==
  \A m, n \in added \cap Nodes : m # n => ~SameHost(m, n)

(* No .res file has the name or the address of n, and no name that an evict  *)
(* or enable request may look for, except its own, resolves to its address.  *)
Free(n) ==
  /\ \A k \in DOMAIN Res : ~Clashes(n, Res[k].host, Res[k].ip)
  /\ \A h \in Host : Dns[h] = n.ip => h = n.host

(* A node that was added and is Free stays in the list as it was given until *)
(* it is updated or deleted ("Returns all nodes (both from configs and       *)
(* manually added)", cluster.rs:276), or a restart cuts a write short.  A    *)
(* node that is not may be lost: ensure_node_in_store looks for the name it  *)
(* is given and not for its address, its insert may overwrite by id a node   *)
(* that update_node renamed, and the next list_nodes then takes the two      *)
(* nodes of one address for the same host and drops one (ops.rs:22-70).      *)
KeepsAdded == \A n \in added :
  AtRest /\ ~cut /\ Free(n) => file.ok /\ n \in Nodes

(* A node whose deletion was answered with 204 does not come back, in no     *)
(* later request and after no restart, unless an evict or enable request     *)
(* names its host, or a .res file does: the next list_nodes imports that one *)
(* again (cluster.rs:277-285, 474-484).                                      *)
DeletedStaysDeleted ==
  AtRest => \A n \in Nodes :
    n.id \in deleted => \E k \in DOMAIN Res : Res[k].host = n.id

Listed(p) == req[p].op = "list" /\ Write(p) /\ file'.ok

(* Whatever the other requests and crashes did, list_nodes leaves no two     *)
(* entries for a host ("so stale duplicates are removed").  It would not     *)
(* hold for a Res in which hosts have each other's addresses.               *)
ListDeduplicates ==
  [][\A p \in Proc : Listed(p) =>
       \A j, k \in DOMAIN file'.nodes :
         j # k => ~SameHost(file'.nodes[j], file'.nodes[k])]_vars

============================================================================
