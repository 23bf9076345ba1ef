----------------------------- MODULE ProfileFiles -----------------------------
(***************************************************************************)
(* The promoter files of one profile on every node, the drbd-reactors that *)
(* load them, and the requests that edit, synchronise, enable, disable and *)
(* evict the profile or report on it (vip.rs, toml_edit.rs, toml_parse.rs, *)
(* ops.rs, list.rs under drbd-ha/src/api/ha, and core/cluster_sync.rs).    *)
(* Requests of several clients interleave at every command.  A file is the *)
(* set of the texts it holds: empty if there is none, else of one element. *)
(***************************************************************************)
EXTENDS PromoterFile

CONSTANTS Node, Controller, Client,
          First,     \* the text the profile was created with
          Puts,      \* the texts that clients put
          Plans      \* who asks for what, how often, and of which server

ASSUME ControllerAssumption == Controller \in Node
ASSUME TextsAssumption == First \in Text /\ Puts \subseteq Text
ASSUME PlansAssumption ==
  \A p \in Plans : p.enabled \subseteq SUBSET Node /\ p.turns \in [Client -> Nat]

VARIABLES toml,      \* NAME.toml on each node
          dis,       \* NAME.toml.disabled on each node
          loaded,    \* what the drbd-reactor of each node runs
          queued,    \* systemd of the server's machine has a reload to do
          primary,   \* the node that serves the profile, if any
          plan,
          editor,    \* what each client's browser has loaded into its editor
          pc, text, req, view,   \* the client's request: place, locals, answer
          published, calm, was   \* ghosts

files   == <<toml, dis, loaded, queued, published>>
request == <<pc, text, req, view, editor>>
ghosts  == <<calm, was>>
vars    == <<files, primary, plan, request, ghosts>>

c == Controller
Remote == Node \ {c}
(* sync_ha_config leaves out the nodes that are local to the server.        *)
Synchronised == IF plan.embedded THEN Remote ELSE Node

Edits    == {"addVip", "removeVip", "put", "sync", "load", "save"}
Switches == {"disable", "enable", "enableAll", "evict"}
Looks    == {"status", "list"}
Op       == Edits \cup Switches \cup Looks
Answered == {"idle", "refused", "done"}
Running  == {"read", "write", "writing", "push", "reload", "details", "put", "load", "disable", "enable",
             "enableAll", "evict", "evictRun", "toml", "disabled", "reactor", "remote",
             "remoteStatus", "drbd", "active", "remoteDrbd", "remoteReactor", "fallback", "flags"}

AtMostOne(S) == {{}} \cup {{x} : x \in S}
Holds(f, S) == f \in [Node -> AtMostOne(S)]
(* The texts of S, and what writing one of them shows on the way.           *)
Parts(S) == S \cup UNION {Beginnings(t) : t \in S}

RequestType ==
  [op: Op \cup {"none"}, node: SUBSET Node, start: Seq(Item), todo: SUBSET Node,
   fresh: SUBSET Node, synced: SUBSET Node, turns: Nat]
(* What a status request has found so far: the local file is the disabled   *)
(* one, no node has the profile enabled, the Primary DRBD named, the active *)
(* node, the nodes it lists (the one whose status is shown, and its peers), *)
(* and those it shows as disabled.                                          *)
ViewType ==
  [locally: BOOLEAN, truly: BOOLEAN, named: AtMostOne(Node), known: BOOLEAN,
   active: AtMostOne(Node), first: AtMostOne(Node), peers: SUBSET Node, off: SUBSET Node]

TypeOK ==
  /\ \A t \in published : t \in Text
  /\ Holds(toml, Parts(published)) /\ Holds(dis, Parts(published))
  /\ Holds(loaded, Parts(published)) /\ queued \in BOOLEAN
  /\ primary \in AtMostOne(Node)
  /\ plan \in Plans
  /\ DOMAIN editor = Client
  /\ \A r \in Client : \A e \in editor[r] :
       editor[r] = {e} /\ e.items \in Seq(Item) /\ e.from \in Text
  /\ pc \in [Client -> Running \cup Answered]
  /\ \A r \in Client : \A t \in text[r] : t \in Text
  /\ req \in [Client -> RequestType]
  /\ view \in [Client -> ViewType]
  /\ calm \in [Client -> BOOLEAN] /\ was \in [Client -> SUBSET AtMostOne(Node)]

NoRequest == [op |-> "none", node |-> {}, start |-> <<>>, todo |-> {}, fresh |-> {},
              synced |-> {}, turns |-> 0]
NoView == [locally |-> FALSE, truly |-> FALSE, named |-> {}, known |-> FALSE, active |-> {},
           first |-> {}, peers |-> {}, off |-> {}]

(* The profile as creation and switching leave it: on every node in one of  *)
(* the two files, loaded where it is enabled, served by such a node or not. *)
Init ==
  /\ published = {First} /\ plan \in Plans
  /\ \E on \in plan.enabled :
       /\ toml = [n \in Node |-> IF n \in on THEN {First} ELSE {}]
       /\ dis = [n \in Node |-> IF n \in on THEN {} ELSE {First}]
       /\ loaded = toml
       /\ primary \in AtMostOne(on)
  /\ queued = FALSE
  /\ editor = [r \in Client |-> {}]
  /\ pc = [r \in Client |-> "idle"] /\ text = [r \in Client |-> {}]
  /\ req = [r \in Client |-> [NoRequest EXCEPT !.turns = plan.turns[r]]]
  /\ view = [r \in Client |-> NoView]
  /\ calm = [r \in Client |-> FALSE] /\ was = [r \in Client |-> {}]

---------------------------------------------------------------------------
(* The pieces steps are made of.                                            *)
At(r, p)      == pc[r] = p
Goto(r, p)    == pc' = [pc EXCEPT ![r] = p]
Running1(r)   == pc[r] \in Running

Local(r)      == UNCHANGED <<files, primary, plan, ghosts>>
(* A command that fails, or whose answer is lost.                           *)
Fails(r)      == UNCHANGED <<files, primary, plan, was>> /\ calm' = [calm EXCEPT ![r] = FALSE]
(* A step that changes files or reactors: what the others have seen so far  *)
(* of them, and what they wrote, may not be so any more.                    *)
Shared(r)     == /\ calm' = [q \in Client |-> q = r /\ calm[q]]
                 /\ was' = [q \in Client |-> IF Running1(q) /\ req[q].op \in Looks
                                             THEN was[q] \cup {primary'} ELSE was[q]]
                 /\ UNCHANGED plan
KeepText      == UNCHANGED <<text, view, editor>>
Refuse(r)     == Goto(r, "refused") /\ UNCHANGED req /\ KeepText
Finish(r)     == Goto(r, "done") /\ UNCHANGED req /\ KeepText
Sets(f, n, t) == f' = [f EXCEPT ![n] = t]

(* One node of a loop is done; after the last the request goes on at q.     *)
Visited(r, n, q, synced) ==
  /\ req' = [req EXCEPT ![r].todo = @ \ {n}, ![r].synced = @ \cup synced]
  /\ IF req[r].todo = {n} THEN Goto(r, q) ELSE UNCHANGED pc
  /\ KeepText
Loop(r, p, q, nodes) ==
  /\ Goto(r, IF nodes = {} THEN q ELSE p)
  /\ req' = [req EXCEPT ![r].todo = nodes]

(* The future is dropped with its connection, or a `?` ends the request.    *)
Abort(r) == Running1(r) /\ Refuse(r) /\ Fails(r)

FirstStep == [o \in Op |->
  CASE o \in {"addVip", "removeVip", "sync"} -> "read"
    [] o = "save" -> "details"
    [] o \in Looks -> "toml"
    [] OTHER -> o]

(* The editor sends what it loaded, with an agent more or as it is.         *)
Saves(r) == UNION {{e.items, Append(e.items, "agent")} : e \in editor[r]}

Ask(r, o) ==
  /\ pc[r] \in Answered /\ o \in plan.asks[r] /\ req[r].turns > 0
  /\ \E n \in (IF o \in {"disable", "enable", "evict"} THEN AtMostOne(Node) ELSE {{}}) :
     \E s \in (IF o = "save" THEN Saves(r) ELSE {<<>>}) :
       /\ o \in {"disable", "enable"} => n # {}
       /\ req' = [req EXCEPT ![r] = [NoRequest EXCEPT !.op = o, !.node = n, !.start = s,
                                     !.turns = req[r].turns - 1]]
  /\ Goto(r, FirstStep[o])
  /\ text' = [text EXCEPT ![r] = {}] /\ view' = [view EXCEPT ![r] = NoView]
  /\ calm' = [calm EXCEPT ![r] = TRUE]
  /\ was' = [was EXCEPT ![r] = IF o \in Looks THEN {primary} ELSE {}]
  /\ UNCHANGED <<files, primary, plan, editor>>
---------------------------------------------------------------------------
(* Edits.                                                                   *)

(* The address requests read the file, refuse when the address is not as    *)
(* they expect it, and render the file anew.                                *)
Rerender(r, vip) ==
  /\ \/ \E t \in toml[c] :
          /\ HasVip(t) # vip /\ text' = [text EXCEPT ![r] = {WithVip(t, vip)}]
          /\ Goto(r, "write") /\ UNCHANGED <<req, view, editor>>
     \/ ~(\E t \in toml[c] : HasVip(t) # vip) /\ Refuse(r)
  /\ Local(r)

AddVip(r) == At(r, "read") /\ req[r].op = "addVip" /\ Rerender(r, TRUE)
RemoveVip(r) == At(r, "read") /\ req[r].op = "removeVip" /\ Rerender(r, FALSE)

(* A step of an edit that changes promoter files and nothing else.          *)
Rewrites(r) == UNCHANGED <<dis, loaded, queued, primary>> /\ Shared(r)

(* A put replaces the file by any text, as long as it is TOML.              *)
PutText(r) ==
  /\ At(r, "put") /\ req[r].op = "put" /\ Goto(r, "write") /\ Local(r)
  /\ \E t \in Puts : text' = [text EXCEPT ![r] = {t}]
  /\ UNCHANGED <<req, view, editor>>

(* write_controller_file.  In a server on the controller it empties the     *)
(* file and then fills it; over SSH the text goes to a temporary file in    *)
(* /tmp, and mv renames that, or copies it to another filesystem.           *)
BeginWrite(r) ==
  /\ At(r, "write") /\ Goto(r, "writing") /\ UNCHANGED req /\ KeepText
  /\ \/ /\ \E t \in text[r] : \E b \in Beginnings(t) : Sets(toml, c, {b})
        /\ published' = published \cup text[r] /\ Rewrites(r)
     \/ ~plan.embedded /\ Local(r)

Written(r) == Sets(toml, c, text[r]) /\ published' = published \cup text[r] /\ Rewrites(r)

GoOn(r) ==
  /\ CASE req[r].op = "save" -> Goto(r, "reload") /\ UNCHANGED req
       [] req[r].op = "put" -> Goto(r, "done") /\ UNCHANGED req
       [] OTHER -> Loop(r, "push", "done", Synchronised)
  /\ KeepText

WriteUnchecked(r) == At(r, "writing") /\ GoOn(r) /\ (Written(r) \/ Local(r))   \* mutant

(* The `?` after it: an error ends the request, whether the text is all     *)
(* there by then (only the answer was lost), or half, or not at all.        *)
WriteText(r) ==
  /\ At(r, "writing")
  /\ \/ Written(r) /\ (GoOn(r) \/ Refuse(r))
     \/ Refuse(r) /\ Local(r)

ReadSync(r) ==
  /\ At(r, "read") /\ req[r].op = "sync"
  /\ \/ /\ toml[c] # {}
        /\ text' = [text EXCEPT ![r] = toml[c]] /\ Loop(r, "push", "reload", Synchronised)
        /\ UNCHANGED <<view, editor>>
     \/ toml[c] = {} /\ Refuse(r)
  /\ Local(r)

(* write_remote_file, for the nodes of sync_ha_config, all at once: `cat >`  *)
(* and `tee` empty the file and then fill it, too.                          *)
Copied(r, n, s) == Sets(toml, n, s) /\ UNCHANGED published /\ Rewrites(r)

AfterSync(r) == IF req[r].op = "sync" THEN "reload" ELSE "done"

(* A node of the loop is done with, in one of its steps.                    *)
Synced(r, n, synced) ==
  /\ req' = [req EXCEPT ![r].todo = @ \ {n}, ![r].fresh = @ \ {n}, ![r].synced = @ \cup synced]
  /\ IF req[r].todo \cup req[r].fresh = {n} THEN Goto(r, AfterSync(r)) ELSE UNCHANGED pc

BeginSync(r, n) ==
  /\ At(r, "push") /\ req[r].op # "save" /\ n \in req[r].todo
  /\ \E t \in text[r] : \E b \in Beginnings(t) : Copied(r, n, {b})
  /\ UNCHANGED <<pc, req>> /\ KeepText

(* sync_to_node: when the write has succeeded, the node's daemon is to be   *)
(* reloaded; when it has not, the text may be there all the same.  Whether  *)
(* the profile is disabled on the node is not looked at.                    *)
SyncNode(r, n) ==
  /\ At(r, "push") /\ req[r].op # "save" /\ n \in req[r].todo /\ KeepText
  /\ \/ Synced(r, n, {}) /\ Local(r)
     \/ /\ Copied(r, n, text[r])
        /\ \/ Synced(r, n, {})
           \/ /\ req' = [req EXCEPT ![r].todo = @ \ {n}, ![r].fresh = @ \cup {n}]
              /\ UNCHANGED pc

SyncLogged(r, n) ==   \* mutant
  /\ At(r, "push") /\ n \in req[r].fresh /\ KeepText /\ Synced(r, n, {n})
  /\ \/ Local(r)
     \/ Sets(loaded, n, toml[n]) /\ UNCHANGED <<toml, dis, queued, published, primary>> /\ Shared(r)

(* daemon_reload and reload: an error of either leaves the text on a node   *)
(* that is not reported as synced, and may have reloaded it all the same.   *)
SyncReload(r, n) ==
  /\ At(r, "push") /\ n \in req[r].fresh /\ KeepText
  /\ \/ Synced(r, n, {}) /\ Local(r)
     \/ /\ Sets(loaded, n, toml[n]) /\ UNCHANGED <<toml, dis, queued, published, primary>>
        /\ Shared(r) /\ (Synced(r, n, {}) \/ Synced(r, n, {n}))

(* The D-Bus calls for daemon_reload and reload, whose results are not      *)
(* looked at, queue a job with systemd on the machine the server runs on:   *)
(* if that is not the controller, no node of the cluster.                   *)
ReloadLocal(r) ==
  /\ At(r, "reload") /\ KeepText
  /\ IF req[r].op = "save" THEN Loop(r, "push", "done", req[r].node \ {c})
     ELSE Goto(r, "done") /\ UNCHANGED req
  /\ \/ /\ plan.embedded /\ queued' = TRUE
        /\ UNCHANGED <<toml, dis, loaded, published, primary, plan, ghosts>>
     \/ Local(r)

(* systemd does the job, when it comes to it.                               *)
QueuedReload ==
  /\ queued /\ queued' = FALSE /\ Sets(loaded, c, toml[c])
  /\ UNCHANGED <<toml, dis, published, primary, plan, request, ghosts>>

(* The editor in the browser: it loads the parsed start array and keeps it. *)
LoadEditor(r) ==
  /\ At(r, "load")
  /\ \/ \E t \in toml[c] : /\ editor' = [editor EXCEPT ![r] = {[items |-> ParsedItems(t), from |-> t]}]
                           /\ Goto(r, "done") /\ UNCHANGED <<text, req, view>>
     \/ toml[c] = {} /\ Refuse(r)
  /\ Local(r)

(* update_start_array asks for the profile's nodes (the status request      *)
(* below, which a failover can make miss one), reads the file again, writes *)
(* it, and sends it to those nodes.                                         *)
FetchDetails(r) ==
  /\ At(r, "details")
  /\ \/ /\ toml[c] \cup dis[c] # {}
        /\ \E nodes \in {Node} \cup {Node \ {n} : n \in Remote} :
             req' = [req EXCEPT ![r].node = nodes]
        /\ Goto(r, "read") /\ KeepText
     \/ toml[c] \cup dis[c] = {} /\ Refuse(r)
  /\ Local(r)

ReadSave(r) ==
  /\ At(r, "read") /\ req[r].op = "save"
  /\ \/ \E t \in toml[c] : /\ t.promoter
                           /\ text' = [text EXCEPT ![r] = {ReplacedStart(t, req[r].start)}]
                           /\ Goto(r, "write") /\ UNCHANGED <<req, view, editor>>
     \/ ~(\E t \in toml[c] : t.promoter) /\ Refuse(r)
  /\ Local(r)

(* A node of the loop gets the file, by way of a temporary one; the reload  *)
(* that follows is called with its arguments out of order and reaches no    *)
(* host.                                                                    *)
PushNode(r, n) ==
  /\ At(r, "push") /\ req[r].op = "save" /\ n \in req[r].todo
  /\ \/ Visited(r, n, "done", {}) /\ Local(r)
     \/ /\ Copied(r, n, text[r])
        /\ Visited(r, n, "done", {}) \/ Visited(r, n, "done", {n})

---------------------------------------------------------------------------
(* Switches.                                                                *)

(* The existence of the profile is looked up on the server's own disk.      *)
Visible == plan.embedded /\ toml[c] \cup dis[c] # {}

(* drbd-reactorctl disable renames the file and stops what runs; enable     *)
(* renames it back, over a file that is there, and loads it.                *)
Disabled(n) ==
  /\ toml[n] # {}
  /\ Sets(dis, n, toml[n]) /\ Sets(toml, n, {}) /\ Sets(loaded, n, {})
  /\ primary' = primary \ {n} /\ UNCHANGED <<queued, published>>

Enabled(n) ==
  /\ dis[n] # {}
  /\ Sets(toml, n, dis[n]) /\ Sets(loaded, n, dis[n]) /\ Sets(dis, n, {})
  /\ UNCHANGED <<primary, queued, published>>

DisableOnNode(r, n) ==
  /\ At(r, "disable") /\ n \in req[r].node
  /\ \/ Visible /\ Disabled(n) /\ Shared(r) /\ Finish(r)
     \/ Refuse(r) /\ Fails(r)

EnableOnNode(r, n) ==
  /\ At(r, "enable") /\ n \in req[r].node
  /\ \/ Visible /\ Enabled(n) /\ Shared(r) /\ Finish(r)
     \/ Refuse(r) /\ Fails(r)

EnableProfile(r) ==
  /\ At(r, "enableAll") /\ req[r].todo = {} /\ Local(r)
  /\ \/ Visible /\ Goto(r, "enableAll") /\ req' = [req EXCEPT ![r].todo = Node] /\ KeepText
     \/ ~Visible /\ Refuse(r)

EnableNext(r, n) ==
  /\ At(r, "enableAll") /\ n \in req[r].todo
  /\ \/ Enabled(n) /\ Shared(r) /\ Visited(r, n, "done", {n})
     \/ Fails(r) /\ Visited(r, n, "done", {})

(* What drbd-reactorctl status says of the active node on n.                *)
ReactorShows(n) == IF \E t \in toml[n] : t.promoter THEN primary ELSE {}

(* evict_profile: the node asked for, or the active one as the controller's *)
(* reactor knows it.                                                        *)
EvictTarget(r) ==
  /\ At(r, "evict") /\ Local(r)
  /\ LET target == IF req[r].node # {} THEN req[r].node ELSE ReactorShows(c)
     IN \/ /\ toml[c] # {} /\ target # {}
           /\ Goto(r, "evictRun") /\ req' = [req EXCEPT ![r].node = target] /\ KeepText
        \/ (toml[c] = {} \/ target = {}) /\ Refuse(r)

EvictRun(r) ==
  /\ At(r, "evictRun")
  /\ \/ /\ primary = req[r].node
        /\ primary' \in AtMostOne({n \in Node : loaded[n] # {}} \ primary)
        /\ UNCHANGED files /\ Shared(r) /\ Finish(r)
     \/ primary # req[r].node /\ Local(r) /\ Finish(r)
     \/ Refuse(r) /\ Fails(r)

---------------------------------------------------------------------------
(* Status: what the details of a profile, and the list of profiles, say.    *)
Note(r, v) == view' = [view EXCEPT ![r] = v] /\ UNCHANGED <<text, editor>>
IsList(r) == req[r].op = "list"

(* The enabled file first, then the disabled one; a read that fails is a    *)
(* missing file.                                                            *)
StatusToml(r) ==
  /\ At(r, "toml") /\ UNCHANGED req /\ KeepText
  /\ \/ toml[c] # {} /\ Goto(r, IF IsList(r) THEN "active" ELSE "reactor") /\ Local(r)
     \/ toml[c] = {} /\ Goto(r, "disabled") /\ Local(r)
     \/ Goto(r, "disabled") /\ Fails(r)

(* A profile disabled here is disabled if no other node has its file.       *)
NowhereEnabled(r, v) ==
  /\ Note(r, [v EXCEPT !.truly = TRUE, !.peers = IF IsList(r) THEN {} ELSE Node])
  /\ IF IsList(r) THEN Goto(r, "done") /\ UNCHANGED req ELSE Loop(r, "flags", "done", Node)

AskOthers(r, v) ==
  IF Remote = {} THEN NowhereEnabled(r, v)
  ELSE Note(r, v) /\ Goto(r, "remote") /\ req' = [req EXCEPT ![r].todo = Remote]

StatusDisabledFile(r) ==
  /\ At(r, "disabled")
  /\ \/ /\ dis[c] # {} /\ Local(r)
        /\ LET v == [view[r] EXCEPT !.locally = TRUE]
           IN IF IsList(r) THEN AskOthers(r, v) ELSE Note(r, v) /\ Goto(r, "reactor") /\ UNCHANGED req
     \/ dis[c] = {} /\ Refuse(r) /\ Local(r)
     \/ Refuse(r) /\ Fails(r)

(* A reactor that knows the profile, or no answer, which reads as unknown.  *)
StatusReactor(r) ==
  /\ At(r, "reactor")
  /\ \E known \in {toml[c] # {}, FALSE} :
       /\ IF known \/ ~view[r].locally THEN Goto(r, "drbd") /\ UNCHANGED req /\ KeepText
          ELSE AskOthers(r, view[r])
       /\ Local(r) \/ (~known /\ Fails(r))

RemoteFirst(r, n) ==   \* mutant
  /\ At(r, "remote") /\ n \in req[r].todo
  /\ \/ /\ toml[n] # {} /\ Local(r) /\ KeepText
        /\ req' = [req EXCEPT ![r].node = {n}]
        /\ Goto(r, IF IsList(r) THEN "remoteStatus" ELSE "drbd")
     \/ ((toml[n] = {} /\ Local(r)) \/ Fails(r)) /\ NowhereEnabled(r, view[r])

StatusRemote(r, n) ==
  /\ At(r, "remote") /\ n \in req[r].todo
  /\ \/ /\ toml[n] # {} /\ Local(r) /\ KeepText
        /\ req' = [req EXCEPT ![r].node = {n}]
        /\ Goto(r, IF IsList(r) THEN "remoteStatus" ELSE "drbd")
     \/ /\ (toml[n] = {} /\ Local(r)) \/ Fails(r)
        /\ IF req[r].todo = {n} THEN NowhereEnabled(r, view[r]) ELSE Visited(r, n, "remote", {})

Shown(r, n) == view' = [view EXCEPT ![r].active = ReactorShows(n)] /\ UNCHANGED <<text, editor>>

StatusRemoteList(r) ==
  /\ At(r, "remoteStatus") /\ Goto(r, "done") /\ UNCHANGED req
  /\ \/ \E n \in req[r].node : Shown(r, n) /\ Local(r)
     \/ KeepText /\ Fails(r)

(* The controller's DRBD names the Primary, itself or a peer.               *)
StatusDrbd(r) ==
  /\ At(r, "drbd") /\ Goto(r, "active") /\ UNCHANGED req
  /\ \/ Note(r, [view[r] EXCEPT !.named = primary, !.known = TRUE]) /\ Local(r)
     \/ KeepText /\ Fails(r)

AnswerBoth(r, shown, asked) ==   \* mutant
  /\ Note(r, [view[r] EXCEPT !.active = shown \cup view[r].named, !.peers = Node])
  /\ Loop(r, "flags", "done", Node)
AnswerController(r, shown, asked) ==   \* mutant
  /\ Note(r, [view[r] EXCEPT !.active = IF shown = {} THEN asked ELSE shown, !.peers = Node])
  /\ Loop(r, "flags", "done", Node)

(* The active node as a reactor shows it, else as DRBD named it, and the    *)
(* nodes: the one asked and its DRBD peers, else those of the .res file.    *)
Answer(r, shown, asked) ==
  LET active == IF shown # {} THEN shown ELSE view[r].named
      v == view[r]
  IN /\ Note(r, IF ~v.known THEN [v EXCEPT !.active = active, !.peers = Node]
                ELSE IF asked = {c} THEN [v EXCEPT !.active = active, !.first = {c}, !.peers = Remote]
                ELSE [v EXCEPT !.active = active, !.first = active, !.peers = Node \ asked])
     /\ Loop(r, "flags", "done", Node)

ListActive(r) ==
  /\ At(r, "active") /\ IsList(r) /\ Goto(r, "done") /\ UNCHANGED req
  /\ (Shown(r, c) /\ Local(r)) \/ (KeepText /\ Fails(r))

StatusNoPrimary(r) ==
  /\ At(r, "active") /\ ~IsList(r) /\ view[r].named = {}
  /\ (Answer(r, ReactorShows(c), {c}) /\ Local(r)) \/ (Answer(r, {}, {c}) /\ Fails(r))

StatusActive(r) ==
  /\ At(r, "active") /\ ~IsList(r)
  /\ \/ /\ view[r].named = {c}
        /\ (Answer(r, ReactorShows(c), {c}) /\ Local(r)) \/ (Answer(r, {}, {c}) /\ Fails(r))
     \/ /\ view[r].named \cap Remote # {} /\ Goto(r, "remoteDrbd")
        /\ UNCHANGED req /\ KeepText /\ Local(r)

(* The Primary is asked for its own view; without an answer DRBD is unknown *)
(* and the controller's reactor has the last word.                          *)
StatusRemoteDrbd(r) ==
  /\ At(r, "remoteDrbd") /\ Goto(r, "remoteReactor") /\ UNCHANGED req
  /\ \/ KeepText /\ Local(r)
     \/ Note(r, [view[r] EXCEPT !.known = FALSE]) /\ Fails(r)

StatusRemoteReactor(r) ==
  /\ At(r, "remoteReactor")
  /\ \E n \in view[r].named :
       \/ toml[n] # {} /\ Answer(r, primary, {n}) /\ Local(r)
       \/ toml[n] = {} /\ Goto(r, "fallback") /\ UNCHANGED req /\ KeepText /\ Local(r)
       \/ Goto(r, "fallback") /\ UNCHANGED req /\ KeepText /\ Fails(r)

StatusFallback(r) ==
  /\ At(r, "fallback")
  /\ \/ Answer(r, ReactorShows(c), view[r].named) /\ Local(r)
     \/ Answer(r, {}, view[r].named) /\ Fails(r)

(* check_nodes_disabled_status, for the nodes that are listed.              *)
StatusFlags(r, n) ==
  LET shows == dis[n] # {} /\ n \in view[r].first \cup view[r].peers
      off(s) == /\ view' = [view EXCEPT ![r].off = @ \cup s]
                /\ req' = [req EXCEPT ![r].todo = @ \ {n}]
                /\ IF req[r].todo = {n} THEN Goto(r, "done") ELSE UNCHANGED pc
                /\ UNCHANGED <<text, editor>>
  IN /\ At(r, "flags") /\ n \in req[r].todo
     /\ \/ off(IF shows THEN {n} ELSE {}) /\ Local(r)
        \/ off({}) /\ Fails(r)

(* drbd-reactor moves the profile by itself, while someone looks.           *)
Failover ==
  /\ \E r \in Client : Running1(r) /\ req[r].op \in Looks
  /\ primary' \in AtMostOne({n \in Node : loaded[n] # {}}) \ {primary}
  /\ calm' = [q \in Client |-> calm[q] /\ req[q].op \notin Looks]
  /\ was' = [q \in Client |-> IF Running1(q) /\ req[q].op \in Looks
                              THEN was[q] \cup {primary'} ELSE was[q]]
  /\ UNCHANGED <<files, plan, request>>

---------------------------------------------------------------------------
Edit(r) ==
  \/ AddVip(r) \/ RemoveVip(r) \/ PutText(r) \/ BeginWrite(r) \/ WriteText(r)
  \/ ReadSync(r) \/ ReloadLocal(r) \/ LoadEditor(r) \/ FetchDetails(r) \/ ReadSave(r)
  \/ \E n \in Node : BeginSync(r, n) \/ SyncNode(r, n) \/ SyncReload(r, n) \/ PushNode(r, n)

Switch(r) ==
  \/ EnableProfile(r) \/ EvictTarget(r) \/ EvictRun(r)
  \/ \E n \in Node : DisableOnNode(r, n) \/ EnableOnNode(r, n) \/ EnableNext(r, n)

Look(r) ==
  \/ StatusToml(r) \/ StatusDisabledFile(r) \/ StatusReactor(r) \/ StatusRemoteList(r)
  \/ StatusDrbd(r) \/ ListActive(r) \/ StatusNoPrimary(r) \/ StatusActive(r)
  \/ StatusRemoteDrbd(r) \/ StatusRemoteReactor(r)
  \/ StatusFallback(r)
  \/ \E n \in Node : StatusRemote(r, n) \/ StatusFlags(r, n)

Handler(r) == Edit(r) \/ Switch(r) \/ Look(r)

Next ==
  \/ \E r \in Client : Handler(r) \/ Abort(r) \/ \E o \in Op : Ask(r, o)
  \/ Failover \/ QueuedReload

Spec == Init /\ [][Next]_vars

---------------------------------------------------------------------------
(* A text is on a node only if somebody wrote it, or began to, to the       *)
(* controller's file: no edit whose write failed, no enable of an old file  *)
(* and no copy gives a drbd-reactor a text of another origin.  Not that the *)
(* text is whole: a synchronisation that reads while a put is being written *)
(* sends an empty or a cut file to every reactor (vip.rs:92, state.rs:257,  *)
(* toml_edit.rs:196, 385, cluster_sync.rs:126, ops.rs:480).                 *)
Texts == INSTANCE PublishedTexts WITH held <- [n \in Node |-> toml[n] \cup dis[n] \cup loaded[n]]
Published == Texts!Spec

(* A node an answer reports as synced has the text that the request sent,   *)
(* and its reactor runs it, as long as nobody else changed a file in the    *)
(* meantime, whatever failed on the other nodes; and so has the controller, *)
(* unless its own copy was one of those that failed (cluster_sync.rs:       *)
(* 89-123; the save of toml_edit.rs:425 only copies).                       *)
SyncedHold ==
  \A r \in Client : (pc[r] = "done" /\ calm[r]) =>
    \A n \in req[r].synced :
      /\ req[r].op \in {"addVip", "removeVip", "sync", "save"} =>
           /\ toml[n] = text[r] /\ text[r] # {}
           /\ plan.embedded \/ req[r].op = "save" => toml[c] = text[r]
      /\ req[r].op \in {"addVip", "removeVip", "sync"} => loaded[n] = text[r]

(* What an edit is about to write over the file, if nobody else wrote to it *)
(* since the request began, keeps of it what the edit can see: the editor's *)
(* save the settings outside the array, and all that the array held when    *)
(* the editor loaded this very text, unless the parse was cut; an address   *)
(* change the services of a file on many lines, and nothing else: the mount *)
(* unit, the agents and the advanced settings are lost (toml_edit.rs:       *)
(* 335-378, vip.rs:60-92, utils.rs:209-286).                                *)
Kept(r, old, new) ==
  CASE req[r].op = "save" ->
         /\ new.advanced = old.advanced
         /\ (\E e \in editor[r] : e.from = old) /\ Cuts(old) = {} =>
              \A k \in DOMAIN old.start : \E j \in DOMAIN new.start : new.start[j] = old.start[k]
    [] req[r].op \in {"addVip", "removeVip"} ->
         /\ HasVip(new) = (req[r].op = "addVip")
         /\ ~old.inline => ParsedServices(new) = ParsedServices(old)
    [] OTHER -> TRUE

EditKeepsRest ==
  \A r \in Client : (pc[r] = "write" /\ calm[r]) =>
    \A old \in toml[c], new \in text[r] : Kept(r, old, new)

(* The details and the list agree with the cluster when nothing moves while *)
(* they are read: disabled means no node has the file, the active node is   *)
(* the one that serves, every node is listed once and flagged right         *)
(* (list.rs:288-362, 594-790, 976-1183).                                    *)
SteadyStatus ==
  \A r \in Client : (pc[r] = "done" /\ calm[r] /\ was[r] = {primary} /\ req[r].op \in Looks) =>
    LET v == view[r] IN
    /\ v.truly <=> \A n \in Node : toml[n] = {}
    /\ ~v.truly /\ ~IsList(r) => v.active = primary
    /\ IsList(r) => v.active \in {{}, primary}
    /\ ~IsList(r) => /\ v.first \cup v.peers = Node /\ v.first \cap v.peers = {}
                     /\ v.off = {n \in Node : dis[n] # {}}

(* Whatever moves and whatever is lost, the node an answer calls active was *)
(* serving the profile at some moment of the request (list.rs:594-790).     *)
ActiveWasPrimary ==
  \A r \in Client : (pc[r] = "done" /\ req[r].op \in Looks) =>
    view[r].active = {} \/ view[r].active \in was[r]
=============================================================================
