--------------------------- MODULE DeleteProfile ---------------------------
(***************************************************************************)
(* The delete_profile handler (drbd-ha/src/api/ha/delete.rs): take the     *)
(* profile out of service on the controller, then visit all nodes phase by *)
(* phase: demote and disconnect, bring down, wipe the metadata, remove the *)
(* .res file, remove the promoter file, reload.  A command that fails is   *)
(* logged and the chain goes on; the answer is 204 whatever happened.      *)
(***************************************************************************)
EXTENDS DrbdCluster

VARIABLES pc,      \* the phase the request is in, or how it was answered
          todo,    \* the nodes the phase has not visited yet
          at,      \* the node being demoted and disconnected
          res,     \* the nodes that have the resource's .res file
          asked,   \* the request's delete_resource parameter
          tidy     \* ghost: the profile was disabled and no command was lost

vars == <<clusterVars, pc, todo, at, res, asked, tidy>>

c == Controller

Terminal == {"idle", "deleted", "failed", "notfound"}
Steps == {"disable", "stop", "demote", "nodes", "umount", "secondary", "disconnect", "down",
          "wipe", "removeRes", "removePromoter", "reload"}

TypeOK ==
  /\ ClusterTypeOK
  /\ pc \in Terminal \cup Steps
  /\ todo \subseteq Node /\ at \in Node /\ res \subseteq Node
  /\ asked \in BOOLEAN /\ tidy \in BOOLEAN

DisabledNode == [SyncedNode EXCEPT !.file = "disabled", !.armed = FALSE]

(* The profile is disabled everywhere, or enabled and served by a node.      *)
Init ==
  /\ \/ tidy = TRUE /\ node = [n \in Node |-> DisabledNode]
     \/ tidy = FALSE /\ \E p \in Node :
          node = [n \in Node |-> IF n = p THEN ServingNode ELSE SyncedNode]
  /\ linked = TRUE
  /\ pc = "idle" /\ todo = {} /\ at = c /\ res = Node /\ asked = FALSE

---------------------------------------------------------------------------
Set(n, s) == node' = [node EXCEPT ![n] = s] /\ UNCHANGED linked
Quiet     == UNCHANGED clusterVars
Step(p, q) == pc = p /\ pc' = q /\ UNCHANGED <<todo, at, res, asked, tidy>>

(* A command turns n into s; on another node it may be lost on the way.     *)
Lost(n)    == n # c /\ Quiet /\ tidy' = FALSE
Sent(n, s) == (Set(n, s) /\ UNCHANGED tidy) \/ Lost(n)

(* Phase p of the loops over all nodes handles n; q follows when all are    *)
(* done.  The nodes' order is that of the node store.                       *)
Visit(p, q, n) ==
  /\ pc = p /\ n \in todo
  /\ IF todo = {n} THEN pc' = q /\ todo' = Node
     ELSE pc' = p /\ todo' = todo \ {n}
  /\ UNCHANGED <<at, asked>>

(* Both NAME.toml and NAME.toml.disabled are looked for.  The query is      *)
(* bound to _query: nothing below reads it.                                 *)
Request ==
  /\ pc \in Terminal /\ Quiet
  /\ pc' = IF node[c].file = "absent" THEN "notfound" ELSE "disable"
  /\ todo' = Node /\ asked' \in BOOLEAN /\ UNCHANGED <<at, res, tidy>>

(* The client goes away, or the node store cannot be read.                  *)
Abort == pc \in Steps /\ pc' = "failed" /\ Quiet /\ UNCHANGED <<todo, at, res, asked, tidy>>

(* local_primary is set by any role:Primary in the status, and also when    *)
(* there is none: the controller always counts as the active node.  The     *)
(* results of the commands here are dropped.                                *)
DisableReactor ==
  /\ Step("disable", "stop")
  /\ Set(c, ReactorDisabled(node[c])) \/ Quiet

StopServices == Step("stop", "demote") /\ (Set(c, [node[c] EXCEPT !.svc = FALSE]) \/ Quiet)

Demoted(s) == IF s.up /\ s.mount = "none" THEN [s EXCEPT !.role = "Secondary"] ELSE s

DemoteLocalUnknown ==   \* mutant
  Step("demote", "nodes") /\ Set(c, [node[c] EXCEPT !.role = "Unknown"])

DemoteLocal == Step("demote", "nodes") /\ Set(c, Demoted(node[c]))

ReadNodes == Step("nodes", "umount") /\ Quiet

(* umount of the mount point on the controller, refused while in use.       *)
Unmounted(s) == IF s.mount = "own" /\ ~s.svc THEN [s EXCEPT !.mount = "none"] ELSE s

UnmountLocal == Step("umount", "secondary") /\ Set(c, Unmounted(node[c]))

SecondaryNode(n) ==
  /\ pc = "secondary" /\ n \in todo
  /\ pc' = "disconnect" /\ at' = n /\ UNCHANGED <<todo, res, asked>>
  /\ Sent(n, Demoted(node[n]))

DisconnectNode ==
  /\ pc = "disconnect"
  /\ IF todo = {at} THEN pc' = "down" /\ todo' = Node
     ELSE pc' = "secondary" /\ todo' = todo \ {at}
  /\ UNCHANGED <<at, res, asked>>
  /\ Sent(at, [node[at] EXCEPT !.alone = @ \/ node[at].up])

(* drbdadm down is refused on a Primary; the failure is remembered for the  *)
(* log only.                                                                *)
Down(s) == IF s.role = "Secondary" THEN DownCommand(s) ELSE s

DownControllerOnly(n) ==   \* mutant
  /\ Visit("down", "wipe", n) /\ UNCHANGED <<res, tidy>>
  /\ IF n = c THEN Set(n, Down(node[n])) ELSE Quiet

DownNode(n) ==
  /\ Visit("down", "wipe", n) /\ UNCHANGED res
  /\ Sent(n, Down(node[n]))

(* drbdadm wipe-md needs the .res file and a resource that is down.         *)
Wiped(n) == IF n \in res /\ ~node[n].up THEN [node[n] EXCEPT !.disk = "NoMeta"] ELSE node[n]

WipeNode(n) ==
  /\ Visit("wipe", "removeRes", n) /\ UNCHANGED res
  /\ Sent(n, Wiped(n))

RemoveRes(n) ==
  /\ Visit("removeRes", "removePromoter", n)
  /\ \/ res' = res \ {n} /\ Quiet /\ UNCHANGED tidy
     \/ Lost(n) /\ UNCHANGED res

(* The controller's own files first, then those of the others.              *)
RemovePromoter(n) ==
  /\ n = c \/ c \notin todo
  /\ Visit("removePromoter", "reload", n) /\ UNCHANGED res
  /\ Sent(n, [node[n] EXCEPT !.file = "absent"])

(* The verification after the reload is only logged.                        *)
Reload == Step("reload", "deleted") /\ node' \in ReloadOutcomes /\ UNCHANGED linked

---------------------------------------------------------------------------
Handler ==
  \/ DisableReactor \/ StopServices \/ DemoteLocal \/ ReadNodes \/ UnmountLocal
  \/ DisconnectNode \/ Reload
  \/ \E n \in Node : \/ SecondaryNode(n) \/ DownNode(n) \/ WipeNode(n)
                     \/ RemoveRes(n) \/ RemovePromoter(n)

(* No node comes up while a deletion runs: there is no handshake.            *)
Environment ==
  /\ \E n \in Node : ReactorPromote(n) \/ ReactorStack(n) \/ ReactorQuorumLoss(n)
  /\ UNCHANGED <<pc, todo, at, res, asked, tidy>>

Next == Request \/ Handler \/ Abort \/ Environment

Spec == Init /\ [][Next]_vars

---------------------------------------------------------------------------
(* Deleting a disabled profile leaves nothing behind where no command was   *)
(* lost: the wipe that needs the .res file comes before the file goes, on   *)
(* every node, and each phase is over before the next one starts.           *)
CleanDelete ==
  pc = "deleted" /\ tidy => /\ res = {}
                            /\ \A n \in Node : /\ ~node[n].up /\ node[n].disk = "NoMeta"
                                                /\ node[n].file = "absent"

(* While a served profile is deleted, with reactors promoting wherever they *)
(* may and commands lost, no two nodes can write to the resource: the       *)
(* phases that cut the replicas apart rely on the quorum that the generated *)
(* resource asks for.  It says nothing of the node that serves, which may   *)
(* keep its mount and its role.                                             *)
SingleWriter == \A m, n \in Node : CanUse(m) /\ CanUse(n) => m = n

============================================================================
