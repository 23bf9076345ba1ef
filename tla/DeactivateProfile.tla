------------------------- MODULE DeactivateProfile -------------------------
(***************************************************************************)
(* The deactivate_profile handler (drbd-ha/src/api/ha/control.rs): stop    *)
(* the services, release and unmount the mount point, demote and bring     *)
(* down the resource, remove the promoter file and reload the reactors.    *)
(* drbd-reactor keeps running on every node while the chain runs.          *)
(***************************************************************************)
EXTENDS DrbdCluster

CONSTANT Failover   \* TRUE: nodes may restart while the request runs

ASSUME FailoverAssumption == Failover \in BOOLEAN

VARIABLES pc,       \* the command the request runs next, or how it was answered
          attempt,  \* which of the three attempts to unmount is the next
          busy      \* processes hold the filesystem open after a lazy unmount

vars == <<clusterVars, pc, attempt, busy>>

c == Controller

Terminal == {"idle", "done", "failed", "notfound"}
Steps == {"stop", "kill", "umount", "lazyUmount", "secondary", "down", "remove",
          "reload", "answer"}

TypeOK ==
  /\ ClusterTypeOK
  /\ pc \in Terminal \cup Steps
  /\ attempt \in 1..3 /\ busy \in BOOLEAN

Init ==
  /\ \E p \in Node, file \in {"toml", "disabled"} :
       node = [n \in Node |-> [(IF n = p THEN ServingNode ELSE SyncedNode)
                                 EXCEPT !.file = IF n = c THEN file ELSE "toml"]]
  /\ linked = TRUE
  /\ pc = "idle" /\ attempt = 1 /\ busy = FALSE

---------------------------------------------------------------------------
Goto(p) == pc' = p /\ UNCHANGED attempt
Here(s) == node' = [node EXCEPT ![c] = s] /\ UNCHANGED linked
Quiet   == UNCHANGED clusterVars

Request ==
  /\ pc \in Terminal
  /\ pc' = (IF node[c].file = "toml" THEN "stop" ELSE "notfound")
  /\ attempt' = 1 /\ busy' = FALSE /\ Quiet

(* The client goes away: nobody is answered, what was done stays done.      *)
Abort == pc \in Steps /\ Goto("idle") /\ Quiet /\ UNCHANGED busy

(* systemctl stop of the services in reverse order, which may come too late *)
(* or fail and is logged; without systemd the request ends.                 *)
StopServices ==
  /\ pc = "stop" /\ UNCHANGED busy
  /\ \/ Here([node[c] EXCEPT !.svc = FALSE]) /\ Goto("kill")
     \/ Quiet /\ (Goto("kill") \/ Goto("failed"))

(* kill -9 of whatever lsof lists on the mount point; the result is logged. *)
KillHolders ==
  /\ pc = "kill" /\ Goto("umount") /\ UNCHANGED busy
  /\ \/ Here([node[c] EXCEPT !.svc = (@ /\ node[c].mount # "own")])
     \/ Quiet

Detach == node[c].mount = "own" /\ Here([node[c] EXCEPT !.mount = "none"])

UnmountForever ==   \* mutant
  /\ pc = "umount" /\ UNCHANGED busy
  /\ \/ ~node[c].svc /\ Detach /\ Goto("secondary")
     \/ Quiet /\ (Goto("kill") \/ Goto("failed"))

(* umount fails on a mount point that is in use or was not mounted; the     *)
(* holders are killed again before the next attempt.                        *)
Unmount ==
  /\ pc = "umount" /\ UNCHANGED busy
  /\ \/ ~node[c].svc /\ Detach /\ Goto("secondary")
     \/ Quiet /\ attempt < 3 /\ attempt' = attempt + 1 /\ pc' = "kill"
     \/ Quiet /\ attempt = 3 /\ Goto("lazyUmount")
     \/ Quiet /\ Goto("failed")

(* umount -l detaches the mount point under a service that still writes.    *)
LazyUnmount ==
  /\ pc = "lazyUmount"
  /\ \/ Detach /\ busy' = node[c].svc /\ Goto("secondary")
     \/ Quiet /\ Goto("failed") /\ UNCHANGED busy

InUse == node[c].mount # "none" \/ busy

(* drbdadm secondary: refused while the device is open, and the request     *)
(* fails; the resource may have to be up for it.                            *)
Demote ==
  /\ pc = "secondary" /\ UNCHANGED busy
  /\ \/ /\ ~InUse /\ node[c].up
        /\ Here([node[c] EXCEPT !.role = "Secondary", !.stack = FALSE]) /\ Goto("down")
     \/ Quiet /\ Goto("failed")

(* drbdadm down: refused on a Primary, and whatever its result is, it is    *)
(* only logged.                                                             *)
Down ==
  /\ pc = "down" /\ UNCHANGED busy
  /\ \/ node[c].role = "Secondary" /\ Here(DownCommand(node[c])) /\ Goto("remove")
     \/ Quiet /\ (Goto("remove") \/ Goto("failed"))

(* rm -f of the controller's promoter file; the result is dropped.          *)
RemoveConfig ==
  /\ pc = "remove" /\ Goto("reload") /\ UNCHANGED busy
  /\ \/ Here([node[c] EXCEPT !.file = "absent"])
     \/ Quiet

ReloadFails == pc = "reload" /\ Quiet /\ UNCHANGED busy /\ Goto("failed")   \* mutant

Reload ==
  /\ pc = "reload" /\ Goto("answer") /\ UNCHANGED <<busy, linked>>
  /\ node' \in ReloadOutcomes

AnswerStandby == pc = "answer" /\ Quiet /\ UNCHANGED busy /\ Goto("standby")   \* mutant

(* get_profile_status looks for the profile's file, enabled or disabled: a  *)
(* deactivation that removed it is answered with 404.                       *)
Answer ==
  /\ pc = "answer" /\ Quiet /\ UNCHANGED busy
  /\ Goto(IF node[c].file = "absent" THEN "notfound" ELSE "done")

---------------------------------------------------------------------------
Handler ==
  \/ StopServices \/ KillHolders \/ Unmount \/ LazyUnmount \/ Demote \/ Down
  \/ RemoveConfig \/ Reload \/ Answer

(* The service's last process ends: the stop that was queued, a crash, or   *)
(* the end of one that held the detached filesystem open.                   *)
HolderEnds ==
  /\ node[c].svc \/ busy
  /\ busy' = FALSE /\ Here([node[c] EXCEPT !.svc = FALSE]) /\ UNCHANGED <<pc, attempt>>

Environment ==
  \/ /\ UNCHANGED <<pc, attempt, busy>>
     /\ \E n \in Node : \/ ReactorPromote(n) \/ ReactorStack(n) \/ ReactorQuorumLoss(n)
                        \/ Handshake(n)
                        \/ (Failover /\ n # c /\ (NodeDown(n) \/ Boot(n)))
  \/ HolderEnds

Next == Request \/ Handler \/ Abort \/ Environment

Spec == Init /\ [][Next]_vars
(* The runtime runs a started request on.                                   *)
FairSpec == Spec /\ WF_vars(Handler)

---------------------------------------------------------------------------
(* The answer tells whether the profile is still there to be deactivated:   *)
(* after the error of a command, and after a 200, the controller has the    *)
(* promoter file, whatever was done; after a 404 it has none that is        *)
(* enabled, because there was none or because everything was done.  Nothing *)
(* that can fail the request comes after the removal.                       *)
AnswerTellsFile ==
  /\ pc \in {"failed", "done"} => node[c].file = "toml"
  /\ pc = "notfound" => node[c].file # "toml"

(* A started deactivation is answered: the attempts to unmount are counted. *)
RequestAnswered == (pc \in Steps) ~> (pc \in Terminal)

============================================================================
