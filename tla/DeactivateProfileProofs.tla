----------------------- MODULE DeactivateProfileProofs -----------------------
(***************************************************************************)
(* Proofs about DeactivateProfile for every finite set of nodes, with and  *)
(* without nodes that restart: the types, and that the answer tells whether *)
(* the promoter file is still there.  No step but the removal of the file   *)
(* touches a file, whatever a reactor, a failing node or a reload does      *)
(* meanwhile, and after the removal nothing can fail.                       *)
(***************************************************************************)
EXTENDS DeactivateProfile, TLAPS

(* The places of a request that has not removed the file yet, those after   *)
(* the removal, and the answers.                                            *)
Undone == {"stop", "kill", "umount", "lazyUmount", "secondary", "down", "remove", "failed", "done"}
Removing == {"reload", "answer"}
FileKept ==
  /\ pc \in Undone => node[c].file = "toml"
  /\ pc \in Removing => node[c].file \in {"toml", "absent"}
  /\ pc = "notfound" => node[c].file # "toml"
IInv == TypeOK /\ FileKept

(* What may happen to a node whose files nobody touches.                    *)
SameFile(t, s) == t \in NodeState /\ t.file = s.file

---------------------------------------------------------------------------
(* Commands of the handler, reactors, crashes and reloads leave it its file.*)
LEMMA CommandsKeepFile ==
  ASSUME NEW s \in NodeState
  PROVE  /\ SameFile(s, s)
         /\ SameFile([s EXCEPT !.svc = FALSE], s)
         /\ \A b \in BOOLEAN : SameFile([s EXCEPT !.svc = b], s)
         /\ SameFile([s EXCEPT !.mount = "none", !.svc = FALSE], s)
         /\ SameFile([s EXCEPT !.mount = "none"], s)
         /\ SameFile([s EXCEPT !.role = "Secondary", !.stack = FALSE], s)
         /\ SameFile(DownCommand(s), s)
BY DEF SameFile, NodeState, Mount, Role, DownCommand

LEMMA WorldKeepsFile ==
  ASSUME NEW s \in NodeState
  PROVE  /\ SameFile([s EXCEPT !.role = "Primary", !.stack = FALSE], s)
         /\ SameFile([s EXCEPT !.mount = "own", !.stack = TRUE, !.svc = TRUE], s)
         /\ SameFile([s EXCEPT !.mount = "none", !.stack = FALSE, !.svc = FALSE, !.role = "Secondary"], s)
         /\ SameFile([s EXCEPT !.alone = TRUE], s) /\ SameFile([s EXCEPT !.joined = TRUE], s)
         /\ SameFile(Stopped(s), s)
         /\ SameFile(Booted(s), s)
<1>1. /\ SameFile([s EXCEPT !.role = "Primary", !.stack = FALSE], s)
      /\ SameFile([s EXCEPT !.mount = "own", !.stack = TRUE, !.svc = TRUE], s)
      /\ SameFile([s EXCEPT !.mount = "none", !.stack = FALSE, !.svc = FALSE, !.role = "Secondary"], s)
      /\ SameFile([s EXCEPT !.alone = TRUE], s) /\ SameFile([s EXCEPT !.joined = TRUE], s)
  BY DEF SameFile, NodeState, Mount, Role
<1>2. SameFile(Stopped(s), s)
  BY DEF SameFile, Stopped, DownCommand, NodeState, Mount, Role
<1>3. SameFile(Booted(s), s)
  BY DEF SameFile, Booted, Stopped, DownCommand, NodeState, Mount, Role
<1>4. QED
  BY <1>1, <1>2, <1>3

LEMMA ReloadedKeepsFile ==
  ASSUME NEW s \in NodeState, NEW t \in Reloaded(s)
  PROVE  SameFile(t, s)
<1>1. \/ t = [s EXCEPT !.armed = TRUE]
      \/ t = [s EXCEPT !.armed = FALSE]
      \/ t = [s EXCEPT !.armed = FALSE, !.stack = FALSE, !.svc = FALSE, !.mount = "none", !.role = "Secondary"]
  BY DEF Reloaded
<1>2. SameFile([s EXCEPT !.armed = TRUE], s) /\ SameFile([s EXCEPT !.armed = FALSE], s)
  BY DEF SameFile, NodeState
<1>3. SameFile([s EXCEPT !.armed = FALSE, !.stack = FALSE, !.svc = FALSE, !.mount = "none", !.role = "Secondary"], s)
  BY DEF SameFile, NodeState, Mount, Role
<1>4. QED
  BY <1>1, <1>2, <1>3

(* A step that touches one node's state but not its file.                   *)
FilesStay == ClusterTypeOK' /\ \A n \in Node : node'[n].file = node[n].file

LEMMA OneNodeKeepsFiles ==
  ASSUME ClusterTypeOK, NEW n \in Node, NEW t, SameFile(t, node[n]),
         node' = [node EXCEPT ![n] = t], UNCHANGED linked
  PROVE  FilesStay
BY DEF ClusterTypeOK, SameFile, FilesStay

LEMMA QuietKeepsFiles ==
  ASSUME ClusterTypeOK, Quiet
  PROVE  FilesStay
BY DEF ClusterTypeOK, Quiet, clusterVars, FilesStay

LEMMA ReloadKeepsFiles ==
  ASSUME ClusterTypeOK, node' \in ReloadOutcomes, UNCHANGED linked
  PROVE  FilesStay
<1>1. \A n \in Node : node'[n] = node[n] \/ node'[n] \in Reloaded(node[n])
  BY DEF ReloadOutcomes
<1>2. \A n \in Node : SameFile(node'[n], node[n])
  BY <1>1, CommandsKeepFile, ReloadedKeepsFile DEF ClusterTypeOK
<1>3. node' \in [Node -> NodeState]
  BY <1>2 DEF ReloadOutcomes, SameFile
<1>4. QED
  BY <1>2, <1>3 DEF ClusterTypeOK, FilesStay, SameFile

(* Steps of the outside world.                                              *)
LEMMA EnvironmentKeepsFiles ==
  ASSUME ClusterTypeOK, Environment
  PROVE  FilesStay
<1>0. node \in [Node -> NodeState] /\ c \in Node
  BY ControllerAssumption DEF ClusterTypeOK, c
<1>1. ASSUME NEW n \in Node, ReactorPromote(n)
      PROVE  FilesStay
  <2>1. node' = [node EXCEPT ![n] = [node[n] EXCEPT !.role = "Primary", !.stack = FALSE]] /\ UNCHANGED linked
    BY <1>0, <1>1 DEF ReactorPromote
  <2>2. QED
    BY <1>0, <2>1, WorldKeepsFile, OneNodeKeepsFiles
<1>2. ASSUME NEW n \in Node, ReactorStack(n)
      PROVE  FilesStay
  <2>1. /\ node' = [node EXCEPT ![n] = [node[n] EXCEPT !.mount = "own", !.stack = TRUE, !.svc = TRUE]]
        /\ UNCHANGED linked
    BY <1>0, <1>2 DEF ReactorStack
  <2>2. QED
    BY <1>0, <2>1, WorldKeepsFile, OneNodeKeepsFiles
<1>3. ASSUME NEW n \in Node, ReactorQuorumLoss(n)
      PROVE  FilesStay
  <2>1. /\ node' = [node EXCEPT ![n] = [node[n] EXCEPT !.mount = "none", !.stack = FALSE, !.svc = FALSE,
                                                       !.role = "Secondary"]]
        /\ UNCHANGED linked
    BY <1>0, <1>3 DEF ReactorQuorumLoss
  <2>2. QED
    BY <1>0, <2>1, WorldKeepsFile, OneNodeKeepsFiles
<1>4. ASSUME NEW n \in Node, NodeDown(n) \/ Boot(n)
      PROVE  FilesStay
  <2>1. \/ node' = [node EXCEPT ![n] = Stopped(node[n])] /\ UNCHANGED linked
        \/ node' = [node EXCEPT ![n] = Booted(node[n])] /\ UNCHANGED linked
    BY <1>0, <1>4 DEF NodeDown, Boot
  <2>2. QED
    BY <1>0, <2>1, WorldKeepsFile, OneNodeKeepsFiles
<1>a. ASSUME NEW n \in Node, Handshake(n)
      PROVE  FilesStay
  <2>1. /\ UNCHANGED linked
        /\ \/ node' = [node EXCEPT ![n] = [node[n] EXCEPT !.alone = TRUE]]
           \/ node' = [node EXCEPT ![n] = [node[n] EXCEPT !.joined = TRUE]]
    BY <1>0, <1>a DEF Handshake
  <2>2. QED
    BY <1>0, <2>1, WorldKeepsFile, OneNodeKeepsFiles
<1>5. CASE HolderEnds
  BY <1>0, <1>5, CommandsKeepFile, OneNodeKeepsFiles DEF HolderEnds, Here
<1>6. QED
  BY <1>1, <1>2, <1>3, <1>4, <1>a, <1>5 DEF Environment

(* Steps of the handler, but for the removal.                               *)
LEMMA HandlerKeepsFiles ==
  ASSUME TypeOK, Handler, ~RemoveConfig
  PROVE  FilesStay
<1>0. ClusterTypeOK /\ node \in [Node -> NodeState] /\ c \in Node /\ node[c] \in NodeState
  BY ControllerAssumption DEF TypeOK, ClusterTypeOK, c
<1>1. ASSUME NEW t, SameFile(t, node[c]), Here(t)
      PROVE  FilesStay
  BY <1>0, <1>1, OneNodeKeepsFiles DEF Here
<1>2. Quiet => FilesStay
  BY <1>0, QuietKeepsFiles
<1>3. CASE StopServices
  BY <1>0, <1>1, <1>2, <1>3, CommandsKeepFile DEF StopServices
<1>4. CASE KillHolders
  <2>1. \A b \in BOOLEAN : SameFile([node[c] EXCEPT !.svc = b], node[c])
    BY <1>0, CommandsKeepFile
  <2>2. (node[c].svc /\ node[c].mount # "own") \in BOOLEAN
    OBVIOUS
  <2>3. SameFile([node[c] EXCEPT !.svc = (node[c].svc /\ node[c].mount # "own")], node[c])
    BY <2>1, <2>2
  <2>4. Quiet \/ Here([node[c] EXCEPT !.svc = (node[c].svc /\ node[c].mount # "own")])
    BY <1>4 DEF KillHolders
  <2>5. QED
    BY <1>1, <1>2, <2>3, <2>4
<1>5. CASE Unmount
  BY <1>0, <1>1, <1>2, <1>5, CommandsKeepFile DEF Unmount, Detach
<1>6. CASE LazyUnmount
  BY <1>0, <1>1, <1>2, <1>6, CommandsKeepFile DEF LazyUnmount, Detach
<1>7. CASE Demote
  BY <1>0, <1>1, <1>2, <1>7, CommandsKeepFile DEF Demote
<1>8. CASE Down
  BY <1>0, <1>1, <1>2, <1>8, CommandsKeepFile DEF Down
<1>9. CASE Reload
  BY <1>0, <1>9, ReloadKeepsFiles DEF Reload
<1>10. CASE Answer
  BY <1>2, <1>10 DEF Answer
<1>11. QED
  BY <1>3, <1>4, <1>5, <1>6, <1>7, <1>8, <1>9, <1>10 DEF Handler

(* The removal is the last command that matters: whatever fails, fails      *)
(* before it.                                                               *)
LEMMA RemovalKeeps ==
  ASSUME IInv, RemoveConfig
  PROVE  ClusterTypeOK' /\ pc' = "reload" /\ node'[c].file \in {"toml", "absent"}
<1>1. node \in [Node -> NodeState] /\ c \in Node /\ pc' = "reload"
  BY ControllerAssumption DEF IInv, TypeOK, ClusterTypeOK, RemoveConfig, Goto, c
<1>2. [node[c] EXCEPT !.file = "absent"] \in NodeState
  BY <1>1 DEF NodeState, File
<1>3. node[c].file = "toml" /\ node[c] \in NodeState
  BY <1>1 DEF IInv, FileKept, Undone, RemoveConfig
<1>4. CASE Quiet
  BY <1>1, <1>3, <1>4 DEF IInv, TypeOK, ClusterTypeOK, Quiet, clusterVars
<1>5. CASE Here([node[c] EXCEPT !.file = "absent"])
  BY <1>1, <1>2, <1>3, <1>5 DEF IInv, TypeOK, ClusterTypeOK, Here, NodeState
<1>6. QED
  BY <1>4, <1>5 DEF RemoveConfig

LEMMA PlacesAreKept ==
  ASSUME TypeOK, [Next]_vars
  PROVE  pc' \in Terminal \cup Steps /\ attempt' \in 1..3 /\ busy' \in BOOLEAN
<1>1. c \in Node /\ node[c].svc \in BOOLEAN
  BY ControllerAssumption DEF TypeOK, ClusterTypeOK, NodeState, c
<1>2. pc' \in Terminal \cup Steps
  BY DEF TypeOK, Next, Request, Handler, StopServices, KillHolders, Unmount, LazyUnmount, Demote, Down,
         RemoveConfig, Reload, Answer, Abort, Environment, HolderEnds, Goto, Terminal, Steps, vars
<1>3. busy' \in {busy, FALSE, node[c].svc}
  BY DEF TypeOK, Next, Request, Handler, StopServices, KillHolders, Unmount, LazyUnmount, Demote, Down,
         RemoveConfig, Reload, Answer, Abort, Environment, HolderEnds, vars
<1>4. attempt' \in 1..3
  <2>1. attempt \in 1..3
    BY DEF TypeOK
  <2>2. \/ attempt' = attempt \/ attempt' = 1 \/ (attempt < 3 /\ attempt' = attempt + 1)
    BY DEF Next, Request, Handler, StopServices, KillHolders, Unmount, LazyUnmount, Demote, Down,
           RemoveConfig, Reload, Answer, Abort, Environment, HolderEnds, Goto, vars
  <2>3. QED
    BY <2>1, <2>2
<1>5. QED
  BY <1>1, <1>2, <1>3, <1>4 DEF TypeOK

(* A request gets to the places where the file must still be there from one *)
(* of them, or when it has found the file; to those after the removal from  *)
(* the removal; and to a 404 when it found none.                            *)
LEMMA PlacesBefore ==
  ASSUME [Next]_vars, ~RemoveConfig
  PROVE  /\ pc' \in Undone => \/ pc \in Undone \/ node[c].file = "toml"
                              \/ pc \in Removing /\ node[c].file # "absent"
         /\ pc' \in Removing => pc \in Removing
         /\ pc' = "notfound" => pc = "notfound" \/ node[c].file # "toml"
BY DEF Next, Request, Handler, StopServices, KillHolders, Unmount, LazyUnmount, Demote, Down,
       RemoveConfig, Reload, Answer, Abort, Environment, HolderEnds, Goto, Undone, Removing, Terminal, vars

LEMMA Initially == Init => IInv
<1> SUFFICES ASSUME Init
             PROVE  IInv
  OBVIOUS
<1>1. PICK p \in Node, file \in {"toml", "disabled"} :
        node = [n \in Node |-> [(IF n = p THEN ServingNode ELSE SyncedNode)
                                  EXCEPT !.file = IF n = c THEN file ELSE "toml"]]
  BY DEF Init
<1>2. SyncedNode \in NodeState /\ ServingNode \in NodeState
  BY DEF ServingNode, SyncedNode, FreshNode, NodeState, Role, Disk, Lineage, Mount, File
<1>3. \A s \in NodeState, f \in File : [s EXCEPT !.file = f] \in NodeState
  BY DEF NodeState
<1>4. ASSUME NEW n \in Node
      PROVE  [(IF n = p THEN ServingNode ELSE SyncedNode) EXCEPT !.file = IF n = c THEN file ELSE "toml"] \in NodeState
  BY <1>2, <1>3 DEF File
<1>5. node \in [Node -> NodeState]
  BY <1>1, <1>4
<1>6. pc = "idle" /\ attempt = 1 /\ busy = FALSE /\ linked = TRUE
  BY DEF Init
<1>7. TypeOK
  <2>1. linked \in BOOLEAN /\ busy \in BOOLEAN
    BY <1>6, Zenon
  <2>2. pc \in Terminal \cup Steps /\ attempt \in 1..3
    BY <1>6 DEF Terminal
  <2>3. QED
    BY <1>5, <2>1, <2>2 DEF TypeOK, ClusterTypeOK
<1>8. FileKept
  BY <1>6 DEF FileKept, Undone, Removing
<1>9. QED
  BY <1>7, <1>8 DEF IInv

LEMMA Kept == IInv /\ [Next]_vars => IInv'
<1> SUFFICES ASSUME IInv, [Next]_vars
             PROVE  IInv'
  OBVIOUS
<1>1. CASE RemoveConfig
  BY <1>1, RemovalKeeps, PlacesAreKept DEF IInv, TypeOK, FileKept, Undone, Removing, c
<1>2. CASE ~RemoveConfig
  <2>1. FilesStay
    <3>1. CASE Handler
      BY <1>2, <3>1, HandlerKeepsFiles DEF IInv
    <3>2. CASE Environment
      BY <3>2, EnvironmentKeepsFiles DEF IInv, TypeOK
    <3>3. CASE Quiet
      BY <3>3, QuietKeepsFiles DEF IInv, TypeOK
    <3>4. QED
      BY <3>1, <3>2, <3>3 DEF Next, Request, Abort, vars, Quiet, clusterVars
  <2>2. ClusterTypeOK' /\ node'[c].file = node[c].file
    BY <2>1, ControllerAssumption DEF FilesStay, c
  <2>3. FileKept'
    BY <1>2, <2>2, PlacesBefore DEF IInv, FileKept, c
  <2>4. QED
    BY <2>2, <2>3, PlacesAreKept DEF IInv, TypeOK
<1>3. QED
  BY <1>1, <1>2

---------------------------------------------------------------------------
(* Up to the command that removes it the promoter file is in its place, and *)
(* what is answered later depends on it (deactivate_profile, control.rs).   *)
THEOREM Inductive == Spec => []IInv
BY Initially, Kept, PTL DEF Spec

(* The state of a deactivation and of its cluster is of the declared types. *)
THEOREM TypeCorrect == Spec => []TypeOK
<1>1. IInv => TypeOK
  BY DEF IInv
<1>2. QED
  BY <1>1, Inductive, PTL

(* On any number of nodes, and whatever reactors and restarts do meanwhile, *)
(* a deactivation answered with the error of a command, or with 200, has    *)
(* left the promoter file where it was, to be deactivated again, and after  *)
(* a 404 there is none (deactivate_profile, control.rs).                    *)
THEOREM AnswersTell == Spec => []AnswerTellsFile
<1>1. IInv => AnswerTellsFile
  BY DEF IInv, FileKept, AnswerTellsFile, Undone
<1>2. QED
  BY <1>1, Inductive, PTL

==============================================================================
