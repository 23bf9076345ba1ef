-------------------------- MODULE ProfileFilesProofs --------------------------
(***************************************************************************)
(* Proofs about ProfileFiles, for any set of nodes and any number of       *)
(* clients.  First, that it implements PublishedTexts: whatever they do to *)
(* the files of a profile, a node holds only texts that were written to    *)
(* the controller's file, or what such a write shows before it is done.    *)
(* Then about the answers of the requests: which                           *)
(* node a status request or a listing calls active, which nodes an edit or *)
(* a synchronisation reports as done, what a status request says when      *)
(* nothing moves while it looks, and what an edit keeps.                   *)
(***************************************************************************)
EXTENDS ProfileFiles, FiniteSetTheorems, WellFoundedInduction, TLAPS

(* What is left of a text that was cut short, cut short again, is what is   *)
(* left of that text cut shorter.                                           *)
LEMMA CutTwice ==
  ASSUME NEW t, NEW b \in Beginnings(t), NEW d \in Beginnings(b)
  PROVE  d \in Beginnings(t)
<1> DEFINE P(x, n) == [promoter |-> FALSE, start |-> [k \in 1..n |-> x.start[k]],
                       inline |-> x.inline, advanced |-> FALSE]
           W(x) == [x EXCEPT !.advanced = FALSE]
<1>1. /\ b = W(t) \/ \E n \in 0..Len(t.start) : b = P(t, n)
      /\ d = W(b) \/ \E n \in 0..Len(b.start) : d = P(b, n)
  BY DEF Beginnings
<1>2. CASE b = W(t)
  <2>1. W(b) = W(t)
    BY <1>2
  <2>2. b.start = t.start /\ b.inline = t.inline
    BY <1>2
  <2>3. QED
    BY <1>1, <2>1, <2>2 DEF Beginnings
<1>3. ASSUME NEW n \in 0..Len(t.start), b = P(t, n)
      PROVE  d \in Beginnings(t)
  <2>1. CASE d = W(b)
    <3>1. d = P(t, n)
      BY <1>3, <2>1
    <3>2. QED
      BY <3>1 DEF Beginnings
  <2>2. ASSUME NEW m \in 0..Len(b.start), d = P(b, m)
        PROVE  d \in Beginnings(t)
    <3>1. n \in Nat /\ b.start = [k \in 1..n |-> t.start[k]] /\ b.inline = t.inline
      BY <1>3
    <3>2. Len(b.start) = n
      BY <3>1
    <3>3. CASE n \in 0..Len(t.start) /\ m \in 0..Len(t.start)
      <4>1. [k \in 1..m |-> b.start[k]] = [k \in 1..m |-> t.start[k]]
        BY <3>1, <3>2
      <4>2. d = P(t, m)
        BY <2>2, <3>1, <4>1
      <4>3. QED
        BY <3>3, <4>2 DEF Beginnings
    <3>4. m \in 0..Len(t.start)
      BY <1>3, <2>2, <3>2
    <3>5. QED
      BY <3>3, <3>4
  <2>3. QED
    BY <1>1, <2>1, <2>2
<1>4. QED
  BY <1>1, <1>2, <1>3

(* So whatever is left of a part of some texts is a part of them.           *)
LEMMA PartsOfParts ==
  ASSUME NEW S, NEW t \in Parts(S), NEW b \in Beginnings(t)
  PROVE  b \in Parts(S)
BY CutTwice DEF Parts

(* Every file and every reactor holds published texts, or what is left of   *)
(* such a text; so does what a request is about to send around; what it is  *)
(* about to write is one text and need not be published yet.                *)
FilesPublished ==
  /\ toml \in [Node -> SUBSET Parts(published)]
  /\ dis \in [Node -> SUBSET Parts(published)]
  /\ loaded \in [Node -> SUBSET Parts(published)]
Shape == DOMAIN pc = Client /\ DOMAIN text = Client
SendsPublished == \A r \in Client : pc[r] \in {"push", "reload"} => text[r] \subseteq Parts(published)
WritesOne == \A r \in Client : pc[r] \in {"write", "writing"} => \E t : text[r] = {t}

FInv == FilesPublished /\ Shape /\ SendsPublished /\ WritesOne

(* What a step may do to the files: copy published texts, whole or in part, *)
(* or write a text on the controller, which publishes it.                   *)
Copies == published' = published /\ FilesPublished'
Writes ==
  \E t : \E u \in Parts({t}) :
    /\ published' = published \cup {t}
    /\ toml' = [toml EXCEPT ![Controller] = {u}]
    /\ UNCHANGED <<dis, loaded>>

(* A request moves to a place from where it neither writes nor sends.       *)
Elsewhere(r) ==
  /\ UNCHANGED text
  /\ \/ UNCHANGED pc
     \/ \E p : p \notin {"write", "writing", "push", "reload"} /\ pc' = [pc EXCEPT ![r] = p]

(* Before the first request only the first text exists anywhere.            *)
LEMMA Initially == Init => FInv
BY DEF Init, FInv, FilesPublished, Shape, SendsPublished, WritesOne, Parts

(* A step that copies and leaves the requests elsewhere keeps the           *)
(* invariant.                                                               *)
LEMMA CopiesElsewhere ==
  ASSUME FInv, NEW r \in Client, Copies, Elsewhere(r)
  PROVE  FInv'
BY DEF FInv, Copies, Elsewhere, Shape, SendsPublished, WritesOne

(* Looks, aborts and questions leave the files alone.                       *)
LEMMA FilesKept ==
  ASSUME FInv, UNCHANGED files
  PROVE  Copies
BY DEF FInv, Copies, FilesPublished, files

---------------------------------------------------------------------------
(* What only looks (status, listings) changes no file and moves no request  *)
(* to a write or a send.                                                    *)
LEMMA LookSteps ==
  ASSUME FInv, NEW r \in Client, Look(r)
  PROVE  UNCHANGED files /\ Elsewhere(r)
<1> USE DEF Local, Fails, Goto, Loop, KeepText, Note, Refuse, Visited, Elsewhere
<1>1. CASE StatusToml(r)
  BY <1>1 DEF StatusToml
<1>2. CASE StatusDisabledFile(r)
  BY <1>2 DEF StatusDisabledFile, AskOthers, NowhereEnabled
<1>3. CASE StatusReactor(r)
  BY <1>3 DEF StatusReactor, AskOthers, NowhereEnabled
<1>4. CASE StatusRemoteList(r)
  BY <1>4 DEF StatusRemoteList, Shown
<1>5. CASE StatusDrbd(r)
  BY <1>5 DEF StatusDrbd
<1>6. CASE ListActive(r)
  BY <1>6 DEF ListActive, Shown
<1>7. CASE StatusNoPrimary(r)
  BY <1>7 DEF StatusNoPrimary, Answer
<1>8. CASE StatusActive(r)
  BY <1>8 DEF StatusActive, Answer
<1>9. CASE StatusRemoteDrbd(r)
  BY <1>9 DEF StatusRemoteDrbd
<1>10. CASE StatusRemoteReactor(r)
  BY <1>10 DEF StatusRemoteReactor, Answer
<1>11. CASE StatusFallback(r)
  BY <1>11 DEF StatusFallback, Answer
<1>12. ASSUME NEW n \in Node, StatusRemote(r, n)
       PROVE  UNCHANGED files /\ Elsewhere(r)
  BY <1>12 DEF StatusRemote, NowhereEnabled
<1>13. ASSUME NEW n \in Node, StatusFlags(r, n)
       PROVE  UNCHANGED files /\ Elsewhere(r)
  BY <1>13 DEF StatusFlags
<1>14. QED
  BY <1>1, <1>2, <1>3, <1>4, <1>5, <1>6, <1>7, <1>8, <1>9, <1>10, <1>11, <1>12, <1>13
  DEF Look

---------------------------------------------------------------------------
(* Enabling and disabling rename what a node has, evicting changes no file. *)
LEMMA SwitchSteps ==
  ASSUME FInv, NEW r \in Client, Switch(r)
  PROVE  Copies /\ Elsewhere(r)
<1> USE DEF Local, Fails, Goto, Loop, KeepText, Refuse, Finish, Visited, Elsewhere
<1>1. CASE EnableProfile(r)
  <2>1. UNCHANGED files /\ Elsewhere(r)
    BY <1>1 DEF EnableProfile
  <2>2. QED
    BY <2>1, FilesKept
<1>2. CASE EvictTarget(r)
  <2>1. UNCHANGED files /\ Elsewhere(r)
    BY <1>2 DEF EvictTarget
  <2>2. QED
    BY <2>1, FilesKept
<1>3. CASE EvictRun(r)
  <2>1. UNCHANGED files /\ Elsewhere(r)
    BY <1>3 DEF EvictRun
  <2>2. QED
    BY <2>1, FilesKept
<1>4. ASSUME NEW n \in Node, Disabled(n)
      PROVE  Copies
  BY <1>4 DEF Disabled, Sets, FInv, FilesPublished, Copies
<1>5. ASSUME NEW n \in Node, Enabled(n)
      PROVE  Copies
  BY <1>5 DEF Enabled, Sets, FInv, FilesPublished, Copies
<1>6. ASSUME NEW n \in Node, DisableOnNode(r, n)
      PROVE  Copies /\ Elsewhere(r)
  <2>1. Elsewhere(r)
    BY <1>6 DEF DisableOnNode
  <2>2. Disabled(n) \/ UNCHANGED files
    BY <1>6 DEF DisableOnNode
  <2>3. QED
    BY <1>4, <2>1, <2>2, FilesKept
<1>7. ASSUME NEW n \in Node, EnableOnNode(r, n)
      PROVE  Copies /\ Elsewhere(r)
  <2>1. Elsewhere(r)
    BY <1>7 DEF EnableOnNode
  <2>2. Enabled(n) \/ UNCHANGED files
    BY <1>7 DEF EnableOnNode
  <2>3. QED
    BY <1>5, <2>1, <2>2, FilesKept
<1>8. ASSUME NEW n \in Node, EnableNext(r, n)
      PROVE  Copies /\ Elsewhere(r)
  <2>1. Elsewhere(r)
    BY <1>8 DEF EnableNext
  <2>2. Enabled(n) \/ UNCHANGED files
    BY <1>8 DEF EnableNext
  <2>3. QED
    BY <1>5, <2>1, <2>2, FilesKept
<1>9. QED
  BY <1>1, <1>2, <1>3, <1>6, <1>7, <1>8 DEF Switch

---------------------------------------------------------------------------
(* A step that leaves the files alone and has the request hold one text, to *)
(* be written, keeps the invariant.                                         *)
LEMMA ToWrite ==
  ASSUME FInv, NEW r \in Client, UNCHANGED files, NEW t, text' = [text EXCEPT ![r] = {t}],
         pc' = [pc EXCEPT ![r] = "write"]
  PROVE  Copies /\ FInv'
<1>1. Copies
  BY FilesKept
<1>2. QED
  BY <1>1 DEF FInv, Copies, Shape, SendsPublished, WritesOne

(* The steps that write on the controller publish their text, wherever the  *)
(* request goes on.                                                         *)
LEMMA Publishes ==
  ASSUME FInv, NEW r \in Client, NEW t, text[r] = {t}, NEW u \in Parts({t}),
         toml' = [toml EXCEPT ![c] = {u}], published' = published \cup {t},
         UNCHANGED <<dis, loaded, text>>,
         NEW p, pc' = [pc EXCEPT ![r] = p]
  PROVE  Writes /\ FInv'
<1>1. Writes
  BY DEF Writes, c
<1>2. Parts(published) \subseteq Parts(published') /\ u \in Parts(published') /\ t \in Parts(published')
  BY DEF Parts
<1>3. FilesPublished'
  BY <1>2 DEF FInv, FilesPublished
<1>4. SendsPublished'
  BY <1>2 DEF FInv, Shape, SendsPublished
<1>5. Shape' /\ WritesOne'
  BY DEF FInv, Shape, WritesOne
<1>6. QED
  BY <1>1, <1>3, <1>4, <1>5 DEF FInv

(* The write of the controller's file begins, and for a while it shows a    *)
(* part of the text; a renamed one does not.                                *)
LEMMA BeginWriteStep ==
  ASSUME FInv, NEW r \in Client, BeginWrite(r)
  PROVE  (Copies \/ Writes) /\ FInv'
<1>1. PICK t : text[r] = {t}
  BY DEF FInv, WritesOne, BeginWrite, At
<1>2. pc' = [pc EXCEPT ![r] = "writing"] /\ UNCHANGED text
  BY DEF BeginWrite, Goto, KeepText
<1>3. CASE ~UNCHANGED files
  <2>1. PICK u \in Beginnings(t) : /\ toml' = [toml EXCEPT ![c] = {u}]
                                   /\ published' = published \cup {t}
                                   /\ UNCHANGED <<dis, loaded>>
    BY <1>1, <1>3 DEF BeginWrite, Sets, Rewrites, Local
  <2>2. u \in Parts({t})
    BY DEF Parts
  <2>3. QED
    BY <1>1, <1>2, <2>1, <2>2, Publishes
<1>4. CASE UNCHANGED files
  <2>1. Copies
    BY <1>4, FilesKept
  <2>2. QED
    BY <1>1, <1>2, <2>1 DEF FInv, Copies, Shape, SendsPublished, WritesOne
<1>5. QED
  BY <1>3, <1>4

(* It ends, or fails, with the text there or not.                           *)
LEMMA WriteTextStep ==
  ASSUME FInv, NEW r \in Client, WriteText(r)
  PROVE  (Copies \/ Writes) /\ FInv'
<1>1. CASE UNCHANGED files /\ Refuse(r)
  <2>1. Elsewhere(r)
    BY <1>1 DEF Refuse, Goto, KeepText, Elsewhere
  <2>2. QED
    BY <1>1, <2>1, FilesKept, CopiesElsewhere
<1>2. CASE Written(r) /\ (GoOn(r) \/ Refuse(r))
  <2>1. PICK t : text[r] = {t}
    BY DEF FInv, WritesOne, WriteText, At
  <2>2. /\ toml' = [toml EXCEPT ![c] = {t}]
        /\ published' = published \cup {t}
        /\ UNCHANGED <<dis, loaded>>
    BY <1>2, <2>1 DEF Written, Sets, Rewrites
  <2>3. UNCHANGED text
    BY <1>2 DEF GoOn, Refuse, KeepText
  <2>4. \E p : pc' = [pc EXCEPT ![r] = p]
    BY <1>2 DEF GoOn, Refuse, Goto, Loop
  <2>5. t \in Parts({t})
    BY DEF Parts
  <2>6. QED
    BY <2>1, <2>2, <2>3, <2>4, <2>5, Publishes
<1>3. QED
  BY <1>1, <1>2 DEF WriteText, Local

(* A put brings the text to write with it.                                  *)
LEMMA PutTextStep ==
  ASSUME FInv, NEW r \in Client, PutText(r)
  PROVE  Copies /\ FInv'
<1>1. PICK t : text' = [text EXCEPT ![r] = {t}]
  BY DEF PutText
<1>2. QED
  BY <1>1, ToWrite DEF PutText, Goto, Local

---------------------------------------------------------------------------
(* A request that has read the controller's file holds one text, which it   *)
(* writes, or the published text, which it sends.                           *)
LEMMA Rerendered ==
  ASSUME FInv, NEW r \in Client, NEW vip, Rerender(r, vip)
  PROVE  Copies /\ FInv'
<1>1. Copies
  BY FilesKept DEF Rerender, Local
<1>2. CASE Refuse(r)
  BY <1>1, <1>2, CopiesElsewhere DEF Refuse, Goto, KeepText, Elsewhere
<1>3. CASE ~Refuse(r)
  <2>1. PICK t : /\ text' = [text EXCEPT ![r] = {t}]
                 /\ pc' = [pc EXCEPT ![r] = "write"]
    BY <1>3 DEF Rerender, Goto
  <2>2. QED
    BY <1>1, <2>1 DEF FInv, Copies, Shape, SendsPublished, WritesOne
<1>4. QED
  BY <1>2, <1>3

(* The editor's save writes one text, made from what it has loaded.         *)
LEMMA ReadSaveStep ==
  ASSUME FInv, NEW r \in Client, ReadSave(r)
  PROVE  Copies /\ FInv'
<1>1. Copies
  BY FilesKept DEF ReadSave, Local
<1>2. CASE Refuse(r)
  BY <1>1, <1>2, CopiesElsewhere DEF Refuse, Goto, KeepText, Elsewhere
<1>3. CASE ~Refuse(r)
  <2>1. PICK t : /\ text' = [text EXCEPT ![r] = {t}]
                 /\ pc' = [pc EXCEPT ![r] = "write"]
    BY <1>3 DEF ReadSave, Goto
  <2>2. QED
    BY <1>1, <2>1 DEF FInv, Copies, Shape, SendsPublished, WritesOne
<1>4. QED
  BY <1>2, <1>3

(* A synchronisation sends what the controller has, which is published.     *)
LEMMA ReadSyncStep ==
  ASSUME FInv, NEW r \in Client, ReadSync(r)
  PROVE  Copies /\ FInv'
<1>1. Copies
  BY FilesKept DEF ReadSync, Local
<1>2. CASE Refuse(r)
  BY <1>1, <1>2, CopiesElsewhere DEF Refuse, Goto, KeepText, Elsewhere
<1>3. CASE ~Refuse(r)
  <2>1. text' = [text EXCEPT ![r] = toml[c]]
    BY <1>3 DEF ReadSync
  <2>2. \E p \in {"push", "reload"} : pc' = [pc EXCEPT ![r] = p]
    BY <1>3 DEF ReadSync, Loop, Goto
  <2>3. toml[c] \subseteq Parts(published)
    BY ControllerAssumption DEF FInv, FilesPublished, c
  <2>4. QED
    BY <1>1, <2>1, <2>2, <2>3 DEF FInv, Copies, Shape, SendsPublished, WritesOne
<1>4. QED
  BY <1>2, <1>3

(* Sending a published text, whole or in part, and loading what a node has, *)
(* are copies.                                                              *)
LEMMA CopiedStep ==
  ASSUME FInv, NEW r \in Client, NEW n \in Node, NEW s \in SUBSET Parts(published), Copied(r, n, s)
  PROVE  Copies
BY DEF Copied, Rewrites, Sets, FInv, FilesPublished, Copies

LEMMA LoadedStep ==
  ASSUME FInv, NEW n \in Node, Sets(loaded, n, toml[n]), UNCHANGED <<toml, dis, published>>
  PROVE  Copies
BY DEF Sets, FInv, FilesPublished, Copies

LEMMA SendSteps ==
  ASSUME FInv, NEW r \in Client, NEW n \in Node,
         BeginSync(r, n) \/ SyncNode(r, n) \/ SyncReload(r, n) \/ PushNode(r, n)
  PROVE  Copies /\ FInv'
<1>1. text[r] \subseteq Parts(published)
  BY DEF FInv, SendsPublished, BeginSync, SyncNode, SyncReload, PushNode, At
<1>2. ASSUME \E s \in SUBSET Parts(published) : Copied(r, n, s)
      PROVE  Copies
  BY <1>2, CopiedStep
<1>3. ASSUME UNCHANGED files
      PROVE  Copies
  BY <1>3, FilesKept
<1>4. ASSUME Sets(loaded, n, toml[n]) /\ UNCHANGED <<toml, dis, published>>
      PROVE  Copies
  BY <1>4, LoadedStep
<1>5. CASE BeginSync(r, n)
  <2>1. PICK t \in text[r] : \E b \in Beginnings(t) : Copied(r, n, {b})
    BY <1>5 DEF BeginSync
  <2>2. PICK b \in Beginnings(t) : Copied(r, n, {b})
    BY <2>1
  <2>3. {b} \subseteq Parts(published)
    BY <1>1, PartsOfParts
  <2>4. QED
    BY <1>5, <2>2, <2>3, <1>2 DEF BeginSync, KeepText, FInv, Copies, Shape, SendsPublished, WritesOne
<1>6. ASSUME SyncNode(r, n) \/ SyncReload(r, n) \/ PushNode(r, n)
      PROVE  /\ UNCHANGED text /\ pc[r] = "push"
             /\ UNCHANGED pc \/ \E p \in {"reload", "done"} : pc' = [pc EXCEPT ![r] = p]
  <2>1. pc[r] = "push"
    BY <1>6 DEF SyncNode, SyncReload, PushNode, At
  <2>2. UNCHANGED text
    BY <1>6 DEF SyncNode, SyncReload, PushNode, Visited, KeepText
  <2>3. UNCHANGED pc \/ \E p \in {"reload", "done"} : pc' = [pc EXCEPT ![r] = p]
    <3>1. \/ Visited(r, n, "done", {}) \/ Visited(r, n, "done", {n})
          \/ Synced(r, n, {}) \/ Synced(r, n, {n}) \/ UNCHANGED pc
      BY <1>6 DEF SyncNode, SyncReload, PushNode
    <3>2. ASSUME NEW ns, Synced(r, n, ns) \/ Visited(r, n, "done", ns)
          PROVE  UNCHANGED pc \/ \E p \in {"reload", "done"} : pc' = [pc EXCEPT ![r] = p]
      BY <3>2 DEF Visited, Synced, AfterSync, Goto
    <3>3. QED
      BY <3>1, <3>2
  <2>4. QED
    BY <2>1, <2>2, <2>3
<1>7. ASSUME SyncNode(r, n) \/ SyncReload(r, n) \/ PushNode(r, n)
      PROVE  Copies
  <2>1. \/ UNCHANGED files \/ Copied(r, n, text[r])
        \/ Sets(loaded, n, toml[n]) /\ UNCHANGED <<toml, dis, published>>
    <3>1. CASE SyncNode(r, n)
      BY <3>1 DEF SyncNode, Local
    <3>2. CASE SyncReload(r, n)
      BY <3>2 DEF SyncReload, Local
    <3>3. CASE PushNode(r, n)
      BY <3>3 DEF PushNode, Local
    <3>4. QED
      BY <1>7, <3>1, <3>2, <3>3
  <2>2. ASSUME Copied(r, n, text[r])
        PROVE  Copies
    <3>1. text[r] \in SUBSET Parts(published)
      BY <1>1
    <3>2. QED
      BY <2>2, <3>1 DEF Copied, Rewrites, Sets, FInv, FilesPublished, Copies
  <2>3. QED
    <3>1. CASE UNCHANGED files
      BY <3>1, <1>3
    <3>2. CASE Copied(r, n, text[r])
      BY <3>2, <2>2
    <3>3. CASE Sets(loaded, n, toml[n]) /\ UNCHANGED <<toml, dis, published>>
      BY <3>3, <1>4
    <3>4. QED
      BY <2>1, <3>1, <3>2, <3>3
<1>8. CASE SyncNode(r, n) \/ SyncReload(r, n) \/ PushNode(r, n)
  BY <1>1, <1>6, <1>7, <1>8 DEF FInv, Copies, Shape, SendsPublished, WritesOne
<1>9. QED
  BY <1>5, <1>8

(* The reload on the controller is only queued.                             *)
LEMMA ReloadStep ==
  ASSUME FInv, NEW r \in Client, ReloadLocal(r)
  PROVE  Copies /\ FInv'
<1>1. text[r] \subseteq Parts(published)
  BY DEF FInv, SendsPublished, ReloadLocal, At
<1>2. Copies
  BY DEF ReloadLocal, Local, files, FInv, FilesPublished, Copies
<1>3. UNCHANGED text
  BY DEF ReloadLocal, KeepText
<1>4. \E p \in {"push", "done"} : pc' = [pc EXCEPT ![r] = p]
  BY DEF ReloadLocal, Loop, Goto
<1>5. QED
  BY <1>1, <1>2, <1>3, <1>4 DEF FInv, Copies, Shape, SendsPublished, WritesOne

(* Every step of an edit publishes or copies.                               *)
LEMMA EditSteps ==
  ASSUME FInv, NEW r \in Client, Edit(r)
  PROVE  (Copies \/ Writes) /\ FInv'
<1>1. CASE AddVip(r) \/ RemoveVip(r)
  BY <1>1, Rerendered DEF AddVip, RemoveVip
<1>2. CASE LoadEditor(r) \/ FetchDetails(r)
  <2>1. UNCHANGED files /\ Elsewhere(r)
    BY <1>2 DEF LoadEditor, FetchDetails, Local, Refuse, Goto, KeepText, Elsewhere
  <2>2. QED
    BY <2>1, FilesKept, CopiesElsewhere
<1>3. QED
  BY <1>1, <1>2, BeginWriteStep, WriteTextStep, PutTextStep, ReadSyncStep, ReloadStep, ReadSaveStep, SendSteps
  DEF Edit

(* A client's question starts a request that holds no text yet.             *)
LEMMA AskSteps ==
  ASSUME FInv, NEW r \in Client, NEW o \in Op, Ask(r, o)
  PROVE  Copies /\ FInv'
<1>1. Copies
  BY FilesKept DEF Ask
<1>2. FirstStep[o] \notin {"write", "writing"}
  BY DEF FirstStep, Op, Edits, Switches, Looks
<1>3. /\ pc' = [pc EXCEPT ![r] = FirstStep[o]]
      /\ text' = [text EXCEPT ![r] = {}]
  BY DEF Ask, Goto
<1>4. QED
  BY <1>1, <1>2, <1>3 DEF FInv, Copies, Shape, SendsPublished, WritesOne

(* Every step copies or publishes, and keeps the invariant.                 *)
LEMMA NextSteps ==
  ASSUME FInv, Next
  PROVE  (Copies \/ Writes) /\ FInv'
<1>1. ASSUME NEW r \in Client, Edit(r)
      PROVE  (Copies \/ Writes) /\ FInv'
  BY <1>1, EditSteps
<1>2. ASSUME NEW r \in Client, Switch(r)
      PROVE  (Copies \/ Writes) /\ FInv'
  BY <1>2, SwitchSteps, CopiesElsewhere
<1>3. ASSUME NEW r \in Client, Look(r)
      PROVE  (Copies \/ Writes) /\ FInv'
  BY <1>3, LookSteps, FilesKept, CopiesElsewhere
<1>4. ASSUME NEW r \in Client, Abort(r)
      PROVE  (Copies \/ Writes) /\ FInv'
  <2>1. UNCHANGED files /\ Elsewhere(r)
    BY <1>4 DEF Abort, Refuse, Fails, Goto, KeepText, Elsewhere
  <2>2. QED
    BY <2>1, FilesKept, CopiesElsewhere
<1>5. CASE Failover
  <2>1. UNCHANGED files /\ UNCHANGED <<pc, text>>
    BY <1>5 DEF Failover, request
  <2>2. Copies
    BY <2>1, FilesKept
  <2>3. QED
    BY <2>1, <2>2 DEF FInv, Copies, Shape, SendsPublished, WritesOne
<1>6. CASE QueuedReload
  <2>1. Copies
    BY <1>6, ControllerAssumption, LoadedStep DEF QueuedReload, c
  <2>2. QED
    BY <1>6, <2>1 DEF QueuedReload, request, FInv, Copies, Shape, SendsPublished, WritesOne
<1>7. QED
  BY <1>1, <1>2, <1>3, <1>4, <1>5, <1>6, AskSteps DEF Next, Handler

(* At any time every file and every reactor of every node has published     *)
(* texts only, or what a write of one shows before it is done, and no       *)
(* request is about to send anything else: edits, syncs, toggles and VIP    *)
(* changes of toml_edit.rs, vip.rs, ops.rs, cluster_sync.rs.                *)
THEOREM FilesInvariant == Spec => []FInv
<1>1. FInv /\ [Next]_vars => FInv'
  <2>1. ASSUME FInv, UNCHANGED vars
        PROVE  FInv'
    BY <2>1 DEF FInv, FilesPublished, Shape, SendsPublished, WritesOne, vars, files, request
  <2>2. QED
    BY <2>1, NextSteps
<1>2. QED
  BY Initially, <1>1, PTL DEF Spec

---------------------------------------------------------------------------
(* A copy of published texts is a copy for the specification of PublishedTexts. *)
LEMMA CopiesRefine ==
  ASSUME Copies
  PROVE  Texts!Copy
BY DEF Copies, FilesPublished, Texts!Copy, Texts!Parts, Parts

(* The write of the controller's file publishes its text.                   *)
LEMMA WritesRefine ==
  ASSUME FInv, FInv', Writes
  PROVE  Texts!Publish
<1>1. PICK t, u : /\ u \in Parts({t})
                  /\ published' = published \cup {t}
                  /\ toml' = [toml EXCEPT ![Controller] = {u}]
                  /\ UNCHANGED <<dis, loaded>>
  BY DEF Writes
<1>2. [n \in Node |-> toml'[n] \cup dis'[n] \cup loaded'[n]] \in [Node -> SUBSET Parts(published')]
  BY DEF FInv, FilesPublished
<1>3. u \in toml'[Controller] \cup dis'[Controller] \cup loaded'[Controller]
  BY <1>1, ControllerAssumption DEF FInv, FilesPublished
<1>4. ASSUME NEW n \in Node \ {Controller}
      PROVE  toml'[n] = toml[n] /\ dis'[n] = dis[n] /\ loaded'[n] = loaded[n]
  BY <1>1, <1>4 DEF FInv, FilesPublished
<1>5. QED
  BY <1>1, <1>2, <1>3, <1>4, ControllerAssumption DEF Texts!Publish, Texts!Parts, Parts

(* ProfileFiles implements PublishedTexts: no order of edits, syncs,        *)
(* toggles, VIP changes and failures brings a text to a node that was not   *)
(* written to the controller's file before, whole or, like that file for a  *)
(* while, in part.                                                          *)
THEOREM TextsArePublished == Spec => Published
<1>1. Init => Texts!Init
  BY Initially DEF FInv, FilesPublished, Texts!Init, Texts!Parts, Parts
<1>2. FInv /\ FInv' /\ [Next]_vars => [Texts!Next]_(<<published, [n \in Node |-> toml[n] \cup dis[n] \cup loaded[n]]>>)
  <2>1. ASSUME FInv, FInv', Next
        PROVE  Texts!Next
    BY <2>1, NextSteps, CopiesRefine, WritesRefine DEF Texts!Next
  <2>2. ASSUME UNCHANGED vars
        PROVE  UNCHANGED <<published, [n \in Node |-> toml[n] \cup dis[n] \cup loaded[n]]>>
    BY <2>2 DEF vars, files
  <2>3. QED
    BY <2>1, <2>2
<1>3. QED
  BY <1>1, <1>2, FilesInvariant, PTL DEF Spec, Published, Texts!Spec

---------------------------------------------------------------------------
(* The request, the answer and the ghosts of every client are records of    *)
(* their own.                                                               *)
RequestFields == {"op", "node", "start", "todo", "fresh", "synced", "turns"}
ViewFields == {"locally", "truly", "named", "known", "active", "first", "peers", "off"}
AInv ==
  /\ DOMAIN pc = Client /\ DOMAIN text = Client /\ DOMAIN req = Client /\ DOMAIN view = Client
  /\ DOMAIN calm = Client /\ DOMAIN was = Client
  /\ \A r \in Client : DOMAIN req[r] = RequestFields /\ DOMAIN view[r] = ViewFields

(* A step of one request: it touches what belongs to its client, and says   *)
(* so in the ghosts when it changes what the others look at.                *)
SameText(r) == DOMAIN text' = Client /\ \A q \in Client \ {r} : text'[q] = text[q]
SameRequest(r) ==
  /\ DOMAIN req' = Client /\ \A q \in Client \ {r} : req'[q] = req[q]
  /\ DOMAIN req'[r] = RequestFields /\ req'[r].op = req[r].op
SameView(r) ==
  /\ DOMAIN view' = Client /\ \A q \in Client \ {r} : view'[q] = view[q]
  /\ DOMAIN view'[r] = ViewFields
Queues == UNCHANGED <<toml, dis, loaded, published, primary, plan, ghosts>>
Moves(r) == UNCHANGED pc \/ \E p : pc' = [pc EXCEPT ![r] = p]
Own(r) ==
  /\ pc[r] \in Running /\ Moves(r)
  /\ SameText(r) /\ SameRequest(r) /\ SameView(r)
  /\ Local(r) \/ Fails(r) \/ Shared(r) \/ Queues

---------------------------------------------------------------------------
(* Every step of a handler, and its end, is a step of its own request.      *)
LEMMA OwnEdits ==
  ASSUME AInv, NEW r \in Client, Edit(r)
  PROVE  Own(r) /\ UNCHANGED view
<1> USE DEF AInv, Own, Moves, SameText, SameRequest, SameView, At, Running, Goto, Loop, KeepText, Refuse, Finish,
            RequestFields
<1>1. CASE AddVip(r) \/ RemoveVip(r)
  BY <1>1 DEF AddVip, RemoveVip, Rerender
<1>2. CASE WriteText(r)
  BY <1>2 DEF WriteText, Written, Rewrites, GoOn
<1>2a. CASE BeginWrite(r)
  BY <1>2a DEF BeginWrite, Rewrites
<1>3. CASE PutText(r)
  BY <1>3 DEF PutText
<1>4. CASE ReadSync(r)
  BY <1>4 DEF ReadSync
<1>5. CASE ReloadLocal(r)
  BY <1>5 DEF ReloadLocal, Queues
<1>6. CASE LoadEditor(r)
  BY <1>6 DEF LoadEditor
<1>7. CASE FetchDetails(r)
  BY <1>7 DEF FetchDetails
<1>8. CASE ReadSave(r)
  BY <1>8 DEF ReadSave
<1>9. ASSUME NEW n \in Node, BeginSync(r, n) \/ SyncNode(r, n) \/ SyncReload(r, n) \/ PushNode(r, n)
      PROVE  Own(r) /\ UNCHANGED view
  <2>1. CASE BeginSync(r, n)
    BY <2>1 DEF BeginSync, Copied, Rewrites
  <2>2. CASE SyncNode(r, n)
    BY <2>2 DEF SyncNode, Synced, Copied, Rewrites
  <2>3. CASE SyncReload(r, n)
    BY <2>3 DEF SyncReload, Synced
  <2>4. CASE PushNode(r, n)
    BY <2>4 DEF PushNode, Visited, Copied, Rewrites
  <2>5. QED
    BY <1>9, <2>1, <2>2, <2>3, <2>4
<1>10. QED
  BY <1>1, <1>2, <1>2a, <1>3, <1>4, <1>5, <1>6, <1>7, <1>8, <1>9 DEF Edit

(* So is every step that switches the profile, and every end of a request.  *)
LEMMA OwnSwitches ==
  ASSUME AInv, NEW r \in Client, Switch(r)
  PROVE  Own(r) /\ UNCHANGED view
<1> USE DEF AInv, Own, Moves, SameText, SameRequest, SameView, At, Running, Goto, Loop, KeepText, Refuse, Finish,
            RequestFields
<1>1. CASE EnableProfile(r)
  BY <1>1 DEF EnableProfile
<1>2. CASE EvictTarget(r)
  BY <1>2 DEF EvictTarget
<1>3. CASE EvictRun(r)
  BY <1>3 DEF EvictRun
<1>4. ASSUME NEW n \in Node, DisableOnNode(r, n) \/ EnableOnNode(r, n)
      PROVE  Own(r) /\ UNCHANGED view
  BY <1>4 DEF DisableOnNode, EnableOnNode
<1>5. ASSUME NEW n \in Node, EnableNext(r, n)
      PROVE  Own(r) /\ UNCHANGED view
  BY <1>5 DEF EnableNext, Visited
<1>6. QED
  BY <1>1, <1>2, <1>3, <1>4, <1>5 DEF Switch

LEMMA OwnAbort ==
  ASSUME AInv, NEW r \in Client, Abort(r)
  PROVE  Own(r) /\ UNCHANGED view
BY DEF AInv, Own, Moves, SameText, SameRequest, SameView, Abort, Running1, Goto, KeepText, Refuse, RequestFields

(* What an answer may say of the active node: as before, nothing, the node  *)
(* that serves, or the one that DRBD named.                                 *)
Says(r) ==
  /\ view'[r].named \in {view[r].named, primary}
  /\ view'[r].active \in {view[r].active, {}, primary, view[r].named}

(* The answer of a status request names the node that a reactor or DRBD     *)
(* named.                                                                   *)
LEMMA AnswerSays ==
  ASSUME AInv, NEW r \in Client, NEW shown \in {{}, primary}, NEW asked, Answer(r, shown, asked)
  PROVE  Moves(r) /\ SameText(r) /\ SameRequest(r) /\ SameView(r) /\ Says(r)
BY DEF AInv, Moves, SameText, SameRequest, SameView, Says, Answer, Note, Loop, Goto, RequestFields, ViewFields

(* Asking the other nodes for their files says nothing about the active one.*)
LEMMA NowhereSays ==
  ASSUME AInv, NEW r \in Client, NEW v, DOMAIN v = ViewFields,
         v.named = view[r].named, v.active = view[r].active,
         NowhereEnabled(r, v) \/ AskOthers(r, v)
  PROVE  Moves(r) /\ SameText(r) /\ SameRequest(r) /\ SameView(r) /\ Says(r)
<1>1. Moves(r) /\ SameText(r)
  BY DEF AInv, Moves, SameText, NowhereEnabled, AskOthers, Note, Loop, Goto
<1>2. SameRequest(r)
  BY DEF AInv, SameRequest, NowhereEnabled, AskOthers, Loop, RequestFields
<1>3. PICK w : /\ view' = [view EXCEPT ![r] = w] /\ DOMAIN w = ViewFields
               /\ w.named = v.named /\ w.active = v.active
  <2>1. CASE AskOthers(r, v) /\ Remote # {}
    BY <2>1 DEF AskOthers, Note
  <2>2. CASE NowhereEnabled(r, v)
    <3> DEFINE u == [v EXCEPT !.truly = TRUE, !.peers = IF IsList(r) THEN {} ELSE Node]
    <3>1. view' = [view EXCEPT ![r] = u]
      BY <2>2 DEF NowhereEnabled, Note
    <3>2. DOMAIN u = ViewFields /\ u.named = v.named /\ u.active = v.active
      BY DEF ViewFields
    <3>3. QED
      BY <3>1, <3>2
  <2>3. QED
    BY <2>1, <2>2 DEF AskOthers
<1>4. SameView(r) /\ Says(r)
  BY <1>3 DEF AInv, SameView, Says
<1>5. QED
  BY <1>1, <1>2, <1>4

(* Every look is a step of its own request, and moves nothing.              *)
LEMMA OwnLooks ==
  ASSUME AInv, NEW r \in Client, Look(r)
  PROVE  Own(r) /\ Says(r) /\ UNCHANGED primary
<1> USE DEF AInv, Own, Moves, SameText, SameRequest, SameView, Says, At, Running, Goto, Loop, KeepText, Refuse, Note,
            RequestFields, ViewFields, Local, Fails, ReactorShows
<1>1. CASE StatusToml(r)
  BY <1>1 DEF StatusToml
<1>2. CASE StatusDisabledFile(r)
  <2>1. CASE KeepText /\ Moves(r) /\ SameRequest(r)
    BY <1>2, <2>1 DEF StatusDisabledFile
  <2>2. CASE AskOthers(r, [view[r] EXCEPT !.locally = TRUE])
    <3>1. Moves(r) /\ SameText(r) /\ SameRequest(r) /\ SameView(r) /\ Says(r)
      BY <2>2, NowhereSays
    <3>2. QED
      BY <1>2, <3>1 DEF StatusDisabledFile
  <2>3. CASE /\ Note(r, [view[r] EXCEPT !.locally = TRUE])
             /\ Goto(r, "reactor") /\ UNCHANGED req
    BY <1>2, <2>3 DEF StatusDisabledFile
  <2>4. QED
    BY <1>2, <2>1, <2>2, <2>3 DEF StatusDisabledFile
<1>3. CASE StatusReactor(r)
  <2>1. (Goto(r, "drbd") /\ UNCHANGED req /\ KeepText) \/ AskOthers(r, view[r])
    BY <1>3 DEF StatusReactor
  <2>2. Moves(r) /\ SameText(r) /\ SameRequest(r) /\ SameView(r) /\ Says(r)
    BY <2>1, NowhereSays
  <2>3. QED
    BY <1>3, <2>2 DEF StatusReactor
<1>4. CASE StatusRemoteList(r)
  BY <1>4, ZenonT(60) DEF StatusRemoteList, Shown
<1>5. CASE StatusDrbd(r)
  BY <1>5 DEF StatusDrbd
<1>6. CASE ListActive(r)
  <2>1. CASE Shown(r, c)
    BY <1>6, <2>1 DEF ListActive, Shown
  <2>2. CASE KeepText
    BY <1>6, <2>2 DEF ListActive
  <2>3. QED
    BY <1>6, <2>1, <2>2 DEF ListActive
<1>7. CASE StatusNoPrimary(r)
  BY <1>7, AnswerSays DEF StatusNoPrimary
<1>8. CASE StatusActive(r)
  BY <1>8, AnswerSays DEF StatusActive
<1>9. CASE StatusRemoteDrbd(r)
  BY <1>9, ZenonT(60) DEF StatusRemoteDrbd
<1>10. CASE StatusRemoteReactor(r)
  BY <1>10, AnswerSays DEF StatusRemoteReactor
<1>11. CASE StatusFallback(r)
  BY <1>11, AnswerSays DEF StatusFallback
<1>12. ASSUME NEW n \in Node, StatusRemote(r, n)
       PROVE  Own(r) /\ Says(r) /\ UNCHANGED primary
  <2>1. CASE KeepText /\ Moves(r) /\ SameRequest(r)
    BY <1>12, <2>1 DEF StatusRemote
  <2>2. CASE NowhereEnabled(r, view[r])
    BY <1>12, <2>2, NowhereSays DEF StatusRemote
  <2>3. QED
    BY <1>12, <2>1, <2>2 DEF StatusRemote, Visited
<1>13. ASSUME NEW n \in Node, StatusFlags(r, n)
       PROVE  Own(r) /\ Says(r) /\ UNCHANGED primary
  BY <1>13 DEF StatusFlags
<1>14. QED
  BY <1>1, <1>2, <1>3, <1>4, <1>5, <1>6, <1>7, <1>8, <1>9, <1>10, <1>11, <1>12, <1>13
  DEF Look

---------------------------------------------------------------------------
(* While someone looks, the node that serves is among those the ghost was   *)
(* remembers, and so is every node that the answer names so far.            *)
Seen(r) == req[r].op \in Looks =>
  /\ pc[r] \in Running => primary \in was[r]
  /\ pc[r] \in Running \cup {"done"} => /\ view[r].named \in was[r] \cup {{}}
                                        /\ view[r].active \in was[r] \cup {{}}
SeenInv == AInv /\ \A r \in Client : Seen(r)

(* At the start nobody looks.                                               *)
LEMMA SeenInitially == Init => SeenInv
BY DEF Init, SeenInv, AInv, Seen, NoRequest, NoView, RequestFields, ViewFields, Running

(* A step of a request leaves records where records were.                   *)
LEMMA OwnKeepsShape ==
  ASSUME AInv, NEW r \in Client, Own(r)
  PROVE  AInv'
<1>1. DOMAIN pc' = Client
  BY DEF AInv, Own, Moves
<1>2. DOMAIN calm' = Client /\ DOMAIN was' = Client
  BY DEF AInv, Own, Local, ghosts, Fails, Shared, Queues
<1>3. QED
  BY <1>1, <1>2 DEF AInv, Own, SameText, SameRequest, SameView

(* A node that the ghost remembers stays remembered, the serving one too.   *)
LEMMA OwnKeepsWas ==
  ASSUME AInv, NEW r \in Client, Own(r), NEW q \in Client
  PROVE  /\ \A p \in was[q] : p \in was'[q]
         /\ primary \in was[q] /\ pc[q] \in Running /\ req[q].op \in Looks => primary' \in was'[q]
<1>1. CASE Local(r) \/ Fails(r) \/ Queues
  BY <1>1 DEF Local, Fails, Queues, ghosts
<1>2. CASE Shared(r)
  BY <1>2 DEF Shared, Running1
<1>3. QED
  BY <1>1, <1>2 DEF Own

(* What an answer names remains among the remembered nodes.                 *)
LEMMA OwnKeepsSeen ==
  ASSUME SeenInv, NEW r \in Client, Own(r), UNCHANGED view \/ (Says(r) /\ UNCHANGED primary)
  PROVE  SeenInv'
<1>1. AInv /\ AInv'
  BY OwnKeepsShape DEF SeenInv
<1>2. ASSUME NEW q \in Client, req'[q].op \in Looks
      PROVE  /\ pc'[q] \in Running => primary' \in was'[q]
             /\ pc'[q] \in Running \cup {"done"} =>
                  /\ view'[q].named \in was'[q] \cup {{}} /\ view'[q].active \in was'[q] \cup {{}}
  <2>1. req[q].op \in Looks /\ Seen(q)
    BY <1>2 DEF SeenInv, Own, SameRequest
  <2>2. CASE q # r
    <3>1. pc'[q] = pc[q] /\ view'[q] = view[q]
      BY <1>1, <2>2 DEF AInv, Own, Moves, SameView
    <3>2. QED
      BY <1>1, <2>1, <3>1, OwnKeepsWas DEF Seen
  <2>3. CASE q = r
    <3>1. primary \in was[q] /\ primary' \in was'[q]
      BY <1>1, <2>1, <2>3, OwnKeepsWas DEF Seen, Own
    <3>2. view[q].named \in was'[q] \cup {{}} /\ view[q].active \in was'[q] \cup {{}}
      BY <1>1, <2>1, <2>3, OwnKeepsWas DEF Seen, Own
    <3>3. primary \in was'[q]
      BY <1>1, <2>3, <3>1, OwnKeepsWas
    <3>4. QED
      BY <2>3, <3>1, <3>2, <3>3 DEF Says
  <2>4. QED
    BY <2>2, <2>3
<1>3. QED
  BY <1>1, <1>2 DEF SeenInv, Seen

(* A new request remembers who serves when it starts.                       *)
LEMMA AskKeepsSeen ==
  ASSUME SeenInv, NEW r \in Client, NEW o \in Op, Ask(r, o)
  PROVE  SeenInv'
<1>1. /\ view' = [view EXCEPT ![r] = NoView]
      /\ calm' = [calm EXCEPT ![r] = TRUE]
      /\ was' = [was EXCEPT ![r] = IF o \in Looks THEN {primary} ELSE {}]
      /\ pc' = [pc EXCEPT ![r] = FirstStep[o]] /\ UNCHANGED primary
      /\ text' = [text EXCEPT ![r] = {}]
  BY DEF Ask, Goto
<1>2. PICK n, s, t : req' = [req EXCEPT ![r] = [NoRequest EXCEPT !.op = o, !.node = n, !.start = s,
                                                                !.turns = t]]
  BY DEF Ask
<1>3. AInv'
  BY <1>1, <1>2 DEF SeenInv, AInv, NoRequest, NoView, RequestFields, ViewFields
<1>4. req'[r].op = o /\ \A q \in Client \ {r} : req'[q] = req[q]
  BY <1>2 DEF SeenInv, AInv, NoRequest
<1>5. ASSUME NEW q \in Client
      PROVE  Seen(q)'
  <2>1. CASE q = r
    BY <1>1, <1>4, <2>1 DEF SeenInv, AInv, Seen, NoView
  <2>2. CASE q # r
    BY <1>1, <1>4, <2>2 DEF SeenInv, AInv, Seen
  <2>3. QED
    BY <2>1, <2>2
<1>6. QED
  BY <1>3, <1>5 DEF SeenInv

(* A failover is remembered by all that look.                               *)
LEMMA FailoverKeepsSeen ==
  ASSUME SeenInv, Failover
  PROVE  SeenInv'
<1>1. AInv' /\ UNCHANGED <<pc, req, view>>
  BY DEF SeenInv, AInv, Failover, request
<1>2. ASSUME NEW q \in Client
      PROVE  Seen(q)'
  BY <1>1 DEF SeenInv, AInv, Seen, Failover, Running1
<1>3. QED
  BY <1>1, <1>2 DEF SeenInv

(* Every step keeps what was seen.                                          *)
LEMMA SeenIsKept ==
  ASSUME SeenInv, [Next]_vars
  PROVE  SeenInv'
<1> USE DEF SeenInv
<1>1. ASSUME NEW r \in Client, Handler(r) \/ Abort(r)
      PROVE  SeenInv'
  BY <1>1, OwnEdits, OwnSwitches, OwnLooks, OwnAbort, OwnKeepsSeen DEF Handler
<1>2. CASE UNCHANGED vars
  BY <1>2 DEF vars, files, request, ghosts, AInv, Seen
<1>3. CASE QueuedReload
  BY <1>3 DEF QueuedReload, request, ghosts, AInv, Seen
<1>4. QED
  BY <1>1, <1>2, <1>3, AskKeepsSeen, FailoverKeepsSeen DEF Next

(* The node that a status request or a listing calls active was serving the *)
(* profile at some moment of the request, whatever moves and whatever is    *)
(* lost while fetch_profile_details and list_profiles (list.rs) look.       *)
THEOREM ActiveServed == Spec => []ActiveWasPrimary
<1>1. SeenInv => ActiveWasPrimary
  BY DEF SeenInv, Seen, ActiveWasPrimary
<1>2. QED
  BY <1>1, SeenInitially, SeenIsKept, PTL DEF Spec

---------------------------------------------------------------------------
(* An edit or a synchronisation that nobody disturbed is at one of its own  *)
(* places; the controller has what it sends, unless that is sent to it with *)
(* the rest, and the nodes that it is done with have that text, which their *)
(* reactors run unless the editor's save sent it.                           *)
Syncs == {"addVip", "removeVip", "sync"}
Holds1(r, n) ==
  /\ toml[n] = text[r]
  /\ req[r].op \in Syncs => loaded[n] = text[r]
InPlace(r) == plan.embedded \/ req[r].op = "save"
Sent(r) ==
  /\ text[r] # {}
  /\ InPlace(r) => toml[c] = text[r] /\ (pc[r] = "push" => c \notin req[r].todo)
  /\ \A n \in req[r].synced : n \in Node /\ Holds1(r, n)
  /\ \A n \in req[r].fresh : n \in Node /\ toml[n] = text[r]
  /\ req[r].todo \cap (req[r].synced \cup req[r].fresh) = {}
Sending(r) == calm[r] /\ req[r].op \in Syncs \cup {"save"} =>
  /\ pc[r] \in {"details", "read", "write", "writing", "push", "reload"} \cup Answered
  /\ pc[r] \in {"details", "read", "write", "writing"} \/ (pc[r] = "reload" /\ req[r].op = "save") =>
       req[r].synced = {} /\ req[r].fresh = {}
  /\ pc[r] \in {"push", "reload", "done"} => Sent(r)
SendInv == AInv /\ FInv /\ \A r \in Client : Sending(r)

(* At the start nobody is calm.                                             *)
LEMMA SendInitially == Init => SendInv
BY Initially DEF Init, SendInv, AInv, Sending, NoRequest, NoView, RequestFields, ViewFields

(* A step of one request that leaves another calm has not touched the files *)
(* that the other sent.                                                     *)
LEMMA OthersKeepSending ==
  ASSUME SendInv, NEW r \in Client, Own(r), NEW q \in Client \ {r}
  PROVE  Sending(q)'
<1> SUFFICES ASSUME calm'[q]
             PROVE  Sending(q)'
  BY DEF Sending
<1>1. calm[q] /\ UNCHANGED <<toml, loaded, plan>>
  <2>1. CASE Local(r) \/ Queues
    BY <2>1 DEF Local, Queues, files, ghosts
  <2>2. CASE Fails(r)
    BY <2>2 DEF SendInv, AInv, Fails, files
  <2>3. CASE Shared(r)
    BY <2>3 DEF Shared
  <2>4. QED
    BY <2>1, <2>2, <2>3 DEF Own
<1>2. pc'[q] = pc[q] /\ text'[q] = text[q] /\ req'[q] = req[q]
  BY DEF SendInv, AInv, Own, Moves, SameText, SameRequest
<1>3. QED
  BY <1>1, <1>2 DEF SendInv, Sending, Sent, InPlace, Holds1, c

(* The write on the controller starts the loop over the others with the     *)
(* text just written.                                                       *)
LEMMA WriteKeepsSending ==
  ASSUME SendInv, NEW r \in Client, BeginWrite(r) \/ WriteText(r)
  PROVE  Sending(r)'
<1> SUFFICES ASSUME calm'[r], req'[r].op \in Syncs \cup {"save"}
             PROVE  Sending(r)'
  BY DEF Sending
<1>1. PICK t : text[r] = {t}
  BY DEF SendInv, FInv, WritesOne, BeginWrite, WriteText, At
<1>2. UNCHANGED text /\ calm[r] /\ pc[r] \in {"write", "writing"} /\ UNCHANGED plan
  BY DEF BeginWrite, WriteText, Written, GoOn, Refuse, Rewrites, KeepText, Shared, Local, ghosts, At
<1>3. /\ req'[r].op = req[r].op /\ req'[r].synced = req[r].synced /\ req'[r].fresh = req[r].fresh
  BY DEF SendInv, AInv, BeginWrite, WriteText, GoOn, Refuse, Loop, RequestFields
<1>4. req[r].synced = {} /\ req[r].fresh = {}
  BY <1>2, <1>3 DEF SendInv, Sending
<1>5. CASE BeginWrite(r)
  <2>1. pc'[r] = "writing"
    BY <1>5 DEF SendInv, AInv, BeginWrite, Goto
  <2>2. QED
    BY <1>3, <1>4, <2>1 DEF Sending
<1>6. CASE WriteText(r) /\ Refuse(r)
  <2>1. pc'[r] = "refused"
    BY <1>6 DEF SendInv, AInv, Refuse, Goto
  <2>2. QED
    BY <2>1 DEF Sending, Answered
<1>7. CASE Written(r) /\ GoOn(r)
  <2>1. toml'[c] = text'[r]
    BY <1>2, <1>7, ControllerAssumption DEF SendInv, FInv, FilesPublished, c, Written, Sets
  <2>2. pc'[r] \in {"push", "reload", "done"} /\ (pc'[r] = "reload" => req[r].op = "save")
    BY <1>7 DEF SendInv, AInv, GoOn, Goto, Loop
  <2>3. pc'[r] = "push" => req'[r].todo = Synchronised /\ req[r].op # "save"
    BY <1>7 DEF SendInv, AInv, GoOn, Goto, Loop, RequestFields
  <2>4. plan.embedded => c \notin Synchronised
    BY DEF Synchronised, Remote
  <2>5. Sent(r)'
    BY <1>1, <1>2, <1>3, <1>4, <2>1, <2>3, <2>4 DEF Sent, InPlace, c
  <2>6. QED
    BY <1>3, <1>4, <2>2, <2>5 DEF Sending, Answered
<1>8. QED
  BY <1>5, <1>6, <1>7 DEF WriteText

(* While a node is being written, no node that is done with is touched.     *)
LEMMA BeginKeepsSending ==
  ASSUME SendInv, NEW r \in Client, NEW n \in Node, BeginSync(r, n)
  PROVE  Sending(r)'
<1> SUFFICES ASSUME calm'[r], req'[r].op \in Syncs \cup {"save"}
             PROVE  Sending(r)'
  BY DEF Sending
<1>1. PICK s : toml' = [toml EXCEPT ![n] = s]
  BY DEF BeginSync, Copied, Sets
<1>2. /\ calm[r] /\ pc[r] = "push" /\ req[r].op # "save" /\ n \in req[r].todo
      /\ UNCHANGED <<pc, req, text, loaded, plan>>
  BY DEF BeginSync, Copied, Rewrites, KeepText, Shared, At
<1>3. Sent(r)
  BY <1>2 DEF SendInv, Sending
<1>4. \A m \in Node \ {n} : toml'[m] = toml[m]
  BY <1>1 DEF SendInv, FInv, FilesPublished
<1>5. Sent(r)'
  BY <1>2, <1>3, <1>4, ControllerAssumption DEF Sent, InPlace, Holds1, c
<1>6. QED
  BY <1>2, <1>5 DEF Sending

(* The text of a node that has been written is there, to be loaded.         *)
LEMMA SyncKeepsSending ==
  ASSUME SendInv, NEW r \in Client, NEW n \in Node, SyncNode(r, n)
  PROVE  Sending(r)'
<1> SUFFICES ASSUME calm'[r], req'[r].op \in Syncs \cup {"save"}
             PROVE  Sending(r)'
  BY DEF Sending
<1>1. /\ calm[r] /\ pc[r] = "push" /\ req[r].op # "save" /\ n \in req[r].todo
      /\ UNCHANGED <<text, loaded, plan>>
  BY DEF SyncNode, Copied, Rewrites, KeepText, Shared, Local, files, ghosts, At
<1>2. \A m \in Node \ {n} : toml'[m] = toml[m]
  BY DEF SyncNode, Copied, Sets, Local, files, SendInv, FInv, FilesPublished
<1>3. /\ req'[r].op = req[r].op /\ req'[r].todo = req[r].todo \ {n}
      /\ req'[r].synced = req[r].synced
      /\ \/ req'[r].fresh = req[r].fresh \ {n}
         \/ req'[r].fresh = req[r].fresh \cup {n} /\ toml'[n] = text[r]
  <2>1. CASE Synced(r, n, {})
    BY <2>1 DEF SendInv, AInv, Synced, RequestFields
  <2>2. CASE /\ req' = [req EXCEPT ![r].todo = @ \ {n}, ![r].fresh = @ \cup {n}]
             /\ Copied(r, n, text[r])
    BY <2>2 DEF SendInv, AInv, FInv, FilesPublished, Copied, Sets, RequestFields
  <2>3. QED
    BY <2>1, <2>2 DEF SyncNode
<1>4. pc'[r] \in {"push", "reload", "done"}
  BY <1>1 DEF SendInv, AInv, SyncNode, Synced, AfterSync, Goto
<1>5. Sent(r) /\ req[r].op \in Syncs
  BY <1>1, <1>3 DEF SendInv, Sending
<1>6. Sent(r)'
  BY <1>1, <1>2, <1>3, <1>5, ControllerAssumption DEF Sent, InPlace, Holds1, c
<1>7. QED
  BY <1>1, <1>3, <1>4, <1>6 DEF Sending, Answered

(* A node that has reloaded runs the text it has.                           *)
LEMMA ReloadedKeepsSending ==
  ASSUME SendInv, NEW r \in Client, NEW n \in Node, SyncReload(r, n)
  PROVE  Sending(r)'
<1> SUFFICES ASSUME calm'[r], req'[r].op \in Syncs \cup {"save"}
             PROVE  Sending(r)'
  BY DEF Sending
<1>1. /\ calm[r] /\ pc[r] = "push" /\ n \in req[r].fresh /\ UNCHANGED <<text, toml, plan>>
  BY DEF SyncReload, KeepText, Shared, Local, files, ghosts, At
<1>2. /\ \A m \in Node \ {n} : loaded'[m] = loaded[m]
      /\ loaded'[n] \in {loaded[n], toml[n]}
  BY DEF SyncReload, Sets, Local, files, SendInv, FInv, FilesPublished
<1>3. /\ req'[r].op = req[r].op /\ req'[r].todo = req[r].todo \ {n}
      /\ req'[r].fresh = req[r].fresh \ {n}
      /\ \/ req'[r].synced = req[r].synced
         \/ req'[r].synced = req[r].synced \cup {n} /\ loaded'[n] = toml[n]
  <2>1. CASE Synced(r, n, {})
    BY <2>1 DEF SendInv, AInv, Synced, RequestFields
  <2>2. CASE Synced(r, n, {n}) /\ Sets(loaded, n, toml[n])
    BY <2>2 DEF SendInv, AInv, FInv, FilesPublished, Synced, Sets, RequestFields
  <2>3. QED
    BY <2>1, <2>2 DEF SyncReload
<1>4. pc'[r] \in {"push", "done"} \/ (pc'[r] = "reload" /\ req[r].op # "save")
  BY <1>1 DEF SendInv, AInv, SyncReload, Synced, AfterSync, Goto
<1>5. Sent(r)
  BY <1>1, <1>3 DEF SendInv, Sending
<1>6. /\ \A m \in req[r].synced : m \in Node /\ Holds1(r, m)
      /\ toml[n] = text[r]
  BY <1>1, <1>5 DEF Sent
<1>7. \A m \in req'[r].synced : m \in Node /\ Holds1(r, m)'
  BY <1>1, <1>2, <1>3, <1>6 DEF Holds1
<1>8. Sent(r)'
  BY <1>1, <1>3, <1>5, <1>7 DEF Sent, InPlace, c
<1>9. QED
  BY <1>1, <1>3, <1>4, <1>8 DEF Sending, Answered

(* So it is with the editor's save, which does not reload.                  *)
LEMMA PushKeepsSending ==
  ASSUME SendInv, NEW r \in Client, NEW n \in Node, PushNode(r, n)
  PROVE  Sending(r)'
<1> SUFFICES ASSUME calm'[r], req'[r].op \in Syncs \cup {"save"}
             PROVE  Sending(r)'
  BY DEF Sending
<1>1. /\ calm[r] /\ pc[r] = "push" /\ req[r].op = "save" /\ n \in req[r].todo
      /\ UNCHANGED <<text, loaded, plan>>
  BY DEF PushNode, Visited, Copied, Rewrites, KeepText, Shared, Local, files, ghosts, At
<1>2. \A m \in Node \ {n} : toml'[m] = toml[m]
  BY DEF PushNode, Copied, Sets, Local, files, SendInv, FInv, FilesPublished
<1>3. /\ req'[r].op = req[r].op /\ req'[r].todo = req[r].todo \ {n}
      /\ req'[r].fresh = req[r].fresh
      /\ \/ req'[r].synced = req[r].synced
         \/ req'[r].synced = req[r].synced \cup {n} /\ toml'[n] = text[r]
  <2>1. CASE Visited(r, n, "done", {})
    BY <2>1 DEF SendInv, AInv, Visited, RequestFields
  <2>2. CASE Visited(r, n, "done", {n}) /\ Copied(r, n, text[r])
    BY <2>2 DEF SendInv, AInv, FInv, FilesPublished, Visited, Copied, Sets, RequestFields
  <2>3. QED
    BY <2>1, <2>2 DEF PushNode
<1>4. pc'[r] \in {"push", "done"}
  BY <1>1 DEF SendInv, AInv, PushNode, Visited, Goto
<1>5. Sent(r)
  BY <1>1, <1>3 DEF SendInv, Sending
<1>6. \A m \in req'[r].synced : m \in Node /\ Holds1(r, m)'
  BY <1>1, <1>2, <1>3, <1>5 DEF Sent, Holds1, Syncs
<1>7. \A m \in req'[r].fresh : m \in Node /\ toml'[m] = text'[r]
  BY <1>1, <1>2, <1>3, <1>5 DEF Sent
<1>8. Sent(r)'
  BY <1>1, <1>2, <1>3, <1>5, <1>6, <1>7, ControllerAssumption DEF Sent, InPlace, c
<1>9. QED
  BY <1>1, <1>3, <1>4, <1>8 DEF Sending, Answered

(* The reload on the server's machine is queued, and the save goes on to    *)
(* the other nodes.                                                         *)
LEMMA ReloadKeepsSending ==
  ASSUME SendInv, NEW r \in Client, ReloadLocal(r)
  PROVE  Sending(r)'
<1> SUFFICES ASSUME calm'[r], req'[r].op \in Syncs \cup {"save"}
             PROVE  Sending(r)'
  BY DEF Sending
<1>1. /\ calm[r] /\ UNCHANGED <<text, toml, loaded, plan>> /\ pc[r] = "reload"
  BY DEF ReloadLocal, KeepText, Local, files, ghosts, At
<1>2. /\ req'[r].op = req[r].op /\ req'[r].synced = req[r].synced /\ req'[r].fresh = req[r].fresh
      /\ pc'[r] = "push" => req'[r].todo = req[r].node \ {c} /\ req[r].op = "save"
      /\ req[r].op # "save" => req'[r].todo = req[r].todo
  BY DEF SendInv, AInv, ReloadLocal, Loop, Goto, RequestFields
<1>3. pc'[r] \in {"push", "done"}
  BY DEF SendInv, AInv, ReloadLocal, Loop, Goto
<1>4. Sent(r) /\ (req[r].op = "save" => req[r].synced = {} /\ req[r].fresh = {})
  BY <1>1, <1>2 DEF SendInv, Sending
<1>5. Sent(r)'
  BY <1>1, <1>2, <1>4 DEF Sent, InPlace, Holds1, c
<1>6. QED
  BY <1>3, <1>5 DEF Sending, Answered

(* Reading and refusing change no file.                                     *)
LEMMA ReadKeepsSending ==
  ASSUME SendInv, NEW r \in Client,
         AddVip(r) \/ RemoveVip(r) \/ ReadSync(r) \/ ReadSave(r) \/ FetchDetails(r)
  PROVE  Sending(r)'
<1> SUFFICES ASSUME calm'[r], req'[r].op \in Syncs \cup {"save"}
             PROVE  Sending(r)'
  BY DEF Sending
<1>1. calm[r] /\ UNCHANGED <<toml, loaded, plan>> /\ pc[r] \in {"read", "details"}
  BY DEF AddVip, RemoveVip, Rerender, ReadSync, ReadSave, FetchDetails, Local, files, ghosts, At
<1>2. req'[r].op = req[r].op /\ req'[r].synced = req[r].synced /\ req'[r].fresh = req[r].fresh
  <2>1. CASE AddVip(r) \/ RemoveVip(r) \/ ReadSave(r)
    BY <2>1 DEF AddVip, RemoveVip, Rerender, ReadSave, Refuse
  <2>2. CASE ReadSync(r) \/ FetchDetails(r)
    BY <2>2 DEF SendInv, AInv, ReadSync, FetchDetails, Refuse, Loop, RequestFields
  <2>3. QED
    BY <2>1, <2>2
<1>3. req[r].synced = {} /\ req[r].fresh = {}
  BY <1>1, <1>2 DEF SendInv, Sending
<1>4. CASE Refuse(r)
  <2>1. pc'[r] = "refused"
    BY <1>4 DEF SendInv, AInv, Refuse, Goto
  <2>2. QED
    BY <1>2, <2>1 DEF Sending, Answered
<1>5. CASE ReadSync(r) /\ ~Refuse(r)
  <2>1. /\ text'[r] = toml[c] /\ toml[c] # {} /\ pc'[r] \in {"push", "reload"} /\ req[r].op # "save"
        /\ req'[r].todo = Synchronised
    BY <1>5 DEF SendInv, AInv, ReadSync, Loop, Goto, RequestFields
  <2>2. plan.embedded => c \notin Synchronised
    BY DEF Synchronised, Remote
  <2>3. Sent(r)'
    BY <1>1, <1>2, <1>3, <2>1, <2>2 DEF Sent, InPlace, c
  <2>4. QED
    BY <1>2, <1>3, <2>1, <2>3 DEF Sending
<1>6. CASE ~ReadSync(r) /\ ~Refuse(r)
  <2>1. pc'[r] \in {"read", "write"}
    BY <1>6 DEF SendInv, AInv, AddVip, RemoveVip, Rerender, ReadSave, FetchDetails, Goto
  <2>2. QED
    BY <1>2, <1>3, <2>1 DEF Sending
<1>7. QED
  BY <1>4, <1>5, <1>6

(* No other step is one of a calm request that edits or synchronises.       *)
LEMMA ElseKeepsSending ==
  ASSUME SendInv, NEW r \in Client,
         PutText(r) \/ LoadEditor(r) \/ Switch(r) \/ Look(r) \/ Abort(r)
  PROVE  Sending(r)'
<1>1. AInv
  BY DEF SendInv
<1>2. CASE Abort(r)
  BY <1>1, <1>2 DEF AInv, Abort, Fails, Sending
<1>3. CASE PutText(r) \/ LoadEditor(r) \/ Switch(r) \/ Look(r)
  <2>1. Own(r)
    BY <1>1, <1>3, OwnEdits, OwnSwitches, OwnLooks DEF Edit
  <2>2. pc[r] \in Running \ {"details", "read", "write", "writing", "push", "reload"}
    BY <1>3 DEF PutText, LoadEditor, Switch, EnableProfile, EvictTarget, EvictRun, DisableOnNode,
                EnableOnNode, EnableNext, Look, StatusToml, StatusDisabledFile, StatusReactor,
                StatusRemoteList, StatusDrbd, ListActive, StatusNoPrimary, StatusActive,
                StatusRemoteDrbd, StatusRemoteReactor, StatusFallback, StatusRemote, StatusFlags,
                At, Running
  <2>3. ~(calm[r] /\ req[r].op \in Syncs \cup {"save"})
    BY <2>2 DEF SendInv, Sending, Answered, Running
  <2>4. req'[r].op = req[r].op
    BY <2>1 DEF Own, SameRequest
  <2>5. calm'[r] => calm[r]
    BY <1>1, <2>1 DEF AInv, Own, Local, Fails, Shared, Queues, ghosts
  <2>6. QED
    BY <2>3, <2>4, <2>5 DEF Sending
<1>4. QED
  BY <1>2, <1>3

(* A new request has sent nothing.                                          *)
LEMMA AskKeepsSending ==
  ASSUME SendInv, NEW r \in Client, NEW o \in Op, Ask(r, o)
  PROVE  AInv' /\ \A q \in Client : Sending(q)'
<1>1. /\ view' = [view EXCEPT ![r] = NoView]
      /\ text' = [text EXCEPT ![r] = {}]
      /\ calm' = [calm EXCEPT ![r] = TRUE]
      /\ was' = [was EXCEPT ![r] = IF o \in Looks THEN {primary} ELSE {}]
      /\ pc' = [pc EXCEPT ![r] = FirstStep[o]] /\ UNCHANGED <<toml, loaded, plan>>
  BY DEF Ask, Goto, files
<1>2. PICK n, s, t : req' = [req EXCEPT ![r] = [NoRequest EXCEPT !.op = o, !.node = n, !.start = s,
                                                                !.turns = t]]
  BY DEF Ask
<1>3. AInv'
  BY <1>1, <1>2 DEF SendInv, AInv, NoRequest, NoView, RequestFields, ViewFields
<1>4. req'[r].op = o /\ req'[r].synced = {} /\ req'[r].fresh = {} /\ \A q \in Client \ {r} : req'[q] = req[q]
  BY <1>2 DEF SendInv, AInv, NoRequest
<1>5. o \in Syncs \cup {"save"} => FirstStep[o] \in {"read", "details"}
  BY DEF FirstStep, Op, Edits, Looks, Syncs
<1>6. ASSUME NEW q \in Client
      PROVE  Sending(q)'
  <2>1. CASE q = r
    BY <1>1, <1>4, <1>5, <2>1 DEF SendInv, AInv, Sending
  <2>2. CASE q # r
    BY <1>1, <1>4, <2>2 DEF SendInv, AInv, Sending, Sent, InPlace, Holds1, c
  <2>3. QED
    BY <2>1, <2>2
<1>7. QED
  BY <1>3, <1>6

(* Every step keeps what the senders and their nodes have.                  *)
LEMMA SendIsKept ==
  ASSUME SendInv, [Next]_vars
  PROVE  SendInv'
<1>1. FInv' /\ AInv
  <2>1. CASE Next
    BY <2>1, NextSteps DEF SendInv
  <2>2. CASE UNCHANGED vars
    BY <2>2 DEF SendInv, FInv, FilesPublished, Shape, SendsPublished, WritesOne, vars, files, request
  <2>3. QED
    BY <2>1, <2>2 DEF SendInv
<1>2. ASSUME NEW r \in Client, Handler(r) \/ Abort(r)
      PROVE  AInv' /\ \A q \in Client : Sending(q)'
  <2>1. Own(r)
    BY <1>1, <1>2, OwnEdits, OwnSwitches, OwnLooks, OwnAbort DEF Handler
  <2>2. Sending(r)'
    BY <1>2, WriteKeepsSending, BeginKeepsSending, SyncKeepsSending, ReloadedKeepsSending,
       PushKeepsSending, ReloadKeepsSending, ReadKeepsSending, ElseKeepsSending DEF Handler, Edit
  <2>3. QED
    BY <1>1, <2>1, <2>2, OwnKeepsShape, OthersKeepSending
<1>3. CASE Failover
  <2>1. /\ UNCHANGED <<toml, loaded, plan, pc, text, req, view>>
        /\ calm' = [q \in Client |-> calm[q] /\ req[q].op \notin Looks] /\ DOMAIN was' = Client
    BY <1>3 DEF Failover, files, request
  <2>2. QED
    BY <1>1, <2>1 DEF SendInv, AInv, Sending, Sent, InPlace, Holds1, c
<1>4. CASE UNCHANGED vars
  BY <1>1, <1>4 DEF SendInv, AInv, Sending, Sent, InPlace, Holds1, c, vars, files, request, ghosts
<1>5. CASE QueuedReload
  <2>1. /\ UNCHANGED <<toml, plan, pc, text, req, view, calm, was>>
        /\ loaded' = [loaded EXCEPT ![c] = toml[c]]
    BY <1>5 DEF QueuedReload, Sets, request, ghosts
  <2>2. AInv'
    BY <1>1, <2>1 DEF AInv
  <2>3. \A n \in Node : loaded'[n] = loaded[n] \/ loaded'[n] = toml[n]
    BY <2>1 DEF SendInv, FInv, FilesPublished
  <2>4. ASSUME NEW q \in Client, Sent(q)
        PROVE  Sent(q)'
    BY <2>1, <2>3, <2>4 DEF Sent, InPlace, Holds1, c
  <2>5. QED
    BY <1>1, <2>1, <2>2, <2>4 DEF SendInv, Sending
<1>6. QED
  BY <1>1, <1>2, <1>3, <1>4, <1>5, AskKeepsSending DEF SendInv, Next

(* A node that an edit or a synchronisation reports as synced has the text  *)
(* that it sent, and its reactor runs it unless only the editor's save sent *)
(* it (cluster_sync.rs, vip.rs, toml_edit.rs), if nobody else changed a     *)
(* file meanwhile; the controller has it too, unless it was itself a node   *)
(* of the loop.                                                             *)
THEOREM ReportedAreSynced == Spec => []SyncedHold
<1>1. SendInv => SyncedHold
  BY DEF SendInv, Sending, Sent, InPlace, Holds1, SyncedHold, Syncs
<1>2. QED
  BY <1>1, SendInitially, SendIsKept, PTL DEF Spec

---------------------------------------------------------------------------
(* What a look knows at each of its places when nothing moved and nothing   *)
(* was lost so far.                                                         *)
Somewhere == \E n \in Node : toml[n] # {}
Enabled1(r) ==       \* the profile is enabled, and no node is listed yet
  view[r].truly = FALSE /\ view[r].off = {} /\ Somewhere
Named(r) ==          \* DRBD has named the node that serves
  ~IsList(r) /\ Enabled1(r) /\ view[r].known /\ view[r].named = primary
Told(r) ==           \* what the answer will say, but for the flags
  LET v == view[r]
  IN /\ v.truly = ~Somewhere
     /\ IF IsList(r) THEN v.active \in {{}, primary}
        ELSE /\ ~v.truly => v.active = primary
             /\ v.first \cup v.peers = Node /\ v.first \cap v.peers = {}

LookPlaces == {"toml", "disabled", "reactor", "remote", "remoteStatus", "drbd", "active",
               "remoteDrbd", "remoteReactor", "fallback", "flags"}
HereDisabled == [NoView EXCEPT !.locally = TRUE]

Steady(r) == calm[r] /\ req[r].op \in Looks =>
  /\ pc[r] \in LookPlaces \cup Answered
  /\ pc[r] = "toml" => view[r] = NoView
  /\ pc[r] = "disabled" => view[r] = NoView /\ toml[c] = {}
  /\ pc[r] = "reactor" => ~IsList(r) /\ \/ view[r] = NoView /\ toml[c] # {}
                                        \/ view[r] = HereDisabled /\ toml[c] = {}
  /\ pc[r] = "remote" => /\ view[r] = HereDisabled /\ toml[c] = {} /\ req[r].todo \subseteq Remote
                         /\ \A n \in Remote \ req[r].todo : toml[n] = {}
  /\ pc[r] = "remoteStatus" => IsList(r) /\ Enabled1(r) /\ view[r].active = {}
  /\ pc[r] = "drbd" => ~IsList(r) /\ Enabled1(r)
  /\ pc[r] = "active" => Named(r) \/ (IsList(r) /\ Enabled1(r) /\ view[r].active = {})
  /\ pc[r] \in {"remoteDrbd", "remoteReactor", "fallback"} => Named(r)
  /\ pc[r] = "flags" => /\ ~IsList(r) /\ Told(r) /\ req[r].todo \subseteq Node
                        /\ view[r].off = {n \in Node \ req[r].todo : dis[n] # {}}
  /\ pc[r] = "done" => /\ Told(r)
                       /\ ~IsList(r) => view[r].off = {n \in Node : dis[n] # {}}
SteadyInv == AInv /\ primary \in AtMostOne(Node) /\ \A r \in Client : Steady(r)

(* At the start nobody is calm, and at most one node serves.                *)
LEMMA SteadyInitially == Init => SteadyInv
<1> SUFFICES ASSUME Init
             PROVE  SteadyInv
  OBVIOUS
<1>1. PICK on \in plan.enabled : primary \in AtMostOne(on)
  BY DEF Init
<1>2. on \subseteq Node
  BY PlansAssumption DEF Init
<1>3. primary \in AtMostOne(Node)
  BY <1>1, <1>2 DEF AtMostOne
<1>4. AInv /\ \A r \in Client : ~calm[r]
  BY DEF Init, AInv, NoRequest, NoView, RequestFields, ViewFields
<1>5. QED
  BY <1>3, <1>4 DEF SteadyInv, Steady

(* At most one node serves, whatever switches and fails over.               *)
LEMMA PrimaryIsOne ==
  ASSUME SteadyInv, [Next]_vars
  PROVE  primary' \in AtMostOne(Node)
<1> USE DEF SteadyInv, AtMostOne
<1>1. ASSUME NEW r \in Client, Edit(r) \/ Look(r) \/ Abort(r)
      PROVE  UNCHANGED primary
  <2>1. CASE Edit(r)
    <3>1. CASE BeginWrite(r) \/ WriteText(r)
      BY <3>1 DEF BeginWrite, WriteText, Written, Rewrites, Local
    <3>2. CASE \E n \in Node : BeginSync(r, n) \/ SyncNode(r, n) \/ SyncReload(r, n) \/ PushNode(r, n)
      BY <3>2 DEF BeginSync, SyncNode, SyncReload, PushNode, Copied, Rewrites, Local
    <3>3. CASE ReloadLocal(r)
      BY <3>3 DEF ReloadLocal, Local
    <3>4. QED
      BY <2>1, <3>1, <3>2, <3>3 DEF Edit, AddVip, RemoveVip, Rerender, PutText, ReadSync, LoadEditor,
                                    FetchDetails, ReadSave, Local
  <2>2. CASE Look(r)
    BY <2>2, OwnLooks
  <2>3. CASE Abort(r)
    BY <2>3 DEF Abort, Fails
  <2>4. QED
    BY <1>1, <2>1, <2>2, <2>3
<1>2. ASSUME NEW r \in Client, Switch(r)
      PROVE  primary' \in AtMostOne(Node)
  <2>1. CASE EnableProfile(r) \/ EvictTarget(r)
    BY <2>1 DEF EnableProfile, EvictTarget, Local
  <2>2. CASE EvictRun(r)
    BY <2>2 DEF EvictRun, Local, Fails
  <2>3. ASSUME NEW n \in Node, Disabled(n)
        PROVE  primary' \in AtMostOne(Node)
    BY <2>3 DEF Disabled
  <2>4. ASSUME NEW n \in Node, DisableOnNode(r, n) \/ EnableOnNode(r, n) \/ EnableNext(r, n)
        PROVE  primary' \in AtMostOne(Node)
    BY <2>3, <2>4 DEF DisableOnNode, EnableOnNode, EnableNext, Enabled, Fails
  <2>5. QED
    BY <1>2, <2>1, <2>2, <2>4 DEF Switch
<1>3. CASE Failover
  BY <1>3 DEF Failover
<1>4. ASSUME NEW r \in Client, NEW o \in Op, Ask(r, o)
      PROVE  UNCHANGED primary
  BY <1>4 DEF Ask
<1>5. CASE QueuedReload
  BY <1>5 DEF QueuedReload
<1>6. QED
  BY <1>1, <1>2, <1>3, <1>4, <1>5 DEF Next, Handler, vars

(* A step of one request that leaves another calm has moved nothing.        *)
LEMMA OthersKeepSteady ==
  ASSUME SteadyInv, NEW r \in Client, Own(r), NEW q \in Client \ {r}
  PROVE  Steady(q)'
<1> SUFFICES ASSUME calm'[q]
             PROVE  Steady(q)'
  BY DEF Steady
<1>1. calm[q] /\ UNCHANGED <<toml, dis, primary>>
  <2>1. CASE Local(r)
    BY <2>1 DEF Local, files, ghosts
  <2>2. CASE Fails(r)
    BY <2>2 DEF SteadyInv, AInv, Fails, files
  <2>3. CASE Shared(r)
    BY <2>3 DEF Shared
  <2>4. CASE Queues
    BY <2>4 DEF Queues, ghosts
  <2>5. QED
    BY <2>1, <2>2, <2>3, <2>4 DEF Own
<1>2. pc'[q] = pc[q] /\ view'[q] = view[q] /\ req'[q] = req[q]
  BY DEF SteadyInv, AInv, Own, Moves, SameView, SameRequest
<1>3. QED
  BY <1>1, <1>2 DEF SteadyInv, Steady, IsList, Enabled1, Named, Told, Somewhere, c, Remote

(* No step of an edit or a switch is one of a calm look.                    *)
LEMMA ElseKeepsSteady ==
  ASSUME SteadyInv, NEW r \in Client, Edit(r) \/ Switch(r) \/ Abort(r)
  PROVE  Steady(r)'
<1>1. AInv
  BY DEF SteadyInv
<1>2. CASE Abort(r)
  BY <1>1, <1>2 DEF AInv, Abort, Fails, Steady
<1>3. CASE Edit(r) \/ Switch(r)
  <2>1. Own(r)
    BY <1>1, <1>3, OwnEdits, OwnSwitches
  <2>2. pc[r] \in Running \ LookPlaces
    BY <1>3 DEF Edit, AddVip, RemoveVip, BeginWrite, WriteText, PutText, ReadSync, ReloadLocal,
                LoadEditor, FetchDetails, ReadSave, BeginSync, SyncNode, SyncReload, PushNode, Switch,
                EnableProfile, EvictTarget, EvictRun, DisableOnNode, EnableOnNode, EnableNext, At,
                Running, LookPlaces
  <2>3. ~(calm[r] /\ req[r].op \in Looks)
    BY <2>2 DEF SteadyInv, Steady, Answered, Running
  <2>4. req'[r].op = req[r].op
    BY <2>1 DEF Own, SameRequest
  <2>5. calm'[r] => calm[r]
    BY <1>1, <2>1 DEF AInv, Own, Local, Fails, Shared, Queues, ghosts
  <2>6. QED
    BY <2>3, <2>4, <2>5 DEF Steady
<1>4. QED
  BY <1>2, <1>3

---------------------------------------------------------------------------
(* What a calm look has in hand before each of its steps: nothing it looks  *)
(* at changes in the step.                                                  *)
Calmly(r) ==
  /\ SteadyInv /\ Steady(r) /\ calm[r] /\ req[r].op \in Looks /\ req'[r].op = req[r].op
  /\ UNCHANGED <<toml, dis, primary>>

(* A look that is calm after its step was calm before, and lost nothing.    *)
LEMMA LooksCalmly ==
  ASSUME SteadyInv, NEW r \in Client, Look(r), calm'[r], req'[r].op \in Looks
  PROVE  Calmly(r) /\ Local(r) /\ ~Fails(r)
<1>1. ~Fails(r)
  BY DEF SteadyInv, AInv, Fails
<1>2. Own(r) /\ UNCHANGED primary
  BY OwnLooks DEF SteadyInv
<1>3. Local(r)
  <2>1. ~Local(r) => Fails(r)
    BY DEF Look, StatusToml, StatusDisabledFile, StatusReactor, StatusRemoteList, StatusDrbd,
           ListActive, StatusNoPrimary, StatusActive, StatusRemoteDrbd, StatusRemoteReactor,
           StatusFallback, StatusRemote, StatusFlags
  <2>2. QED
    BY <1>1, <2>1
<1>4. QED
  BY <1>1, <1>2, <1>3 DEF Calmly, SteadyInv, Own, SameRequest, Local, files, ghosts

(* The first read of a file.                                                *)
LEMMA TomlSteady ==
  ASSUME NEW r \in Client, Calmly(r), ~Fails(r), StatusToml(r)
  PROVE  Steady(r)'
<1>1. view[r] = NoView /\ UNCHANGED <<view, req>>
  BY DEF Calmly, Steady, StatusToml, At, KeepText
<1>2. CASE toml[c] # {}
  <2>1. pc'[r] = IF IsList(r) THEN "active" ELSE "reactor"
    BY <1>2 DEF Calmly, SteadyInv, AInv, StatusToml, Goto
  <2>2. QED
    BY <1>1, <1>2, <2>1, ControllerAssumption
    DEF Calmly, Steady, NoView, IsList, Enabled1, Somewhere, c, LookPlaces
<1>3. CASE toml[c] = {}
  <2>1. pc'[r] = "disabled"
    BY <1>3 DEF Calmly, SteadyInv, AInv, StatusToml, Goto
  <2>2. QED
    BY <1>1, <1>3, <2>1 DEF Calmly, Steady, LookPlaces, c
<1>4. QED
  BY <1>2, <1>3

(* No node has the file: the profile is disabled.                           *)
LEMMA NowhereSteady ==
  ASSUME NEW r \in Client, Calmly(r), NEW v, v = HereDisabled, ~Somewhere, NowhereEnabled(r, v)
  PROVE  Steady(r)'
<1>1. view'[r] = [v EXCEPT !.truly = TRUE, !.peers = IF IsList(r) THEN {} ELSE Node]
  BY DEF Calmly, SteadyInv, AInv, NowhereEnabled, Note
<1>2. view'[r].truly = TRUE /\ view'[r].first = {} /\ view'[r].active = {} /\ view'[r].off = {}
  BY <1>1 DEF HereDisabled, NoView
<1>3. ~IsList(r) => view'[r].peers = Node
  BY <1>1 DEF HereDisabled, NoView
<1>4. Told(r)' /\ UNCHANGED IsList(r)
  BY <1>2, <1>3 DEF Calmly, Told, Somewhere, IsList
<1>5. CASE IsList(r)
  <2>1. pc'[r] = "done"
    BY <1>5 DEF Calmly, SteadyInv, AInv, NowhereEnabled, Goto
  <2>2. QED
    BY <1>4, <1>5, <2>1 DEF Steady, Answered
<1>6. CASE ~IsList(r)
  <2>1. pc'[r] = IF Node = {} THEN "done" ELSE "flags"
    BY <1>6 DEF Calmly, SteadyInv, AInv, NowhereEnabled, Loop, Goto
  <2>2. req'[r].todo = Node
    BY <1>6 DEF Calmly, SteadyInv, AInv, NowhereEnabled, Loop, RequestFields
  <2>3. QED
    BY <1>2, <1>4, <1>6, <2>1, <2>2 DEF Steady, Answered, LookPlaces
<1>7. QED
  BY <1>5, <1>6

(* The others are asked for their files.                                    *)
LEMMA OthersSteady ==
  ASSUME NEW r \in Client, Calmly(r), NEW v, v = HereDisabled, toml[c] = {}, AskOthers(r, v)
  PROVE  Steady(r)'
<1>1. CASE Remote = {}
  <2>1. ~Somewhere
    BY <1>1 DEF Somewhere, Remote
  <2>2. QED
    BY <1>1, <2>1, NowhereSteady DEF AskOthers
<1>2. CASE Remote # {}
  <2>1. pc'[r] = "remote" /\ view'[r] = v /\ req'[r].todo = Remote
    BY <1>2 DEF Calmly, SteadyInv, AInv, AskOthers, Note, Goto, RequestFields
  <2>2. QED
    BY <2>1 DEF Calmly, Steady, LookPlaces, c, Remote
<1>3. QED
  BY <1>1, <1>2

(* The second read of a file.                                               *)
LEMMA DisabledFileSteady ==
  ASSUME NEW r \in Client, Calmly(r), ~Fails(r), StatusDisabledFile(r)
  PROVE  Steady(r)'
<1>1. view[r] = NoView /\ toml[c] = {}
  BY DEF Calmly, Steady, StatusDisabledFile, At
<1>2. CASE Refuse(r)
  <2>1. pc'[r] = "refused"
    BY <1>2 DEF Calmly, SteadyInv, AInv, Refuse, Goto
  <2>2. QED
    BY <2>1 DEF Steady, Answered
<1>3. CASE AskOthers(r, HereDisabled)
  BY <1>1, <1>3, OthersSteady
<1>4. CASE ~IsList(r) /\ Note(r, HereDisabled) /\ Goto(r, "reactor")
  <2>1. view'[r] = HereDisabled /\ pc'[r] = "reactor"
    BY <1>4 DEF Calmly, SteadyInv, AInv, Note, Goto
  <2>2. QED
    BY <1>1, <1>4, <2>1 DEF Calmly, Steady, IsList, LookPlaces, c
<1>5. QED
  BY <1>1, <1>2, <1>3, <1>4 DEF StatusDisabledFile, HereDisabled

(* The controller's reactor.                                                *)
LEMMA ReactorSteady ==
  ASSUME NEW r \in Client, Calmly(r), ~Fails(r), StatusReactor(r)
  PROVE  Steady(r)'
<1>1. ~IsList(r) /\ ((view[r] = NoView /\ toml[c] # {}) \/ (view[r] = HereDisabled /\ toml[c] = {}))
  BY DEF Calmly, Steady, StatusReactor, At
<1>2. CASE view[r] = HereDisabled /\ toml[c] = {}
  <2>1. view[r].locally = TRUE
    BY <1>2 DEF HereDisabled, NoView
  <2>2. AskOthers(r, view[r])
    BY <1>2, <2>1 DEF StatusReactor
  <2>3. QED
    BY <1>2, <2>2, OthersSteady
<1>3. CASE view[r] = NoView /\ toml[c] # {}
  <2>1. view[r].locally = FALSE
    BY <1>3 DEF NoView
  <2>2. pc'[r] = "drbd" /\ UNCHANGED view
    BY <2>1 DEF Calmly, SteadyInv, AInv, StatusReactor, Goto, KeepText
  <2>3. QED
    BY <1>1, <1>3, <2>2, ControllerAssumption
    DEF Calmly, Steady, NoView, IsList, Enabled1, Somewhere, c, LookPlaces
<1>4. QED
  BY <1>1, <1>2, <1>3

(* Another node's file.                                                     *)
LEMMA RemoteSteady ==
  ASSUME NEW r \in Client, Calmly(r), ~Fails(r), NEW n \in Node, StatusRemote(r, n)
  PROVE  Steady(r)'
<1>1. /\ view[r] = HereDisabled /\ toml[c] = {} /\ n \in req[r].todo /\ req[r].todo \subseteq Remote
      /\ \A m \in Remote \ req[r].todo : toml[m] = {}
  BY DEF Calmly, Steady, StatusRemote, At
<1>2. CASE toml[n] # {}
  <2>1. pc'[r] = (IF IsList(r) THEN "remoteStatus" ELSE "drbd") /\ UNCHANGED view
    BY <1>2 DEF Calmly, SteadyInv, AInv, StatusRemote, Goto, KeepText
  <2>2. Enabled1(r)' /\ view'[r].active = {} /\ UNCHANGED IsList(r)
    BY <1>1, <1>2, <2>1 DEF Calmly, Enabled1, Somewhere, HereDisabled, NoView, IsList
  <2>3. QED
    BY <2>1, <2>2 DEF Steady, LookPlaces
<1>3. CASE toml[n] = {} /\ req[r].todo = {n}
  <2>1. ~Somewhere
    BY <1>1, <1>3 DEF Somewhere, Remote
  <2>2. NowhereEnabled(r, view[r])
    BY <1>3 DEF StatusRemote
  <2>3. QED
    BY <1>1, <2>1, <2>2, NowhereSteady
<1>4. CASE toml[n] = {} /\ req[r].todo # {n}
  <2>1. Visited(r, n, "remote", {})
    BY <1>4 DEF StatusRemote
  <2>2. pc'[r] = "remote" /\ UNCHANGED view /\ req'[r].todo = req[r].todo \ {n}
    BY <1>4, <2>1 DEF Calmly, SteadyInv, AInv, StatusRemote, At, Visited, KeepText, RequestFields
  <2>3. QED
    BY <1>1, <1>4, <2>2 DEF Calmly, Steady, LookPlaces, c, Remote
<1>5. QED
  BY <1>2, <1>3, <1>4

(* A listing's answer, from the controller's reactor or another one.        *)
LEMMA ListSteady ==
  ASSUME NEW r \in Client, Calmly(r), ~Fails(r), StatusRemoteList(r) \/ ListActive(r)
  PROVE  Steady(r)'
<1>1. IsList(r) /\ Enabled1(r)
  BY DEF Calmly, Steady, StatusRemoteList, ListActive, At, Named
<1>2. PICK n : Shown(r, n)
  BY DEF StatusRemoteList, ListActive
<1>3. view'[r] = [view[r] EXCEPT !.active = ReactorShows(n)] /\ pc'[r] = "done"
  BY <1>2 DEF Calmly, SteadyInv, AInv, StatusRemoteList, ListActive, Shown, Goto
<1>4. view'[r].truly = view[r].truly /\ view'[r].active \in {{}, primary}
  BY <1>3 DEF Calmly, SteadyInv, AInv, ReactorShows, ViewFields
<1>5. IsList(r)' /\ Told(r)'
  BY <1>1, <1>4 DEF Calmly, IsList, Told, Enabled1, Somewhere
<1>6. QED
  BY <1>3, <1>5 DEF Steady, Answered

(* DRBD on the controller names the node that serves.                       *)
LEMMA DrbdSteady ==
  ASSUME NEW r \in Client, Calmly(r), ~Fails(r), StatusDrbd(r)
  PROVE  Steady(r)'
<1>1. ~IsList(r) /\ Enabled1(r)
  BY DEF Calmly, Steady, StatusDrbd, At
<1>2. view'[r] = [view[r] EXCEPT !.named = primary, !.known = TRUE] /\ pc'[r] = "active"
  BY DEF Calmly, SteadyInv, AInv, StatusDrbd, Note, Goto
<1>3. Named(r)'
  BY <1>1, <1>2 DEF Calmly, SteadyInv, AInv, IsList, Named, Enabled1, Somewhere, ViewFields
<1>4. QED
  BY <1>2, <1>3 DEF Steady, LookPlaces

(* The answer of a status request: the node that DRBD named, or nobody.     *)
LEMMA AnswerSteady ==
  ASSUME NEW r \in Client, Calmly(r), Named(r), NEW shown \in {{}, primary}, NEW asked,
         asked = primary \/ (primary = {} /\ asked = {c}), Answer(r, shown, asked)
  PROVE  Steady(r)'
<1> DEFINE v == view[r]
<1>1. view'[r] = IF asked = {c} THEN [v EXCEPT !.active = primary, !.first = {c}, !.peers = Remote]
                 ELSE [v EXCEPT !.active = primary, !.first = primary, !.peers = Node \ asked]
  BY DEF Calmly, SteadyInv, AInv, Answer, Note, Named
<1>2. /\ view'[r].truly = v.truly /\ view'[r].off = v.off /\ view'[r].active = primary
      /\ \/ view'[r].first = {c} /\ view'[r].peers = Remote
         \/ view'[r].first = primary /\ view'[r].peers = Node \ primary
  BY <1>1 DEF Calmly, SteadyInv, AInv, ViewFields
<1>3. primary \subseteq Node /\ c \in Node
  BY ControllerAssumption DEF Calmly, SteadyInv, AtMostOne, c
<1>4. Told(r)' /\ UNCHANGED IsList(r) /\ ~IsList(r)
  BY <1>2, <1>3 DEF Calmly, Told, Named, Enabled1, Somewhere, IsList, Remote
<1>5. pc'[r] = IF Node = {} THEN "done" ELSE "flags"
  BY DEF Calmly, SteadyInv, AInv, Answer, Loop, Goto
<1>6. req'[r].todo = Node
  BY DEF Calmly, SteadyInv, AInv, Answer, Loop, RequestFields
<1>7. view'[r].off = {}
  BY <1>2 DEF Named, Enabled1
<1>8. QED
  BY <1>3, <1>4, <1>5, <1>6, <1>7 DEF Steady, LookPlaces

(* The steps that lead to that answer.                                      *)
LEMMA ActiveSteady ==
  ASSUME NEW r \in Client, Calmly(r), ~Fails(r),
         StatusNoPrimary(r) \/ StatusActive(r) \/ StatusRemoteDrbd(r) \/ StatusRemoteReactor(r)
           \/ StatusFallback(r)
  PROVE  Steady(r)'
<1>1. Named(r)
  BY DEF Calmly, Steady, StatusNoPrimary, StatusActive, StatusRemoteDrbd, StatusRemoteReactor,
         StatusFallback, At
<1>2. view[r].named = primary /\ primary \in AtMostOne(Node)
  BY <1>1 DEF Named, Calmly, SteadyInv
<1>3. \A n : ReactorShows(n) \in {{}, primary}
  BY DEF ReactorShows
<1>4. CASE StatusNoPrimary(r)
  BY <1>1, <1>2, <1>3, <1>4, AnswerSteady DEF StatusNoPrimary
<1>5. CASE StatusFallback(r)
  BY <1>1, <1>2, <1>3, <1>5, AnswerSteady DEF StatusFallback
<1>6. ASSUME UNCHANGED <<view, req>>, pc'[r] \in {"remoteDrbd", "remoteReactor", "fallback"}
      PROVE  Steady(r)'
  <2>1. Named(r)'
    BY <1>1, <1>6 DEF Calmly, Named, Enabled1, IsList, Somewhere
  <2>2. QED
    BY <1>6, <2>1 DEF Steady, LookPlaces
<1>7. CASE StatusActive(r)
  <2>1. CASE view[r].named = {c} /\ Answer(r, ReactorShows(c), {c})
    BY <1>1, <1>2, <1>3, <2>1, AnswerSteady
  <2>2. CASE Goto(r, "remoteDrbd") /\ UNCHANGED req /\ KeepText
    BY <1>6, <2>2 DEF Calmly, SteadyInv, AInv, Goto, KeepText
  <2>3. QED
    BY <1>7, <2>1, <2>2 DEF StatusActive
<1>8. CASE StatusRemoteDrbd(r)
  BY <1>6, <1>8 DEF Calmly, SteadyInv, AInv, StatusRemoteDrbd, Goto, KeepText
<1>9. CASE StatusRemoteReactor(r)
  <2>1. PICK n \in view[r].named : \/ Answer(r, primary, {n})
                                   \/ Goto(r, "fallback") /\ UNCHANGED req /\ KeepText
    BY <1>9 DEF StatusRemoteReactor
  <2>2. primary = {n}
    BY <1>2, <2>1 DEF AtMostOne
  <2>3. CASE Answer(r, primary, {n})
    BY <1>1, <2>2, <2>3, AnswerSteady
  <2>4. CASE Goto(r, "fallback") /\ UNCHANGED req /\ KeepText
    BY <1>6, <2>4 DEF Calmly, SteadyInv, AInv, Goto, KeepText
  <2>5. QED
    BY <2>1, <2>3, <2>4
<1>10. QED
  BY <1>4, <1>5, <1>7, <1>8, <1>9

(* One node after the other is flagged.                                     *)
LEMMA FlagsSteady ==
  ASSUME NEW r \in Client, Calmly(r), ~Fails(r), NEW n \in Node, StatusFlags(r, n)
  PROVE  Steady(r)'
<1>1. /\ ~IsList(r) /\ Told(r) /\ req[r].todo \subseteq Node /\ n \in req[r].todo
      /\ view[r].off = {m \in Node \ req[r].todo : dis[m] # {}}
  BY DEF Calmly, Steady, StatusFlags, At
<1>2. n \in view[r].first \cup view[r].peers
  BY <1>1 DEF Told
<1>3. view'[r] = [view[r] EXCEPT !.off = @ \cup (IF dis[n] # {} THEN {n} ELSE {})]
  BY <1>2 DEF Calmly, SteadyInv, AInv, StatusFlags
<1>4. /\ view'[r].truly = view[r].truly /\ view'[r].active = view[r].active
      /\ view'[r].first = view[r].first /\ view'[r].peers = view[r].peers
      /\ view'[r].off = view[r].off \cup (IF dis[n] # {} THEN {n} ELSE {})
  BY <1>3 DEF Calmly, SteadyInv, AInv, ViewFields
<1>5. Told(r)' /\ ~IsList(r)'
  BY <1>1, <1>4 DEF Calmly, Told, IsList, Somewhere
<1>6. req'[r].todo = req[r].todo \ {n}
  BY DEF Calmly, SteadyInv, AInv, StatusFlags, RequestFields
<1>7. pc'[r] = IF req[r].todo = {n} THEN "done" ELSE "flags"
  BY DEF Calmly, SteadyInv, AInv, StatusFlags, At, Goto
<1>8. view'[r].off = {m \in Node \ req'[r].todo : dis[m] # {}}
  BY <1>1, <1>4, <1>6
<1>9. QED
  BY <1>1, <1>5, <1>6, <1>7, <1>8 DEF Calmly, Steady, LookPlaces, Answered

(* Every step of a look keeps what it knows.                                *)
LEMMA LookKeepsSteady ==
  ASSUME SteadyInv, NEW r \in Client, Look(r)
  PROVE  Steady(r)'
<1> SUFFICES ASSUME calm'[r], req'[r].op \in Looks
             PROVE  Steady(r)'
  BY DEF Steady
<1>1. Calmly(r) /\ ~Fails(r)
  BY LooksCalmly
<1>2. QED
  BY <1>1, TomlSteady, DisabledFileSteady, ReactorSteady, RemoteSteady, ListSteady, DrbdSteady,
     ActiveSteady, FlagsSteady
  DEF Look

---------------------------------------------------------------------------
(* Every step keeps what the calm looks know.                               *)
LEMMA SteadyIsKept ==
  ASSUME SteadyInv, [Next]_vars
  PROVE  SteadyInv'
<1>1. AInv
  BY DEF SteadyInv
<1>2. ASSUME NEW r \in Client, Handler(r) \/ Abort(r)
      PROVE  AInv' /\ \A q \in Client : Steady(q)'
  <2>1. Own(r)
    BY <1>1, <1>2, OwnEdits, OwnSwitches, OwnLooks, OwnAbort DEF Handler
  <2>2. Steady(r)'
    BY <1>2, LookKeepsSteady, ElseKeepsSteady DEF Handler
  <2>3. QED
    BY <1>1, <2>1, <2>2, OwnKeepsShape, OthersKeepSteady
<1>3. ASSUME NEW r \in Client, NEW o \in Op, Ask(r, o)
      PROVE  AInv' /\ \A q \in Client : Steady(q)'
  <2>1. /\ view' = [view EXCEPT ![r] = NoView] /\ pc' = [pc EXCEPT ![r] = FirstStep[o]]
        /\ calm' = [calm EXCEPT ![r] = TRUE] /\ UNCHANGED <<toml, dis, primary>>
    BY <1>3 DEF Ask, Goto, files
  <2>2. PICK n, s, t : req' = [req EXCEPT ![r] = [NoRequest EXCEPT !.op = o, !.node = n,
                                                                  !.start = s, !.turns = t]]
    BY <1>3 DEF Ask
  <2>3. AInv'
    BY <1>1, <1>3, <2>1, <2>2 DEF Ask, AInv, NoRequest, NoView, RequestFields, ViewFields
  <2>4. req'[r].op = o /\ \A q \in Client \ {r} : req'[q] = req[q]
    BY <1>1, <2>2 DEF AInv, NoRequest
  <2>5. Steady(r)'
    <3>1. o \in Looks => FirstStep[o] = "toml"
      BY <1>3 DEF FirstStep, Op, Looks
    <3>2. QED
      BY <1>1, <2>1, <2>4, <3>1 DEF AInv, Steady, LookPlaces
  <2>6. ASSUME NEW q \in Client \ {r}
        PROVE  Steady(q)'
    BY <1>1, <2>1, <2>4 DEF SteadyInv, AInv, Steady, IsList, Enabled1, Named, Told, Somewhere, c,
                            Remote
  <2>7. QED
    BY <2>3, <2>5, <2>6
<1>4. CASE Failover
  <2>1. /\ UNCHANGED <<pc, text, req, view>> /\ DOMAIN was' = Client
        /\ calm' = [q \in Client |-> calm[q] /\ req[q].op \notin Looks]
    BY <1>4 DEF Failover, request
  <2>2. QED
    BY <1>1, <2>1, <1>4, PrimaryIsOne DEF SteadyInv, AInv, Steady
<1>5. CASE UNCHANGED vars
  BY <1>1, <1>5 DEF SteadyInv, AInv, Steady, IsList, Enabled1, Named, Told, Somewhere, c, Remote,
                    vars, files, request, ghosts
<1>6. CASE QueuedReload
  <2>1. UNCHANGED <<toml, dis, primary, pc, text, req, view, calm, was>>
    BY <1>6 DEF QueuedReload, request, ghosts
  <2>2. QED
    BY <1>1, <2>1 DEF SteadyInv, AInv, Steady, IsList, Enabled1, Named, Told, Somewhere, c, Remote
<1>7. QED
  BY <1>2, <1>3, <1>4, <1>5, <1>6, PrimaryIsOne DEF SteadyInv, Next

(* When nothing moves and nothing is lost while it is read, the status of a *)
(* profile agrees with the cluster: disabled means that no node has the     *)
(* file, the active node is the one that serves, each node is listed once   *)
(* and flagged right (fetch_profile_details and list_profiles, list.rs).    *)
THEOREM StatusIsRight == Spec => []SteadyStatus
<1>1. SteadyInv => SteadyStatus
  BY DEF SteadyInv, Steady, SteadyStatus, Told, Somewhere, IsList
<1>2. QED
  BY <1>1, SteadyInitially, SteadyIsKept, PTL DEF Spec

---------------------------------------------------------------------------
(* Types.  Files, reactors and requests hold at most one text; one that a   *)
(* write has not finished is a text, too.                                   *)
TextsTyped ==
  /\ published \subseteq Text
  /\ toml \in [Node -> AtMostOne(Text)] /\ dis \in [Node -> AtMostOne(Text)]
  /\ loaded \in [Node -> AtMostOne(Text)] /\ text \in [Client -> AtMostOne(Text)]
EditorTyped ==
  /\ DOMAIN editor = Client
  /\ \A r \in Client : \A e \in editor[r] :
       editor[r] = {e} /\ e.items \in Seq(Item) /\ e.from \in Text
PlacesTyped == plan \in Plans /\ pc \in [Client -> Running \cup Answered]
GhostsTyped == calm \in [Client -> BOOLEAN] /\ was \in [Client -> SUBSET AtMostOne(Node)]
RequestsTyped == req \in [Client -> RequestType]
ViewsTyped == view \in [Client -> ViewType]
TypeInv ==
  /\ TextsTyped /\ EditorTyped /\ PlacesTyped /\ GhostsTyped /\ RequestsTyped /\ ViewsTyped
  /\ primary \in AtMostOne(Node) /\ queued \in BOOLEAN

(* A set of natural numbers has a least element.                            *)
Below == {p \in Nat \X Nat : p[1] < p[2]}

LEMMA LeastNatural ==
  ASSUME NEW T \in SUBSET Nat, T # {}
  PROVE  \E m \in T : \A k \in T : m <= k
<1>1. IsWellFoundedOn(Below, Nat)
  BY Zenon, NatLessThanWellFounded DEF OpToRel, Below
<1>2. PICK m \in T : \A k \in T : ~(<<k, m>> \in Below)
  BY <1>1, WFMin
<1>3. ASSUME NEW k \in T
      PROVE  m <= k
  <2>1. m \in Nat /\ k \in Nat /\ ~(<<k, m>> \in Below)
    BY <1>2
  <2>2. QED
    BY <2>1 DEF Below
<1>4. QED
  BY <1>3

(* What the readers and writers of a text make of it is a text again.       *)
LEMMA ServicesTyped ==
  ASSUME NEW t \in Text
  PROVE  ParsedServices(t) \in Seq(Item)
<1>1. ServiceLines(t) \subseteq 1..Len(t.start) /\ Len(t.start) \in Nat
  BY DEF ServiceLines, Text
<1>2. IsFiniteSet(ServiceLines(t))
  <2>1. IsFiniteSet(1..Len(t.start))
    BY <1>1, FS_Interval
  <2>2. QED
    BY <1>1, <2>1, FS_Subset
<1>3. Cardinality(ServiceLines(t)) \in Nat
  BY <1>2, FS_CardinalityType
<1>4. "service" \in Item
  BY DEF Item
<1>5. QED
  BY <1>3, <1>4 DEF ParsedServices

(* An address change renders a text.                                        *)
LEMMA WithVipTyped ==
  ASSUME NEW t \in Text, NEW v \in BOOLEAN
  PROVE  WithVip(t, v) \in Text
<1>1. <<>> \in Seq(Item) /\ <<"vip">> \in Seq(Item)
  BY DEF Item
<1>2. WithVip(t, v) = [promoter |-> TRUE, start |-> StartLines([ProfileOf(t) EXCEPT !.vip = v]),
                       inline |-> FALSE, advanced |-> FALSE]
  BY DEF WithVip, Generated, ProfileOf
<1>3. StartLines([ProfileOf(t) EXCEPT !.vip = v])
        = ((<<>> \o (IF v THEN <<"vip">> ELSE <<>>)) \o <<>>) \o ParsedServices(t)
  BY DEF StartLines, ProfileOf, If
<1>4. StartLines([ProfileOf(t) EXCEPT !.vip = v]) \in Seq(Item)
  <2>1. (IF v THEN <<"vip">> ELSE <<>>) \in Seq(Item)
    BY <1>1
  <2>2. \A a, b \in Seq(Item) : a \o b \in Seq(Item)
    OBVIOUS
  <2>3. QED
    BY <1>1, <1>3, <2>1, <2>2, ServicesTyped, Zenon
<1>5. QED
  BY <1>2, <1>4 DEF Text

(* So do a new start array, and the editor's parse of an old one.           *)
LEMMA ReplacedTyped ==
  ASSUME NEW t \in Text, NEW s \in Seq(Item)
  PROVE  ReplacedStart(t, s) \in Text
BY DEF ReplacedStart, Text

LEMMA ParsedTyped ==
  ASSUME NEW t \in Text
  PROVE  ParsedItems(t) \in Seq(Item)
<1>1. t.start \in Seq(Item)
  BY DEF Text
<1>2. CASE Cuts(t) = {}
  BY <1>1, <1>2 DEF ParsedItems, OneLine, ManyLines
<1>3. CASE Cuts(t) # {}
  <2> DEFINE k == CHOOSE i \in Cuts(t) : \A j \in Cuts(t) : i <= j
  <2>1. Cuts(t) \subseteq Nat /\ Cuts(t) \subseteq DOMAIN t.start
    BY <1>1 DEF Cuts
  <2>2. k \in Cuts(t)
    <3>1. \E i \in Cuts(t) : \A j \in Cuts(t) : i <= j
      BY <1>3, <2>1, LeastNatural
    <3>2. QED
      BY <3>1
  <2>3. Append(SubSeq(t.start, 1, k - 1), "cut") \in Seq(Item)
    <3> HIDE DEF k
    <3>1. k \in 1..Len(t.start) /\ "cut" \in Item
      BY <1>1, <2>1, <2>2 DEF Item
    <3>2. SubSeq(t.start, 1, k - 1) \in Seq(Item)
      BY <1>1, <3>1
    <3>3. QED
      BY <3>1, <3>2
  <2>4. QED
    BY <1>1, <1>3, <2>3 DEF ParsedItems, OneLine, ManyLines
<1>4. QED
  BY <1>2, <1>3

(* What a write shows before it is done.                                    *)
LEMMA BeginningTyped ==
  ASSUME NEW t \in Text, NEW b \in Beginnings(t)
  PROVE  b \in Text
<1>1. /\ t.start \in Seq(Item) /\ t.inline \in BOOLEAN /\ t.promoter \in BOOLEAN
      /\ t = [promoter |-> t.promoter, start |-> t.start, inline |-> t.inline, advanced |-> t.advanced]
  BY DEF Text
<1>2. CASE b = [t EXCEPT !.advanced = FALSE]
  BY <1>2 DEF Text
<1>3. CASE \E n \in 0..Len(t.start) :
             b = [promoter |-> FALSE, start |-> [k \in 1..n |-> t.start[k]], inline |-> t.inline,
                  advanced |-> FALSE]
  <2>1. PICK n \in 0..Len(t.start) :
          b = [promoter |-> FALSE, start |-> [k \in 1..n |-> t.start[k]], inline |-> t.inline,
               advanced |-> FALSE]
    BY <1>3
  <2>2. [k \in 1..n |-> t.start[k]] \in Seq(Item)
    <3>1. n \in Nat /\ \A k \in 1..n : t.start[k] \in Item
      BY <1>1, <2>1
    <3>2. QED
      BY <3>1
  <2>3. QED
    BY <1>1, <2>1, <2>2 DEF Text
<1>4. QED
  BY <1>2, <1>3 DEF Beginnings

(* At the start.                                                            *)
LEMMA TypeInitially == Init => TypeInv
<1> SUFFICES ASSUME Init
             PROVE  TypeInv
  OBVIOUS
<1>1. PICK on \in plan.enabled :
        /\ toml = [n \in Node |-> IF n \in on THEN {First} ELSE {}]
        /\ dis = [n \in Node |-> IF n \in on THEN {} ELSE {First}]
        /\ loaded = toml
  BY DEF Init
<1>2. TextsTyped
  BY <1>1, TextsAssumption DEF Init, TextsTyped, AtMostOne
<1>3. EditorTyped /\ PlacesTyped /\ GhostsTyped
  BY DEF Init, EditorTyped, PlacesTyped, GhostsTyped, Answered
<1>4. NoRequest \in RequestType /\ NoView \in ViewType
  BY DEF NoRequest, RequestType, NoView, ViewType, AtMostOne
<1>5. RequestsTyped
  <2>1. \A r \in Client : plan.turns[r] \in Nat
    BY PlansAssumption DEF Init
  <2>2. QED
    BY <1>4, <2>1 DEF Init, RequestsTyped, RequestType
<1>6. ViewsTyped
  BY <1>4 DEF Init, ViewsTyped
<1>7. primary \in AtMostOne(Node)
  BY SteadyInitially DEF SteadyInv
<1>8. queued \in BOOLEAN
  BY DEF Init
<1>9. QED
  BY <1>2, <1>3, <1>5, <1>6, <1>7, <1>8 DEF TypeInv

(* What a step may put into its request.                                    *)
LEMMA RequestUpdates ==
  ASSUME RequestsTyped, NEW r \in Client, NEW S \in SUBSET Node, NEW T \in SUBSET Node
  PROVE  /\ [req EXCEPT ![r].todo = S] \in [Client -> RequestType]
         /\ [req EXCEPT ![r].node = S] \in [Client -> RequestType]
         /\ [req EXCEPT ![r].todo = S, ![r].synced = T] \in [Client -> RequestType]
         /\ req[r].todo \subseteq Node /\ req[r].synced \subseteq Node /\ req[r].node \subseteq Node
<1>1. /\ [req[r] EXCEPT !.todo = S] \in RequestType
      /\ [req[r] EXCEPT !.node = S] \in RequestType
      /\ [req[r] EXCEPT !.todo = S, !.synced = T] \in RequestType
  BY DEF RequestsTyped, RequestType
<1>2. [req EXCEPT ![r].todo = S, ![r].synced = T]
        = [req EXCEPT ![r] = [req[r] EXCEPT !.todo = S, !.synced = T]]
  BY DEF RequestsTyped
<1>3. req[r].todo \subseteq Node /\ req[r].synced \subseteq Node /\ req[r].node \subseteq Node
  BY DEF RequestsTyped, RequestType
<1>4. QED
  BY <1>1, <1>2, <1>3 DEF RequestsTyped

LEMMA FreshUpdates ==
  ASSUME RequestsTyped, NEW r \in Client, NEW S \in SUBSET Node, NEW U \in SUBSET Node,
         NEW T \in SUBSET Node
  PROVE  /\ [req EXCEPT ![r].todo = S, ![r].fresh = U] \in [Client -> RequestType]
         /\ [req EXCEPT ![r].todo = S, ![r].fresh = U, ![r].synced = T] \in [Client -> RequestType]
         /\ req[r].fresh \subseteq Node
<1>1. /\ [req[r] EXCEPT !.todo = S, !.fresh = U] \in RequestType
      /\ [req[r] EXCEPT !.todo = S, !.fresh = U, !.synced = T] \in RequestType
      /\ req[r].fresh \subseteq Node
  BY DEF RequestsTyped, RequestType
<1>2. /\ [req EXCEPT ![r].todo = S, ![r].fresh = U]
           = [req EXCEPT ![r] = [req[r] EXCEPT !.todo = S, !.fresh = U]]
      /\ [req EXCEPT ![r].todo = S, ![r].fresh = U, ![r].synced = T]
           = [req EXCEPT ![r] = [req[r] EXCEPT !.todo = S, !.fresh = U, !.synced = T]]
  BY DEF RequestsTyped
<1>3. QED
  BY <1>1, <1>2 DEF RequestsTyped

LEMMA UpdatesTyped ==
  ASSUME TypeInv, NEW r \in Client, NEW S \in SUBSET Node,
         req' = [req EXCEPT ![r].todo = S] \/ req' = [req EXCEPT ![r].node = S]
  PROVE  RequestsTyped'
<1>1. RequestsTyped
  BY DEF TypeInv
<1>2. [req EXCEPT ![r].todo = S] \in [Client -> RequestType]
  BY <1>1, RequestUpdates
<1>3. [req EXCEPT ![r].node = S] \in [Client -> RequestType]
  BY <1>1, RequestUpdates
<1>4. QED
  BY <1>2, <1>3 DEF RequestsTyped

LEMMA LoopTyped ==
  ASSUME TypeInv, NEW r \in Client, NEW S \in SUBSET Node, NEW p, NEW q, Loop(r, p, q, S)
  PROVE  RequestsTyped'
BY RequestUpdates DEF TypeInv, RequestsTyped, Loop

LEMMA VisitedTyped ==
  ASSUME TypeInv, NEW r \in Client, NEW n \in Node, NEW q, NEW S \in SUBSET Node, Visited(r, n, q, S)
  PROVE  RequestsTyped'
<1>1. req' = [req EXCEPT ![r].todo = req[r].todo \ {n}, ![r].synced = req[r].synced \cup S]
  BY DEF Visited, TypeInv, RequestsTyped, RequestType
<1>2. req[r].todo \ {n} \in SUBSET Node /\ req[r].synced \cup S \in SUBSET Node
  BY RequestUpdates DEF TypeInv
<1>3. QED
  BY <1>1, <1>2, RequestUpdates DEF TypeInv, RequestsTyped

LEMMA SyncedTyped ==
  ASSUME TypeInv, NEW r \in Client, NEW n \in Node, NEW S \in SUBSET Node,
         \/ Synced(r, n, S)
         \/ req' = [req EXCEPT ![r].todo = @ \ {n}, ![r].fresh = @ \cup {n}]
  PROVE  RequestsTyped'
<1>1. RequestsTyped
  BY DEF TypeInv
<1>2. req[r].todo \subseteq Node /\ req[r].synced \subseteq Node /\ req[r].fresh \subseteq Node
  BY <1>1, RequestUpdates, FreshUpdates
<1>3. CASE Synced(r, n, S)
  <2>1. req' = [req EXCEPT ![r].todo = req[r].todo \ {n}, ![r].fresh = req[r].fresh \ {n},
                           ![r].synced = req[r].synced \cup S]
    BY <1>1, <1>3 DEF Synced, RequestsTyped, RequestType
  <2>2. /\ req[r].todo \ {n} \in SUBSET Node /\ req[r].fresh \ {n} \in SUBSET Node
        /\ req[r].synced \cup S \in SUBSET Node
    BY <1>2
  <2>3. QED
    BY <1>1, <2>1, <2>2, FreshUpdates DEF RequestsTyped
<1>4. CASE req' = [req EXCEPT ![r].todo = @ \ {n}, ![r].fresh = @ \cup {n}]
  <2>1. req' = [req EXCEPT ![r].todo = req[r].todo \ {n}, ![r].fresh = req[r].fresh \cup {n}]
    BY <1>1, <1>4 DEF RequestsTyped, RequestType
  <2>2. req[r].todo \ {n} \in SUBSET Node /\ req[r].fresh \cup {n} \in SUBSET Node
    BY <1>2
  <2>3. QED
    BY <1>1, <2>1, <2>2, FreshUpdates DEF RequestsTyped
<1>5. QED
  BY <1>3, <1>4

(* What the requests hold keeps its type in every step of an edit.          *)
LEMMA EditsTypeRequests ==
  ASSUME TypeInv, NEW r \in Client, Edit(r)
  PROVE  RequestsTyped'
<1> USE DEF Refuse, Finish
<1>1. UNCHANGED req => RequestsTyped'
  BY DEF TypeInv, RequestsTyped
<1>2. Remote \in SUBSET Node /\ Synchronised \in SUBSET Node
  BY DEF Remote, Synchronised
<1>3. CASE AddVip(r) \/ RemoveVip(r) \/ PutText(r) \/ BeginWrite(r) \/ LoadEditor(r) \/ ReadSave(r)
  BY <1>1, <1>3 DEF AddVip, RemoveVip, Rerender, PutText, BeginWrite, LoadEditor, ReadSave
<1>4. CASE WriteText(r)
  <2>1. CASE GoOn(r)
    BY <1>1, <1>2, <2>1, LoopTyped DEF GoOn
  <2>2. QED
    BY <1>1, <1>4, <2>1 DEF WriteText
<1>5. CASE ReadSync(r)
  BY <1>1, <1>2, <1>5, LoopTyped DEF ReadSync
<1>6. CASE ReloadLocal(r)
  <2>1. req[r].node \ {c} \in SUBSET Node
    BY RequestUpdates DEF TypeInv
  <2>2. QED
    BY <1>1, <1>6, <2>1, LoopTyped DEF ReloadLocal
<1>7. CASE FetchDetails(r)
  <2>1. CASE Refuse(r)
    BY <1>1, <2>1
  <2>2. CASE \E S \in SUBSET Node : req' = [req EXCEPT ![r].node = S]
    BY <2>2, UpdatesTyped
  <2>3. QED
    BY <1>7, <2>1, <2>2 DEF FetchDetails
<1>8. ASSUME NEW n \in Node, BeginSync(r, n) \/ SyncNode(r, n) \/ SyncReload(r, n) \/ PushNode(r, n)
      PROVE  RequestsTyped'
  <2>1. {} \in SUBSET Node /\ {n} \in SUBSET Node
    OBVIOUS
  <2>2. CASE BeginSync(r, n)
    BY <1>1, <2>2 DEF BeginSync
  <2>3. CASE SyncNode(r, n)
    BY <2>1, <2>3, SyncedTyped DEF SyncNode
  <2>4. CASE SyncReload(r, n)
    BY <2>1, <2>4, SyncedTyped DEF SyncReload
  <2>5. CASE PushNode(r, n)
    BY <2>1, <2>5, VisitedTyped DEF PushNode
  <2>6. QED
    BY <1>8, <2>2, <2>3, <2>4, <2>5
<1>9. QED
  BY <1>3, <1>4, <1>5, <1>6, <1>7, <1>8 DEF Edit

LEMMA SwitchesTypeRequests ==
  ASSUME TypeInv, NEW r \in Client, Switch(r)
  PROVE  RequestsTyped'
<1> USE DEF Refuse, Finish
<1>1. UNCHANGED req => RequestsTyped'
  BY DEF TypeInv, RequestsTyped
<1>2. CASE EnableProfile(r)
  BY <1>1, <1>2, Node \in SUBSET Node, UpdatesTyped DEF EnableProfile
<1>3. CASE EvictTarget(r)
  <2>1. ReactorShows(c) \in SUBSET Node /\ req[r].node \in SUBSET Node
    BY RequestUpdates DEF ReactorShows, TypeInv, AtMostOne
  <2>2. CASE Refuse(r)
    BY <1>1, <2>2
  <2>3. CASE \E S \in SUBSET Node : req' = [req EXCEPT ![r].node = S]
    BY <2>3, UpdatesTyped
  <2>4. QED
    BY <1>3, <2>1, <2>2, <2>3 DEF EvictTarget
<1>4. ASSUME NEW n \in Node, EvictRun(r) \/ DisableOnNode(r, n) \/ EnableOnNode(r, n)
      PROVE  RequestsTyped'
  BY <1>1, <1>4 DEF EvictRun, DisableOnNode, EnableOnNode
<1>5. CASE EvictRun(r)
  BY <1>1, <1>5 DEF EvictRun
<1>6. ASSUME NEW n \in Node, EnableNext(r, n)
      PROVE  RequestsTyped'
  <2>1. {} \in SUBSET Node /\ {n} \in SUBSET Node
    OBVIOUS
  <2>2. QED
    BY <1>6, <2>1, VisitedTyped DEF EnableNext
<1>7. QED
  BY <1>2, <1>3, <1>4, <1>5, <1>6 DEF Switch

LEMMA LooksTypeRequests ==
  ASSUME TypeInv, NEW r \in Client, Look(r)
  PROVE  RequestsTyped'
<1> USE DEF Refuse
<1>1. UNCHANGED req => RequestsTyped'
  BY DEF TypeInv, RequestsTyped
<1>2. ASSUME NEW v, AskOthers(r, v) \/ NowhereEnabled(r, v)
      PROVE  RequestsTyped'
  <2>1. Remote \in SUBSET Node /\ Node \in SUBSET Node
    BY DEF Remote
  <2>2. ASSUME NowhereEnabled(r, v)
        PROVE  RequestsTyped'
    BY <1>1, <2>1, <2>2, LoopTyped DEF NowhereEnabled
  <2>3. QED
    BY <1>2, <2>1, <2>2, UpdatesTyped DEF AskOthers
<1>3. ASSUME NEW shown, NEW asked, Answer(r, shown, asked)
      PROVE  RequestsTyped'
  BY <1>3, Node \in SUBSET Node, LoopTyped DEF Answer
<1>4. CASE \/ StatusToml(r) \/ StatusRemoteList(r) \/ StatusDrbd(r) \/ ListActive(r)
           \/ StatusRemoteDrbd(r)
  BY <1>1, <1>4 DEF StatusToml, StatusRemoteList, StatusDrbd, ListActive, StatusRemoteDrbd
<1>5. CASE StatusDisabledFile(r) \/ StatusReactor(r)
  BY <1>1, <1>2, <1>5 DEF StatusDisabledFile, StatusReactor
<1>6. CASE StatusNoPrimary(r) \/ StatusActive(r) \/ StatusRemoteReactor(r) \/ StatusFallback(r)
  BY <1>1, <1>3, <1>6 DEF StatusNoPrimary, StatusActive, StatusRemoteReactor, StatusFallback
<1>7. ASSUME NEW n \in Node, StatusRemote(r, n)
      PROVE  RequestsTyped'
  <2>1. CASE req' = [req EXCEPT ![r].node = {n}]
    BY <2>1, {n} \in SUBSET Node, UpdatesTyped
  <2>2. CASE Visited(r, n, "remote", {})
    BY <2>2, {} \in SUBSET Node, VisitedTyped
  <2>3. QED
    BY <1>2, <1>7, <2>1, <2>2 DEF StatusRemote
<1>8. ASSUME NEW n \in Node, StatusFlags(r, n)
      PROVE  RequestsTyped'
  <2>1. req' = [req EXCEPT ![r].todo = req[r].todo \ {n}]
    BY <1>8 DEF StatusFlags
  <2>2. req[r].todo \ {n} \in SUBSET Node
    BY RequestUpdates DEF TypeInv
  <2>3. QED
    BY <2>1, <2>2, UpdatesTyped
<1>9. QED
  BY <1>4, <1>5, <1>6, <1>7, <1>8 DEF Look

(* A request goes from one place to another.                                *)
LEMMA PlacesAreKept ==
  ASSUME TypeInv, NEW r \in Client, Handler(r) \/ Abort(r), Own(r)
  PROVE  PlacesTyped'
<1>1. UNCHANGED plan
  BY DEF Own, Local, Fails, Shared, Queues
<1>2. ASSUME NEW p \in Running \cup Answered, pc' = [pc EXCEPT ![r] = p]
      PROVE  PlacesTyped'
  BY <1>1, <1>2 DEF TypeInv, PlacesTyped
<1>3. UNCHANGED pc => PlacesTyped'
  BY <1>1 DEF TypeInv, PlacesTyped
<1>4. CASE Edit(r)
  <2>1. UNCHANGED pc \/ \E p \in {"read", "write", "writing", "push", "reload", "done", "refused"} :
                          pc' = [pc EXCEPT ![r] = p]
    BY <1>4 DEF Edit, AddVip, RemoveVip, Rerender, BeginWrite, WriteText, GoOn, PutText, ReadSync,
                ReloadLocal, LoadEditor, FetchDetails, ReadSave, BeginSync, SyncNode, SyncReload,
                PushNode, Visited, Synced, AfterSync, Goto, Loop, Refuse, Finish
  <2>2. QED
    BY <1>2, <1>3, <2>1 DEF Running, Answered
<1>5. CASE Switch(r) \/ Abort(r)
  <2>1. UNCHANGED pc \/ \E p \in {"enableAll", "evictRun", "done", "refused"} :
                          pc' = [pc EXCEPT ![r] = p]
    BY <1>5 DEF Switch, EnableProfile, EvictTarget, EvictRun, DisableOnNode, EnableOnNode, EnableNext,
                Abort, Visited, Goto, Refuse, Finish
  <2>2. QED
    BY <1>2, <1>3, <2>1 DEF Running, Answered
<1>6. CASE Look(r)
  <2>1. UNCHANGED pc \/ \E p \in LookPlaces \cup {"done", "refused"} : pc' = [pc EXCEPT ![r] = p]
    BY <1>6 DEF Look, StatusToml, StatusDisabledFile, StatusReactor, StatusRemoteList, StatusDrbd,
                ListActive, StatusNoPrimary, StatusActive, StatusRemoteDrbd, StatusRemoteReactor,
                StatusFallback, StatusRemote, StatusFlags, AskOthers, NowhereEnabled, Answer,
                Visited, Goto, Loop, Refuse, LookPlaces
  <2>2. QED
    BY <1>2, <1>3, <2>1 DEF LookPlaces, Running, Answered
<1>7. QED
  BY <1>4, <1>5, <1>6 DEF Handler


(* Every text on a node is the one created, one that was put, or made by    *)
(* the readers and writers out of such a text.                              *)
LEMMA TextUpdates ==
  ASSUME TextsTyped, NEW n \in Node, NEW r \in Client, NEW S \in AtMostOne(Text)
  PROVE  /\ [toml EXCEPT ![n] = S] \in [Node -> AtMostOne(Text)]
         /\ [dis EXCEPT ![n] = S] \in [Node -> AtMostOne(Text)]
         /\ [loaded EXCEPT ![n] = S] \in [Node -> AtMostOne(Text)]
         /\ [text EXCEPT ![r] = S] \in [Client -> AtMostOne(Text)]
         /\ published \cup S \subseteq Text
BY DEF TextsTyped, AtMostOne

LEMMA TextsHeld ==
  ASSUME TextsTyped
  PROVE  /\ \A n \in Node : /\ toml[n] \in AtMostOne(Text) /\ dis[n] \in AtMostOne(Text)
                            /\ \A t \in toml[n] : t \in Text
         /\ \A r \in Client : text[r] \in AtMostOne(Text)
         /\ {} \in AtMostOne(Text)
BY DEF TextsTyped, AtMostOne

LEMMA EditsTypeTexts ==
  ASSUME TypeInv, NEW r \in Client, Edit(r)
  PROVE  TextsTyped'
<1>0. TextsTyped /\ c \in Node
  BY ControllerAssumption DEF TypeInv, c
<1>1. UNCHANGED <<files, text>> => TextsTyped'
  BY <1>0 DEF TextsTyped, files
<1>2. ASSUME UNCHANGED files, NEW S \in AtMostOne(Text), text' = [text EXCEPT ![r] = S]
      PROVE  TextsTyped'
  BY <1>0, <1>2, TextUpdates, TextsHeld DEF TextsTyped, files
<1>3. ASSUME NEW t, t \in toml[c]
      PROVE  t \in Text
  BY <1>0, <1>3, TextUpdates, TextsHeld
<1>4. ASSUME NEW vip \in BOOLEAN, Rerender(r, vip)
      PROVE  TextsTyped'
  <2>1. CASE Refuse(r)
    BY <1>1, <1>4, <2>1 DEF Rerender, Refuse, KeepText, Local
  <2>2. CASE ~Refuse(r)
    <3>1. PICK t \in toml[c] : text' = [text EXCEPT ![r] = {WithVip(t, vip)}]
      BY <1>4, <2>2 DEF Rerender
    <3>2. {WithVip(t, vip)} \in AtMostOne(Text)
      BY <1>3, WithVipTyped DEF AtMostOne
    <3>3. QED
      BY <1>2, <1>4, <3>1, <3>2 DEF Rerender, Local
  <2>3. QED
    BY <2>1, <2>2
<1>5. CASE AddVip(r) \/ RemoveVip(r)
  BY <1>4, <1>5 DEF AddVip, RemoveVip
<1>6. CASE WriteText(r) \/ BeginWrite(r)
  <2>1. UNCHANGED text
    BY <1>6 DEF WriteText, BeginWrite, GoOn, KeepText, Refuse
  <2>2. ASSUME NEW S \in AtMostOne(Text), toml' = [toml EXCEPT ![c] = S],
               published' = published \cup text[r], UNCHANGED <<dis, loaded>>
        PROVE  TextsTyped'
    BY <1>0, <2>1, <2>2, TextUpdates, TextsHeld DEF TextsTyped
  <2>3. CASE UNCHANGED files
    BY <1>1, <2>1, <2>3
  <2>4. CASE Written(r)
    BY <1>0, <2>2, <2>4, TextsHeld DEF Written, Rewrites, Sets
  <2>5. CASE BeginWrite(r) /\ ~UNCHANGED files
    <3>1. PICK t \in text[r] : \E b \in Beginnings(t) : Sets(toml, c, {b})
      BY <2>5 DEF BeginWrite, Local
    <3>2. PICK b \in Beginnings(t) : Sets(toml, c, {b})
      BY <3>1
    <3>3. {b} \in AtMostOne(Text)
      <4>1. t \in Text
        BY <1>0 DEF TextsTyped, AtMostOne
      <4>2. QED
        BY <4>1, BeginningTyped DEF AtMostOne
    <3>4. QED
      BY <2>2, <2>5, <3>2, <3>3 DEF BeginWrite, Local, Rewrites, Sets
  <2>6. QED
    BY <1>6, <2>3, <2>4, <2>5 DEF WriteText, Local
<1>7. CASE PutText(r)
  <2>1. PICK t \in Puts : text' = [text EXCEPT ![r] = {t}]
    BY <1>7 DEF PutText
  <2>2. {t} \in AtMostOne(Text)
    BY TextsAssumption DEF AtMostOne
  <2>3. QED
    BY <1>2, <1>7, <2>1, <2>2 DEF PutText, Local
<1>8. CASE ReadSync(r)
  <2>1. UNCHANGED files /\ toml[c] \in AtMostOne(Text)
    BY <1>0, <1>8, TextUpdates, TextsHeld DEF ReadSync, Local
  <2>2. UNCHANGED text \/ text' = [text EXCEPT ![r] = toml[c]]
    BY <1>8 DEF ReadSync, Refuse, KeepText
  <2>3. QED
    BY <1>1, <1>2, <2>1, <2>2
<1>9. CASE ReloadLocal(r)
  <2>1. UNCHANGED <<text, published, toml, dis, loaded>>
    BY <1>9 DEF ReloadLocal, KeepText, Local, files
  <2>2. QED
    BY <1>0, <2>1 DEF TextsTyped
<1>10. CASE LoadEditor(r) \/ FetchDetails(r)
  BY <1>1, <1>10 DEF LoadEditor, FetchDetails, Local, KeepText, Refuse
<1>11. CASE ReadSave(r)
  <2>1. CASE Refuse(r)
    BY <1>1, <1>11, <2>1 DEF ReadSave, Refuse, KeepText, Local
  <2>2. CASE ~Refuse(r)
    <3>1. PICK t \in toml[c] : text' = [text EXCEPT ![r] = {ReplacedStart(t, req[r].start)}]
      BY <1>11, <2>2 DEF ReadSave
    <3>2. req[r].start \in Seq(Item)
      BY DEF TypeInv, RequestsTyped, RequestType
    <3>3. {ReplacedStart(t, req[r].start)} \in AtMostOne(Text)
      BY <1>3, <3>2, ReplacedTyped DEF AtMostOne
    <3>4. QED
      BY <1>2, <1>11, <3>1, <3>3 DEF ReadSave, Local
  <2>3. QED
    BY <2>1, <2>2
<1>12. ASSUME NEW n \in Node, BeginSync(r, n) \/ SyncNode(r, n) \/ SyncReload(r, n) \/ PushNode(r, n)
       PROVE  TextsTyped'
  <2>1. UNCHANGED text
    BY <1>12 DEF BeginSync, SyncNode, SyncReload, PushNode, Visited, KeepText
  <2>2. ASSUME NEW S \in AtMostOne(Text), Copied(r, n, S)
        PROVE  TextsTyped'
    BY <1>0, <2>1, <2>2, TextUpdates, TextsHeld DEF TextsTyped, Copied, Rewrites, Sets
  <2>3. text[r] \in AtMostOne(Text)
    BY <1>0, TextUpdates, TextsHeld
  <2>4. CASE UNCHANGED files
    BY <1>1, <2>1, <2>4
  <2>5. CASE Sets(loaded, n, toml[n]) /\ UNCHANGED <<toml, dis, published>>
    BY <1>0, <2>1, <2>5, TextUpdates, TextsHeld DEF TextsTyped, Sets
  <2>6. CASE BeginSync(r, n)
    <3>1. PICK t \in text[r] : \E b \in Beginnings(t) : Copied(r, n, {b})
      BY <2>6 DEF BeginSync
    <3>2. PICK b \in Beginnings(t) : Copied(r, n, {b})
      BY <3>1
    <3>3. {b} \in AtMostOne(Text)
      <4>1. t \in Text
        BY <1>0 DEF TextsTyped, AtMostOne
      <4>2. QED
        BY <4>1, BeginningTyped DEF AtMostOne
    <3>4. QED
      BY <2>2, <3>2, <3>3
  <2>7. CASE SyncNode(r, n)
    <3>1. UNCHANGED files \/ Copied(r, n, text[r])
      BY <2>7 DEF SyncNode, Local
    <3>2. CASE Copied(r, n, text[r])
      BY <1>0, <2>1, <2>3, <3>2, TextUpdates, TextsHeld DEF TextsTyped, Copied, Rewrites, Sets
    <3>3. QED
      BY <2>4, <3>1, <3>2
  <2>8. CASE SyncReload(r, n)
    BY <2>4, <2>5, <2>8 DEF SyncReload, Local
  <2>9. CASE PushNode(r, n)
    <3>1. UNCHANGED files \/ Copied(r, n, text[r])
      BY <2>9 DEF PushNode, Local
    <3>2. CASE Copied(r, n, text[r])
      BY <1>0, <2>1, <2>3, <3>2, TextUpdates, TextsHeld DEF TextsTyped, Copied, Rewrites, Sets
    <3>3. QED
      BY <2>4, <3>1, <3>2
  <2>10. QED
    BY <1>12, <2>6, <2>7, <2>8, <2>9
<1>13. QED
  BY <1>5, <1>6, <1>7, <1>8, <1>9, <1>10, <1>11, <1>12 DEF Edit

LEMMA SwitchesTypeTexts ==
  ASSUME TypeInv, NEW r \in Client, Switch(r)
  PROVE  TextsTyped'
<1>0. TextsTyped
  BY DEF TypeInv
<1>1. UNCHANGED text
  BY DEF Switch, EnableProfile, EvictTarget, EvictRun, DisableOnNode, EnableOnNode, EnableNext,
         Visited, Finish, Refuse, KeepText
<1>2. UNCHANGED files => TextsTyped'
  BY <1>0, <1>1 DEF TextsTyped, files
<1>3. ASSUME NEW n \in Node, Disabled(n)
      PROVE  TextsTyped'
  <2>1. /\ dis' = [dis EXCEPT ![n] = toml[n]] /\ toml' = [toml EXCEPT ![n] = {}]
        /\ loaded' = [loaded EXCEPT ![n] = {}] /\ UNCHANGED published
    BY <1>3 DEF Disabled, Sets
  <2>2. QED
    BY <1>0, <1>1, <2>1, TextUpdates, TextsHeld DEF TextsTyped
<1>4. ASSUME NEW n \in Node, Enabled(n)
      PROVE  TextsTyped'
  <2>1. /\ toml' = [toml EXCEPT ![n] = dis[n]] /\ dis' = [dis EXCEPT ![n] = {}]
        /\ loaded' = [loaded EXCEPT ![n] = dis[n]] /\ UNCHANGED published
    BY <1>4 DEF Enabled, Sets
  <2>2. QED
    BY <1>0, <1>1, <2>1, TextUpdates, TextsHeld DEF TextsTyped
<1>5. QED
  BY <1>2, <1>3, <1>4 DEF Switch, EnableProfile, EvictTarget, EvictRun, DisableOnNode, EnableOnNode,
                          EnableNext, Local, Fails

(* Only the load of the editor changes what an editor holds.                *)
LEMMA EditorIsTyped ==
  ASSUME TypeInv, NEW r \in Client, Handler(r) \/ Abort(r)
  PROVE  EditorTyped'
<1>1. UNCHANGED editor => EditorTyped'
  BY DEF TypeInv, EditorTyped
<1>2. CASE LoadEditor(r)
  <2>1. CASE Refuse(r)
    BY <1>1, <2>1 DEF Refuse, KeepText
  <2>2. CASE ~Refuse(r)
    <3>1. PICK t \in toml[c] : editor' = [editor EXCEPT ![r] = {[items |-> ParsedItems(t), from |-> t]}]
      BY <1>2, <2>2 DEF LoadEditor
    <3>2. t \in Text
      BY ControllerAssumption DEF TypeInv, TextsTyped, AtMostOne, c
    <3>3. ParsedItems(t) \in Seq(Item)
      BY <3>2, ParsedTyped
    <3>4. QED
      BY <3>1, <3>2, <3>3 DEF TypeInv, EditorTyped
  <2>3. QED
    BY <2>1, <2>2
<1>3. CASE Edit(r) /\ ~LoadEditor(r)
  BY <1>1, <1>3 DEF Edit, AddVip, RemoveVip, Rerender, BeginWrite, WriteText, GoOn, PutText, ReadSync,
                ReloadLocal, FetchDetails, ReadSave, BeginSync, SyncNode, SyncReload, PushNode, Visited,
                Refuse, Finish, KeepText
<1>4. CASE Switch(r)
  BY <1>1, <1>4 DEF Switch, EnableProfile, EvictTarget, EvictRun, DisableOnNode, EnableOnNode, EnableNext,
                Visited, Refuse, Finish, KeepText
<1>5. CASE Look(r)
  BY <1>1, <1>5 DEF Look, StatusToml, StatusDisabledFile, StatusReactor, StatusRemoteList, StatusDrbd,
                ListActive, StatusNoPrimary, StatusActive, StatusRemoteDrbd, StatusRemoteReactor,
                StatusFallback, StatusRemote, StatusFlags, AskOthers, NowhereEnabled, Answer,
                Visited, Refuse, Note, Shown, KeepText
<1>6. CASE Abort(r)
  BY <1>1, <1>6 DEF Abort, Refuse, KeepText
<1>7. QED
  BY <1>2, <1>3, <1>4, <1>5, <1>6 DEF Handler

(* What a client is said to have seen is a set of nodes that may serve.     *)
LEMMA GhostsAreTyped ==
  ASSUME TypeInv, NEW r \in Client, Own(r), primary' \in AtMostOne(Node)
  PROVE  GhostsTyped'
<1>1. CASE Local(r)
  BY <1>1 DEF Local, ghosts, TypeInv, GhostsTyped
<1>2. CASE Fails(r)
  BY <1>2 DEF Fails, TypeInv, GhostsTyped
<1>3. CASE Shared(r)
  BY <1>3 DEF Shared, TypeInv, GhostsTyped
<1>4. CASE Queues
  BY <1>4 DEF Queues, ghosts, TypeInv, GhostsTyped
<1>5. QED
  BY <1>1, <1>2, <1>3, <1>4 DEF Own

(* systemd has a reload to do, or not.                                      *)
LEMMA QueueIsTyped ==
  ASSUME TypeInv, FInv, Next
  PROVE  queued' \in BOOLEAN
<1>1. ASSUME NEW r \in Client, Edit(r)
      PROVE  queued' \in {queued, TRUE}
  <2>1. CASE BeginWrite(r) \/ WriteText(r) \/ ReloadLocal(r)
    BY <2>1 DEF BeginWrite, WriteText, Written, Rewrites, ReloadLocal, Local, files
  <2>2. CASE \E n \in Node : BeginSync(r, n) \/ SyncNode(r, n) \/ SyncReload(r, n) \/ PushNode(r, n)
    BY <2>2 DEF BeginSync, SyncNode, SyncReload, PushNode, Copied, Rewrites, Local, files
  <2>3. CASE AddVip(r) \/ RemoveVip(r) \/ PutText(r) \/ ReadSync(r) \/ LoadEditor(r)
               \/ FetchDetails(r) \/ ReadSave(r)
    BY <2>3 DEF AddVip, RemoveVip, Rerender, PutText, ReadSync, LoadEditor, FetchDetails, ReadSave,
                Local, files
  <2>4. QED
    BY <1>1, <2>1, <2>2, <2>3 DEF Edit
<1>2. ASSUME NEW r \in Client, Switch(r)
      PROVE  UNCHANGED queued
  BY <1>2 DEF Switch, EnableProfile, EvictTarget, EvictRun, DisableOnNode, EnableOnNode, EnableNext,
              Disabled, Enabled, Local, Fails, files
<1>3. ASSUME NEW r \in Client, Look(r) \/ Abort(r)
      PROVE  UNCHANGED queued
  BY <1>3, LookSteps DEF Abort, Fails, files
<1>4. ASSUME UNCHANGED queued \/ queued' \in {queued, TRUE, FALSE}
      PROVE  queued' \in BOOLEAN
  BY <1>4 DEF TypeInv
<1>5. CASE QueuedReload
  BY <1>5 DEF QueuedReload
<1>6. CASE Failover \/ \E r \in Client : \E o \in Op : Ask(r, o)
  BY <1>4, <1>6 DEF Failover, Ask, files
<1>7. QED
  BY <1>1, <1>2, <1>3, <1>4, <1>5, <1>6 DEF Next, Handler

(* What a look may write into its answer.                                   *)
LEMMA ViewUpdates ==
  ASSUME TypeInv, NEW r \in Client, NEW v \in ViewType,
         view' = [view EXCEPT ![r] = v]
  PROVE  ViewsTyped'
BY DEF TypeInv, ViewsTyped

LEMMA OneNode ==
  ASSUME TypeInv
  PROVE  /\ {} \in AtMostOne(Node) /\ {c} \in AtMostOne(Node) /\ primary \in AtMostOne(Node)
         /\ \A n \in Node : ReactorShows(n) \in AtMostOne(Node) /\ {n} \in AtMostOne(Node)
         /\ Remote \in SUBSET Node /\ \A S \in AtMostOne(Node) : S \in SUBSET Node
BY ControllerAssumption DEF TypeInv, AtMostOne, ReactorShows, Remote, c

LEMMA ViewHolds ==
  ASSUME TypeInv, NEW r \in Client
  PROVE  view[r] \in ViewType
BY DEF TypeInv, ViewsTyped

LEMMA AnswerTyped ==
  ASSUME TypeInv, NEW r \in Client, NEW shown \in AtMostOne(Node), NEW asked,
         Answer(r, shown, asked)
  PROVE  ViewsTyped'
<1> DEFINE active == IF shown # {} THEN shown ELSE view[r].named
<1>1. active \in AtMostOne(Node) /\ view[r] \in ViewType
  BY ViewHolds DEF ViewType
<1>2. \E v \in ViewType : view' = [view EXCEPT ![r] = v]
  <2> HIDE DEF active
  <2>1. CASE ~view[r].known
    <3>1. view' = [view EXCEPT ![r] = [view[r] EXCEPT !.active = active, !.peers = Node]]
      BY <2>1 DEF Answer, Note, active
    <3>2. [view[r] EXCEPT !.active = active, !.peers = Node] \in ViewType
      BY <1>1 DEF ViewType
    <3>3. QED
      BY <3>1, <3>2
  <2>2. CASE view[r].known /\ asked = {c}
    <3>1. view' = [view EXCEPT ![r] = [view[r] EXCEPT !.active = active, !.first = {c}, !.peers = Remote]]
      BY <2>2 DEF Answer, Note, active
    <3>2. [view[r] EXCEPT !.active = active, !.first = {c}, !.peers = Remote] \in ViewType
      BY <1>1, OneNode DEF ViewType
    <3>3. QED
      BY <3>1, <3>2
  <2>3. CASE view[r].known /\ asked # {c}
    <3>1. view' = [view EXCEPT ![r] = [view[r] EXCEPT !.active = active, !.first = active, !.peers = Node \ asked]]
      BY <2>3 DEF Answer, Note, active
    <3>2. [view[r] EXCEPT !.active = active, !.first = active, !.peers = Node \ asked] \in ViewType
      BY <1>1 DEF ViewType
    <3>3. QED
      BY <3>1, <3>2
  <2>4. QED
    BY <2>1, <2>2, <2>3
<1>3. QED
  BY <1>2, ViewUpdates

LEMMA NowhereTyped ==
  ASSUME TypeInv, NEW r \in Client, NEW v \in ViewType, NowhereEnabled(r, v) \/ AskOthers(r, v)
  PROVE  ViewsTyped'
<1>1. CASE NowhereEnabled(r, v)
  <2>1. [v EXCEPT !.truly = TRUE, !.peers = IF IsList(r) THEN {} ELSE Node] \in ViewType
    BY DEF ViewType
  <2>2. QED
    BY <1>1, <2>1, ViewUpdates DEF NowhereEnabled, Note
<1>2. CASE ~NowhereEnabled(r, v)
  BY <1>2, ViewUpdates DEF AskOthers, Note
<1>3. QED
  BY <1>1, <1>2

LEMMA LooksTypeViews ==
  ASSUME TypeInv, NEW r \in Client, Look(r)
  PROVE  ViewsTyped'
<1>1. UNCHANGED view => ViewsTyped'
  BY DEF TypeInv, ViewsTyped
<1>2. view[r] \in ViewType
  BY ViewHolds
<1>3. ASSUME NEW n \in Node, Shown(r, n)
      PROVE  ViewsTyped'
  <2>1. [view[r] EXCEPT !.active = ReactorShows(n)] \in ViewType
    BY <1>2, OneNode DEF ViewType
  <2>2. view' = [view EXCEPT ![r] = [view[r] EXCEPT !.active = ReactorShows(n)]]
    BY <1>3 DEF Shown
  <2>3. QED
    BY <2>1, <2>2, ViewUpdates
<1>4. CASE StatusToml(r)
  BY <1>1, <1>4 DEF StatusToml, KeepText
<1>5. CASE StatusDisabledFile(r)
  <2>1. [view[r] EXCEPT !.locally = TRUE] \in ViewType
    BY <1>2 DEF ViewType
  <2>2. QED
    BY <1>1, <1>5, <2>1, NowhereTyped, ViewUpdates DEF StatusDisabledFile, Note, Refuse, KeepText
<1>6. CASE StatusReactor(r)
  BY <1>1, <1>2, <1>6, NowhereTyped DEF StatusReactor, KeepText
<1>7. CASE StatusRemoteList(r)
  <2>1. req[r].node \subseteq Node
    BY RequestUpdates DEF TypeInv
  <2>2. QED
    BY <1>1, <1>3, <1>7, <2>1 DEF StatusRemoteList, KeepText
<1>8. CASE StatusDrbd(r)
  <2>1. [view[r] EXCEPT !.named = primary, !.known = TRUE] \in ViewType
    BY <1>2, OneNode DEF ViewType
  <2>2. QED
    BY <1>1, <1>8, <2>1, ViewUpdates DEF StatusDrbd, Note, KeepText
<1>9. CASE ListActive(r)
  BY <1>1, <1>3, <1>9, ControllerAssumption DEF ListActive, KeepText, c
<1>10. ReactorShows(c) \in AtMostOne(Node)
  BY OneNode, ControllerAssumption DEF c
<1>11. CASE StatusNoPrimary(r)
  BY <1>10, <1>11, OneNode, AnswerTyped DEF StatusNoPrimary
<1>12. CASE StatusActive(r)
  BY <1>1, <1>10, <1>12, OneNode, AnswerTyped DEF StatusActive, KeepText
<1>13. CASE StatusRemoteDrbd(r)
  <2>1. [view[r] EXCEPT !.known = FALSE] \in ViewType
    BY <1>2 DEF ViewType
  <2>2. QED
    BY <1>1, <1>13, <2>1, ViewUpdates DEF StatusRemoteDrbd, Note, KeepText
<1>14. CASE StatusRemoteReactor(r)
  BY <1>1, <1>14, OneNode, AnswerTyped DEF StatusRemoteReactor, KeepText
<1>15. CASE StatusFallback(r)
  BY <1>10, <1>15, OneNode, AnswerTyped DEF StatusFallback
<1>16. ASSUME NEW n \in Node, StatusRemote(r, n)
       PROVE  ViewsTyped'
  BY <1>1, <1>2, <1>16, NowhereTyped DEF StatusRemote, Visited, KeepText
<1>17. ASSUME NEW n \in Node, StatusFlags(r, n)
       PROVE  ViewsTyped'
  <2>1. PICK S \in SUBSET Node : view' = [view EXCEPT ![r].off = view[r].off \cup S]
    <3>1. view' = [view EXCEPT ![r].off = view[r].off \cup {n}] \/ view' = [view EXCEPT ![r].off = view[r].off \cup {}]
      BY <1>17 DEF StatusFlags
    <3>2. QED
      BY <3>1
  <2>2. [view[r] EXCEPT !.off = view[r].off \cup S] \in ViewType
    BY <1>2 DEF ViewType
  <2>3. QED
    BY <2>1, <2>2, ViewUpdates
<1>18. QED
  BY <1>4, <1>5, <1>6, <1>7, <1>8, <1>9, <1>11, <1>12, <1>13, <1>14, <1>15, <1>16, <1>17 DEF Look

(* A new request has a place, a node and a start array of its types.        *)
LEMMA AskTyped ==
  ASSUME TypeInv, NEW r \in Client, NEW o \in Op, Ask(r, o)
  PROVE  TypeInv'
<1>1. /\ view' = [view EXCEPT ![r] = NoView]
      /\ calm' = [calm EXCEPT ![r] = TRUE]
      /\ was' = [was EXCEPT ![r] = IF o \in Looks THEN {primary} ELSE {}]
      /\ pc' = [pc EXCEPT ![r] = FirstStep[o]]
      /\ UNCHANGED <<toml, dis, loaded, queued, published, primary, plan, editor>>
      /\ text' = [text EXCEPT ![r] = {}]
  BY DEF Ask, Goto, files
<1>2. TextsTyped'
  BY <1>1, TextsHeld DEF TypeInv, TextsTyped
<1>3. FirstStep[o] \in Running
  <2>1. FirstStep[o] = CASE o \in {"addVip", "removeVip", "sync"} -> "read"
                         [] o = "save" -> "details"
                         [] o \in Looks -> "toml"
                         [] OTHER -> o
    BY DEF FirstStep
  <2>2. QED
    BY <2>1 DEF Op, Edits, Switches, Looks, Running
<1>4. EditorTyped' /\ PlacesTyped' /\ GhostsTyped'
  <2>1. EditorTyped' /\ PlacesTyped'
    BY <1>1, <1>3 DEF TypeInv, EditorTyped, PlacesTyped
  <2>2. (IF o \in Looks THEN {primary} ELSE {}) \in SUBSET AtMostOne(Node)
    BY DEF TypeInv
  <2>3. QED
    BY <1>1, <2>1, <2>2 DEF TypeInv, GhostsTyped
<1>5. NoRequest \in RequestType /\ NoView \in ViewType
  BY DEF NoRequest, RequestType, NoView, ViewType, AtMostOne
<1>6. RequestsTyped'
  <2>1. PICK n \in AtMostOne(Node) : \E s \in (IF o = "save" THEN Saves(r) ELSE {<<>>}) :
          req' = [req EXCEPT ![r] = [NoRequest EXCEPT !.op = o, !.node = n, !.start = s,
                                                     !.turns = req[r].turns - 1]]
    BY DEF Ask, AtMostOne
  <2>2. PICK s \in (IF o = "save" THEN Saves(r) ELSE {<<>>}) :
          req' = [req EXCEPT ![r] = [NoRequest EXCEPT !.op = o, !.node = n, !.start = s,
                                                     !.turns = req[r].turns - 1]]
    BY <2>1
  <2>3. s \in Seq(Item)
    <3>1. \A e \in editor[r] : e.items \in Seq(Item) /\ Append(e.items, "agent") \in Seq(Item)
      BY DEF TypeInv, EditorTyped, Item
    <3>2. CASE o = "save"
      <4>1. PICK e \in editor[r] : s \in {e.items, Append(e.items, "agent")}
        BY <3>2 DEF Saves
      <4>2. QED
        BY <3>1, <4>1
    <3>3. CASE o # "save"
      BY <3>3
    <3>4. QED
      BY <3>2, <3>3
  <2>4. req[r].turns - 1 \in Nat
    BY DEF Ask, TypeInv, RequestsTyped, RequestType
  <2>5. n \in SUBSET Node
    BY DEF AtMostOne
  <2>6. [NoRequest EXCEPT !.op = o, !.node = n, !.start = s, !.turns = req[r].turns - 1] \in RequestType
    BY <1>5, <2>3, <2>4, <2>5 DEF RequestType
  <2>7. QED
    BY <2>2, <2>6 DEF TypeInv, RequestsTyped
<1>7. ViewsTyped'
  BY <1>1, <1>5, ViewUpdates
<1>8. QED
  BY <1>1, <1>2, <1>4, <1>6, <1>7 DEF TypeInv

(* Every step keeps the types.                                              *)
LEMMA TypesAreKept ==
  ASSUME TypeInv, FInv, SteadyInv, [Next]_vars
  PROVE  TypeInv'
<1>1. primary' \in AtMostOne(Node) /\ queued' \in BOOLEAN
  <2>1. CASE UNCHANGED vars
    BY <2>1 DEF vars, files, TypeInv
  <2>2. QED
    BY <2>1, PrimaryIsOne, QueueIsTyped
<1>2. AInv
  BY DEF SteadyInv
<1>3. ASSUME NEW r \in Client, Edit(r)
      PROVE  TypeInv'
  <2>1. Own(r) /\ UNCHANGED view
    BY <1>2, <1>3, OwnEdits
  <2>2. ViewsTyped'
    BY <2>1 DEF TypeInv, ViewsTyped
  <2>3. QED
    BY <1>1, <1>3, <2>1, <2>2, EditsTypeTexts, EditorIsTyped, PlacesAreKept, GhostsAreTyped, EditsTypeRequests
    DEF TypeInv, Handler
<1>4. ASSUME NEW r \in Client, Switch(r)
      PROVE  TypeInv'
  <2>1. Own(r) /\ UNCHANGED view
    BY <1>2, <1>4, OwnSwitches
  <2>2. ViewsTyped'
    BY <2>1 DEF TypeInv, ViewsTyped
  <2>3. QED
    BY <1>1, <1>4, <2>1, <2>2, SwitchesTypeTexts, EditorIsTyped, PlacesAreKept, GhostsAreTyped, SwitchesTypeRequests
    DEF TypeInv, Handler
<1>5. ASSUME NEW r \in Client, UNCHANGED files, UNCHANGED text
      PROVE  TextsTyped'
  BY <1>5 DEF TypeInv, TextsTyped, files
<1>6. ASSUME NEW r \in Client, Look(r)
      PROVE  TypeInv'
  <2>1. Own(r)
    BY <1>2, <1>6, OwnLooks
  <2>2. UNCHANGED files /\ UNCHANGED text
    BY <1>6, LookSteps DEF Elsewhere
  <2>3. QED
    BY <1>1, <1>5, <1>6, <2>1, <2>2, LooksTypeViews, EditorIsTyped, PlacesAreKept, GhostsAreTyped, LooksTypeRequests
    DEF TypeInv, Handler
<1>7. ASSUME NEW r \in Client, Abort(r)
      PROVE  TypeInv'
  <2>1. Own(r) /\ UNCHANGED view
    BY <1>2, <1>7, OwnAbort
  <2>2. UNCHANGED files /\ UNCHANGED text /\ UNCHANGED req
    BY <1>7 DEF Abort, Fails, Refuse, KeepText
  <2>3. ViewsTyped' /\ RequestsTyped'
    BY <2>1, <2>2 DEF TypeInv, ViewsTyped, RequestsTyped
  <2>4. QED
    BY <1>1, <1>5, <1>7, <2>1, <2>2, <2>3, EditorIsTyped, PlacesAreKept, GhostsAreTyped
    DEF TypeInv, Handler
<1>8. CASE Failover
  <2>1. TextsTyped' /\ EditorTyped' /\ PlacesTyped' /\ RequestsTyped' /\ ViewsTyped'
    BY <1>8 DEF Failover, files, request, TypeInv, TextsTyped, EditorTyped, PlacesTyped, RequestsTyped, ViewsTyped
  <2>2. GhostsTyped'
    BY <1>1, <1>8 DEF Failover, TypeInv, GhostsTyped
  <2>3. QED
    BY <1>1, <2>1, <2>2 DEF TypeInv
<1>9. CASE UNCHANGED vars
  BY <1>9 DEF vars, files, request, ghosts, TypeInv, TextsTyped, EditorTyped, PlacesTyped, RequestsTyped,
              ViewsTyped, GhostsTyped
<1>10. CASE QueuedReload
  <2>1. /\ UNCHANGED <<toml, dis, published, plan, pc, text, req, view, editor, calm, was>>
        /\ loaded' = [loaded EXCEPT ![c] = toml[c]]
    BY <1>10 DEF QueuedReload, Sets, request, ghosts
  <2>2. TextsTyped'
    BY <2>1, ControllerAssumption DEF TypeInv, TextsTyped, c
  <2>3. QED
    BY <1>1, <2>1, <2>2 DEF TypeInv, EditorTyped, PlacesTyped, RequestsTyped, ViewsTyped, GhostsTyped
<1>11. QED
  BY <1>3, <1>4, <1>6, <1>7, <1>8, <1>9, <1>10, AskTyped DEF Next, Handler

(* The state of ProfileFiles is of its types; a file and a reactor hold one *)
(* published text at most, or what a write of it showed before it was done. *)
THEOREM FilesAreTyped == Spec => []TypeOK
<1>1. ASSUME TypeInv, FInv
      PROVE  TypeOK
  <2>1. /\ Holds(toml, Parts(published)) /\ Holds(dis, Parts(published))
        /\ Holds(loaded, Parts(published))
    BY <1>1 DEF TypeInv, TextsTyped, FInv, FilesPublished, Holds, AtMostOne
  <2>2. \A r \in Client : \A t \in text[r] : t \in Text
    BY <1>1 DEF TypeInv, TextsTyped, AtMostOne
  <2>3. QED
    BY <1>1, <2>1, <2>2 DEF TypeInv, TextsTyped, EditorTyped, PlacesTyped, RequestsTyped, ViewsTyped,
                            GhostsTyped, TypeOK
<1>2. FInv /\ [Next]_vars => FInv'
  <2>1. ASSUME FInv, UNCHANGED vars
        PROVE  FInv'
    BY <2>1 DEF FInv, FilesPublished, Shape, SendsPublished, WritesOne, vars, files, request
  <2>2. QED
    BY <2>1, NextSteps
<1>3. QED
  BY <1>1, <1>2, Initially, TypeInitially, TypesAreKept, SteadyInitially, SteadyIsKept, PTL DEF Spec

---------------------------------------------------------------------------
(* What the writers of a text keep.  A rendered file has the address line,  *)
(* if it is to have one, and then the services that were parsed.            *)
LEMMA ServicesParsed ==
  ASSUME NEW t \in Text
  PROVE  /\ ParsedServices(t) \in Seq(Item)
         /\ \A k \in 1..Len(ParsedServices(t)) : ParsedServices(t)[k] = "service"
         /\ Cardinality(ServiceLines(t)) \in Nat
         /\ ~t.inline => Len(ParsedServices(t)) = Cardinality(ServiceLines(t))
<1>1. ParsedServices(t) \in Seq(Item)
  BY ServicesTyped
<1>2. Cardinality(ServiceLines(t)) \in Nat
  <2>1. ServiceLines(t) \subseteq 1..Len(t.start) /\ Len(t.start) \in Nat
    BY DEF ServiceLines, Text
  <2>2. IsFiniteSet(1..Len(t.start))
    BY <2>1, FS_Interval
  <2>3. IsFiniteSet(ServiceLines(t))
    BY <2>1, <2>2, FS_Subset
  <2>4. QED
    BY <2>3, FS_CardinalityType
<1>3. CASE t.inline
  BY <1>1, <1>2, <1>3 DEF ParsedServices
<1>4. CASE ~t.inline
  <2> DEFINE m == Cardinality(ServiceLines(t))
  <2>1. ParsedServices(t) = [k \in 1..m |-> "service"] /\ m \in Nat
    BY <1>2, <1>4 DEF ParsedServices
  <2> HIDE DEF m
  <2>2. Len(ParsedServices(t)) = m
    BY <2>1
  <2>3. QED
    BY <1>1, <1>2, <2>1, <2>2 DEF m
<1>5. QED
  BY <1>3, <1>4

LEMMA RenderedLines ==
  ASSUME NEW t \in Text, NEW v \in BOOLEAN
  PROVE  LET s == ParsedServices(t)
             new == WithVip(t, v)
         IN /\ new.start \in Seq(Item) /\ ~new.inline
            /\ Len(new.start) = (IF v THEN Len(s) + 1 ELSE Len(s))
            /\ \A k \in 1..Len(new.start) : new.start[k] = IF v /\ k = 1 THEN "vip" ELSE "service"
<1> DEFINE s == ParsedServices(t)
           new == WithVip(t, v)
<1>1. new = [promoter |-> TRUE, start |-> StartLines([ProfileOf(t) EXCEPT !.vip = v]),
             inline |-> FALSE, advanced |-> FALSE]
  BY DEF WithVip, Generated, ProfileOf
<1>2. new.start = ((<<>> \o (IF v THEN <<"vip">> ELSE <<>>)) \o <<>>) \o s
  BY <1>1 DEF StartLines, ProfileOf, If
<1>3. s \in Seq(Item) /\ \A k \in 1..Len(s) : s[k] = "service"
  BY ServicesParsed
<1>4. new.start \in Seq(Item) /\ new.inline = FALSE
  <2>1. new \in Text
    BY WithVipTyped
  <2>2. QED
    BY <1>1, <2>1 DEF Text
<1> HIDE DEF s, new
<1>5. /\ Len(new.start) = (IF v THEN Len(s) + 1 ELSE Len(s))
      /\ \A k \in 1..Len(new.start) : new.start[k] = IF v /\ k = 1 THEN "vip" ELSE "service"
  <2>1. CASE v
    <3>1. new.start = ((<<>> \o <<"vip">>) \o <<>>) \o s
      BY <1>2, <2>1
    <3>2. Len(new.start) = Len(s) + 1 /\ new.start[1] = "vip" /\ \A k \in 2..Len(s) + 1 : new.start[k] = s[k - 1]
      BY <1>3, <3>1, "vip" \in Item DEF Item
    <3>3. QED
      BY <1>3, <2>1, <3>2
  <2>2. CASE ~v
    <3>1. new.start = ((<<>> \o <<>>) \o <<>>) \o s
      BY <1>2, <2>2
    <3>2. Len(new.start) = Len(s) /\ \A k \in 1..Len(s) : new.start[k] = s[k]
      BY <1>3, <3>1
    <3>3. QED
      BY <1>3, <2>2, <3>2
  <2>3. QED
    BY <2>1, <2>2
<1>6. QED
  BY <1>4, <1>5 DEF s, new

(* An address change does to the address what it is asked to, and the file  *)
(* it renders has the services that were parsed from many lines.            *)
LEMMA AddressKeeps ==
  ASSUME NEW t \in Text, NEW v \in BOOLEAN
  PROVE  /\ HasVip(WithVip(t, v)) = v
         /\ ~t.inline => ParsedServices(WithVip(t, v)) = ParsedServices(t)
<1> DEFINE s == ParsedServices(t)
           new == WithVip(t, v)
           n == Cardinality(ServiceLines(t))
<1>1. /\ new.start \in Seq(Item) /\ new.inline = FALSE
      /\ Len(new.start) = (IF v THEN Len(s) + 1 ELSE Len(s))
      /\ \A k \in 1..Len(new.start) : new.start[k] = IF v /\ k = 1 THEN "vip" ELSE "service"
  <2>1. new \in Text
    BY WithVipTyped
  <2>2. QED
    BY <2>1, RenderedLines DEF Text
<1>2. s \in Seq(Item) /\ n \in Nat /\ (~t.inline => Len(s) = n)
  BY ServicesParsed
<1> HIDE DEF s, new
<1>3. DOMAIN new.start = 1..Len(new.start) /\ Len(s) \in Nat
  BY <1>1, <1>2
<1>4. HasVip(new) = v
  <2>1. CASE v
    <3>1. 1 \in 1..Len(new.start) /\ new.start[1] = "vip"
      BY <1>1, <1>3, <2>1
    <3>2. HasVip(new)
      BY <1>3, <3>1 DEF HasVip
    <3>3. QED
      BY <2>1, <3>2 DEF HasVip
  <2>2. CASE ~v
    <3>1. ~HasVip(new)
      BY <1>1, <1>3, <2>2 DEF HasVip
    <3>2. QED
      BY <2>2, <3>1 DEF HasVip
  <2>3. QED
    BY <2>1, <2>2
<1>5. ASSUME ~t.inline
      PROVE  ParsedServices(new) = s
  <2>1. ServiceLines(new) = IF v THEN 2..Len(s) + 1 ELSE 1..Len(s)
    BY <1>1, <1>3 DEF ServiceLines
  <2>2. Cardinality(ServiceLines(new)) = Len(s)
    <3>1. ASSUME NEW m \in Nat
          PROVE  Cardinality(2..m + 1) = m /\ Cardinality(1..m) = m
      <4>1. Cardinality(2..m + 1) = IF 2 > m + 1 THEN 0 ELSE (m + 1) - 2 + 1
        BY m + 1 \in Int, FS_Interval
      <4>2. Cardinality(1..m) = IF 1 > m THEN 0 ELSE m - 1 + 1
        BY FS_Interval
      <4>3. QED
        BY <4>1, <4>2
    <3>2. QED
      BY <1>3, <2>1, <3>1
  <2>3. ParsedServices(new) = [k \in 1..n |-> "service"]
    BY <1>1, <1>2, <1>5, <2>2 DEF ParsedServices
  <2>4. s = [k \in 1..n |-> "service"]
    BY <1>5 DEF s, ParsedServices
  <2>5. QED
    BY <2>3, <2>4
<1>6. QED
  BY <1>4, <1>5 DEF s, new

(* The editor's save keeps the rest of the document, and the array that the *)
(* parse of the same text gave whole.                                       *)
LEMMA SaveKeeps ==
  ASSUME NEW t \in Text, NEW s \in Seq(Item)
  PROVE  /\ ReplacedStart(t, s).advanced = t.advanced
         /\ Cuts(t) = {} /\ s \in {ParsedItems(t), Append(ParsedItems(t), "agent")} =>
              \A k \in DOMAIN t.start : \E j \in DOMAIN ReplacedStart(t, s).start :
                ReplacedStart(t, s).start[j] = t.start[k]
<1>1. ReplacedStart(t, s).advanced = t.advanced /\ ReplacedStart(t, s).start = s
  BY DEF ReplacedStart, Text
<1>2. ASSUME Cuts(t) = {}, s \in {ParsedItems(t), Append(ParsedItems(t), "agent")},
             NEW k \in DOMAIN t.start
      PROVE  k \in DOMAIN s /\ s[k] = t.start[k]
  <2>1. ParsedItems(t) = t.start
    BY <1>2 DEF ParsedItems, OneLine, ManyLines
  <2>2. t.start \in Seq(Item)
    BY DEF Text
  <2>3. s = t.start \/ s = Append(t.start, "agent")
    BY <1>2, <2>1
  <2>4. QED
    BY <1>2, <2>2, <2>3
<1>3. QED
  BY <1>1, <1>2

(* A request that saves sends what its editor parsed, with or without one   *)
(* agent more; a calm request is about to write a text that keeps what the  *)
(* controller's file has.                                                   *)
Saving(r) == \A e \in editor[r] :
  /\ e.items = ParsedItems(e.from)
  /\ pc[r] \in Running /\ req[r].op = "save" => req[r].start \in {e.items, Append(e.items, "agent")}
Keeps(r) == calm[r] /\ pc[r] = "write" =>
  \A old \in toml[c], new \in text[r] : Kept(r, old, new)
KeepInv == \A r \in Client : Saving(r) /\ Keeps(r)

LEMMA KeepInitially == Init => KeepInv
BY DEF Init, KeepInv, Saving, Keeps

(* No step of a handler changes the array that the request was given.       *)
LEMMA StartIsKept ==
  ASSUME AInv, NEW r \in Client, Handler(r) \/ Abort(r)
  PROVE  req'[r].start = req[r].start
<1> USE DEF AInv, RequestFields, Loop, Visited, Refuse, Finish
<1>1. CASE Edit(r)
  <2>1. CASE AddVip(r) \/ RemoveVip(r) \/ ReadSave(r) \/ PutText(r) \/ BeginWrite(r) \/ LoadEditor(r)
    BY <2>1 DEF AddVip, RemoveVip, Rerender, ReadSave, PutText, BeginWrite, LoadEditor
  <2>2. CASE WriteText(r)
    BY <2>2 DEF WriteText, GoOn
  <2>3. CASE ReadSync(r)
    BY <2>3 DEF ReadSync
  <2>4. CASE ReloadLocal(r)
    BY <2>4 DEF ReloadLocal
  <2>5. CASE FetchDetails(r)
    BY <2>5 DEF FetchDetails
  <2>6. ASSUME NEW n \in Node, BeginSync(r, n) \/ SyncNode(r, n) \/ SyncReload(r, n) \/ PushNode(r, n)
        PROVE  req'[r].start = req[r].start
    <3>1. ASSUME NEW S, \/ Visited(r, n, "done", S) \/ Synced(r, n, S)
                       \/ req' = [req EXCEPT ![r].todo = @ \ {n}, ![r].fresh = @ \cup {n}]
                       \/ UNCHANGED req
          PROVE  req'[r].start = req[r].start
      BY <3>1 DEF Synced
    <3>2. CASE BeginSync(r, n)
      BY <3>1, <3>2 DEF BeginSync
    <3>3. CASE SyncNode(r, n)
      BY <3>1, <3>3 DEF SyncNode
    <3>4. CASE SyncReload(r, n)
      BY <3>1, <3>4 DEF SyncReload
    <3>5. CASE PushNode(r, n)
      BY <3>1, <3>5 DEF PushNode
    <3>6. QED
      BY <2>6, <3>2, <3>3, <3>4, <3>5
  <2>7. QED
    BY <1>1, <2>1, <2>2, <2>3, <2>4, <2>5, <2>6 DEF Edit
<1>2. CASE Switch(r)
  BY <1>2, ZenonT(60) DEF Switch, EnableProfile, EvictTarget, EvictRun, DisableOnNode, EnableOnNode, EnableNext
<1>3. CASE Look(r)
  <2>1. ASSUME NEW v, NowhereEnabled(r, v) \/ AskOthers(r, v)
        PROVE  req'[r].start = req[r].start
    BY <2>1 DEF NowhereEnabled, AskOthers
  <2>2. ASSUME NEW shown, NEW asked, Answer(r, shown, asked)
        PROVE  req'[r].start = req[r].start
    BY <2>2 DEF Answer
  <2>3. CASE StatusToml(r) \/ StatusRemoteList(r) \/ StatusDrbd(r) \/ ListActive(r) \/ StatusRemoteDrbd(r)
    BY <2>3 DEF StatusToml, StatusRemoteList, StatusDrbd, ListActive, StatusRemoteDrbd
  <2>4. CASE StatusDisabledFile(r) \/ StatusReactor(r)
    BY <2>1, <2>4 DEF StatusDisabledFile, StatusReactor
  <2>5. CASE StatusNoPrimary(r) \/ StatusActive(r) \/ StatusRemoteReactor(r) \/ StatusFallback(r)
    BY <2>2, <2>5 DEF StatusNoPrimary, StatusActive, StatusRemoteReactor, StatusFallback
  <2>6. ASSUME NEW n \in Node, StatusRemote(r, n) \/ StatusFlags(r, n)
        PROVE  req'[r].start = req[r].start
    BY <2>1, <2>6 DEF StatusRemote, StatusFlags
  <2>7. QED
    BY <1>3, <2>3, <2>4, <2>5, <2>6 DEF Look
<1>4. CASE Abort(r)
  BY <1>4 DEF Abort
<1>5. QED
  BY <1>1, <1>2, <1>3, <1>4 DEF Handler

(* Only the load of the editor, which ends its request, changes an editor.  *)
LEMMA EditorIsKept ==
  ASSUME TypeInv, NEW r \in Client, Handler(r) \/ Abort(r)
  PROVE  \/ UNCHANGED editor
         \/ /\ LoadEditor(r) /\ pc' = [pc EXCEPT ![r] = "done"]
            /\ \E t \in toml[c] : editor' = [editor EXCEPT ![r] = {[items |-> ParsedItems(t), from |-> t]}]
<1>1. CASE LoadEditor(r)
  BY <1>1 DEF LoadEditor, Refuse, KeepText, Goto
<1>2. CASE Edit(r) /\ ~LoadEditor(r)
  BY <1>2 DEF Edit, AddVip, RemoveVip, Rerender, BeginWrite, WriteText, GoOn, PutText, ReadSync,
              ReloadLocal, FetchDetails, ReadSave, BeginSync, SyncNode, SyncReload, PushNode, Visited,
              Refuse, Finish, KeepText
<1>3. CASE Switch(r)
  BY <1>3 DEF Switch, EnableProfile, EvictTarget, EvictRun, DisableOnNode, EnableOnNode, EnableNext,
                Visited, Refuse, Finish, KeepText
<1>4. CASE Look(r)
  BY <1>4 DEF Look, StatusToml, StatusDisabledFile, StatusReactor, StatusRemoteList, StatusDrbd,
                ListActive, StatusNoPrimary, StatusActive, StatusRemoteDrbd, StatusRemoteReactor,
                StatusFallback, StatusRemote, StatusFlags, AskOthers, NowhereEnabled, Answer,
                Visited, Refuse, Note, Shown, KeepText
<1>5. CASE Abort(r)
  BY <1>5 DEF Abort, Refuse, KeepText
<1>6. QED
  BY <1>1, <1>2, <1>3, <1>4, <1>5 DEF Handler

(* A step of one request leaves what another saves and is about to write.   *)
LEMMA OthersKeep ==
  ASSUME KeepInv, TypeInv, AInv, NEW r \in Client, Handler(r) \/ Abort(r), Own(r), NEW q \in Client \ {r}
  PROVE  Saving(q)' /\ Keeps(q)'
<1>1. pc'[q] = pc[q] /\ text'[q] = text[q] /\ req'[q] = req[q]
  BY DEF AInv, Own, Moves, SameText, SameRequest
<1>2. editor'[q] = editor[q]
  BY EditorIsKept DEF TypeInv, EditorTyped
<1>3. calm'[q] => calm[q] /\ UNCHANGED toml
  <2>1. CASE Local(r)
    BY <2>1 DEF Local, files, ghosts
  <2>2. CASE Fails(r)
    BY <2>2 DEF AInv, Fails, files
  <2>3. CASE Shared(r)
    BY <2>3 DEF Shared
  <2>4. CASE Queues
    BY <2>4 DEF Queues, ghosts
  <2>5. QED
    BY <2>1, <2>2, <2>3, <2>4 DEF Own
<1>4. QED
  BY <1>1, <1>2, <1>3 DEF KeepInv, Saving, Keeps, Kept, c

(* A request saves what its editor parsed, until it loads the editor again. *)
LEMMA SavingIsKept ==
  ASSUME KeepInv, TypeInv, AInv, NEW r \in Client, Handler(r) \/ Abort(r), Own(r)
  PROVE  Saving(r)'
<1>1. CASE UNCHANGED editor
  BY <1>1, StartIsKept DEF KeepInv, Saving, Own, SameRequest
<1>2. CASE ~UNCHANGED editor
  <2>1. pc'[r] = "done"
    BY <1>2, EditorIsKept DEF AInv
  <2>2. PICK t \in toml[c] : editor'[r] = {[items |-> ParsedItems(t), from |-> t]}
    BY <1>2, EditorIsKept DEF TypeInv, EditorTyped
  <2>3. QED
    BY <2>1, <2>2 DEF Saving, Running
<1>3. QED
  BY <1>1, <1>2

(* Only a put and the three readers of an edit lead to a write.             *)
LEMMA ReadersWrite ==
  ASSUME AInv, NEW r \in Client, Handler(r) \/ Abort(r), pc'[r] = "write"
  PROVE  AddVip(r) \/ RemoveVip(r) \/ ReadSave(r) \/ PutText(r)
<1> USE DEF AInv, At, Goto, Loop, Refuse, Finish, Visited
<1>1. CASE Edit(r)
  BY <1>1 DEF Edit, BeginWrite, WriteText, GoOn, ReadSync, ReloadLocal, LoadEditor, FetchDetails,
              BeginSync, SyncNode, SyncReload, PushNode, Synced, AfterSync
<1>2. CASE Switch(r)
  BY <1>2 DEF Switch, EnableProfile, EvictTarget, EvictRun, DisableOnNode, EnableOnNode, EnableNext
<1>3. CASE Look(r)
  BY <1>3 DEF Look, StatusToml, StatusDisabledFile, StatusReactor, StatusRemoteList, StatusDrbd,
              ListActive, StatusNoPrimary, StatusActive, StatusRemoteDrbd, StatusRemoteReactor,
              StatusFallback, StatusRemote, StatusFlags, AskOthers, NowhereEnabled, Answer
<1>4. CASE Abort(r)
  BY <1>4 DEF Abort
<1>5. QED
  BY <1>1, <1>2, <1>3, <1>4 DEF Handler

LEMMA KeepsIsKept ==
  ASSUME KeepInv, TypeInv, AInv, NEW r \in Client, Handler(r) \/ Abort(r)
  PROVE  Keeps(r)'
<1> SUFFICES ASSUME pc'[r] = "write", NEW old \in toml'[c], NEW new \in text'[r]
             PROVE  Kept(r, old, new)'
  BY DEF Keeps, c
<1>0. ASSUME NEW a \in toml[c], NEW b \in toml[c]
      PROVE  a \in Text /\ a = b
  BY ControllerAssumption DEF TypeInv, TextsTyped, AtMostOne, c
<1>1. ASSUME NEW vip \in BOOLEAN, At(r, "read"), req[r].op = IF vip THEN "addVip" ELSE "removeVip", Rerender(r, vip)
      PROVE  Kept(r, old, new)'
  <2>1. pc'[r] # "refused" /\ UNCHANGED <<toml, req>>
    BY <1>1 DEF Rerender, Local, files, Refuse
  <2>2. PICK t \in toml[c] : text' = [text EXCEPT ![r] = {WithVip(t, vip)}]
    BY <1>1, <2>1 DEF Rerender, Refuse, Goto, AInv
  <2>3. old = t /\ t \in Text /\ new = WithVip(t, vip)
    BY <1>0, <2>1, <2>2 DEF AInv
  <2>4. HasVip(new) = vip /\ (~old.inline => ParsedServices(new) = ParsedServices(old))
    BY <2>3, AddressKeeps
  <2>5. vip = (req[r].op = "addVip") /\ req[r].op \in {"addVip", "removeVip"}
    BY <1>1
  <2>6. QED
    BY <2>1, <2>4, <2>5 DEF Kept
<1>2. CASE AddVip(r)
  BY <1>1, <1>2 DEF AddVip
<1>3. CASE RemoveVip(r)
  BY <1>1, <1>3 DEF RemoveVip
<1>4. CASE ReadSave(r)
  <2>1. UNCHANGED <<toml, req, editor>> /\ req[r].op = "save" /\ pc[r] = "read"
    BY <1>4 DEF ReadSave, Local, files, Refuse, KeepText, At
  <2>2. PICK t \in toml[c] : text' = [text EXCEPT ![r] = {ReplacedStart(t, req[r].start)}]
    BY <1>4, <2>1 DEF ReadSave, Refuse, Goto, AInv
  <2>3. old = t /\ t \in Text /\ new = ReplacedStart(t, req[r].start)
    BY <1>0, <2>1, <2>2 DEF AInv
  <2>4. req[r].start \in Seq(Item)
    BY DEF TypeInv, RequestsTyped, RequestType
  <2>5. \A e \in editor[r] : e.from = old => req[r].start \in {ParsedItems(old), Append(ParsedItems(old), "agent")}
    BY <2>1 DEF KeepInv, Saving, Running
  <2>6. /\ new.advanced = old.advanced
        /\ (\E e \in editor[r] : e.from = old) /\ Cuts(old) = {} =>
             \A k \in DOMAIN old.start : \E j \in DOMAIN new.start : new.start[j] = old.start[k]
    BY <2>3, <2>4, <2>5, SaveKeeps
  <2>7. QED
    BY <2>1, <2>6 DEF Kept
<1>5. CASE PutText(r)
  BY <1>5 DEF PutText, Kept
<1>6. QED
  BY <1>2, <1>3, <1>4, <1>5, ReadersWrite

LEMMA AskKeeps ==
  ASSUME KeepInv, TypeInv, AInv, NEW r \in Client, NEW o \in Op, Ask(r, o)
  PROVE  KeepInv'
<1>1. /\ calm' = [calm EXCEPT ![r] = TRUE]
      /\ pc' = [pc EXCEPT ![r] = FirstStep[o]]
      /\ UNCHANGED <<toml, editor>>
      /\ text' = [text EXCEPT ![r] = {}]
  BY DEF Ask, Goto, files
<1>2. FirstStep[o] # "write"
  BY DEF FirstStep, Op, Edits, Switches, Looks
<1>3. PICK n, s, t : /\ s \in (IF o = "save" THEN Saves(r) ELSE {<<>>})
                     /\ req' = [req EXCEPT ![r] = [NoRequest EXCEPT !.op = o, !.node = n, !.start = s, !.turns = t]]
  BY DEF Ask
<1>4. /\ req'[r].op = o /\ req'[r].start = s
      /\ \A q \in Client \ {r} : req'[q] = req[q]
  BY <1>3 DEF AInv, NoRequest
<1>5. ASSUME NEW q \in Client \ {r}
      PROVE  Saving(q)' /\ Keeps(q)'
  <2>1. pc'[q] = pc[q] /\ text'[q] = text[q] /\ req'[q] = req[q] /\ calm'[q] = calm[q]
    BY <1>1, <1>4 DEF AInv
  <2>2. QED
    BY <1>1, <2>1 DEF KeepInv, Saving, Keeps, Kept, c
<1>6. Keeps(r)'
  BY <1>1, <1>2 DEF AInv, Keeps
<1>7. Saving(r)'
  <2>1. ASSUME NEW e \in editor[r], o = "save"
        PROVE  s \in {e.items, Append(e.items, "agent")}
    <3>1. editor[r] = {e}
      BY <2>1 DEF TypeInv, EditorTyped
    <3>2. QED
      BY <1>3, <2>1, <3>1 DEF Saves
  <2>2. QED
    BY <1>1, <1>4, <2>1 DEF KeepInv, Saving
<1>8. QED
  BY <1>5, <1>6, <1>7 DEF KeepInv

LEMMA KeepIsKept ==
  ASSUME KeepInv, TypeInv, AInv, [Next]_vars
  PROVE  KeepInv'
<1>1. ASSUME NEW r \in Client, Handler(r) \/ Abort(r)
      PROVE  KeepInv'
  <2>1. Own(r)
    BY <1>1, OwnEdits, OwnSwitches, OwnLooks, OwnAbort DEF Handler
  <2>2. QED
    BY <1>1, <2>1, OthersKeep, SavingIsKept, KeepsIsKept DEF KeepInv
<1>2. CASE Failover
  <2>1. UNCHANGED <<toml, pc, text, req, editor>> /\ \A q \in Client : calm'[q] => calm[q]
    BY <1>2 DEF Failover, files, request
  <2>2. QED
    BY <2>1 DEF KeepInv, Saving, Keeps, Kept, c
<1>3. CASE UNCHANGED vars
  BY <1>3 DEF vars, files, request, ghosts, KeepInv, Saving, Keeps, Kept, c
<1>4. CASE QueuedReload
  BY <1>4 DEF QueuedReload, request, ghosts, KeepInv, Saving, Keeps, Kept, c
<1>5. QED
  BY <1>1, <1>2, <1>3, <1>4, AskKeeps DEF Next

(* What an edit is about to write keeps what it can see of a file that no   *)
(* other request wrote to since it began: the editor's save the settings    *)
(* outside the array, and an array that it parsed whole; an address change  *)
(* no more than the services of a file on many lines (update_start_array,   *)
(* toml_edit.rs; add_vip and remove_vip, vip.rs).                           *)
THEOREM EditsKeepTheRest == Spec => []EditKeepsRest
<1>1. SteadyInv => AInv
  BY DEF SteadyInv
<1>2. FInv /\ [Next]_vars => FInv'
  <2>1. ASSUME FInv, UNCHANGED vars
        PROVE  FInv'
    BY <2>1 DEF FInv, FilesPublished, Shape, SendsPublished, WritesOne, vars, files, request
  <2>2. QED
    BY <2>1, NextSteps
<1>3. KeepInv => EditKeepsRest
  BY DEF KeepInv, Keeps, EditKeepsRest
<1>4. QED
  BY <1>1, <1>2, <1>3, Initially, TypeInitially, TypesAreKept, SteadyInitially, SteadyIsKept,
     KeepInitially, KeepIsKept, PTL DEF Spec
=============================================================================
