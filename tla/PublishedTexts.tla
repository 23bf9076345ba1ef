---------------------------- MODULE PublishedTexts ----------------------------
(***************************************************************************)
(* What the cluster may rely on for the files of a profile, whoever edits, *)
(* synchronises, enables or disables it and whatever fails in between: a   *)
(* text is on a node, or in its drbd-reactor, only if somebody wrote it to *)
(* the profile's file on the controller before, whole or cut short.  What  *)
(* they cannot rely on is that it is whole: a file is emptied, then filled.*)
(***************************************************************************)
CONSTANTS Node, Controller,
          Beginnings(_)   \* what a write of a text shows before it is done

VARIABLES published,   \* the texts that were written to the controller's file
          held         \* the texts each node has, in a file or loaded

Parts(S) == S \cup UNION {Beginnings(t) : t \in S}

Init == held \in [Node -> SUBSET Parts(published)]

(* An edit is published by the write of the controller's file, done or      *)
(* begun.                                                                   *)
Publish ==
  /\ held' \in [Node -> SUBSET Parts(published')]
  /\ \E t \in published' : /\ published' = published \cup {t}
                           /\ held'[Controller] \cap Parts({t}) # {}
  /\ \A n \in Node \ {Controller} : held'[n] = held[n]

(* Any published text may be copied to any node, an old one too, whole or   *)
(* in part, and any copy may go.                                            *)
Copy ==
  /\ held' \in [Node -> SUBSET Parts(published)]
  /\ UNCHANGED published

Next == Copy \/ Publish
Spec == Init /\ [][Next]_<<published, held>>
=============================================================================
