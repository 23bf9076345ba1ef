---------------------------- MODULE Transaction ----------------------------
(***************************************************************************)
(* The transaction manager of drbd-ha/src/core/transaction.rs: a list of   *)
(* operations runs in order; the first critical one that fails makes the   *)
(* transaction undo, in reverse order, the operations that succeeded and   *)
(* have a rollback command.  An operation whose command or connection      *)
(* fails may have taken effect all the same, wholly or in part.            *)
(***************************************************************************)
EXTENDS Integers, Sequences

CONSTANTS N,            \* the number of operations
          Critical,     \* those whose failure fails the transaction
          HasRollback,  \* those with a rollback command
          Masked        \* those whose command hides its failure ("... || true")

ASSUME NAssumption == N \in Nat
ASSUME OpsAssumption ==
  Critical \subseteq 1..N /\ HasRollback \subseteq 1..N /\ Masked \subseteq 1..N

VARIABLES state,        \* TransactionState
          executed,     \* the results pushed so far, one per operation run
          undo,         \* the result the rollback looks at next
          effect,       \* what each operation has left on its node
          undoFailed,   \* the operations whose rollback command failed
          dropped       \* the future that ran the transaction was dropped

vars == <<state, executed, undo, effect, undoFailed, dropped>>

Op     == 1..N
States == {"Pending", "Running", "Committed", "RolledBack", "Failed"}
Effect == {"none", "partial", "done"}

TypeOK ==
  /\ state \in States
  /\ executed \in Seq({"ok", "failed"}) /\ Len(executed) \in 0..N
  /\ undo \in 0..N
  /\ effect \in [Op -> Effect]
  /\ undoFailed \subseteq Op
  /\ dropped \in BOOLEAN

Init ==
  /\ state = "Pending" /\ executed = <<>> /\ undo = 0
  /\ effect = [k \in Op |-> "none"]
  /\ undoFailed = {} /\ dropped = FALSE

---------------------------------------------------------------------------
Current == Len(executed) + 1      \* the operation the loop is at

(* execute refuses a transaction that is not Pending.                       *)
Execute ==
  /\ state = "Pending" /\ ~dropped
  /\ state' = "Running"
  /\ UNCHANGED <<executed, undo, effect, undoFailed, dropped>>

Succeed ==
  /\ state = "Running" /\ Current \in Op /\ ~dropped
  /\ executed' = Append(executed, "ok")
  /\ \E left \in (IF Current \in Masked THEN Effect ELSE {"done"}) :
       effect' = [effect EXCEPT ![Current] = left]
  /\ UNCHANGED <<state, undo, undoFailed, dropped>>

FailNonCritical ==
  /\ state = "Running" /\ Current \in Op \ Critical /\ ~dropped
  /\ executed' = Append(executed, "failed")
  /\ \E left \in Effect : effect' = [effect EXCEPT ![Current] = left]
  /\ UNCHANGED <<state, undo, undoFailed, dropped>>

(* Mutants: a critical failure is logged like any other; the rollback starts *)
(* one result too low.                                                      *)
FailCriticalLogged ==
  /\ state = "Running" /\ Current \in Critical /\ ~dropped
  /\ executed' = Append(executed, "failed")
  /\ \E left \in Effect : effect' = [effect EXCEPT ![Current] = left]
  /\ UNCHANGED <<state, undo, undoFailed, dropped>>

FailCriticalLow ==
  /\ state = "Running" /\ Current \in Critical /\ ~dropped
  /\ executed' = Append(executed, "failed")
  /\ \E left \in Effect : effect' = [effect EXCEPT ![Current] = left]
  /\ state' = "Failed" /\ undo' = IF Current > 2 THEN Current - 2 ELSE 0
  /\ UNCHANGED <<undoFailed, dropped>>

(* The failed result is pushed before the rollback starts.                  *)
FailCritical ==
  /\ state = "Running" /\ Current \in Critical /\ ~dropped
  /\ executed' = Append(executed, "failed")
  /\ \E left \in Effect : effect' = [effect EXCEPT ![Current] = left]
  /\ state' = "Failed" /\ undo' = Current
  /\ UNCHANGED <<undoFailed, dropped>>

Commit ==
  /\ state = "Running" /\ Len(executed) = N /\ ~dropped
  /\ state' = "Committed"
  /\ UNCHANGED <<executed, undo, effect, undoFailed, dropped>>

ToUndo(k) == executed[k] = "ok" /\ k \in HasRollback

SkipResult ==
  /\ state = "Failed" /\ undo > 0 /\ ~ToUndo(undo) /\ ~dropped
  /\ undo' = undo - 1
  /\ UNCHANGED <<state, executed, effect, undoFailed, dropped>>

(* Mutant: the results are gone through from the first to the last.         *)
UndoFirst ==
  LET Left(k) == k \in 1..Len(executed) /\ ToUndo(k) /\ effect[k] # "none"
  IN /\ state = "Failed" /\ undo > 0 /\ ToUndo(undo) /\ ~dropped
     /\ \E k \in Op : Left(k) /\ (\A j \in 1..(k - 1) : ~Left(j))
                    /\ effect' = [effect EXCEPT ![k] = "none"]
     /\ undo' = undo - 1
     /\ UNCHANGED <<state, executed, undoFailed, dropped>>

UndoOperation ==
  /\ state = "Failed" /\ undo > 0 /\ ToUndo(undo) /\ ~dropped
  /\ effect' = [effect EXCEPT ![undo] = "none"]
  /\ undo' = undo - 1
  /\ UNCHANGED <<state, executed, undoFailed, dropped>>

(* Mutant: a rollback command that fails is tried again, forever.           *)
UndoRetried ==
  /\ state = "Failed" /\ undo > 0 /\ ToUndo(undo) /\ ~dropped
  /\ \E left \in Effect : effect' = [effect EXCEPT ![undo] = left]
  /\ undoFailed' = undoFailed \cup {undo}
  /\ UNCHANGED <<state, executed, undo, dropped>>

(* A rollback command that fails is logged, and the rollback goes on.       *)
UndoFails ==
  /\ state = "Failed" /\ undo > 0 /\ ToUndo(undo) /\ ~dropped
  /\ \E left \in Effect : effect' = [effect EXCEPT ![undo] = left]
  /\ undoFailed' = undoFailed \cup {undo}
  /\ undo' = undo - 1
  /\ UNCHANGED <<state, executed, dropped>>

FinishRollback ==
  /\ state = "Failed" /\ undo = 0 /\ ~dropped
  /\ state' = "RolledBack"
  /\ UNCHANGED <<executed, undo, effect, undoFailed, dropped>>

(* The caller goes away at an await: nothing runs any more.                 *)
Drop ==
  /\ state \in {"Running", "Failed"} /\ ~dropped
  /\ dropped' = TRUE
  /\ UNCHANGED <<state, executed, undo, effect, undoFailed>>

Work ==
  \/ Succeed \/ FailNonCritical \/ FailCritical \/ Commit
  \/ SkipResult \/ UndoOperation \/ UndoFails \/ FinishRollback

Next == Execute \/ Work \/ Drop

Spec == Init /\ [][Next]_vars
(* The runtime polls a started transaction until it is dropped.             *)
FairSpec == Spec /\ WF_vars(Work)

---------------------------------------------------------------------------
(* The inductive invariant: what is known of each operation by its place.   *)
Untouched == \A k \in Op : k > Len(executed) => effect[k] = "none"

FailuresAllowed == \A k \in Op :
  k <= Len(executed) /\ executed[k] = "failed" /\ k \in Critical
    => state \in {"Failed", "RolledBack"} /\ k = Len(executed)

UndoPlace ==
  /\ state \in {"Pending", "Running", "Committed"} => undo = 0 /\ undoFailed = {}
  /\ state = "Pending" => executed = <<>>
  /\ state = "Committed" => Len(executed) = N
  /\ state = "RolledBack" => undo = 0
  /\ undo <= Len(executed)

SuccessStands == \A k \in Op :
  k <= Len(executed) /\ executed[k] = "ok" /\ k \notin Masked
    => effect[k] = "done" \/ (state \in {"Failed", "RolledBack"} /\ k > undo /\ k \in HasRollback)

Compensated == \A k \in Op :
  state \in {"Failed", "RolledBack"} /\ k > undo /\ k <= Len(executed) /\ ToUndo(k)
    => effect[k] = "none" \/ k \in undoFailed

IInv == TypeOK /\ Untouched /\ FailuresAllowed /\ UndoPlace /\ SuccessStands /\ Compensated

(* A committed transaction has done every critical operation whose command  *)
(* tells the truth: neither a failure nor a rollback slipped in.            *)
CommittedComplete ==
  state = "Committed" => \A k \in Critical \ Masked : effect[k] = "done"

(* After a rollback the only traces left are of operations that failed,     *)
(* that have no rollback command, or whose rollback command failed.         *)
RolledBackClean ==
  state = "RolledBack" => \A k \in Op : effect[k] # "none" =>
    \/ k <= Len(executed) /\ (executed[k] = "failed" \/ k \notin HasRollback)
    \/ k \in undoFailed

(* Operations are undone in reverse order: whatever was done after k and    *)
(* could be undone was tried before k is touched.                           *)
UndoesInReverse ==
  [][\A k, j \in Op :
       /\ effect[k] # "none" /\ effect'[k] = "none"
       /\ j > k /\ j <= Len(executed) /\ ToUndo(j)
       => effect[j] = "none" \/ j \in undoFailed]_vars

(* A transaction that is started and not dropped ends.                      *)
Ends == (state = "Running") ~> (state \in {"Committed", "RolledBack"} \/ dropped)

============================================================================
