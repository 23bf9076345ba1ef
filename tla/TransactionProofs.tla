------------------------- MODULE TransactionProofs -------------------------
(***************************************************************************)
(* Proofs about Transaction for every list of operations.  The argument is *)
(* by place in the list: operations beyond the results pushed so far are   *)
(* untouched; a success stands until the rollback has passed it; once      *)
(* passed, it is undone or its rollback failed.                            *)
(***************************************************************************)
EXTENDS Transaction, TLAPS

USE NAssumption, OpsAssumption

(* What pushing a result does to the list of results.                       *)
LEMMA PushResult ==
  ASSUME NEW s \in Seq({"ok", "failed"}), NEW r \in {"ok", "failed"}
  PROVE  /\ Append(s, r) \in Seq({"ok", "failed"})
         /\ Len(Append(s, r)) = Len(s) + 1
         /\ Len(s) \in Nat
         /\ Append(s, r)[Len(s) + 1] = r
         /\ \A k \in Int : 1 <= k /\ k <= Len(s) => Append(s, r)[k] = s[k]
  OBVIOUS

(* Before it starts, a transaction has no result and no effect.             *)
LEMMA InitIInv == Init => IInv
  <1> SUFFICES ASSUME Init PROVE IInv
    OBVIOUS
  <1>1. executed \in Seq({"ok", "failed"}) /\ Len(executed) = 0
    BY DEF Init
  <1>2. effect \in [Op -> Effect]
    BY DEF Init, Effect
  <1>3. TypeOK
    <2>1. state \in States /\ undo \in 0..N /\ Len(executed) \in 0..N
      BY <1>1 DEF Init, States
    <2>2. undoFailed \subseteq Op /\ dropped \in BOOLEAN
      BY Zenon DEF Init
    <2> QED
      BY <1>1, <1>2, <2>1, <2>2 DEF TypeOK
  <1>4. Untouched /\ FailuresAllowed /\ UndoPlace /\ SuccessStands /\ Compensated
    BY <1>1 DEF Init, Op, Untouched, FailuresAllowed, UndoPlace, SuccessStands, Compensated
  <1> QED
    BY <1>3, <1>4 DEF IInv

(* Every step keeps the inductive invariant.                                *)
LEMMA NextIInv == IInv /\ [Next]_vars => IInv'
  <1> SUFFICES ASSUME IInv, [Next]_vars PROVE IInv'
    OBVIOUS
  <1> USE DEF IInv, TypeOK, Untouched, FailuresAllowed, UndoPlace, SuccessStands,
              Compensated, ToUndo, Op, States, Effect
  <1>1. CASE Execute
    BY <1>1 DEF Execute
  <1>2. CASE Succeed
    BY <1>2, PushResult DEF Succeed, Current
  <1>3. CASE FailNonCritical
    BY <1>3, PushResult DEF FailNonCritical, Current
  <1>4. CASE FailCritical
    BY <1>4, PushResult DEF FailCritical, Current
  <1>5. CASE Commit
    BY <1>5 DEF Commit
  <1>6. CASE SkipResult
    BY <1>6 DEF SkipResult
  <1>7. CASE UndoOperation
    BY <1>7 DEF UndoOperation
  <1>8. CASE UndoFails
    BY <1>8 DEF UndoFails
  <1>9. CASE FinishRollback
    BY <1>9 DEF FinishRollback
  <1>10. CASE Drop
    BY <1>10 DEF Drop
  <1>11. CASE UNCHANGED vars
    BY <1>11 DEF vars
  <1> QED
    BY <1>1, <1>2, <1>3, <1>4, <1>5, <1>6, <1>7, <1>8, <1>9, <1>10, <1>11 DEF Next, Work

(* The inductive invariant, and with it the types, hold throughout.         *)
THEOREM Inductive == Spec => []IInv
  <1>1. Init => IInv
    BY InitIInv
  <1>2. IInv /\ [Next]_vars => IInv'
    BY NextIInv
  <1> QED
    BY <1>1, <1>2, PTL DEF Spec

THEOREM TypeCorrect == Spec => []TypeOK
  <1>1. IInv => TypeOK
    BY DEF IInv
  <1> QED
    BY <1>1, Inductive, PTL

(* A rollback leaves behind only what failed, what has no rollback command  *)
(* and what could not be undone (Transaction::rollback).                    *)
THEOREM RollbackCompensates == Spec => []RolledBackClean
  <1>1. IInv => RolledBackClean
    <2> SUFFICES ASSUME IInv, state = "RolledBack",
                        NEW k \in Op, effect[k] # "none"
                 PROVE  \/ k <= Len(executed) /\ (executed[k] = "failed" \/ k \notin HasRollback)
                        \/ k \in undoFailed
      BY DEF RolledBackClean
    <2>1. k \in Nat /\ k > 0 /\ k <= Len(executed)
      BY DEF IInv, TypeOK, Untouched, Op
    <2>2. undo = 0
      BY DEF IInv, UndoPlace
    <2>3. CASE executed[k] = "ok" /\ k \in HasRollback
      BY <2>1, <2>2, <2>3 DEF IInv, Compensated, ToUndo
    <2>4. CASE executed[k] = "failed" \/ k \notin HasRollback
      BY <2>1, <2>4
    <2>5. executed[k] \in {"ok", "failed"}
      BY <2>1 DEF IInv, TypeOK
    <2> QED
      BY <2>3, <2>4, <2>5
  <1> QED
    BY <1>1, Inductive, PTL

(* A commit means that every critical operation whose command reports its   *)
(* failures has taken effect and still stands (Transaction::execute).       *)
THEOREM CommitIsComplete == Spec => []CommittedComplete
  <1>1. IInv => CommittedComplete
    <2> SUFFICES ASSUME IInv, state = "Committed",
                        NEW k \in Critical \ Masked
                 PROVE  effect[k] = "done"
      BY DEF CommittedComplete
    <2>1. k \in Op /\ k <= Len(executed)
      BY DEF IInv, UndoPlace, Op
    <2>2. executed[k] # "failed"
      BY <2>1 DEF IInv, FailuresAllowed
    <2>3. executed[k] = "ok"
      BY <2>1, <2>2 DEF IInv, TypeOK, Op
    <2> QED
      BY <2>1, <2>3 DEF IInv, SuccessStands
  <1> QED
    BY <1>1, Inductive, PTL

(* Nothing is undone before what was done after it has been tried.          *)
THEOREM ReverseOrder == Spec => UndoesInReverse
  <1> DEFINE Reversed == \A k, j \in Op :
               /\ effect[k] # "none" /\ effect'[k] = "none"
               /\ j > k /\ j <= Len(executed) /\ ToUndo(j)
               => effect[j] = "none" \/ j \in undoFailed
  <1>1. IInv /\ [Next]_vars => [Reversed]_vars
    <2> SUFFICES ASSUME IInv, Next, NEW k \in Op, NEW j \in Op,
                        effect[k] # "none", effect'[k] = "none",
                        j > k, j <= Len(executed), ToUndo(j)
                 PROVE  effect[j] = "none" \/ j \in undoFailed
      OBVIOUS
    <2>1. k <= Len(executed) /\ k # Current
      BY DEF IInv, TypeOK, Untouched, Op, Current
    <2>2. effect' # effect
      OBVIOUS
    <2>3. UndoOperation \/ UndoFails
      BY <2>1, <2>2 DEF IInv, TypeOK, Op, Next, Work, Execute, Succeed, FailNonCritical,
           FailCritical, Commit, SkipResult, FinishRollback, Drop, Current
    <2>4. state = "Failed" /\ k = undo
      BY <2>3 DEF IInv, TypeOK, Op, UndoOperation, UndoFails
    <2> QED
      BY <2>4 DEF IInv, TypeOK, Op, Compensated
  <1> QED
    BY <1>1, Inductive, PTL DEF Spec, UndoesInReverse

============================================================================
