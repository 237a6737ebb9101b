---------------------- MODULE XtraBackupRestoreProofs ----------------------
(***************************************************************************)
(* Proofs about XtraBackupRestore, for every set of owners, every plugin  *)
(* user, every datadir kind and mysqld state the environment allows and   *)
(* every bound on runs: a restore that reaches its final nil return has    *)
(* left exactly the archive's data in the datadir, all of it owned by the *)
(* datadir's owner (RestoredExactly), and no step changes that owner       *)
(* (OwnerKept).                                                            *)
(***************************************************************************)
EXTENDS XtraBackupRestore, TLAPS

USE XtraRestoreAssumption

\* A return leaves the run's steps: the next state is Idle or Unwind, and
\* records which step returned.
LEMMA ReturnFacts ==
  ASSUME NEW s \in ReturnPoints, NEW e \in {"nil", "error"}, Return(s, e)
  PROVE  /\ pc' \in {"Idle", "Unwind"}
         /\ ret' = [at |-> s, err |-> e]
         /\ ret' \in [at : ReturnPoints, err : {"nil", "error", "none"}]
BY DEF Return

\* The walk gives every moved-in file of the plugin's user the recorded
\* owner.
LEMMA ChownRestored ==
  ASSUME NEW o \in Owners
  PROVE  {[f EXCEPT !.owner = o] : f \in Restored(PluginUser)} = Restored(o)
BY DEF Restored

\* Init establishes the inductive invariant.
LEMMA IInvInit == Init => IInv
<1> SUFFICES ASSUME Init PROVE IInv
  OBVIOUS
<1>1. files \subseteq Files
  <2>1. CASE dirKind = "dir" BY <2>1 DEF Init, Files
  <2>2. CASE dirKind # "dir" BY <2>2 DEF Init
  <2>3. QED BY <2>1, <2>2
<1>2. TypeOK BY <1>1 DEF Init, TypeOK, NoReturn, ReturnPoints
<1>3. RunInv BY DEF Init, RunInv
<1>4. RestoredExactly BY DEF Init, RestoredExactly, Completed, NoReturn
<1>5. QED BY <1>2, <1>3, <1>4 DEF IInv

\* Every step keeps the inductive invariant.
LEMMA IInvStep == IInv /\ [Next]_vars => IInv'
<1> SUFFICES ASSUME TypeOK, RunInv, RestoredExactly, [Next]_vars
             PROVE  IInv'
  BY DEF IInv
<1> USE DEF IInv, TypeOK, RunInv, RestoredExactly, Completed, NoReturn, Files,
            ReturnPoints
<1>1. CASE ToggleMysqld BY <1>1 DEF ToggleMysqld
<1>2. CASE Start BY <1>2 DEF Start
<1>3. CASE CheckMysql BY <1>3, ReturnFacts DEF CheckMysql
<1>4. CASE ClearTarget
  <2>1. CASE target' = "absent" /\ rmDeferred' = {RT} /\ pc' = "StatDatadir"
             /\ UNCHANGED ret
    BY <1>4, <2>1 DEF ClearTarget
  <2>2. CASE Return("ClearTarget", "error") /\ UNCHANGED <<target, rmDeferred>>
    <3>1. pc' \in {"Idle", "Unwind"} /\ ret' = [at |-> "ClearTarget", err |-> "error"]
      BY <2>2, ReturnFacts
    <3>2. QED BY <1>4, <2>2, <3>1 DEF ClearTarget
  <2>3. QED BY <1>4, <2>1, <2>2 DEF ClearTarget
<1>5. CASE StatDatadir BY <1>5, ReturnFacts DEF StatDatadir
<1>6. CASE Wipe
  <2>2. CASE files' = {} /\ pc' = "MkTarget" /\ UNCHANGED ret
    BY <1>6, <2>2 DEF Wipe
  <2>3. CASE (\E gone \in SUBSET files : files' = files \ gone)
             /\ Return("Wipe", "error")
    BY <1>6, <2>3, ReturnFacts DEF Wipe
  <2>4. QED BY <1>6, <2>2, <2>3 DEF Wipe
<1>7. CASE MkTarget BY <1>7, ReturnFacts DEF MkTarget
<1>8. CASE Unpack BY <1>8, ReturnFacts DEF Unpack
<1>9. CASE Prepare BY <1>9, ReturnFacts DEF Prepare
<1>10. CASE MoveBack BY <1>10, ReturnFacts DEF MoveBack, Restored
<1>11. CASE Chown BY <1>11, ReturnFacts, ChownRestored DEF Chown, Restored
<1>12. CASE RmTarget BY <1>12, ReturnFacts DEF RmTarget
<1>13. CASE UnwindRmTarget BY <1>13 DEF UnwindRmTarget
<1>14. CASE Crash
  <2>1. TypeOK' BY <1>14 DEF Crash
  <2>2. RunInv' BY <1>14 DEF Crash
  <2>3. RestoredExactly' BY <1>14 DEF Crash
  <2>4. QED BY <2>1, <2>2, <2>3
<1>15. CASE UNCHANGED vars BY <1>15 DEF vars
<1>16. QED BY <1>1, <1>2, <1>3, <1>4, <1>5, <1>6, <1>7, <1>8, <1>9, <1>10,
              <1>11, <1>12, <1>13, <1>14, <1>15 DEF Next

(***************************************************************************)
(* XtraBackupPlugin.Restore, for every instance: a run whose final       *)
(* RemoveAll returned nil leaves only the archive's data in the datadir,  *)
(* owned by the datadir's owner.                                          *)
(***************************************************************************)
THEOREM Restores == Spec => []RestoredExactly
<1>1. IInv => RestoredExactly BY DEF IInv
<1>2. IInv /\ [Next]_vars => IInv' BY IInvStep
<1>3. QED BY <1>1, <1>2, IInvInit, PTL DEF Spec

\* Only the walk's final chown of the datadir sets its owner, to the uid
\* recorded from it.
LEMMA OwnerStep == IInv /\ [Next]_vars => [dirOwner' = dirOwner]_vars
<1> SUFFICES ASSUME IInv, [Next]_vars PROVE dirOwner' = dirOwner
  OBVIOUS
<1>1. CASE Chown BY <1>1 DEF Chown, IInv, RunInv
<1>2. CASE ~Chown
  BY <1>2 DEF Next, vars, ToggleMysqld, Start, CheckMysql, ClearTarget,
     StatDatadir, Wipe, MkTarget, Unpack, Prepare, MoveBack, RmTarget,
     UnwindRmTarget, Crash
<1>3. QED BY <1>1, <1>2

(***************************************************************************)
(* XtraBackupPlugin.Restore, for every instance: no step of a restore,   *)
(* failing walks included, changes the datadir's owner.                   *)
(***************************************************************************)
THEOREM OwnerUnchanged == Spec => OwnerKept
<1>1. IInv /\ [Next]_vars => IInv' BY IInvStep
<1>2. QED BY <1>1, IInvInit, OwnerStep, PTL DEF Spec, OwnerKept

=============================================================================
