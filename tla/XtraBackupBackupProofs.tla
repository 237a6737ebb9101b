---------------------- MODULE XtraBackupBackupProofs -----------------------
(***************************************************************************)
(* Proofs about XtraBackupBackup, for every bound on runs: once a backup  *)
(* run has streamed its archive, the stream carries exactly the files     *)
(* xtrabackup --backup wrote in that run (ArchiveOfThisRun), and Backup   *)
(* implements BackupContract under the mapping of XtraBackupBackup.       *)
(***************************************************************************)
EXTENDS XtraBackupBackup, TLAPS

USE XtraBackupAssumption

\* A return leaves the run's steps: the next state is Idle or Unwind, and
\* records which step returned.
LEMMA ReturnFacts ==
  ASSUME NEW s \in ReturnPoints, NEW e \in {"nil", "error"}, Return(s, e)
  PROVE  /\ pc' \in {"Idle", "Unwind"}
         /\ ret' = [at |-> s, err |-> e]
         /\ ret' \in [at : ReturnPoints, err : {"nil", "error", "none"}]
BY DEF Return

\* Init establishes the inductive invariant.
LEMMA IInvInit == Init => IInv
BY DEF Init, IInv, TypeOK, RunInv, ArchiveOfThisRun, NoReturn, ReturnPoints

\* Every step keeps the inductive invariant.
LEMMA IInvStep == IInv /\ [Next]_vars => IInv'
<1> SUFFICES ASSUME TypeOK, RunInv, ArchiveOfThisRun, [Next]_vars
             PROVE  IInv'
  BY DEF IInv
<1> USE DEF IInv, TypeOK, RunInv, ArchiveOfThisRun, NoReturn, ReturnPoints, RT
<1>1. CASE Start BY <1>1 DEF Start
<1>2. CASE ClearTarget
  <2>1. CASE target' = "absent" /\ tfiles' = {} /\ rmDeferred' = {RT}
             /\ pc' = "RunBackup" /\ UNCHANGED ret
    BY <1>2, <2>1 DEF ClearTarget
  <2>2. CASE Return("ClearTarget", "error")
             /\ UNCHANGED <<target, tfiles, rmDeferred>>
    BY <1>2, <2>2, ReturnFacts DEF ClearTarget
  <2>3. QED BY <1>2, <2>1, <2>2 DEF ClearTarget
<1>3. CASE RunBackup
  <2>1. CASE target' = "dir" /\ tfiles' = tfiles \cup {run} /\ pc' = "Tar"
             /\ UNCHANGED ret
    <3>1. run \in 1..MaxRuns /\ tfiles = {} /\ ret = NoReturn /\ rmDeferred = {RT}
      BY <1>3 DEF RunBackup
    <3>2. tfiles' = {run} BY <2>1, <3>1
    <3>3. UNCHANGED <<run, archive, rmDeferred>> BY <1>3 DEF RunBackup
    <3>4. TypeOK' BY <2>1, <3>1, <3>2, <3>3
    <3>5. RunInv' BY <2>1, <3>1, <3>2, <3>3
    <3>6. ArchiveOfThisRun' BY <2>1, <3>1
    <3>7. QED BY <3>4, <3>5, <3>6
  <2>2. CASE target' \in {target, "dir"} /\ tfiles' = tfiles
             /\ Return("RunBackup", "error")
    BY <1>3, <2>2, ReturnFacts DEF RunBackup
  <2>3. QED BY <1>3, <2>1, <2>2 DEF RunBackup
<1>4. CASE Tar
  <2>1. CASE archive' = tfiles /\ pc' = "RmTarget" /\ UNCHANGED ret
    BY <1>4, <2>1 DEF Tar
  <2>2. CASE archive' \in SUBSET tfiles /\ Return("Tar", "error")
    BY <1>4, <2>2, ReturnFacts DEF Tar
  <2>3. QED BY <1>4, <2>1, <2>2 DEF Tar
<1>5. CASE RmTarget
  <2>1. CASE target' = "absent" /\ tfiles' = {} /\ Return("RmTarget", "nil")
    BY <1>5, <2>1, ReturnFacts DEF RmTarget
  <2>2. CASE UNCHANGED <<target, tfiles>> /\ Return("RmTarget", "error")
    BY <1>5, <2>2, ReturnFacts DEF RmTarget
  <2>3. QED BY <1>5, <2>1, <2>2 DEF RmTarget
<1>6. CASE UnwindRmTarget BY <1>6 DEF UnwindRmTarget
<1>7. CASE Crash BY <1>7 DEF Crash
<1>8. CASE UNCHANGED vars BY <1>8 DEF vars
<1>9. QED BY <1>1, <1>2, <1>3, <1>4, <1>5, <1>6, <1>7, <1>8 DEF Next

(***************************************************************************)
(* XtraBackupPlugin.Backup, for every bound on runs and whatever an       *)
(* earlier crashed or failed run left at the target path: the archive a   *)
(* run has streamed when it reaches its final RemoveAll holds exactly the *)
(* files of that run.                                                     *)
(***************************************************************************)
THEOREM BacksUpThisRun == Spec => []ArchiveOfThisRun
<1>1. IInv => ArchiveOfThisRun BY DEF IInv
<1>2. QED BY <1>1, IInvInit, IInvStep, PTL DEF Spec


\* The initial state maps to an initial state of the contract.
LEMMA ContractInit == Init => Contract!Init
BY DEF Init, Contract!Init, Phase, Result, NoReturn

\* A step that stays within the run and leaves the stream alone is a
\* stutter of the contract.
LEMMA InRunMaps ==
  ASSUME pc # "Idle", pc' # "Idle", UNCHANGED <<run, archive>>
  PROVE  UNCHANGED Contract!vars
BY DEF Contract!vars, Phase, Result

\* A return of the run is a stutter when the deferred RemoveAll is
\* registered, and the contract's Finish with an error when it is not.
LEMMA ReturnMaps ==
  ASSUME NEW st \in ReturnPoints \ {"none", "crash", "RmTarget"}, pc # "Idle",
         Return(st, "error"), UNCHANGED <<run, archive>>
  PROVE  [Contract!Next]_Contract!vars
<1>1. CASE rmDeferred = {}
  <2>1. pc' = "Idle" /\ ret' = [at |-> st, err |-> "error"] BY <1>1 DEF Return
  <2>2. Result' = "error" BY <2>1 DEF Result, ReturnPoints
  <2>3. Contract!Finish BY <2>1, <2>2 DEF Contract!Finish, Phase
  <2>4. QED BY <2>3 DEF Contract!Next
<1>2. CASE rmDeferred # {}
  <2>1. pc' = "Unwind" BY <1>2 DEF Return
  <2>2. QED BY <2>1, InRunMaps
<1>3. QED BY <1>1, <1>2

\* Every step maps to a step of the contract or to a stutter.
LEMMA ContractStep == IInv /\ [Next]_vars => [Contract!Next]_Contract!vars
<1> SUFFICES ASSUME IInv, [Next]_vars PROVE [Contract!Next]_Contract!vars
  OBVIOUS
<1>1. CASE Start
  <2>1. CASE pc' = "ClearTarget" /\ ret' = NoReturn
    BY <1>1, <2>1 DEF Start, Contract!Begin, Contract!Next, Phase, Result, NoReturn
  <2>2. CASE pc' = "Idle" /\ ret' = [at |-> "Config", err |-> "error"]
    BY <1>1, <2>2 DEF Start, Contract!Reject, Contract!Next, Phase, Result
  <2>3. QED BY <1>1, <2>1, <2>2 DEF Start
<1>2. CASE ClearTarget
  <2>1. CASE pc' = "RunBackup" /\ UNCHANGED <<run, archive>>
    BY <1>2, <2>1, InRunMaps DEF ClearTarget
  <2>2. CASE Return("ClearTarget", "error")
    BY <1>2, <2>2, ReturnMaps DEF ClearTarget, ReturnPoints
  <2>3. QED BY <1>2, <2>1, <2>2 DEF ClearTarget
<1>3. CASE RunBackup
  <2>1. CASE pc' = "Tar" BY <1>3, <2>1, InRunMaps DEF RunBackup
  <2>2. CASE Return("RunBackup", "error")
    BY <1>3, <2>2, ReturnMaps DEF RunBackup, ReturnPoints
  <2>3. QED BY <1>3, <2>1, <2>2 DEF RunBackup
<1>4. CASE Tar
  <2>1. archive' \subseteq {run} BY <1>4 DEF Tar, IInv, RunInv
  <2>2. pc' # "Idle"
    <3>1. rmDeferred = {RT} BY <1>4 DEF Tar, IInv, RunInv
    <3>2. QED BY <1>4, <3>1 DEF Tar, Return, RT
  <2>3. Contract!Stream
    BY <1>4, <2>1, <2>2 DEF Tar, Contract!Stream, Phase, Result, ThisRun
  <2>4. QED BY <2>3 DEF Contract!Next
<1>5. CASE RmTarget
  <2>1. rmDeferred # {} /\ UNCHANGED <<run, archive>>
    BY <1>5 DEF RmTarget, IInv, RunInv
  <2>2. pc' = "Unwind" BY <1>5, <2>1 DEF RmTarget, Return
  <2>3. QED BY <1>5, <2>1, <2>2, InRunMaps DEF RmTarget
<1>6. CASE UnwindRmTarget
  <2>1. pc = "Unwind" /\ pc' = "Idle" /\ UNCHANGED <<run, archive, ret>>
    BY <1>6 DEF UnwindRmTarget
  <2>2. ret.at \notin {"none", "crash", "Config"}
        /\ (ret.err = "nil" => archive = {run})
    BY <2>1 DEF IInv, RunInv, ArchiveOfThisRun
  <2>3. Result' \in {"ok", "error"} /\ (Result' = "ok" => ret.err = "nil")
    BY <2>1, <2>2 DEF Result
  <2>4. Contract!Finish BY <2>1, <2>2, <2>3 DEF Contract!Finish, Phase, ThisRun
  <2>5. QED BY <2>4 DEF Contract!Next
<1>7. CASE Crash BY <1>7 DEF Crash, Contract!Kill, Contract!Next, Phase, Result
<1>8. CASE UNCHANGED vars BY <1>8 DEF vars, Contract!vars, Phase, Result
<1>9. QED BY <1>1, <1>2, <1>3, <1>4, <1>5, <1>6, <1>7, <1>8 DEF Next

(***************************************************************************)
(* XtraBackupPlugin.Backup, for every bound on runs, implements the        *)
(* backup contract: every behaviour, with the files crashed or failed runs *)
(* left at the target path, is under the mapping a behaviour of            *)
(* BackupContract.                                                         *)
(***************************************************************************)
THEOREM Refinement == Spec => ContractSpec
<1>1. []IInv /\ [][Next]_vars => [][Contract!Next]_Contract!vars
  BY ContractStep, PTL
<1>2. QED BY <1>1, IInvInit, IInvStep, ContractInit, PTL
          DEF Spec, ContractSpec, Contract!Spec

=============================================================================
