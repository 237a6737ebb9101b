------------------------- MODULE XtraBackupBackup --------------------------
(***************************************************************************)
(* XtraBackupPlugin.Backup (src/unnamed/part_001 233-284): one process     *)
(* running backups one after the other, each removing whatever is at the  *)
(* temporary target dir, running xtrabackup --backup into it, streaming   *)
(* it to stdout with tar, and removing it, with the deferred RemoveAll on *)
(* every return after the first check and a crash possible at any step.   *)
(*                                                                         *)
(* The target dir holds the files of the runs that wrote there: a file is *)
(* the number of the run whose xtrabackup --backup produced it.  The      *)
(* archive is the set of files the tar stream of the current run carried. *)
(***************************************************************************)
EXTENDS Naturals

CONSTANT MaxRuns  \* the number of runs the model lets start

ASSUME XtraBackupAssumption == MaxRuns \in Nat

VARIABLES
  pc,          \* the step the current run is at; "Idle" between runs
  run,         \* the number of runs started
  target,      \* "absent", "file" or "dir": what is at the target dir path
  tfiles,      \* the files in the target dir
  archive,     \* the files the tar stream of the current run carried
  rmDeferred,  \* {"rmtarget"} once the deferred RemoveAll is registered
  ret          \* [at |-> the step that returned, "none" or "crash", err |-> "nil", "error" or "none"]

vars == <<pc, run, target, tfiles, archive, rmDeferred, ret>>

RT == "rmtarget"

NoReturn == [at |-> "none", err |-> "none"]

\* The step returns err: the deferred RemoveAll runs next.
Return(s, err) ==
  /\ ret' = [at |-> s, err |-> err]
  /\ pc' = IF rmDeferred = {} THEN "Idle" ELSE "Unwind"

-----------------------------------------------------------------------------
Init ==
  /\ pc = "Idle"
  /\ run = 0
  /\ target \in {"absent", "file", "dir"}
  /\ tfiles = {}
  /\ archive = {}
  /\ rmDeferred = {}
  /\ ret = NoReturn

\* Backup is called; getXtraBackupEndpoint (234-237, 423-475) fails before
\* any side effect when mysql_user or mysql_password is missing.
Start ==
  /\ pc = "Idle"
  /\ run < MaxRuns
  /\ run' = run + 1
  /\ archive' = {}
  /\ rmDeferred' = {}
  /\ \/ pc' = "ClearTarget" /\ ret' = NoReturn
     \/ pc' = "Idle" /\ ret' = [at |-> "Config", err |-> "error"]
  /\ UNCHANGED <<target, tfiles>>

\* A variant of ClearTarget whose RemoveAll leaves the directory's files
\* (the bug ArchiveOfThisRun must catch).
ClearTargetKeepsFiles ==
  /\ pc = "ClearTarget"
  /\ \/ /\ target' = IF target = "file" THEN "absent" ELSE target
        /\ rmDeferred' = {RT}
        /\ pc' = "RunBackup"
        /\ UNCHANGED <<ret, tfiles>>
     \/ /\ target # "absent"
        /\ Return("ClearTarget", "error")
        /\ UNCHANGED <<target, tfiles, rmDeferred>>
  /\ UNCHANGED <<run, archive>>

\* os.Lstat of the target dir, RemoveAll of a directory or Remove of a
\* file there (239-250); then the deferred RemoveAll (252-254).
ClearTarget ==
  /\ pc = "ClearTarget"
  /\ \/ /\ target' = "absent" /\ tfiles' = {}
        /\ rmDeferred' = {RT}
        /\ pc' = "RunBackup"
        /\ UNCHANGED ret
     \/ /\ target # "absent"
        /\ Return("ClearTarget", "error")
        /\ UNCHANGED <<target, tfiles, rmDeferred>>
  /\ UNCHANGED <<run, archive>>

\* xtrabackup --backup --target-dir (255-272): it creates the target dir
\* and writes this run's files; a failing run may have written some.
RunBackup ==
  /\ pc = "RunBackup"
  /\ \/ /\ target' = "dir" /\ tfiles' = tfiles \cup {run}
        /\ pc' = "Tar"
        /\ UNCHANGED ret
     \/ /\ target' \in {target, "dir"}
        /\ tfiles' = tfiles
        /\ Return("RunBackup", "error")
  /\ UNCHANGED <<run, archive, rmDeferred>>

\* tar -cf - -C target . to stdout (274-280); a failing tar has streamed
\* part of the files.
Tar ==
  /\ pc = "Tar"
  /\ \/ archive' = tfiles /\ pc' = "RmTarget" /\ UNCHANGED ret
     \/ archive' \in SUBSET tfiles /\ Return("Tar", "error")
  /\ UNCHANGED <<run, target, tfiles, rmDeferred>>

\* return os.RemoveAll(targetDir) (281-283).
RmTarget ==
  /\ pc = "RmTarget"
  /\ \/ target' = "absent" /\ tfiles' = {} /\ Return("RmTarget", "nil")
     \/ UNCHANGED <<target, tfiles>> /\ Return("RmTarget", "error")
  /\ UNCHANGED <<run, archive, rmDeferred>>

\* The deferred os.RemoveAll (252-254); its error is dropped.
UnwindRmTarget ==
  /\ pc = "Unwind"
  /\ pc' = "Idle"
  /\ rmDeferred' = {}
  /\ \/ target' = "absent" /\ tfiles' = {}
     \/ UNCHANGED <<target, tfiles>>
  /\ UNCHANGED <<run, archive, ret>>

\* The host kills the plugin process: the deferred RemoveAll does not run.
Crash ==
  /\ pc # "Idle"
  /\ pc' = "Idle"
  /\ ret' = [at |-> "crash", err |-> "none"]
  /\ rmDeferred' = {}
  /\ UNCHANGED <<run, target, tfiles, archive>>

Next ==
  \/ Start \/ ClearTarget \/ RunBackup \/ Tar \/ RmTarget
  \/ UnwindRmTarget \/ Crash

Spec == Init /\ [][Next]_vars

-----------------------------------------------------------------------------
\* The steps a run may return from, and the markers of no return and crash.
ReturnPoints == {"none", "crash", "Config", "ClearTarget", "RunBackup", "Tar",
                 "RmTarget"}

TypeOK ==
  /\ pc \in {"Idle", "ClearTarget", "RunBackup", "Tar", "RmTarget", "Unwind"}
  /\ run \in 0..MaxRuns
  /\ target \in {"absent", "file", "dir"}
  /\ tfiles \subseteq 1..MaxRuns
  /\ archive \subseteq 1..MaxRuns
  /\ rmDeferred \subseteq {RT}
  /\ ret \in [at : ReturnPoints, err : {"nil", "error", "none"}]

(***************************************************************************)
(* Once this run's tar has streamed, the stream carries exactly the files *)
(* xtrabackup --backup wrote in this run: none left in the target dir by  *)
(* an earlier run that crashed or whose removal failed.                   *)
(***************************************************************************)
ArchiveOfThisRun == pc = "RmTarget" \/ ret.at = "RmTarget" => archive = {run}

(***************************************************************************)
(* What each step of a run may rely on: the run is numbered, no return    *)
(* happened yet in the run, the deferred RemoveAll is registered once the *)
(* target is cleared,                                                      *)
(* the target dir is empty once cleared, holds exactly this run's files   *)
(* once xtrabackup wrote them, and the stream carries them once tar ran;  *)
(* an unwinding run has returned from a step, and only the final          *)
(* RemoveAll returns nil.                                                  *)
(* With TypeOK and ArchiveOfThisRun it is the inductive invariant of the  *)
(* proof of ArchiveOfThisRun.                                             *)
(***************************************************************************)
RunInv ==
  /\ pc # "Idle" => run >= 1
  /\ pc \notin {"Idle", "Unwind"} => ret = NoReturn
  /\ pc \in {"RunBackup", "Tar", "RmTarget"} => rmDeferred = {RT}
  /\ pc = "RunBackup" => tfiles = {}
  /\ pc = "Tar" => tfiles = {run}
  /\ pc = "Unwind" => ret.at \notin {"none", "crash", "Config"}
  /\ ret.err = "nil" => ret.at = "RmTarget"

IInv == TypeOK /\ RunInv /\ ArchiveOfThisRun

\* What the caller can see of a run: whether one is active, and what the
\* last one returned once its deferred RemoveAll has run.
Phase == IF pc = "Idle" THEN "idle" ELSE "busy"

Result ==
  IF pc # "Idle" THEN "none"
  ELSE IF ret.at \in {"none", "crash"} THEN ret.at
  ELSE IF ret.err = "nil" THEN "ok"
  ELSE "error"

\* The files run n backs up: those its xtrabackup --backup wrote.  Backup
\* takes no filter, so every run has the same configuration.
ThisRun(n, c) == {n}

Contract == INSTANCE BackupContract
              WITH phase <- Phase, cfg <- "all", Configs <- {"all"},
                   result <- Result, Wanted <- ThisRun

(***************************************************************************)
(* XtraBackupPlugin.Backup implements the backup contract: seen through   *)
(* the mapping, every step is a step of BackupContract or a stutter, so   *)
(* the stream of a run never carries a file an earlier run left at the    *)
(* target path, and a nil return streamed all of this run's files.        *)
(***************************************************************************)
ContractSpec == Contract!Spec

====
