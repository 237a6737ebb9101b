------------------------- MODULE XtraBackupRestore -------------------------
(***************************************************************************)
(* XtraBackupPlugin.Restore (src/unnamed/part_001 286-409): one process    *)
(* running restores one after the other into a MySQL datadir, each        *)
(* checking that mysqld is stopped, preparing the temporary target dir,   *)
(* checking the datadir, recording its owner, emptying it, unpacking the  *)
(* archive from stdin, running xtrabackup --prepare and --move-back, and   *)
(* giving every entry of the datadir back the recorded owner.  A crash is  *)
(* possible at any step; the operator may start or stop mysqld between    *)
(* runs.                                                                   *)
(*                                                                         *)
(* The datadir's contents are a set of files [data, owner]: data "old" is *)
(* what the datadir held before the restore, "backup" what --move-back    *)
(* moved in from the archive; files --move-back creates belong to the     *)
(* plugin's user until they are chowned.                                  *)
(***************************************************************************)
EXTENDS Naturals, FiniteSets

CONSTANTS
  Owners,       \* uids a file or the datadir may belong to
  PluginUser,   \* the uid the plugin and its commands run as
  DatadirKinds, \* what mysql_datadir may be: "dir", "file", "absent"
  MysqldStates, \* the states the operator may put mysqld in
  MaxRuns       \* the number of runs the model lets start

ASSUME XtraRestoreAssumption ==
  /\ PluginUser \in Owners
  /\ DatadirKinds \subseteq {"dir", "file", "absent"}
  /\ MysqldStates \subseteq {"running", "stopped"}
  /\ MaxRuns \in Nat

VARIABLES
  pc,          \* the step the current run is at; "Idle" between runs
  run,         \* the number of runs started
  mysqld,      \* "running" or "stopped"
  dirKind,     \* what the datadir path is
  dirOwner,    \* the owner of the datadir itself
  files,       \* the entries of the datadir
  target,      \* the temporary target dir: "absent", "empty", "unpacked", "prepared"
  myuid,       \* the owner recorded from the datadir, or "none"
  rmDeferred,  \* {"rmtarget"} once the deferred RemoveAll is registered
  ret          \* [at |-> the step that returned, "none" or "crash", err |-> "nil", "error" or "none"]

vars == <<pc, run, mysqld, dirKind, dirOwner, files, target, myuid,
          rmDeferred, ret>>

RT == "rmtarget"

\* No run has returned yet.
NoReturn == [at |-> "none", err |-> "none"]

\* The files of a datadir holding the archive's data, all owned by o.
Restored(o) == {[data |-> "backup", owner |-> o]}

\* The step returns err ("nil" or "error"): the deferred RemoveAll runs.
Return(s, err) ==
  /\ ret' = [at |-> s, err |-> err]
  /\ pc' = IF rmDeferred = {} THEN "Idle" ELSE "Unwind"

-----------------------------------------------------------------------------
Init ==
  /\ pc = "Idle"
  /\ run = 0
  /\ mysqld \in MysqldStates
  /\ dirKind \in DatadirKinds
  /\ dirOwner \in Owners
  /\ files \in IF dirKind = "dir"
               THEN SUBSET [data : {"old"}, owner : Owners]
               ELSE {{}}
  /\ target \in {"absent", "unpacked"}
  /\ myuid = "none"
  /\ rmDeferred = {}
  /\ ret = NoReturn

\* The operator starts or stops mysqld between runs.
ToggleMysqld ==
  /\ pc = "Idle"
  /\ mysqld' \in MysqldStates \ {mysqld}
  /\ UNCHANGED <<pc, run, dirKind, dirOwner, files, target, myuid, rmDeferred, ret>>

\* Restore is called; getXtraBackupEndpoint (287-290, 423-475) fails
\* before any side effect when mysql_user or mysql_password is missing.
Start ==
  /\ pc = "Idle"
  /\ run < MaxRuns
  /\ run' = run + 1
  /\ myuid' = "none"
  /\ rmDeferred' = {}
  /\ \/ pc' = "CheckMysql" /\ ret' = NoReturn
     \/ pc' = "Idle" /\ ret' = [at |-> "Config", err |-> "error"]
  /\ UNCHANGED <<mysqld, dirKind, dirOwner, files, target>>

\* ps | grep mysqld (291-297): the pipeline exits 0 when mysqld runs, and
\* the function then returns that nil error.
CheckMysql ==
  /\ pc = "CheckMysql"
  /\ \/ mysqld = "running" /\ Return("CheckMysql", "nil")
     \/ mysqld = "stopped" /\ pc' = "ClearTarget" /\ UNCHANGED ret
  /\ UNCHANGED <<run, mysqld, dirKind, dirOwner, files, target, myuid, rmDeferred>>

\* Lstat of the target dir and RemoveAll (or Remove) of what is there
\* (298-311); then the deferred RemoveAll is registered (312-314).
ClearTarget ==
  /\ pc = "ClearTarget"
  /\ \/ /\ target' = "absent"
        /\ rmDeferred' = {RT}
        /\ pc' = "StatDatadir"
        /\ UNCHANGED ret
     \/ /\ target # "absent"
        /\ Return("ClearTarget", "error")
        /\ UNCHANGED <<target, rmDeferred>>
  /\ UNCHANGED <<run, mysqld, dirKind, dirOwner, files, myuid>>

\* A variant of StatDatadir that records the plugin's own uid instead of
\* the datadir's (the bug OwnerKept must catch).
StatDatadirOwnUid ==
  /\ pc = "StatDatadir"
  /\ \/ dirKind = "absent" /\ Return("StatDatadir", "error") /\ UNCHANGED myuid
     \/ dirKind = "file" /\ Return("StatDatadir", "nil") /\ UNCHANGED myuid
     \/ /\ dirKind = "dir"
        /\ myuid' = PluginUser
        /\ pc' = "Wipe"
        /\ UNCHANGED ret
  /\ UNCHANGED <<run, mysqld, dirKind, dirOwner, files, target, rmDeferred>>

\* Lstat of the datadir (316-326): a missing datadir returns Lstat's
\* error; one that is not a directory returns err, nil at that point.  Then
\* its uid is recorded (327-328).
StatDatadir ==
  /\ pc = "StatDatadir"
  /\ \/ dirKind = "absent" /\ Return("StatDatadir", "error") /\ UNCHANGED myuid
     \/ dirKind = "file" /\ Return("StatDatadir", "nil") /\ UNCHANGED myuid
     \/ /\ dirKind = "dir"
        /\ myuid' = dirOwner
        /\ pc' = "Wipe"
        /\ UNCHANGED ret
  /\ UNCHANGED <<run, mysqld, dirKind, dirOwner, files, target, rmDeferred>>

\* Glob of datadir/* and RemoveAll of each match (330-342): Go's * matches
\* every entry name, dot-named ones included.  The first failing RemoveAll
\* returns, the earlier matches gone.
Wipe ==
  /\ pc = "Wipe"
  /\ \/ /\ files' = {}
        /\ pc' = "MkTarget"
        /\ UNCHANGED ret
     \/ /\ \E gone \in SUBSET files : files' = files \ gone
        /\ Return("Wipe", "error")
  /\ UNCHANGED <<run, mysqld, dirKind, dirOwner, target, myuid, rmDeferred>>

\* mkdir -p of the target dir (344-356).
MkTarget ==
  /\ pc = "MkTarget"
  /\ \/ target' = "empty" /\ pc' = "Unpack" /\ UNCHANGED ret
     \/ Return("MkTarget", "error") /\ UNCHANGED target
  /\ UNCHANGED <<run, mysqld, dirKind, dirOwner, files, myuid, rmDeferred>>

\* tar -xf - -C target from stdin (358-365).
Unpack ==
  /\ pc = "Unpack"
  /\ \/ target' = "unpacked" /\ pc' = "Prepare" /\ UNCHANGED ret
     \/ Return("Unpack", "error") /\ UNCHANGED target
  /\ UNCHANGED <<run, mysqld, dirKind, dirOwner, files, myuid, rmDeferred>>

\* xtrabackup --prepare on the target dir (366-377).
Prepare ==
  /\ pc = "Prepare"
  /\ \/ target' = "prepared" /\ pc' = "MoveBack" /\ UNCHANGED ret
     \/ Return("Prepare", "error") /\ UNCHANGED target
  /\ UNCHANGED <<run, mysqld, dirKind, dirOwner, files, myuid, rmDeferred>>

\* xtrabackup --move-back (379-390): the prepared files move into the
\* datadir, owned by the plugin's user; a failing run may have moved some.
MoveBack ==
  /\ pc = "MoveBack"
  /\ \/ /\ files' = files \cup Restored(PluginUser)
        /\ target' = "empty"
        /\ pc' = "Chown"
        /\ UNCHANGED ret
     \/ /\ \/ UNCHANGED <<files, target>>
           \/ files' = files \cup Restored(PluginUser) /\ target' = "empty"
        /\ Return("MoveBack", "error")
  /\ UNCHANGED <<run, mysqld, dirKind, dirOwner, myuid, rmDeferred>>

\* A variant of Chown that sets the owner of the datadir only, not of its
\* entries (the bug RestoredExactly must catch).
ChownRootOnly ==
  /\ pc = "Chown"
  /\ dirOwner' = myuid
  /\ \/ pc' = "RmTarget" /\ UNCHANGED ret
     \/ Return("Chown", "error")
  /\ UNCHANGED <<run, mysqld, dirKind, files, target, myuid, rmDeferred>>

\* filepath.Walk of the datadir chowning every path, the datadir itself
\* included, to the recorded uid (391-406); the first failing chown stops
\* the walk.  Then the function returns RemoveAll's error (407-408).
Chown ==
  /\ pc = "Chown"
  /\ \/ /\ files' = {[f EXCEPT !.owner = myuid] : f \in files}
        /\ dirOwner' = myuid
        /\ pc' = "RmTarget"
        /\ UNCHANGED ret
     \/ /\ UNCHANGED <<files, dirOwner>>
        /\ Return("Chown", "error")
     \/ /\ \E done \in SUBSET files :
             files' = {[f EXCEPT !.owner = myuid] : f \in done} \cup (files \ done)
        /\ dirOwner' = myuid
        /\ Return("Chown", "error")
  /\ UNCHANGED <<run, mysqld, dirKind, target, myuid, rmDeferred>>

RmTarget ==
  /\ pc = "RmTarget"
  /\ \/ target' = "absent" /\ Return("RmTarget", "nil")
     \/ Return("RmTarget", "error") /\ UNCHANGED target
  /\ UNCHANGED <<run, mysqld, dirKind, dirOwner, files, myuid, rmDeferred>>

\* The deferred os.RemoveAll of the target dir (312-314); its error is
\* dropped.
UnwindRmTarget ==
  /\ pc = "Unwind"
  /\ pc' = "Idle"
  /\ rmDeferred' = {}
  /\ target' \in {"absent", target}
  /\ UNCHANGED <<run, mysqld, dirKind, dirOwner, files, myuid, ret>>

\* The host kills the plugin process: the deferred RemoveAll does not run.
Crash ==
  /\ pc # "Idle"
  /\ pc' = "Idle"
  /\ ret' = [at |-> "crash", err |-> "none"]
  /\ rmDeferred' = {}
  /\ UNCHANGED <<run, mysqld, dirKind, dirOwner, files, target, myuid>>

Next ==
  \/ ToggleMysqld \/ Start \/ CheckMysql \/ ClearTarget \/ StatDatadir
  \/ Wipe \/ MkTarget \/ Unpack \/ Prepare \/ MoveBack \/ Chown \/ RmTarget
  \/ UnwindRmTarget \/ Crash

Spec == Init /\ [][Next]_vars

-----------------------------------------------------------------------------
Files == [data : {"old", "backup"}, owner : Owners]

\* The steps a run may return from, and the markers of no return and crash.
ReturnPoints == {"none", "crash", "Config", "CheckMysql", "ClearTarget",
                 "StatDatadir", "Wipe", "MkTarget", "Unpack", "Prepare",
                 "MoveBack", "Chown", "RmTarget"}

TypeOK ==
  /\ pc \in {"Idle", "CheckMysql", "ClearTarget", "StatDatadir", "Wipe",
             "MkTarget", "Unpack", "Prepare", "MoveBack", "Chown", "RmTarget",
             "Unwind"}
  /\ run \in 0..MaxRuns
  /\ mysqld \in MysqldStates
  /\ dirKind \in DatadirKinds
  /\ dirOwner \in Owners
  /\ files \subseteq Files
  /\ target \in {"absent", "empty", "unpacked", "prepared"}
  /\ myuid \in Owners \cup {"none"}
  /\ rmDeferred \subseteq {RT}
  /\ ret \in [at : ReturnPoints, err : {"nil", "error", "none"}]

\* The return of the last line: RemoveAll succeeded after the whole restore.
Completed == ret = [at |-> "RmTarget", err |-> "nil"]

(***************************************************************************)
(* A restore that ran to its final nil return left the datadir holding    *)
(* the archive's data and nothing else, every entry owned by the datadir's *)
(* owner: the wipe removed all the old files, and the walk gave the files *)
(* --move-back created back the uid recorded before the wipe (spec 4.4),  *)
(* whatever crashed or failed restores left before it.                    *)
(***************************************************************************)
RestoredExactly == Completed => files = Restored(dirOwner)

(***************************************************************************)
(* No step changes the owner of the datadir itself: the walk sets it to   *)
(* the uid recorded from it, even when the walk stops half way.           *)
(***************************************************************************)
OwnerKept == [][dirOwner' = dirOwner]_vars

(***************************************************************************)
(* What each step of a run may rely on: no return happened yet in the run, *)
(* the recorded uid is the datadir's from the Lstat on, the datadir is    *)
(* empty from the wipe to --move-back, holds the moved-in files of the    *)
(* plugin's user before the walk and the datadir owner's after it.  With  *)
(* TypeOK and RestoredExactly it is the inductive invariant of the proofs *)
(* of RestoredExactly and OwnerKept.                                      *)
(***************************************************************************)
RunInv ==
  /\ pc \notin {"Idle", "Unwind"} => ret = NoReturn
  /\ pc \in {"Wipe", "MkTarget", "Unpack", "Prepare", "MoveBack", "Chown",
             "RmTarget"} => myuid = dirOwner
  /\ pc \in {"MkTarget", "Unpack", "Prepare", "MoveBack"} => files = {}
  /\ pc = "Chown" => files = Restored(PluginUser)
  /\ pc = "RmTarget" => files = Restored(dirOwner)

IInv == TypeOK /\ RunInv /\ RestoredExactly

(***************************************************************************)
(* Spec section 4.7 and section 8: a restore that returns no error has    *)
(* restored the archive; one whose preconditions fail (mysqld running,    *)
(* datadir not a directory) returns an error.                             *)
(***************************************************************************)
NilMeansRestored ==
  ret.err = "nil" => files = Restored(dirOwner)

=============================================================================
