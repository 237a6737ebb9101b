--------------------------- MODULE CassandraBackup ---------------------------
(***************************************************************************)
(* CassandraPlugin.Backup (src/plugin/cassandra/plugin.go 273-530): one    *)
(* process running backups one after the other on one node, each run a    *)
(* sequence of steps that may fail (a command exiting non-zero, a failing  *)
(* filesystem call), with Go's deferred cleanups run last-in first-out on  *)
(* every return, and a crash (the host killing the process) possible at    *)
(* any step, which skips the deferred cleanups.                            *)
(*                                                                         *)
(* The store-side snapshot "shield-backup" is snap: for each table         *)
(* directory, 0 when it holds no such snapshot, else the number of the run *)
(* that took it.  The staging tree /var/vcap/store/shield/cassandra is     *)
(* staging ("present" or not), stagedKs (its keyspace directories) and    *)
(* staged (the linked files: one entry per table directory standing for    *)
(* the files of its snapshot).                                             *)
(***************************************************************************)
EXTENDS KeyspaceFilter

CONSTANTS
  Tables,      \* table directories under the data directory
  KsOf,        \* the keyspace directory holding each table directory
  NameOf,      \* the table name after stripping the "-<id>" suffix
  TableNames,  \* the normalized table names
  Configs,     \* endpoint configurations [include, exclude] a run may get
  MaxRuns      \* the number of runs the model lets start

ASSUME BackupAssumption ==
  /\ IsFiniteSet(Tables)
  /\ KsOf \in [Tables -> Nat]
  /\ NameOf \in [Tables -> TableNames]
  /\ \A c \in Configs : c.exclude \in Seq(Nat)
  /\ MaxRuns \in Nat

VARIABLES
  pc,            \* the step the current run is at; "Idle" between runs
  run,           \* the number of runs started
  cfg,           \* the configuration of the current (last) run
  snap,          \* [Tables -> run that took the shield-backup snapshot, or 0]
  staging,       \* "present" or "absent": the staging root directory
  stagedKs,      \* keyspace directories of the staging tree
  staged,        \* files linked into the staging tree
  todo,          \* keyspace directories the linking loop has yet to visit
  archive,       \* the files the tar stream of the current run carried
  deferred,      \* the deferred cleanups registered, in registration order
  outcome,       \* "none", "ok", "crash", or the step that returned an error
  failedCleanups \* the deferred cleanups of the current run that failed

vars == <<pc, run, cfg, snap, staging, stagedKs, staged, todo, archive,
          deferred, outcome, failedCleanups>>

KeyspaceDirs == {KsOf[t] : t \in Tables}

\* The staged file of table directory t from the snapshot taken by run g:
\* staging/{keyspace}/{normalized table name}/..., from table directory t.
Entry(t, g) == [ks |-> KsOf[t], table |-> NameOf[t], src |-> t, gen |-> g]

\* The two deferred cleanups of Backup.
CS == "clearsnapshot"
RB == "rmbase"

Steps == {"ClearStale", "CreateSnapshot", "RmStale", "MkBase", "OpenDataDir",
          "Link", "Chown", "Tar"}

\* snap with the shield-backup snapshot gone from the table directories S.
ClearedIn(S) == [t \in Tables |-> IF t \in S THEN 0 ELSE snap[t]]

\* The step returns the error of step s: the deferred cleanups run next.
Fail(s) ==
  /\ outcome' = s
  /\ pc' = IF deferred = << >> THEN "Idle" ELSE "Unwind"
  /\ UNCHANGED deferred

-----------------------------------------------------------------------------
Init ==
  /\ pc = "Idle"
  /\ run = 0
  /\ cfg \in Configs
  /\ snap = [t \in Tables |-> 0]
  /\ staging = "absent"
  /\ stagedKs = {}
  /\ staged = {}
  /\ todo = {}
  /\ archive = {}
  /\ deferred = << >>
  /\ outcome = "none"
  /\ failedCleanups = {}

\* Backup is called with an endpoint; cassandraInfo reads it (274-277) and
\* returns an error, before any side effect, on a malformed value.
Start ==
  /\ pc = "Idle"
  /\ run < MaxRuns
  /\ run' = run + 1
  /\ cfg' \in Configs
  /\ archive' = {}
  /\ deferred' = << >>
  /\ failedCleanups' = {}
  /\ \/ pc' = "ClearStale" /\ outcome' = "none"
     \/ pc' = "Idle" /\ outcome' = "Config"
  /\ UNCHANGED <<snap, staging, stagedKs, staged, todo>>

\* A variant of ClearStale that forgets to register the deferred
\* clearsnapshot (the bug NoLeakAtRest must catch).
ClearStaleNoDefer ==
  /\ pc = "ClearStale"
  /\ \/ /\ snap' = ClearedIn(Tables)
        /\ pc' = "CreateSnapshot"
        /\ UNCHANGED <<outcome, deferred>>
     \/ /\ \E S \in SUBSET Tables : snap' = ClearedIn(S)
        /\ Fail("ClearStale")
  /\ UNCHANGED <<run, cfg, staging, stagedKs, staged, todo, archive,
                 failedCleanups>>

\* nodetool clearsnapshot -t shield-backup (279-287); on success the defer
\* that clears the snapshot again is registered (289-299).  A failing
\* nodetool may have cleared some of the tables.
ClearStale ==
  /\ pc = "ClearStale"
  /\ \/ /\ snap' = ClearedIn(Tables)
        /\ deferred' = <<CS>>
        /\ pc' = "CreateSnapshot"
        /\ UNCHANGED outcome
     \/ /\ \E S \in SUBSET Tables : snap' = ClearedIn(S)
        /\ Fail("ClearStale")
  /\ UNCHANGED <<run, cfg, staging, stagedKs, staged, todo, archive,
                 failedCleanups>>

\* savedKeyspaces (301-313), then nodetool snapshot -t shield-backup with
\* its keyspaces (315-328).  A failing nodetool may have snapshotted some
\* of the targeted tables.
SnapshotTargets == {t \in Tables : KsOf[t] \in SnapshotKeyspaces(cfg, KeyspaceDirs)}

CreateSnapshot ==
  /\ pc = "CreateSnapshot"
  /\ \E made \in SUBSET SnapshotTargets :
       /\ snap' = [t \in Tables |-> IF t \in made THEN run ELSE snap[t]]
       /\ \/ made = SnapshotTargets /\ pc' = "RmStale" /\ UNCHANGED <<outcome, deferred>>
          \/ Fail("CreateSnapshot")
  /\ UNCHANGED <<run, cfg, staging, stagedKs, staged, todo, archive,
                 failedCleanups>>

\* A variant of RmStale whose rm -rf leaves the stale tree in place (the
\* bug ArchiveExact must catch).
RmStaleKeepsTree ==
  /\ pc = "RmStale"
  /\ \/ /\ pc' = "MkBase"
        /\ UNCHANGED <<outcome, deferred>>
     \/ Fail("RmStale")
  /\ UNCHANGED <<run, cfg, snap, staging, stagedKs, staged, todo, archive,
                 failedCleanups>>

\* rm -rf of any stale staging tree (335-346).
RmStale ==
  /\ pc = "RmStale"
  /\ \/ /\ staging' = "absent" /\ stagedKs' = {} /\ staged' = {}
        /\ pc' = "MkBase"
        /\ UNCHANGED <<outcome, deferred>>
     \/ /\ Fail("RmStale")
        /\ UNCHANGED <<staging, stagedKs, staged>>
  /\ UNCHANGED <<run, cfg, snap, todo, archive, failedCleanups>>

\* os.MkdirAll of the staging root (348-354); on success the defer that
\* removes the staging tree is registered (356-367).
MkBase ==
  /\ pc = "MkBase"
  /\ \/ /\ staging' = "present"
        /\ deferred' = Append(deferred, RB)
        /\ pc' = "OpenDataDir"
        /\ UNCHANGED outcome
     \/ /\ Fail("MkBase")
        /\ UNCHANGED staging
  /\ UNCHANGED <<run, cfg, snap, stagedKs, staged, todo, archive, failedCleanups>>

\* os.Lstat, IsDir, os.Open and Readdir of the data directory (377-398).
OpenDataDir ==
  /\ pc = "OpenDataDir"
  /\ \/ /\ todo' = KeyspaceDirs
        /\ pc' = "Link"
        /\ UNCHANGED <<outcome, deferred>>
     \/ /\ Fail("OpenDataDir")
        /\ UNCHANGED todo
  /\ UNCHANGED <<run, cfg, snap, staging, stagedKs, staged, archive,
                 failedCleanups>>

\* One keyspace directory of the loop (399-416) that the filter drops.
SkipKeyspace(ks) ==
  /\ pc = "Link"
  /\ ks \in todo
  /\ ~Selected(cfg, ks)
  /\ todo' = todo \ {ks}
  /\ UNCHANGED <<pc, run, cfg, snap, staging, stagedKs, staged, archive,
                 deferred, outcome, failedCleanups>>

\* The files hardLinkKeyspace links for ks: every table directory of ks
\* whose snapshots/shield-backup subdirectory exists (467-497).
KeyspaceEntries(ks) ==
  {Entry(t, snap[t]) : t \in {u \in Tables : KsOf[u] = ks /\ snap[u] # 0}}

\* hardLinkKeyspace (417-421, 448-530): os.Mkdir of staging/{ks} (which
\* fails when it exists), then hardLinkAll of each snapshotted table.  Any
\* failing call returns its error, leaving what was linked so far.
LinkKeyspace(ks) ==
  /\ pc = "Link"
  /\ ks \in todo
  /\ Selected(cfg, ks)
  /\ todo' = todo \ {ks}
  /\ \/ /\ ks \notin stagedKs
        /\ stagedKs' = stagedKs \cup {ks}
        /\ staged' = staged \cup KeyspaceEntries(ks)
        /\ UNCHANGED <<pc, outcome>>
     \/ /\ UNCHANGED <<stagedKs, staged>>
        /\ Fail("Link")
     \/ /\ ks \notin stagedKs
        /\ stagedKs' = stagedKs \cup {ks}
        /\ \E part \in SUBSET KeyspaceEntries(ks) : staged' = staged \cup part
        /\ Fail("Link")
  /\ UNCHANGED <<run, cfg, snap, staging, archive, deferred, failedCleanups>>

\* The loop is over (423).
LinkDone ==
  /\ pc = "Link"
  /\ todo = {}
  /\ pc' = "Chown"
  /\ UNCHANGED <<run, cfg, snap, staging, stagedKs, staged, todo, archive,
                 deferred, outcome, failedCleanups>>

\* chown -R vcap:vcap of the staging tree (425-433).  Ownership is not
\* observed by any property here; the step's failure path is kept.
Chown ==
  /\ pc = "Chown"
  /\ \/ pc' = "Tar" /\ UNCHANGED outcome
     \/ Fail("Chown")
  /\ UNCHANGED <<run, cfg, snap, staging, stagedKs, staged, todo, archive,
                 deferred, failedCleanups>>

\* tar -c -C staging -f - . to stdout (435-445): the archive carries the
\* staged files; a failing tar has streamed part of them.
Tar ==
  /\ pc = "Tar"
  /\ \/ /\ archive' = staged
        /\ outcome' = "ok"
        /\ pc' = "Unwind"
     \/ /\ archive' \in SUBSET staged
        /\ Fail("Tar")
  /\ UNCHANGED <<run, cfg, snap, staging, stagedKs, staged, todo, deferred,
                 failedCleanups>>

\* The last registered defer runs; its failure is only logged.
PopDeferred ==
  /\ deferred' = SubSeq(deferred, 1, Len(deferred) - 1)
  /\ pc' = IF Len(deferred) = 1 THEN "Idle" ELSE "Unwind"

\* Deferred rm -rf of the staging tree (356-367).
UnwindRmBase ==
  /\ pc = "Unwind"
  /\ deferred # << >> /\ deferred[Len(deferred)] = RB
  /\ PopDeferred
  /\ \/ /\ staging' = "absent" /\ stagedKs' = {} /\ staged' = {}
        /\ UNCHANGED failedCleanups
     \/ /\ failedCleanups' = failedCleanups \cup {RB}
        /\ UNCHANGED <<staging, stagedKs, staged>>
  /\ UNCHANGED <<run, cfg, snap, todo, archive, outcome>>

\* Deferred nodetool clearsnapshot -t shield-backup (289-299).
UnwindClearSnapshot ==
  /\ pc = "Unwind"
  /\ deferred # << >> /\ deferred[Len(deferred)] = CS
  /\ PopDeferred
  /\ \/ /\ snap' = ClearedIn(Tables)
        /\ UNCHANGED failedCleanups
     \/ /\ \E S \in SUBSET Tables : snap' = ClearedIn(S)
        /\ failedCleanups' = failedCleanups \cup {CS}
  /\ UNCHANGED <<run, cfg, staging, stagedKs, staged, todo, archive, outcome>>

\* The host kills the plugin process: no deferred cleanup runs.
Crash ==
  /\ pc # "Idle"
  /\ pc' = "Idle"
  /\ outcome' = "crash"
  /\ deferred' = << >>
  /\ UNCHANGED <<run, cfg, snap, staging, stagedKs, staged, todo, archive,
                 failedCleanups>>

Next ==
  \/ Start \/ ClearStale \/ CreateSnapshot \/ RmStale \/ MkBase
  \/ OpenDataDir \/ LinkDone \/ Chown \/ Tar
  \/ \E ks \in KeyspaceDirs : SkipKeyspace(ks) \/ LinkKeyspace(ks)
  \/ UnwindRmBase \/ UnwindClearSnapshot
  \/ Crash

Spec == Init /\ [][Next]_vars

-----------------------------------------------------------------------------
Outcomes == {"none", "ok", "crash", "Config"} \cup Steps

AllEntries == {Entry(t, g) : t \in Tables, g \in 1..MaxRuns}

TypeOK ==
  /\ pc \in {"Idle", "Unwind"} \cup Steps
  /\ run \in 0..MaxRuns
  /\ cfg \in Configs
  /\ snap \in [Tables -> 0..MaxRuns]
  /\ staging \in {"absent", "present"}
  /\ stagedKs \subseteq KeyspaceDirs
  /\ staged \subseteq AllEntries
  /\ todo \subseteq KeyspaceDirs
  /\ archive \subseteq AllEntries
  /\ deferred \in Seq({CS, RB})
  /\ outcome \in Outcomes
  /\ failedCleanups \subseteq {CS, RB}

(***************************************************************************)
(* A backup that returns nil streamed exactly the snapshot files this run  *)
(* took of the table directories of the keyspaces its filter keeps: no     *)
(* file left in the staging tree or the snapshot by an earlier, crashed or *)
(* failed run, none missing.  It rests on the order rm -rf stale staging,  *)
(* fresh snapshot, link, tar of Backup across runs and crashes.            *)
(***************************************************************************)
ArchiveExact ==
  outcome = "ok" =>
    archive = {Entry(t, run) : t \in {u \in Tables : Selected(cfg, KsOf[u])}}

(***************************************************************************)
(* Between runs, when the last run returned (no crash) and none of its     *)
(* deferred cleanups failed: no shield-backup snapshot is left once the    *)
(* run got past its first clearsnapshot, whichever later step failed (a    *)
(* half-done nodetool snapshot included), and no staging tree is left once *)
(* the stale one was removed (the defer at 356-367, or the failed MkdirAll *)
(* that follows the removal).                                              *)
(***************************************************************************)
SnapshotArmed == (Steps \cup {"ok"}) \ {"ClearStale"}
StagingCleared == {"MkBase", "OpenDataDir", "Link", "Chown", "Tar", "ok"}

NoLeakAtRest ==
  pc = "Idle" /\ failedCleanups = {} =>
    /\ outcome \in SnapshotArmed => \A t \in Tables : snap[t] = 0
    /\ outcome \in StagingCleared => staging = "absent"

(***************************************************************************)
(* The inductive strengthening of NoLeakAtRest: which deferred cleanups   *)
(* are registered at each step, and what each return has already made     *)
(* true of the staging tree before the cleanups run.                      *)
(***************************************************************************)
DeferredAtStep ==
  /\ pc \in {"Idle", "ClearStale"} => deferred = << >>
  /\ pc \in {"CreateSnapshot", "RmStale", "MkBase"} => deferred = <<CS>>
  /\ pc \in {"OpenDataDir", "Link", "Chown", "Tar"} => deferred = <<CS, RB>>
  /\ pc = "MkBase" => staging = "absent"

DeferredAtUnwind ==
  pc = "Unwind" =>
    /\ deferred \in {<<CS>>, <<CS, RB>>}
    /\ outcome \in SnapshotArmed
    /\ outcome = "MkBase" => staging = "absent"
    /\ deferred = <<CS>> /\ outcome \in StagingCleared /\ failedCleanups = {}
         => staging = "absent"

IInv == TypeOK /\ DeferredAtStep /\ DeferredAtUnwind /\ NoLeakAtRest

\* The table directories of the kept keyspaces, and those of them whose
\* keyspace the linking loop has visited.
KeptTables == {u \in Tables : Selected(cfg, KsOf[u])}
LinkedTables == {u \in KeptTables : KsOf[u] \notin todo}

(***************************************************************************)
(* The inductive strengthening of ArchiveExact: a run is numbered and has *)
(* not returned while at a step; from the rm -rf on, every table of a kept *)
(* keyspace holds this run's snapshot (nodetool snapshot names every kept  *)
(* keyspace: those of savedKeyspaces, or no name at all);                  *)
(* the staging tree is empty from the rm -rf until the loop, holds this    *)
(* run's files of the kept keyspaces the loop has visited during it, and  *)
(* of all kept keyspaces after it.                                        *)
(***************************************************************************)
ArchiveInv ==
  /\ pc # "Idle" => run >= 1
  /\ pc \in Steps => outcome = "none"
  /\ pc \in Steps \ {"ClearStale", "CreateSnapshot"} => \A t \in KeptTables : snap[t] = run
  /\ pc \in {"MkBase", "OpenDataDir"} => staged = {}
  /\ pc = "Link" => staged = {Entry(t, run) : t \in LinkedTables}
  /\ pc \in {"Chown", "Tar"} => staged = {Entry(t, run) : t \in KeptTables}
  /\ ArchiveExact

\* The files run n with filter c backs up: its snapshot of every table
\* directory of a kept keyspace.
RunFiles(n, c) == {Entry(t, n) : t \in {u \in Tables : Selected(c, KsOf[u])}}

\* What the caller can see of a run: whether one is active, and what the
\* last one returned once its defers have run.
Phase == IF pc = "Idle" THEN "idle" ELSE "busy"

Result ==
  IF pc # "Idle" THEN "none"
  ELSE IF outcome \in {"none", "ok", "crash"} THEN outcome
  ELSE "error"

Contract == INSTANCE BackupContract
              WITH phase <- Phase, result <- Result, Wanted <- RunFiles

(***************************************************************************)
(* CassandraPlugin.Backup implements the backup contract: seen through    *)
(* the mapping, every step is a step of BackupContract or a stutter, so   *)
(* the stream of a run never carries a stale snapshot or staged file of   *)
(* an earlier run, and a nil return streamed all of this run's files.     *)
(***************************************************************************)
ContractSpec == Contract!Spec

(***************************************************************************)
(* Spec section 8: the staging tree does not exist after a run terminates, *)
(* success or failure (its cleanups not failing), stale trees of crashed   *)
(* runs included.                                                          *)
(***************************************************************************)
StagingAbsentAfterRun ==
  pc = "Idle" /\ outcome \notin {"none", "crash"} /\ failedCleanups = {} => staging = "absent"

=============================================================================
