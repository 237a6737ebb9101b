# Formal models of the shield backup plugins

This directory holds TLA+ models of the backup and restore plugins in `src/`, TLC
configurations that model-check them on small instances, and TLAPS proofs of their
main invariants for every value of the constants. `PROJECT.json` lists every component,
run, mutant, mapped source range, finding, hazard and theorem. This file explains them.

## 1. The system

`src/` holds three SHIELD target plugins. Each runs as a process that is called once,
with an endpoint configuration, for one `backup` (the archive goes to stdout) or one
`restore` (the archive comes from stdin).

| part | source | what it does |
|---|---|---|
| keyspace filter | `plugin.go` 98, 301-313, 399-416, 592-609 | Works out which keyspaces are snapshotted, linked and restored, from `cassandra_include_keyspaces` and `cassandra_exclude_keyspaces`. Membership is tested with `sort.SearchStrings`. |
| cassandra backup | `plugin.go` 273-530 | Runs `nodetool clearsnapshot`, then `nodetool snapshot -t shield-backup`, then `rm -rf` of the staging tree `/var/vcap/store/shield/cassandra` and `MkdirAll` of it. It hard-links each kept table's snapshot files into `staging/{ks}/{table}` (the table name with its `-<id>` suffix stripped), runs `chown -R`, and streams the tree out with `tar -c`. Two defers clear the snapshot and remove the tree. |
| cassandra restore | `plugin.go` 533-649 | Runs `rm -rf` and `MkdirAll` of the same staging tree, extracts the archive with `tar -x` from stdin, and runs `sstableloader` once per table directory of each kept keyspace. A defer removes the tree. |
| cassandra configuration | `plugin.go` 168-270, 666-732 | `Validate` prints what it reads. `cassandraInfo` reads the endpoint into a `CassandraInfo`. |
| xtrabackup backup | `part_001` 233-284 | Empties the target dir, runs `xtrabackup --backup` into it, tars it to stdout, and removes it. |
| xtrabackup restore | `part_001` 286-409 | Checks that mysqld is stopped and the datadir exists. It captures the datadir's uid/gid and empties the datadir. Then it runs `mkdir`, `tar -x`, `--prepare` and `--move-back`, chowns everything back to the captured owner, and removes the target dir. |
| s3 plugin | `part_000` | A stub: every operation is unsupported. |
| tooling | `bin/testdev`, `ci/settings.yml` | Developer script and CI settings. |

How the parts interact:

- Backup and restore of the cassandra plugin share three process-wide singletons: the
  fixed staging path, the fixed snapshot tag and the filter.
- A crashed run leaves its staging tree and its snapshot for the next run, backup or
  restore, to clean up. Spec section 5 makes that next run responsible for the cleanup.
- Spec section 5 also makes the caller responsible for running one run at a time per
  node.

## 2. Modules

| module | models | state | actions |
|---|---|---|---|
| `KeyspaceFilter` | the keyspace filter | none (operators) | `SearchStrings` (Go's bisection, as a recursive function), `Listed`, `SortStrings` (`sort.Strings`), `SavedKeyspaces`, `SnapshotKeyspaces`, `Selected` |
| `KeyspaceFilterMC` | bounded checks of the filter | an input: a list, a name and a configuration | `Pick` (a new input) |
| `CassandraBackup` | `CassandraPlugin.Backup`, `hardLinkKeyspace` and `hardLinkAll` | `pc`, `run`, `cfg`, `snap` (the shield-backup snapshot of each table directory, tagged with the run that took it), `staging`/`stagedKs`/`staged` (the staging tree), `todo` (the loop), `archive`, `deferred` (the defer stack), `outcome`, `failedCleanups` | one action per step (`Start` … `Tar`) with its success and failure disjuncts, one per deferred cleanup (`UnwindRmBase`, `UnwindClearSnapshot`), and `Crash` |
| `BackupContract` | what a backup run of either plugin promises its caller (spec 4.3, 4.6, 7) | `phase`, `run`, `cfg`, `archive`, `result` | `Begin`, `Reject` (a configuration error), `Stream` (only files the run must back up), `Finish` (nil only when all of them were streamed), `Kill` |
| `CassandraBackupMC` | three table directories in the keyspaces app, system and system_traces | | |
| `CassandraBackupProofs` | TLAPS proofs about `CassandraBackup` | | |
| `CassandraRestore` | `CassandraPlugin.Restore` and `restoreKeyspace` | `pc`, `run`, `cfg`, `input` (the archive), `staging`/`extracted`, `todo`, `loaded` (the tables sstableloader loaded in this run), `outcome`, `rmDeferred`, `failedCleanups` | one action per step (`Start` … `LoadDone`), `UnwindRmBase`, `Crash` |
| `CassandraRestoreMC` | two archives over app and system | | |
| `CassandraRestoreProofs` | TLAPS proofs about `CassandraRestore` | | |
| `XtraBackupRestore` | `XtraBackupPlugin.Restore` | `pc`, `run`, `mysqld` (running or stopped), `dirKind`/`dirOwner`/`files` (the datadir: what it is, its owner, its entries `[data, owner]`), `target`, `myuid` (the uid/gid captured at 327), `rmDeferred`, `ret` (the step that returned and its error) | `Start`, one action per step (`CheckMysql` … `RmTarget`) with its failure disjuncts, `UnwindRmTarget`, `Crash`, and `ToggleMysqld` (the operator starting or stopping mysqld between runs) |
| `XtraBackupRestoreProofs` | TLAPS proofs about `XtraBackupRestore` | | |
| `XtraBackupBackup` | `XtraBackupPlugin.Backup` | `pc`, `run`, `target`/`tfiles` (what is at the target path, and the run numbers of the files in it), `archive` (what the tar stream carried), `rmDeferred`, `ret` | `Start`, `ClearTarget`, `RunBackup`, `Tar`, `RmTarget`, `UnwindRmTarget`, `Crash` |
| `XtraBackupBackupProofs` | TLAPS proofs about `XtraBackupBackup` | | |

How the code corresponds to the model:

- **Steps are atomic.** Each external command and each filesystem call is one atomic step
  that succeeds or fails. A command that fails may have done part of its work, so failures
  are nondeterministic:
  - a nodetool that fails may have cleared or snapshotted any subset of the tables;
  - a tar that fails may have streamed or extracted any subset of the files;
  - a loop that fails may have linked or loaded any subset of its entries.
- **`Fail(s)`** is the `return err` of step `s`. It goes to `Unwind` when a defer is
  registered, and to `Idle` otherwise.
- **Defers.** The `Unwind*` actions pop the defers in LIFO order. The failure of a defer is
  only logged (recorded in `failedCleanups`), as in the code.
- **`Crash`** is the host killing the process. No defer runs.
- **Names are ranks.** Keyspace names are natural numbers that keep Go's byte order:
  app < system < system_auth < system_distributed < system_schema < system_traces.
  This makes the bisection over names the bisection over numbers.
- **Entries.** A table directory's snapshot files are one entry `[ks, table, src, gen]`.
  `gen` is the run that took the snapshot, so stale files show up in an archive.
- **Restore's filter.** Restore reads an undeclared `savedKeyspaces` (section 6). It is
  modelled as the value Backup computes from the same configuration.
- **xtrabackup returns.** `ret` records which step returned and whether its error was nil.
  This is what tells a nil return of a failed precondition from a completed restore.
  A datadir entry is `[data, owner]`: `data` is "old" (it was there before) or "backup"
  (--move-back wrote it), `owner` the uid/gid it has. --move-back runs as the plugin's
  user (`PluginUser`), so its files belong to that user until the chown walk. The wipe
  removes every entry: Go's `filepath.Glob` pattern `*` matches names with a leading
  dot too.

## 3. Runs

| run | cfg | checks | shows |
|---|---|---|---|
| `keyspace_filter_search` | `KeyspaceFilterMC.cfg` | `SearchStringsCorrect` | On every sorted list of at most 5 distinct names out of 6, bisection plus the equality test decides membership. This is the reference check of the recursive `SearchStrings`. |
| `keyspace_filter_defaults` | `KeyspaceFilterDefaults.cfg` | `SelectionMatchesSpec` (violation) | The default exclude list is unsorted, so the loop keeps `system` (and `system_auth`, `system_distributed`, `system_schema`). |
| `keyspace_filter_include` | `KeyspaceFilterInclude.cfg` | `SelectionMatchesSpec` | With an include list of up to two keyspaces, and no exclude list, the default one or an unsorted one, the loop keeps exactly the included keyspaces that are not excluded. The include path sorts the exclude list (303) before it bisects it, and the loop then bisects the sorted `savedKeyspaces`. |
| `cassandra_backup` | `CassandraBackupMC.cfg` | `ArchiveExact`, `NoLeakAtRest`, `ContractSpec` | A nil return streams exactly this run's snapshot files of the kept keyspaces, whatever earlier runs, crashes and failures left, with and without an include list. A run that returned leaves nothing behind that it had registered a cleanup for. The backup implements `BackupContract` (section 4). |
| `cassandra_backup_stale_staging` | `CassandraBackupStaleStaging.cfg` | `StagingAbsentAfterRun` (violation) | A crashed run's staging tree survives a later run that fails on its configuration or on the first clearsnapshot (spec section 8 says it must not). |
| `cassandra_restore` | `CassandraRestoreMC.cfg` | `RestoreLoadsExactly`, `StagingAbsentAtRest` | sstableloader only loads kept table directories of this run's archive, even after a crashed restore of another archive, and on success loads all of them. A returned run leaves no staging tree. |
| `xtrabackup_restore` | `XtraBackupRestoreMC.cfg` | `RestoredExactly`, `OwnerKept` | A restore that returns nil from its last step leaves exactly the backup's data in the datadir, all owned by the datadir's owner, after stale target dirs, crashes mid-wipe or mid-move-back, and failures at every step. No step changes the datadir's own owner. |
| `xtrabackup_restore_mysqld_running` | `XtraBackupRestoreMysqlRunning.cfg` | `NilMeansRestored` (violation) | With mysqld running, Restore returns nil having restored nothing. |
| `xtrabackup_restore_datadir_not_dir` | `XtraBackupRestoreNotADir.cfg` | `NilMeansRestored` (violation) | With a regular file at mysql_datadir, Restore returns nil having restored nothing. |
| `xtrabackup_backup` | `XtraBackupBackupMC.cfg` | `ArchiveOfThisRun`, `ContractSpec` | Once tar has streamed, the stream holds exactly this run's xtrabackup files, even when a crashed run left files (or a file) at the target path. The plugin implements `BackupContract` (section 4). |

Each property of a passing run has a mutant in `PROJECT.json`: a plausible bug in the
mapped code under which TLC finds the property violated. The mutants are:

- an off-by-one comparison in the bisection;
- an include path that bisects the exclude list without sorting it first;
- an `rm -rf` that leaves the stale tree in place (in backup and in restore);
- a clearsnapshot or MkdirAll without its defer;
- a chown walk that only chowns the datadir itself;
- an owner captured from the process instead of the datadir;
- a RemoveAll of the target dir that leaves its files (for `ArchiveOfThisRun` and for the
  xtrabackup refinement);
- for the cassandra backup refinement, an `rm -rf` that keeps the stale tree, under which
  a stale file is streamed.

**Bounds.**

- *Backup:* three table directories in three keyspaces, chosen so that the default
  exclude list drops one (system_traces) and misses one (system); three filter
  configurations (none, the defaults, and the include list system, app with the
  defaults, which snapshots and links two of the three keyspaces); three runs.
  - Three runs are enough for a crash, then a failed run, then a successful one. This is
    the shortest sequence where a stale snapshot or tree from an earlier run could reach
    an archive.
  - Failures and crashes are allowed at every step.
  - 33,109 distinct states.
- *Restore:* two archives that differ in their tables, three filters (one drops system,
  one includes only system), three runs: 2,037 distinct states.
- *Filter:* every list of up to 5 distinct names out of 6 for the bisection; for the
  include path, every include list of up to two of app, system and system_traces (in
  both orders) with three exclude lists, two of them unsorted, against every name.
- *xtrabackup restore:* two owners (mysql, and root, the plugin's user, so that a missed
  chown is visible), a datadir that starts as absent, a file or a directory with any
  subset of old files, a stale target dir or none, mysqld toggled between runs, three
  runs: 1,559 distinct states. The violation runs fix the datadir kind and mysqld state
  to the precondition at fault.
- *xtrabackup backup:* three runs, a stale file, directory or nothing at the target path:
  111 distinct states. Three runs allow a crash after --backup, then a run whose
  removal fails, then one that streams.

**Deadlock.** Deadlock is not checked in the pipeline runs. A plugin process stops after
its run, and the model stops after `MaxRuns` runs.

**Fairness and liveness.** No fairness is assumed and no liveness property is checked.
Every loop of the code is a `for ... range` over a listing read once (the keyspace
directories, the table directories, the defers), and every run is a fixed sequence of
steps, so a run that is not killed returns by the structure of the code: a liveness
property would hold by the shape of the model. What could keep a run from returning is
an external command that hangs, and that is outside the model (section 6).

## 4. Proofs

`CassandraBackupProofs` proves four theorems for every finite set of table directories,
every keyspace and name assignment, every set of configurations and every `MaxRuns`.
The assumptions used are `BackupAssumption` and `NilAssumption`.

- `TypeCorrect`: `Spec => []TypeOK`.
- `NoLeak`: `Spec => []NoLeakAtRest`.
- `ArchiveOfRun`: `Spec => []ArchiveExact`.
- `Refinement`: `Spec => ContractSpec`, that is, `CassandraBackup` implements
  `BackupContract`.

**Why NoLeak needs a strengthening.** `NoLeakAtRest` on its own is not inductive: it
speaks only of states at rest, while what makes it true is set up during the run.
The inductive invariant is
`IInv == TypeOK /\ DeferredAtStep /\ DeferredAtUnwind /\ NoLeakAtRest`, where:

- `DeferredAtStep` says which defers are registered at each step:
  - none before the first clearsnapshot returns;
  - `<<CS>>` (the deferred clearsnapshot) until MkdirAll succeeds;
  - `<<CS, RB>>` (RB is the deferred rm -rf) after it.
- `DeferredAtUnwind` says what a return has made true before the defers run:
  - only steps after the first clearsnapshot unwind;
  - a failed MkdirAll follows a successful rm -rf;
  - with only `CS` left after `RB` succeeded, the tree is gone.

TLC checks `IInv` as an invariant of the `cassandra_backup` instance.

**The argument.**

- `IInvInit` proves that `IInv` holds initially.
- `IInvStep` proves that every step keeps `IInv`, with one case per action. Each action
  that can fail splits into its success path and its `Fail` path.
- The `Fail` path is handled by the lemma `FailArmed`: once a defer is registered, a
  failing step goes to `Unwind` and keeps the stack.
- The lemma `StackFacts` collects the sequence facts about `<<CS>>` and `<<CS, RB>>`,
  via `SeqEqual`, `SubSeqProperties` and `AppendProperties` of `SequenceTheorems`.

**The archive invariant.** `ArchiveExact` speaks only of the state after a nil return.
Its strengthening `ArchiveInv` follows the run:

- a run in progress has a number, and has not returned yet;
- from the rm -rf on, every table directory of a kept keyspace holds this run's
  snapshot;
- the staging tree is empty from the rm -rf until the loop;
- in the loop, the tree holds this run's files of exactly the kept keyspaces already
  taken off `todo` (`LinkedTables`), and after it those of all kept keyspaces
  (`KeptTables`).

The second point rests on the lemma `KeptSnapshotted`: every keyspace the loop keeps is
one `nodetool snapshot` names. Without an include list the command names no keyspace,
that is all of them. With one, the loop keeps a directory only when the bisection finds
it in `savedKeyspaces`, and the lemma `ListedElem` shows that what the bisection finds is
an element of the list, which the command line names. The proof does not need the list
to be sorted, nor what `SortStrings` returns. `EntriesOfRun` and `LinkedGrows` give what
one `hardLinkKeyspace` adds. `ArchiveStep` proves `TypeOK /\ ArchiveInv /\ [Next]_vars =>
ArchiveInv'`, and TLC checks `ArchiveInv` on the `cassandra_backup` instance.

**The backup refinement.** The mapping is:

- `phase <- Phase`: "idle" at `Idle`, "busy" otherwise;
- `result <- Result`: "none" during a run, and the outcome after it, with every error
  mapped to "error";
- `Wanted <- RunFiles`: this run's snapshot files of the kept table directories;
- `run`, `cfg` and `archive` map to themselves.

`ContractStep` proves that every step maps to a contract step or a stutter:

- `Start` maps to `Begin` or `Reject`;
- `Tar` maps to `Stream`, by `ArchiveInv` at `Tar`;
- a failure maps to `Finish` when no defer is registered, and to a stutter otherwise
  (`FailMaps`);
- the last deferred cleanup maps to `Finish` and the others to stutters (`PopMaps`).
  `PopMaps` needs `DeferredAtUnwind`, so that an unwinding run has returned nil or an
  error, and `ArchiveExact`, so that nil has streamed everything;
- `Crash` maps to `Kill`.

`CassandraRestoreProofs` proves two theorems for every set of archives, every set of
filter configurations and every `MaxRuns`, from `RestoreAssumption`:

- `LoadsExactly`: `Spec => []RestoreLoadsExactly`.
- `NoStagingLeft`: `Spec => []StagingAbsentAtRest`.

**The restore invariant.** `IInv == TypeOK /\ RunInv`, where `RunInv` contains
`RestoreLoadsExactly` and says what each step may rely on:

- nothing is loaded before the load loop;
- nothing is extracted before `tar -x`, and the whole archive after it succeeds;
- the deferred rm -rf is registered from `MkdirAll` on, so every later failure unwinds;
- in the loop, `loaded` is exactly the kept table directories of the keyspaces already
  taken off `todo`;
- no step of a run has returned yet, and an unwinding run has returned an error or nil.

The loop conjunct is what makes `RestoreLoadsExactly` inductive: when `todo` is empty,
`loaded` is all of `SelectedPart(input, cfg)`. TLC checks `IInv` on the
`cassandra_restore` instance.

`NoStagingLeft: Spec => []StagingAbsentAtRest` rests on `StagingInv`, which adds one
conjunct: at `MkBase` the stale tree is already removed. A `MkdirAll` that fails returns
before its defer is registered, so nothing else would remove a tree it found. Every later
return unwinds through the deferred rm -rf, by `RunInv`. `StagingStep` proves that every
step keeps `StagingInv` given `IInv`, and TLC checks `StagingInv` on the
`cassandra_restore` instance.

`XtraBackupRestoreProofs` proves two theorems for every set of owners, every plugin user,
every set of datadir kinds and mysqld states and every `MaxRuns`, from
`XtraRestoreAssumption`:

- `Restores`: `Spec => []RestoredExactly`.
- `OwnerUnchanged`: `Spec => OwnerKept`.

`RestoredExactly` speaks only of the state after the last return, so it is strengthened
to `IInv == TypeOK /\ RunInv /\ RestoredExactly`. `RunInv` says what each step of a run
may rely on:

- no return has happened during the run yet, so a nil `ret` at `RmTarget` is this run's;
- from the datadir's `Lstat` on, the recorded uid is the datadir's owner;
- the datadir is empty from the wipe until --move-back;
- it holds the plugin user's moved-in files before the walk, and the owner's after it.

The last point needs the lemma `ChownRestored`: the walk maps the plugin user's files to
the recorded owner. `OwnerStep` derives the action property from `RunInv`: only the walk
sets the datadir's owner, and it sets it to `myuid`, which `RunInv` shows is that owner
already. TLC checks `IInv` on the `xtrabackup_restore` instance.

`XtraBackupBackupProofs` proves `BacksUpThisRun: Spec => []ArchiveOfThisRun` for every
`MaxRuns`. Its invariant is `IInv == TypeOK /\ RunInv /\ ArchiveOfThisRun`, where
`RunInv` says:

- a run in progress has a number (`run >= 1`);
- no step has returned yet;
- the deferred RemoveAll is registered from `RunBackup` on, so every later return
  unwinds;
- the target dir is empty after `ClearTarget` and holds exactly `{run}` after
  `RunBackup`;
- an unwinding run has returned from a step, and only the final `RemoveAll` returns nil.

Tar then streams `{run}`, and `ret` keeps it after the final return. TLC checks `IInv` on
the `xtrabackup_backup` instance.

`XtraBackupBackupProofs` also proves `Refinement: Spec => ContractSpec`: the xtrabackup
backup implements the same `BackupContract` as the cassandra backup. The mapping is:

- `Configs <- {"all"}` and `cfg <- "all"`, because Backup takes no filter;
- `Wanted <- ThisRun`, with `ThisRun(n, c) == {n}`, the files run `n`'s xtrabackup wrote;
- `result <- Result`: "none" during a run; otherwise "crash", "ok" for a nil return, or
  "error".

In `ContractStep`:

- `Start` maps to `Begin` or `Reject`;
- `Tar`, successful or not, maps to `Stream`, since it streams a part of `{run}`;
- a failing `ClearTarget` maps to `Finish` (no defer is registered yet);
- other returns map to stutters (`ReturnMaps`);
- the deferred RemoveAll maps to `Finish`. Nil then means the final RemoveAll returned
  nil, and by `ArchiveOfThisRun` the stream carried `{run}`;
- `Crash` maps to `Kill`.

No contract is stated for the xtrabackup restore. The one a caller relies on ("nil
means restored") is what findings 3 and 4 show the code breaks. What holds of the code is
proved as `Restores`, which speaks of a nil from the final step only.

**Only model-checked.** The following are checked by TLC and not proved:

- `NilMeansRestored` (a violation run);
- `SearchStringsCorrect`. It is about a recursive function over all lists, and
  induction over data is beyond the installed provers.
- `SelectionMatchesSpec` on the include path. It is about what `sort.Strings` and the
  bisection compute together, a statement over all lists that needs induction over data.

## 5. Findings

1. **Unsorted default exclude list** (`plugin.go:405`). `DefaultExcludeKeyspaces` is
   unsorted, and `ExcludeKeyspaces` is sorted only when an include list is given (303).
   Without an include list the bisection misses four of the five system keyspaces, and
   they are backed up and restored.
2. **Stale staging tree survives** (`plugin.go:339`). Removing a stale staging tree is the
   third step, after `cassandraInfo` and both nodetool calls. A run that fails before it
   leaves a crashed run's tree in place (spec section 8).
3. **Restore succeeds while mysqld runs** (`part_001:295`). When `ps | grep mysqld` finds
   mysqld, Restore logs and returns `err`, which is the nil of the successful pipeline.
   The caller sees a completed restore. Spec sections 4.7 and 8 say it fails with a
   precondition error.
4. **Restore succeeds when the datadir is not a directory** (`part_001:324`). It returns
   `err`, the nil of the `Lstat` before it. Spec section 7 calls this a precondition
   error.

The Go source also does not compile as written, and the models assume the evident
intent:

- `DefaultExcludeKeyspaces` is a `const` slice (98).
- The `append` at 310 discards its result, which Go rejects. It is modelled as
  `savedKeyspaces = append(savedKeyspaces, keyspace)`: with an include list,
  `savedKeyspaces` is the sorted list of the included keyspaces the exclude list does not
  name.
- Restore uses an undeclared `savedKeyspaces` (597, 604).

## 6. Not modelled, and the plan

**Not modelled, and why.**

- *s3 stub:* has no behaviour.
- *Validate and Meta:* they only print.
- *cassandraInfo:* it only looks up endpoint keys with defaults. The models cover its
  effect on a run: the configurations in `Configs`, and the configuration error of
  `Start`. That is why the configuration component is "partly".
- *xtrabackup endpoint configuration:* lookups only. Its one failure is `Start`'s
  configuration error.
- *Tooling:* not part of the plugins.
- *File contents, permissions and chown:* abstracted. Ownership in the cassandra backup is
  not observed by any property.
- *mysqld started within a restore run,* between the check at 292 and the wipe at 336.
  The model toggles mysqld only between runs, which is the serialization spec section 5
  asks of the caller.
- *What xtrabackup prints on stdout:* this depends on the tool, not on the source.

**Plan for the next sittings, in order:**

1. A node module that composes backup and restore on one node, sharing the staging tree
   and the snapshot. It covers crashes between runs of either kind and overlapping runs
   (spec section 5), and the round trip of an archive through restore with the same and
   with a different filter (spec section 9).
2. Table directories that appear and disappear during a backup, and table names that
   collide after normalization (hazards at 473 and 481).
3. More proofs: the type invariants of the remaining modules. `SearchStringsCorrect`
   stays with TLC (section 4).
