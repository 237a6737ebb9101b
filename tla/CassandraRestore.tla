-------------------------- MODULE CassandraRestore --------------------------
(***************************************************************************)
(* CassandraPlugin.Restore (src/plugin/cassandra/plugin.go 533-649): one  *)
(* process running restores one after the other, each reading an archive  *)
(* from stdin, extracting it into the staging tree                         *)
(* /var/vcap/store/shield/cassandra, and running sstableloader once per    *)
(* table directory of each keyspace the filter keeps, with the deferred    *)
(* removal of the staging tree on every return and a crash possible at any *)
(* step.                                                                   *)
(*                                                                         *)
(* An archive is a set of table directories [ks, table] (the tar stream    *)
(* Backup writes: {keyspace}/{normalized table}/files).  The keyspace loop *)
(* reads savedKeyspaces, which Restore never declares (the function does   *)
(* not compile as written); it is modelled as the value Backup computes    *)
(* from the same configuration, SavedKeyspaces(cfg), so that Restore keeps *)
(* a keyspace exactly when Backup would have linked it.                    *)
(***************************************************************************)
EXTENDS KeyspaceFilter

CONSTANTS
  Archives,  \* the archives a run may read from stdin
  Configs,   \* endpoint configurations [include, exclude] a run may get
  MaxRuns    \* the number of runs the model lets start

ASSUME RestoreAssumption ==
  /\ \A a \in Archives : \A d \in a : d.ks \in Nat
  /\ \A c \in Configs : c.exclude \in Seq(Nat)
  /\ MaxRuns \in Nat

VARIABLES
  pc,             \* the step the current run is at; "Idle" between runs
  run,            \* the number of runs started
  cfg,            \* the configuration of the current (last) run
  input,          \* the archive on stdin of the current run
  staging,        \* "present" or "absent": the staging root directory
  extracted,      \* table directories of the staging tree
  todo,           \* keyspace directories the loop has yet to visit
  loaded,         \* table directories sstableloader loaded in this run
  outcome,        \* "none", "ok", "crash", or the step that returned an error
  rmDeferred,     \* the deferred rm -rf of the staging tree is registered
  failedCleanups  \* {"rmbase"} when that deferred rm -rf failed

vars == <<pc, run, cfg, input, staging, extracted, todo, loaded, outcome,
          rmDeferred, failedCleanups>>

RB == "rmbase"

\* The keyspace directories of a staging tree.
KeyspacesOf(tree) == {d.ks : d \in tree}

\* The table directories of keyspace ks in the staging tree.
TablesOf(ks) == {d \in extracted : d.ks = ks}

\* The step returns the error of step s: the deferred removal runs next.
Fail(s) ==
  /\ outcome' = s
  /\ pc' = IF rmDeferred = {} THEN "Idle" ELSE "Unwind"

-----------------------------------------------------------------------------
Init ==
  /\ pc = "Idle"
  /\ run = 0
  /\ cfg \in Configs
  /\ input = {}
  /\ staging = "absent"
  /\ extracted = {}
  /\ todo = {}
  /\ loaded = {}
  /\ outcome = "none"
  /\ rmDeferred = {}
  /\ failedCleanups = {}

\* Restore is called with an endpoint and an archive on stdin;
\* cassandraInfo (534-537, 666-732) fails before any side effect on a
\* malformed value.
Start ==
  /\ pc = "Idle"
  /\ run < MaxRuns
  /\ run' = run + 1
  /\ cfg' \in Configs
  /\ input' \in Archives
  /\ loaded' = {}
  /\ rmDeferred' = {}
  /\ failedCleanups' = {}
  /\ \/ pc' = "RmStale" /\ outcome' = "none"
     \/ pc' = "Idle" /\ outcome' = "Config"
  /\ UNCHANGED <<staging, extracted, todo>>

\* A variant of RmStale whose rm -rf leaves the stale tree in place (the
\* bug RestoreLoadsExactly must catch).
RmStaleKeepsTree ==
  /\ pc = "RmStale"
  /\ \/ pc' = "MkBase" /\ UNCHANGED outcome
     \/ Fail("RmStale")
  /\ UNCHANGED <<run, cfg, input, staging, extracted, todo, loaded,
                 rmDeferred, failedCleanups>>

\* rm -rf of any stale staging tree (539-549).
RmStale ==
  /\ pc = "RmStale"
  /\ \/ /\ staging' = "absent" /\ extracted' = {}
        /\ pc' = "MkBase"
        /\ UNCHANGED outcome
     \/ /\ Fail("RmStale")
        /\ UNCHANGED <<staging, extracted>>
  /\ UNCHANGED <<run, cfg, input, todo, loaded, rmDeferred, failedCleanups>>

\* A variant of MkBase that registers no deferred removal (the bug
\* StagingAbsentAtRest must catch).
MkBaseNoDefer ==
  /\ pc = "MkBase"
  /\ \/ /\ staging' = "present"
        /\ pc' = "Extract"
        /\ UNCHANGED <<outcome, rmDeferred>>
     \/ /\ Fail("MkBase")
        /\ UNCHANGED <<staging, rmDeferred>>
  /\ UNCHANGED <<run, cfg, input, extracted, todo, loaded, failedCleanups>>

\* os.MkdirAll of the staging root (551-557), then the defer that removes
\* the staging tree (559-569).
MkBase ==
  /\ pc = "MkBase"
  /\ \/ /\ staging' = "present"
        /\ rmDeferred' = {RB}
        /\ pc' = "Extract"
        /\ UNCHANGED outcome
     \/ /\ Fail("MkBase")
        /\ UNCHANGED <<staging, rmDeferred>>
  /\ UNCHANGED <<run, cfg, input, extracted, todo, loaded, failedCleanups>>

\* tar -x -C staging -f - from stdin (571-578): a failing tar has
\* extracted part of the archive.
Extract ==
  /\ pc = "Extract"
  /\ \/ /\ extracted' = extracted \cup input
        /\ pc' = "OpenBase"
        /\ UNCHANGED outcome
     \/ /\ \E part \in SUBSET input : extracted' = extracted \cup part
        /\ Fail("Extract")
  /\ UNCHANGED <<run, cfg, input, staging, todo, loaded, rmDeferred,
                 failedCleanups>>

\* os.Open and Readdir of the staging root (580-591).
OpenBase ==
  /\ pc = "OpenBase"
  /\ \/ /\ todo' = KeyspacesOf(extracted)
        /\ pc' = "Load"
        /\ UNCHANGED outcome
     \/ /\ Fail("OpenBase")
        /\ UNCHANGED todo
  /\ UNCHANGED <<run, cfg, input, staging, extracted, loaded, rmDeferred,
                 failedCleanups>>

\* One keyspace directory of the loop (592-609) that the filter drops.
SkipKeyspace(ks) ==
  /\ pc = "Load"
  /\ ks \in todo
  /\ ~Selected(cfg, ks)
  /\ todo' = todo \ {ks}
  /\ UNCHANGED <<pc, run, cfg, input, staging, extracted, loaded, outcome,
                 rmDeferred, failedCleanups>>

\* restoreKeyspace (610-616, 623-649): sstableloader on every table
\* directory of ks; the first failing call (or a failing Open or Readdir)
\* returns its error, the tables loaded so far staying loaded.
LoadKeyspace(ks) ==
  /\ pc = "Load"
  /\ ks \in todo
  /\ Selected(cfg, ks)
  /\ todo' = todo \ {ks}
  /\ \/ /\ loaded' = loaded \cup TablesOf(ks)
        /\ UNCHANGED <<pc, outcome>>
     \/ /\ \E part \in SUBSET TablesOf(ks) : loaded' = loaded \cup part
        /\ Fail("Load")
  /\ UNCHANGED <<run, cfg, input, staging, extracted, rmDeferred,
                 failedCleanups>>

\* The loop is over: Restore returns nil (618-620) and the deferred
\* removal runs.
LoadDone ==
  /\ pc = "Load"
  /\ todo = {}
  /\ pc' = "Unwind"
  /\ outcome' = "ok"
  /\ UNCHANGED <<run, cfg, input, staging, extracted, todo, loaded,
                 rmDeferred, failedCleanups>>

\* Deferred rm -rf of the staging tree (559-569); its failure is only
\* logged.
UnwindRmBase ==
  /\ pc = "Unwind"
  /\ pc' = "Idle"
  /\ rmDeferred' = {}
  /\ \/ /\ staging' = "absent" /\ extracted' = {}
        /\ UNCHANGED failedCleanups
     \/ /\ failedCleanups' = {RB}
        /\ UNCHANGED <<staging, extracted>>
  /\ UNCHANGED <<run, cfg, input, todo, loaded, outcome>>

\* The host kills the plugin process: the deferred removal does not run.
Crash ==
  /\ pc # "Idle"
  /\ pc' = "Idle"
  /\ outcome' = "crash"
  /\ rmDeferred' = {}
  /\ UNCHANGED <<run, cfg, input, staging, extracted, todo, loaded,
                 failedCleanups>>

Next ==
  \/ Start \/ RmStale \/ MkBase \/ Extract \/ OpenBase \/ LoadDone
  \/ \E ks \in KeyspacesOf(UNION Archives) : SkipKeyspace(ks) \/ LoadKeyspace(ks)
  \/ UnwindRmBase
  \/ Crash

Spec == Init /\ [][Next]_vars

-----------------------------------------------------------------------------
Outcomes == {"none", "ok", "crash", "Config", "RmStale", "MkBase", "Extract",
             "OpenBase", "Load"}

TableDirs == UNION Archives

TypeOK ==
  /\ pc \in {"Idle", "RmStale", "MkBase", "Extract", "OpenBase", "Load", "Unwind"}
  /\ run \in 0..MaxRuns
  /\ cfg \in Configs
  /\ input \in Archives \cup {{}}
  /\ staging \in {"absent", "present"}
  /\ extracted \subseteq TableDirs
  /\ todo \subseteq KeyspacesOf(TableDirs)
  /\ loaded \subseteq TableDirs
  /\ outcome \in Outcomes
  /\ rmDeferred \subseteq {RB}
  /\ failedCleanups \subseteq {RB}

\* The table directories of the archive that the filter keeps.
SelectedPart(a, c) == {d \in a : Selected(c, d.ks)}

(***************************************************************************)
(* sstableloader only ever loads table directories of this run's archive  *)
(* in keyspaces the filter keeps, whatever step failed, and a restore that *)
(* returns nil loaded all of them: no table of a stale staging tree left   *)
(* by a crashed run (with another archive) is loaded, none is missed.     *)
(***************************************************************************)
RestoreLoadsExactly ==
  /\ loaded \subseteq SelectedPart(input, cfg)
  /\ outcome = "ok" => loaded = SelectedPart(input, cfg)

(***************************************************************************)
(* Between runs, when the last run returned (no crash) and its deferred   *)
(* rm -rf did not fail: no staging tree is left once the stale one was    *)
(* removed, whichever later step failed.                                   *)
(***************************************************************************)
StagingAbsentAtRest ==
  pc = "Idle" /\ failedCleanups = {}
    /\ outcome \in {"MkBase", "Extract", "OpenBase", "Load", "ok"}
    => staging = "absent"

(***************************************************************************)
(* What each step of a run may rely on: nothing is loaded before the      *)
(* loop, the staging tree is empty between the removal of the stale one   *)
(* and the extraction and holds exactly this run's archive after it, its  *)
(* removal is registered from the extraction on, the                      *)
(* loop has loaded exactly the kept table directories of the keyspaces it *)
(* has visited, and a return records a step.  With TypeOK it is the        *)
(* inductive invariant of the proof of RestoreLoadsExactly.               *)
(***************************************************************************)
RunInv ==
  /\ pc \in {"RmStale", "MkBase", "Extract", "OpenBase"} => loaded = {}
  /\ pc \in {"MkBase", "Extract"} => extracted = {}
  /\ pc \in {"OpenBase", "Load"} => extracted = input
  /\ pc \in {"Extract", "OpenBase", "Load"} => rmDeferred = {RB}
  /\ pc = "Load" =>
       loaded = {d \in input : Selected(cfg, d.ks) /\ d.ks \notin todo}
  /\ pc \in {"RmStale", "MkBase", "Extract", "OpenBase", "Load"} => outcome = "none"
  /\ pc = "Unwind" => outcome \notin {"none", "crash", "Config"}
  /\ RestoreLoadsExactly

IInv == TypeOK /\ RunInv

(***************************************************************************)
(* The strengthening of StagingAbsentAtRest: when MkdirAll runs, the rm -rf *)
(* before it has removed the stale tree, so a MkdirAll that fails, and     *)
(* returns before the defer is registered, leaves none.  Every later      *)
(* return goes through the deferred removal.                              *)
(***************************************************************************)
StagingInv ==
  /\ pc = "MkBase" => staging = "absent"
  /\ StagingAbsentAtRest

=============================================================================
