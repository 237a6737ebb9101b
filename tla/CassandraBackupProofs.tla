------------------------ MODULE CassandraBackupProofs ------------------------
(***************************************************************************)
(* Proofs about the backup pipeline of CassandraBackup, for every set of   *)
(* table directories, every filter configuration and every bound on runs: *)
(* type correctness, and that a run which returns with its cleanups        *)
(* succeeding leaves no snapshot and no staging tree behind once it has    *)
(* registered their removal (NoLeakAtRest).                                *)
(***************************************************************************)
EXTENDS CassandraBackup, SequenceTheorems, TLAPS

USE BackupAssumption

\* The files hardLinkKeyspace links are files of the staging tree's type.
LEMMA KeyspaceEntriesType ==
  ASSUME TypeOK, NEW ks
  PROVE  KeyspaceEntries(ks) \subseteq AllEntries
BY DEF TypeOK, KeyspaceEntries, AllEntries

\* Removing the snapshot of any set of tables keeps snap a run map.
LEMMA ClearedInType ==
  ASSUME TypeOK, NEW S
  PROVE  ClearedIn(S) \in [Tables -> 0..MaxRuns]
BY DEF TypeOK, ClearedIn

\* A value equal to one of two members of T is a member of T.  (The SMT
\* backend does not split a disjunction of equalities between sequences.)
LEMMA EitherIn ==
  ASSUME NEW T, NEW a \in T, NEW b \in T, NEW e, e = a \/ e = b
  PROVE  e \in T
<1>1. CASE e = a BY <1>1
<1>2. CASE e = b BY <1>2
<1>3. QED BY <1>1, <1>2

\* The deferred-cleanup stack after registering or running a defer.
LEMMA DeferredType ==
  ASSUME NEW d \in Seq({CS, RB})
  PROVE  /\ <<CS>> \in Seq({CS, RB})
         /\ Append(d, RB) \in Seq({CS, RB})
         /\ SubSeq(d, 1, Len(d) - 1) \in Seq({CS, RB})
BY DEF CS, RB

\* The two stacks of deferred cleanups a run registers, and what popping
\* their last entry leaves.
LEMMA StackFacts ==
  /\ <<CS>> # << >> /\ <<CS, RB>> # << >> /\ <<CS>> # <<CS, RB>>
  /\ Len(<<CS>>) = 1 /\ Len(<<CS, RB>>) = 2
  /\ <<CS>>[1] = CS /\ <<CS, RB>>[2] = RB /\ CS # RB
  /\ SubSeq(<<CS, RB>>, 1, 1) = <<CS>> /\ SubSeq(<<CS>>, 1, 0) = << >>
  /\ Append(<<CS>>, RB) = <<CS, RB>>
<1>1. <<CS>> # << >> BY DEF CS
<1>2. <<CS, RB>> # << >> BY DEF CS, RB
<1>3. <<CS>> # <<CS, RB>> BY DEF CS, RB
<1>4. Len(<<CS>>) = 1 /\ Len(<<CS, RB>>) = 2 BY DEF CS, RB
<1>5. <<CS>>[1] = CS /\ <<CS, RB>>[2] = RB /\ CS # RB BY DEF CS, RB
<1>6. SubSeq(<<CS, RB>>, 1, 1) = <<CS>>
  <2>1. SubSeq(<<CS, RB>>, 1, 1) \in Seq({CS, RB})
        /\ Len(SubSeq(<<CS, RB>>, 1, 1)) = 1
        /\ SubSeq(<<CS, RB>>, 1, 1)[1] = CS
    BY SubSeqProperties DEF CS, RB
  <2>2. <<CS>> \in Seq({CS, RB}) BY DEF CS, RB
  <2>3. \A i \in 1..Len(SubSeq(<<CS, RB>>, 1, 1)) :
          SubSeq(<<CS, RB>>, 1, 1)[i] = <<CS>>[i]
    BY <2>1, <1>5
  <2>4. QED BY <2>1, <2>2, <2>3, <1>4, SeqEqual, Zenon
<1>7. SubSeq(<<CS>>, 1, 0) = << >> BY DEF CS
<1>8. Append(<<CS>>, RB) = <<CS, RB>>
  <2>1. Append(<<CS>>, RB) \in Seq({CS, RB})
        /\ Len(Append(<<CS>>, RB)) = 2
        /\ Append(<<CS>>, RB)[1] = CS /\ Append(<<CS>>, RB)[2] = RB
    BY AppendProperties DEF CS, RB
  <2>2. <<CS, RB>> \in Seq({CS, RB}) BY DEF CS, RB
  <2>3. \A i \in 1..Len(Append(<<CS>>, RB)) :
          Append(<<CS>>, RB)[i] = <<CS, RB>>[i]
    BY <2>1
  <2>4. QED BY <2>1, <2>2, <2>3, <1>4, SeqEqual, Zenon
<1>9. QED BY <1>1, <1>2, <1>3, <1>4, <1>5, <1>6, <1>7, <1>8

\* A step that fails once the first defer is registered hands over to the
\* deferred cleanups.
LEMMA FailArmed ==
  ASSUME NEW s, deferred \in {<<CS>>, <<CS, RB>>}, Fail(s)
  PROVE  pc' = "Unwind" /\ outcome' = s /\ deferred' = deferred
<1>1. deferred # << >>
  <2>1. CASE deferred = <<CS>> BY <2>1, StackFacts
  <2>2. CASE deferred = <<CS, RB>> BY <2>2, StackFacts
  <2>3. QED BY <2>1, <2>2
<1>2. QED BY <1>1 DEF Fail

-----------------------------------------------------------------------------
\* Each action keeps every variable in its type.
LEMMA TypeOKStep == TypeOK /\ [Next]_vars => TypeOK'
  <2> SUFFICES ASSUME TypeOK, [Next]_vars PROVE TypeOK'
    OBVIOUS
  <2> USE DEF TypeOK, Outcomes, Steps, Fail, CS, RB
  <2>1. CASE Start
    <3>1. pc' \in {"Idle", "ClearStale"} /\ outcome' \in {"none", "Config"}
      BY <2>1, Zenon DEF Start
    <3>2. QED
      BY <2>1, <3>1 DEF Start
  <2>2. CASE ClearStale
    <3>1. deferred' = <<CS>> \/ deferred' = deferred
      BY <2>2, Zenon DEF ClearStale
    <3>2. deferred' \in Seq({CS, RB})
      BY <3>1, DeferredType, EitherIn
    <3>3. snap' \in [Tables -> 0..MaxRuns]
      BY <2>2, ClearedInType DEF ClearStale
    <3>4. QED
      BY <2>2, <3>2, <3>3 DEF ClearStale
  <2>3. CASE CreateSnapshot
    BY <2>3 DEF CreateSnapshot
  <2>4. CASE RmStale
    BY <2>4 DEF RmStale
  <2>5. CASE MkBase
    <3>1. deferred' = Append(deferred, RB) \/ deferred' = deferred
      BY <2>5, Zenon DEF MkBase
    <3>2. deferred' \in Seq({CS, RB})
      BY <3>1, DeferredType, EitherIn
    <3>3. QED
      BY <2>5, <3>2 DEF MkBase
  <2>6. CASE OpenDataDir
    BY <2>6 DEF OpenDataDir
  <2>7. CASE LinkDone
    BY <2>7 DEF LinkDone
  <2>8. CASE Chown
    BY <2>8 DEF Chown
  <2>9. CASE Tar
    BY <2>9 DEF Tar
  <2>10. ASSUME NEW ks \in KeyspaceDirs, SkipKeyspace(ks)
         PROVE  TypeOK'
    BY <2>10 DEF SkipKeyspace
  <2>11. ASSUME NEW ks \in KeyspaceDirs, LinkKeyspace(ks)
         PROVE  TypeOK'
    <3>1. KeyspaceEntries(ks) \subseteq AllEntries
      BY KeyspaceEntriesType
    <3>2. QED
      BY <2>11, <3>1 DEF LinkKeyspace
  <2>12. CASE UnwindRmBase
    <3>1. deferred' \in Seq({CS, RB})
      BY <2>12, DeferredType DEF UnwindRmBase, PopDeferred
    <3>2. failedCleanups' = failedCleanups \/ failedCleanups' = failedCleanups \cup {RB}
      BY <2>12, Zenon DEF UnwindRmBase
    <3>3. failedCleanups' \subseteq {CS, RB}
      BY <3>2, EitherIn
    <3>4. QED
      BY <2>12, <3>1, <3>3 DEF UnwindRmBase, PopDeferred
  <2>13. CASE UnwindClearSnapshot
    <3>1. deferred' \in Seq({CS, RB})
      BY <2>13, DeferredType DEF UnwindClearSnapshot, PopDeferred
    <3>2. failedCleanups' = failedCleanups \/ failedCleanups' = failedCleanups \cup {CS}
      BY <2>13, Zenon DEF UnwindClearSnapshot
    <3>3. failedCleanups' \subseteq {CS, RB}
      BY <3>2, EitherIn
    <3>4. snap' \in [Tables -> 0..MaxRuns]
      BY <2>13, ClearedInType DEF UnwindClearSnapshot
    <3>5. QED
      BY <2>13, <3>1, <3>3, <3>4 DEF UnwindClearSnapshot, PopDeferred
  <2>14. CASE Crash
    BY <2>14 DEF Crash
  <2>15. CASE UNCHANGED vars
    BY <2>15 DEF vars
  <2>16. QED
    BY <2>1, <2>2, <2>3, <2>4, <2>5, <2>6, <2>7, <2>8, <2>9, <2>10, <2>11,
       <2>12, <2>13, <2>14, <2>15 DEF Next

\* Type correctness of the backup pipeline.
THEOREM TypeCorrect == Spec => []TypeOK
<1>1. Init => TypeOK
  BY DEF Init, TypeOK, Outcomes, CS, RB
<1>2. QED
  BY <1>1, TypeOKStep, PTL DEF Spec

-----------------------------------------------------------------------------
\* The strengthening holds initially.
LEMMA IInvInit == Init => IInv
BY DEF Init, IInv, TypeOK, Outcomes, CS, RB, DeferredAtStep, DeferredAtUnwind,
       NoLeakAtRest

\* Every action keeps the strengthening.
LEMMA IInvStep == IInv /\ [Next]_vars => IInv'
<1> SUFFICES ASSUME TypeOK, DeferredAtStep, DeferredAtUnwind, NoLeakAtRest,
                    [Next]_vars
             PROVE  DeferredAtStep' /\ DeferredAtUnwind' /\ NoLeakAtRest'
  BY TypeOKStep DEF IInv
<1> USE DEF DeferredAtStep, DeferredAtUnwind, NoLeakAtRest, SnapshotArmed,
            StagingCleared, Steps
<1>1. CASE Start
  BY <1>1 DEF Start, Fail
<1>2. CASE ClearStale
  BY <1>2, StackFacts DEF ClearStale, Fail
<1>3. CASE CreateSnapshot
  <2>1. deferred = <<CS>> BY <1>3 DEF CreateSnapshot
  <2>2. \/ pc' = "RmStale" /\ deferred' = deferred /\ outcome' = outcome
        \/ Fail("CreateSnapshot")
    BY <1>3, Zenon DEF CreateSnapshot
  <2>3. UNCHANGED <<staging, failedCleanups>> BY <1>3 DEF CreateSnapshot
  <2>4. CASE Fail("CreateSnapshot")
    BY <2>1, <2>3, <2>4, FailArmed
  <2>5. QED BY <2>1, <2>2, <2>3, <2>4
<1>4. CASE RmStale
  <2>1. deferred = <<CS>> BY <1>4 DEF RmStale
  <2>2. CASE pc' = "MkBase" /\ deferred' = deferred /\ staging' = "absent"
    BY <2>1, <2>2
  <2>3. CASE Fail("RmStale") /\ UNCHANGED <<staging, failedCleanups>>
    BY <2>1, <2>3, FailArmed
  <2>4. QED BY <1>4, <2>2, <2>3, Zenon DEF RmStale
<1>5. CASE MkBase
  <2>1. deferred = <<CS>> /\ staging = "absent" BY <1>5 DEF MkBase
  <2>2. CASE pc' = "OpenDataDir" /\ deferred' = Append(deferred, RB)
    BY <2>1, <2>2, StackFacts
  <2>3. CASE Fail("MkBase") /\ UNCHANGED <<staging, failedCleanups>>
    BY <2>1, <2>3, FailArmed
  <2>4. QED BY <1>5, <2>2, <2>3, Zenon DEF MkBase
<1>6. CASE OpenDataDir
  <2>1. deferred = <<CS, RB>> BY <1>6 DEF OpenDataDir
  <2>2. CASE pc' = "Link" /\ deferred' = deferred BY <2>1, <2>2
  <2>3. CASE Fail("OpenDataDir") BY <2>1, <2>3, FailArmed, StackFacts
  <2>4. QED BY <1>6, <2>2, <2>3, Zenon DEF OpenDataDir
<1>7. CASE LinkDone
  BY <1>7 DEF LinkDone
<1>8. CASE Chown
  <2>1. deferred = <<CS, RB>> BY <1>8 DEF Chown
  <2>2. CASE pc' = "Tar" /\ deferred' = deferred BY <2>1, <2>2
  <2>3. CASE Fail("Chown")
    <3>1. pc' = "Unwind" /\ outcome' = "Chown" /\ deferred' = <<CS, RB>>
      BY <2>1, <2>3, FailArmed
    <3>2. QED BY <3>1, StackFacts
  <2>4. QED BY <1>8, <2>2, <2>3, Zenon DEF Chown
<1>9. CASE Tar
  <2>1. deferred = <<CS, RB>> /\ deferred' = deferred BY <1>9 DEF Tar
  <2>2. CASE pc' = "Unwind" /\ outcome' = "ok" BY <2>1, <2>2, StackFacts
  <2>3. CASE Fail("Tar") BY <2>1, <2>3, FailArmed, StackFacts
  <2>4. QED BY <1>9, <2>2, <2>3, Zenon DEF Tar
<1>10. ASSUME NEW ks \in KeyspaceDirs, SkipKeyspace(ks)
       PROVE  DeferredAtStep' /\ DeferredAtUnwind' /\ NoLeakAtRest'
  BY <1>10 DEF SkipKeyspace
<1>11. ASSUME NEW ks \in KeyspaceDirs, LinkKeyspace(ks)
       PROVE  DeferredAtStep' /\ DeferredAtUnwind' /\ NoLeakAtRest'
  <2>1. deferred = <<CS, RB>> /\ deferred' = deferred BY <1>11 DEF LinkKeyspace
  <2>2. CASE pc' = pc BY <1>11, <2>1, <2>2 DEF LinkKeyspace
  <2>3. CASE Fail("Link") BY <2>1, <2>3, FailArmed, StackFacts
  <2>4. QED BY <1>11, <2>2, <2>3, Zenon DEF LinkKeyspace
<1>12. CASE UnwindRmBase
  <2>1. pc = "Unwind" /\ deferred = <<CS, RB>>
    BY <1>12, StackFacts DEF UnwindRmBase
  <2>2. deferred' = <<CS>> /\ pc' = "Unwind"
    BY <1>12, <2>1, StackFacts DEF UnwindRmBase, PopDeferred
  <2>3. UNCHANGED outcome BY <1>12 DEF UnwindRmBase
  <2>4. CASE staging' = "absent" /\ failedCleanups' = failedCleanups
    BY <2>1, <2>2, <2>3, <2>4, StackFacts
  <2>5. CASE failedCleanups' = failedCleanups \cup {RB} /\ staging' = staging
    BY <2>1, <2>2, <2>3, <2>5, StackFacts
  <2>6. QED BY <1>12, <2>4, <2>5, Zenon DEF UnwindRmBase
<1>13. CASE UnwindClearSnapshot
  <2>1. pc = "Unwind" /\ deferred = <<CS>>
    BY <1>13, StackFacts DEF UnwindClearSnapshot
  <2>2. deferred' = << >> /\ pc' = "Idle"
    BY <1>13, <2>1, StackFacts DEF UnwindClearSnapshot, PopDeferred
  <2>3. UNCHANGED <<outcome, staging>> BY <1>13 DEF UnwindClearSnapshot
  <2>4. CASE snap' = ClearedIn(Tables) /\ failedCleanups' = failedCleanups
    BY <2>1, <2>2, <2>3, <2>4 DEF ClearedIn
  <2>5. CASE failedCleanups' = failedCleanups \cup {CS}
    BY <2>1, <2>2, <2>3, <2>5
  <2>6. QED BY <1>13, <2>4, <2>5, Zenon DEF UnwindClearSnapshot
<1>14. CASE Crash
  BY <1>14 DEF Crash
<1>15. CASE UNCHANGED vars
  BY <1>15 DEF vars
<1>16. QED
  BY <1>1, <1>2, <1>3, <1>4, <1>5, <1>6, <1>7, <1>8, <1>9, <1>10, <1>11,
     <1>12, <1>13, <1>14, <1>15 DEF Next

(***************************************************************************)
(* NoLeakAtRest for every configuration: a run that got past its first     *)
(* clearsnapshot and whose deferred cleanups succeeded leaves no snapshot, *)
(* and one that got past the removal of the stale tree leaves no staging   *)
(* tree, whatever earlier runs and crashes left.                           *)
(***************************************************************************)
THEOREM NoLeak == Spec => []NoLeakAtRest
<1>1. IInv => NoLeakAtRest
  BY DEF IInv
<1>2. QED
  BY <1>1, IInvInit, IInvStep, PTL DEF Spec


\* A name the bisection finds in a list is an element of the list.
LEMMA ListedElem ==
  ASSUME NEW a, NEW x, Listed(a, x)
  PROVE  x \in Elems(a) /\ a # << >>
<1>1. PICK idx \in 0..Len(a) - 1 : a[idx + 1] = x BY DEF Listed
<1>2. Len(a) >= 1 BY <1>1
<1>3. QED BY <1>1, <1>2 DEF Elems

\* nodetool snapshot names every keyspace the linking loop keeps: with an
\* include list the loop keeps only names of savedKeyspaces, which the
\* command line lists; without one it names no keyspace, that is all.
LEMMA KeptSnapshotted ==
  ASSUME NEW ks \in KeyspaceDirs, Selected(cfg, ks)
  PROVE  ks \in SnapshotKeyspaces(cfg, KeyspaceDirs)
<1> DEFINE saved == SavedKeyspaces(cfg)
<1>1. CASE saved = Nil BY <1>1 DEF SnapshotKeyspaces
<1>2. CASE saved # Nil
  <2>1. Listed(saved, ks) BY <1>2 DEF Selected
  <2>2. ks \in Elems(saved) /\ saved # << >> BY <2>1, ListedElem
  <2>3. QED BY <1>2, <2>2 DEF SnapshotKeyspaces
<1>3. QED BY <1>1, <1>2

\* The tables nodetool snapshot targets include every kept table.
LEMMA KeptTargeted == KeptTables \subseteq SnapshotTargets
BY KeptSnapshotted DEF KeptTables, SnapshotTargets, KeyspaceDirs

\* A failing step records itself and leaves the run's steps.
LEMMA FailOut ==
  ASSUME NEW s, Fail(s)
  PROVE  outcome' = s /\ pc' \in {"Idle", "Unwind"}
BY DEF Fail

\* Once every kept table holds this run's snapshot, hardLinkKeyspace links
\* this run's files of every table directory of a kept keyspace.
LEMMA EntriesOfRun ==
  ASSUME TypeOK, run >= 1, \A t \in KeptTables : snap[t] = run,
         NEW ks, Selected(cfg, ks)
  PROVE  KeyspaceEntries(ks) = {Entry(t, run) : t \in {u \in Tables : KsOf[u] = ks}}
BY DEF KeyspaceEntries, KeptTables

\* Linking a kept keyspace adds its table directories to those linked.
LEMMA LinkedGrows ==
  ASSUME NEW ks, Selected(cfg, ks), NEW T, T = todo \ {ks}
  PROVE  {u \in KeptTables : KsOf[u] \notin T}
           = LinkedTables \cup {u \in Tables : KsOf[u] = ks}
BY DEF KeptTables, LinkedTables

\* The kept tables depend on the filter configuration alone.
LEMMA KeptUnchanged ==
  ASSUME cfg' = cfg
  PROVE  KeptTables' = KeptTables
BY DEF KeptTables

\* Init establishes ArchiveInv.
LEMMA ArchiveInit == Init => ArchiveInv
BY DEF Init, ArchiveInv, ArchiveExact, Steps

\* Every step keeps ArchiveInv, given the type invariant.
LEMMA ArchiveStep == TypeOK /\ ArchiveInv /\ [Next]_vars => ArchiveInv'
<1> SUFFICES ASSUME TypeOK, ArchiveInv, [Next]_vars PROVE ArchiveInv'
  OBVIOUS
<1> USE DEF ArchiveInv, ArchiveExact, Steps
<1>1. CASE Start BY <1>1 DEF Start, TypeOK
<1>2. CASE ClearStale
  <2>1. pc = "ClearStale" /\ outcome = "none" /\ UNCHANGED <<run, cfg, archive>>
    BY <1>2 DEF ClearStale
  <2>2. CASE pc' = "CreateSnapshot" /\ UNCHANGED outcome BY <2>1, <2>2
  <2>3. CASE Fail("ClearStale")
    <3>1. outcome' = "ClearStale" /\ pc' \in {"Idle", "Unwind"} BY <2>3, FailOut
    <3>2. QED BY <2>1, <3>1
  <2>4. QED BY <1>2, <2>2, <2>3 DEF ClearStale
<1>3. CASE CreateSnapshot
  <2>1. PICK made \in SUBSET SnapshotTargets :
          /\ snap' = [t \in Tables |-> IF t \in made THEN run ELSE snap[t]]
          /\ \/ made = SnapshotTargets /\ pc' = "RmStale" /\ UNCHANGED <<outcome, deferred>>
             \/ Fail("CreateSnapshot")
    BY <1>3 DEF CreateSnapshot
  <2>2. CASE made = SnapshotTargets /\ pc' = "RmStale" /\ UNCHANGED outcome
    <3>0. KeptTables \subseteq made /\ KeptTables \subseteq Tables
      BY <2>2, KeptTargeted DEF KeptTables
    <3>1. \A t \in KeptTables : snap'[t] = run BY <2>1, <3>0
    <3>2. KeptTables' = KeptTables BY <1>3, KeptUnchanged DEF CreateSnapshot
    <3>3. QED BY <1>3, <2>2, <3>1, <3>2 DEF CreateSnapshot
  <2>3. CASE Fail("CreateSnapshot") BY <1>3, <2>3, FailOut DEF CreateSnapshot
  <2>4. QED BY <2>1, <2>2, <2>3
<1>4. CASE RmStale
  <2>1. CASE Fail("RmStale")
    <3>1. outcome' = "RmStale" /\ pc' \in {"Idle", "Unwind"} BY <2>1, FailOut
    <3>2. QED BY <1>4, <3>1 DEF RmStale
  <2>2. CASE ~Fail("RmStale") BY <1>4, <2>2, KeptUnchanged DEF RmStale
  <2>3. QED BY <2>1, <2>2
<1>5. CASE MkBase
  <2>1. CASE Fail("MkBase")
    <3>1. outcome' = "MkBase" /\ pc' \in {"Idle", "Unwind"} BY <2>1, FailOut
    <3>2. QED BY <1>5, <3>1 DEF MkBase
  <2>2. CASE ~Fail("MkBase") BY <1>5, <2>2, KeptUnchanged DEF MkBase
  <2>3. QED BY <2>1, <2>2
<1>6. CASE OpenDataDir
  <2>1. CASE todo' = KeyspaceDirs /\ pc' = "Link" /\ UNCHANGED <<outcome, deferred>>
    <3>1. LinkedTables' = {} BY <2>1, <1>6 DEF LinkedTables, KeptTables, KeyspaceDirs
    <3>2. QED BY <1>6, <2>1, <3>1, KeptUnchanged DEF OpenDataDir
  <2>2. CASE Fail("OpenDataDir") BY <1>6, <2>2, FailOut DEF OpenDataDir
  <2>3. QED BY <1>6, <2>1, <2>2 DEF OpenDataDir
<1>7. CASE \E ks \in KeyspaceDirs : SkipKeyspace(ks)
  <2>1. PICK ks \in KeyspaceDirs : SkipKeyspace(ks) BY <1>7
  <2>2. LinkedTables' = LinkedTables BY <2>1 DEF SkipKeyspace, LinkedTables, KeptTables
  <2>3. QED BY <2>1, <2>2, KeptUnchanged DEF SkipKeyspace
<1>8. CASE \E ks \in KeyspaceDirs : LinkKeyspace(ks)
  <2>1. PICK ks \in KeyspaceDirs : LinkKeyspace(ks) BY <1>8
  <2>2. pc = "Link" /\ Selected(cfg, ks) /\ todo' = todo \ {ks}
        /\ UNCHANGED <<run, cfg, snap, archive>>
    BY <2>1 DEF LinkKeyspace
  <2>3. CASE staged' = staged \cup KeyspaceEntries(ks) /\ UNCHANGED <<pc, outcome>>
    <3>1. KeyspaceEntries(ks) = {Entry(t, run) : t \in {u \in Tables : KsOf[u] = ks}}
      <4>1. run >= 1 /\ \A t \in KeptTables : snap[t] = run BY <2>2
      <4>2. QED BY <2>2, <4>1, EntriesOfRun
    <3>2. LinkedTables' = LinkedTables \cup {u \in Tables : KsOf[u] = ks}
      BY <2>2, LinkedGrows DEF LinkedTables, KeptTables
    <3>3. staged' = {Entry(t, run) : t \in LinkedTables'}
      BY <2>2, <2>3, <3>1, <3>2
    <3>4. QED BY <2>2, <2>3, <3>3, KeptUnchanged
  <2>4. CASE Fail("Link") BY <2>2, <2>4, FailOut
  <2>5. QED BY <2>1, <2>3, <2>4 DEF LinkKeyspace
<1>9. CASE LinkDone
  <2>1. LinkedTables = KeptTables BY <1>9 DEF LinkDone, LinkedTables
  <2>2. QED BY <1>9, <2>1 DEF LinkDone, KeptTables
<1>10. CASE Chown BY <1>10, FailOut DEF Chown, KeptTables
<1>11. CASE Tar BY <1>11, FailOut DEF Tar, KeptTables
<1>12. CASE UnwindRmBase BY <1>12 DEF UnwindRmBase, PopDeferred
<1>13. CASE UnwindClearSnapshot BY <1>13 DEF UnwindClearSnapshot, PopDeferred
<1>14. CASE Crash BY <1>14 DEF Crash
<1>15. CASE UNCHANGED vars BY <1>15 DEF vars, KeptTables, LinkedTables
<1>16. QED BY <1>1, <1>2, <1>3, <1>4, <1>5, <1>6, <1>7, <1>8, <1>9, <1>10,
              <1>11, <1>12, <1>13, <1>14, <1>15 DEF Next

(***************************************************************************)
(* CassandraPlugin.Backup, for every set of table directories, filter      *)
(* configuration and bound on runs: a backup that returns nil streamed     *)
(* exactly this run's snapshot files of the kept keyspaces, whatever a     *)
(* crashed or failed run left in the snapshot or the staging tree.         *)
(***************************************************************************)
THEOREM ArchiveOfRun == Spec => []ArchiveExact
<1>1. TypeOK /\ ArchiveInv => ArchiveExact BY DEF ArchiveInv
<1>2. TypeOK /\ ArchiveInv /\ [Next]_vars => TypeOK' /\ ArchiveInv'
  BY TypeOKStep, ArchiveStep
<1>3. Init => TypeOK /\ ArchiveInv BY ArchiveInit DEF Init, TypeOK, Outcomes, CS, RB
<1>4. QED BY <1>1, <1>2, <1>3, PTL DEF Spec


\* The initial state maps to an initial state of the contract.
LEMMA ContractInit == Init => Contract!Init
BY DEF Init, Contract!Init, Phase, Result

\* A step that stays within the run and leaves the stream alone is a
\* stutter of the contract.
LEMMA InRunMaps ==
  ASSUME pc # "Idle", pc' # "Idle", UNCHANGED <<run, cfg, archive>>
  PROVE  UNCHANGED Contract!vars
BY DEF Contract!vars, Phase, Result

\* A step of the run that fails is the contract's Finish with an error
\* when no defer is registered, and a stutter when one is.
LEMMA FailMaps ==
  ASSUME NEW st, st \notin {"none", "ok", "crash"}, pc # "Idle", Fail(st),
         UNCHANGED <<run, cfg, archive>>
  PROVE  [Contract!Next]_Contract!vars
<1>1. CASE deferred = << >>
  <2>1. pc' = "Idle" /\ outcome' = st BY <1>1 DEF Fail
  <2>2. Contract!Finish BY <2>1 DEF Contract!Finish, Phase, Result
  <2>3. QED BY <2>2 DEF Contract!Next
<1>2. CASE deferred # << >>
  <2>1. pc' = "Unwind" BY <1>2 DEF Fail
  <2>2. QED BY <2>1, InRunMaps
<1>3. QED BY <1>1, <1>2

\* Popping a deferred cleanup ends the run, as the contract's Finish, when
\* it was the last one, and is a stutter otherwise.
LEMMA PopMaps ==
  ASSUME IInv, ArchiveInv, pc = "Unwind", PopDeferred,
         UNCHANGED <<run, cfg, archive, outcome>>
  PROVE  [Contract!Next]_Contract!vars
<1>1. deferred \in {<<CS>>, <<CS, RB>>} /\ outcome \in SnapshotArmed
  BY DEF IInv, DeferredAtUnwind
<1>2. CASE Len(deferred) = 1
  <2>1. pc' = "Idle" BY <1>2 DEF PopDeferred
  <2>2. outcome \notin {"none", "crash", "Config"}
    BY <1>1 DEF SnapshotArmed, Steps
  <2>3. outcome = "ok" => archive = RunFiles(run, cfg)
    BY DEF ArchiveInv, ArchiveExact, RunFiles
  <2>4. Contract!Finish BY <2>1, <2>2, <2>3 DEF Contract!Finish, Phase, Result
  <2>5. QED BY <2>4 DEF Contract!Next
<1>3. CASE Len(deferred) # 1
  <2>1. pc' = "Unwind" BY <1>3 DEF PopDeferred
  <2>2. QED BY <2>1, InRunMaps
<1>4. QED BY <1>2, <1>3

\* Every step maps to a step of the contract or to a stutter.
LEMMA ContractStep ==
  IInv /\ ArchiveInv /\ [Next]_vars => [Contract!Next]_Contract!vars
<1> SUFFICES ASSUME IInv, ArchiveInv, [Next]_vars
             PROVE  [Contract!Next]_Contract!vars
  OBVIOUS
<1>1. CASE Start
  <2>1. CASE pc' = "ClearStale" /\ outcome' = "none"
    BY <1>1, <2>1 DEF Start, Contract!Begin, Contract!Next, Phase, Result
  <2>2. CASE pc' = "Idle" /\ outcome' = "Config"
    BY <1>1, <2>2 DEF Start, Contract!Reject, Contract!Next, Phase, Result
  <2>3. QED BY <1>1, <2>1, <2>2 DEF Start
<1>2. CASE ClearStale
  <2>1. CASE Fail("ClearStale") BY <1>2, <2>1, FailMaps DEF ClearStale
  <2>2. CASE ~Fail("ClearStale") BY <1>2, <2>2, InRunMaps DEF ClearStale
  <2>3. QED BY <2>1, <2>2
<1>3. CASE CreateSnapshot
  <2>1. CASE Fail("CreateSnapshot") BY <1>3, <2>1, FailMaps DEF CreateSnapshot
  <2>2. CASE ~Fail("CreateSnapshot") BY <1>3, <2>2, InRunMaps DEF CreateSnapshot
  <2>3. QED BY <2>1, <2>2
<1>4. CASE RmStale
  <2>1. CASE Fail("RmStale") BY <1>4, <2>1, FailMaps DEF RmStale
  <2>2. CASE ~Fail("RmStale") BY <1>4, <2>2, InRunMaps DEF RmStale
  <2>3. QED BY <2>1, <2>2
<1>5. CASE MkBase
  <2>1. CASE Fail("MkBase") BY <1>5, <2>1, FailMaps DEF MkBase
  <2>2. CASE ~Fail("MkBase") BY <1>5, <2>2, InRunMaps DEF MkBase
  <2>3. QED BY <2>1, <2>2
<1>6. CASE OpenDataDir
  <2>1. CASE Fail("OpenDataDir") BY <1>6, <2>1, FailMaps DEF OpenDataDir
  <2>2. CASE ~Fail("OpenDataDir") BY <1>6, <2>2, InRunMaps DEF OpenDataDir
  <2>3. QED BY <2>1, <2>2
<1>7. CASE \E ks \in KeyspaceDirs : SkipKeyspace(ks)
  BY <1>7, InRunMaps DEF SkipKeyspace
<1>8. CASE \E ks \in KeyspaceDirs : LinkKeyspace(ks)
  <2>1. PICK ks \in KeyspaceDirs : LinkKeyspace(ks) BY <1>8
  <2>2. pc = "Link" /\ UNCHANGED <<run, cfg, archive>> BY <2>1 DEF LinkKeyspace
  <2>3. CASE Fail("Link") BY <2>2, <2>3, FailMaps
  <2>4. CASE ~Fail("Link") BY <2>1, <2>2, <2>4, InRunMaps DEF LinkKeyspace
  <2>5. QED BY <2>3, <2>4
<1>9. CASE LinkDone BY <1>9, InRunMaps DEF LinkDone
<1>10. CASE Chown
  <2>1. CASE Fail("Chown") BY <1>10, <2>1, FailMaps DEF Chown
  <2>2. CASE ~Fail("Chown") BY <1>10, <2>2, InRunMaps DEF Chown
  <2>3. QED BY <2>1, <2>2
<1>11. CASE Tar
  <2>1. staged = RunFiles(run, cfg) BY <1>11 DEF Tar, ArchiveInv, Steps, KeptTables, RunFiles
  <2>2. archive' \subseteq RunFiles(run, cfg) BY <1>11, <2>1 DEF Tar
  <2>3. pc' = "Unwind"
    <3>1. deferred = <<CS, RB>> BY <1>11 DEF Tar, IInv, DeferredAtStep
    <3>2. QED BY <1>11, <3>1, StackFacts DEF Tar, Fail
  <2>4. Contract!Stream BY <1>11, <2>2, <2>3 DEF Tar, Contract!Stream, Phase, Result
  <2>5. QED BY <2>4 DEF Contract!Next
<1>12. CASE UnwindRmBase BY <1>12, PopMaps DEF UnwindRmBase
<1>13. CASE UnwindClearSnapshot BY <1>13, PopMaps DEF UnwindClearSnapshot
<1>14. CASE Crash BY <1>14 DEF Crash, Contract!Kill, Contract!Next, Phase, Result
<1>15. CASE UNCHANGED vars BY <1>15 DEF vars, Contract!vars, Phase, Result
<1>16. QED BY <1>1, <1>2, <1>3, <1>4, <1>5, <1>6, <1>7, <1>8, <1>9, <1>10,
              <1>11, <1>12, <1>13, <1>14, <1>15 DEF Next

(***************************************************************************)
(* CassandraPlugin.Backup, for every instance, implements the backup       *)
(* contract: every behaviour of the pipeline, with its stale snapshots and *)
(* trees, failures and crashes, is under the mapping a behaviour of        *)
(* BackupContract.                                                         *)
(***************************************************************************)
THEOREM Refinement == Spec => ContractSpec
<1>1. Init => IInv /\ ArchiveInv BY IInvInit, ArchiveInit
<1>2. IInv /\ ArchiveInv /\ [Next]_vars => IInv' /\ ArchiveInv'
  BY IInvStep, ArchiveStep DEF IInv
<1>3. []IInv /\ []ArchiveInv /\ [][Next]_vars => [][Contract!Next]_Contract!vars
  BY ContractStep, PTL
<1>4. QED BY <1>1, <1>2, <1>3, ContractInit, PTL DEF Spec, ContractSpec, Contract!Spec

=============================================================================
