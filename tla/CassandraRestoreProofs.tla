----------------------- MODULE CassandraRestoreProofs -----------------------
(***************************************************************************)
(* Proofs about the restore pipeline of CassandraRestore, for every set   *)
(* of archives, every set of filter configurations and every bound on     *)
(* runs: sstableloader loads only kept table directories of the run's own *)
(* archive and all of them when the run returns nil (RestoreLoadsExactly), *)
(* and a run that returns leaves no staging tree (StagingAbsentAtRest).    *)
(* The filter itself (Selected) is left opaque: the results hold whatever *)
(* keyspaces it keeps.                                                     *)
(***************************************************************************)
EXTENDS CassandraRestore, TLAPS

USE RestoreAssumption

\* A failing step records itself and goes to the deferred removal when one
\* is registered, and back to Idle otherwise.
LEMMA FailFacts ==
  ASSUME NEW s, Fail(s)
  PROVE  /\ outcome' = s
         /\ rmDeferred = {} => pc' = "Idle"
         /\ rmDeferred # {} => pc' = "Unwind"
BY DEF Fail

\* The table directories the loop loads for keyspace ks, once the staging
\* tree holds exactly the archive.
LEMMA TablesOfInput ==
  ASSUME NEW ks, extracted = input
  PROVE  TablesOf(ks) = {d \in input : d.ks = ks}
BY DEF TablesOf

\* Every step keeps the type invariant.
LEMMA TypeOKStep == TypeOK /\ [Next]_vars => TypeOK'
<1> SUFFICES ASSUME TypeOK, [Next]_vars PROVE TypeOK'
  OBVIOUS
<1> USE DEF TypeOK, Outcomes, TableDirs, KeyspacesOf
<1>1. CASE Start BY <1>1 DEF Start
<1>2. CASE RmStale BY <1>2, FailFacts DEF RmStale
<1>3. CASE MkBase BY <1>3, FailFacts DEF MkBase, RB
<1>4. CASE Extract BY <1>4, FailFacts DEF Extract
<1>5. CASE OpenBase BY <1>5, FailFacts DEF OpenBase
<1>6. CASE LoadDone BY <1>6 DEF LoadDone
<1>7. CASE \E ks \in KeyspacesOf(UNION Archives) : SkipKeyspace(ks)
  BY <1>7 DEF SkipKeyspace
<1>8. CASE \E ks \in KeyspacesOf(UNION Archives) : LoadKeyspace(ks)
  BY <1>8, FailFacts DEF LoadKeyspace, TablesOf
<1>9. CASE UnwindRmBase BY <1>9 DEF UnwindRmBase, RB
<1>10. CASE Crash BY <1>10 DEF Crash
<1>11. CASE UNCHANGED vars BY <1>11 DEF vars
<1>12. QED BY <1>1, <1>2, <1>3, <1>4, <1>5, <1>6, <1>7, <1>8, <1>9, <1>10,
              <1>11 DEF Next

\* Init establishes the inductive invariant.
LEMMA IInvInit == Init => IInv
BY DEF Init, IInv, TypeOK, RunInv, RestoreLoadsExactly, SelectedPart,
       Outcomes, TableDirs, KeyspacesOf

\* Every step keeps the inductive invariant.
LEMMA IInvStep == IInv /\ [Next]_vars => IInv'
<1> SUFFICES ASSUME TypeOK, RunInv, [Next]_vars PROVE IInv'
  BY DEF IInv
<1>0. TypeOK' BY TypeOKStep
<1> USE DEF RunInv, RestoreLoadsExactly, SelectedPart
<1>1. CASE Start BY <1>0, <1>1 DEF Start, IInv
<1>2. CASE RmStale BY <1>0, <1>2, FailFacts DEF RmStale, IInv
<1>3. CASE MkBase BY <1>0, <1>3, FailFacts DEF MkBase, IInv, RB
<1>4. CASE Extract
  <2>1. pc = "Extract" /\ extracted = {} /\ loaded = {} /\ outcome = "none"
    BY <1>4 DEF Extract
  <2>2. CASE extracted' = extracted \cup input /\ pc' = "OpenBase"
             /\ UNCHANGED outcome
    <3>1. extracted' = input BY <2>1, <2>2
    <3>2. QED BY <1>0, <1>4, <2>1, <2>2, <3>1 DEF Extract, IInv
  <2>3. CASE Fail("Extract")
    <3>1. pc' \in {"Idle", "Unwind"} /\ outcome' = "Extract"
      BY <2>3, FailFacts
    <3>2. QED BY <1>0, <1>4, <2>1, <3>1 DEF Extract, IInv
  <2>4. QED BY <1>4, <2>2, <2>3 DEF Extract
<1>5. CASE OpenBase BY <1>0, <1>5, FailFacts DEF OpenBase, IInv, KeyspacesOf
<1>6. CASE LoadDone BY <1>0, <1>6 DEF LoadDone, IInv
<1>7. CASE \E ks \in KeyspacesOf(UNION Archives) : SkipKeyspace(ks)
  BY <1>0, <1>7 DEF SkipKeyspace, IInv
<1>8. CASE \E ks \in KeyspacesOf(UNION Archives) : LoadKeyspace(ks)
  <2>1. PICK ks \in KeyspacesOf(UNION Archives) : LoadKeyspace(ks)
    BY <1>8
  <2>2. pc = "Load" /\ Selected(cfg, ks) /\ extracted = input
    BY <2>1 DEF LoadKeyspace
  <2>3. TablesOf(ks) = {d \in input : d.ks = ks}
    BY <2>2, TablesOfInput
  <2>4. CASE loaded' = loaded \cup TablesOf(ks) /\ UNCHANGED <<pc, outcome>>
    BY <1>0, <2>1, <2>2, <2>3, <2>4 DEF LoadKeyspace, IInv
  <2>5. CASE \E part \in SUBSET TablesOf(ks) : loaded' = loaded \cup part
             /\ Fail("Load")
    <3>1. pc' \in {"Idle", "Unwind"} /\ outcome' = "Load"
      BY <2>5, FailFacts
    <3>2. loaded' \subseteq SelectedPart(input, cfg)
      BY <2>2, <2>3, <2>5
    <3>3. QED BY <1>0, <2>1, <3>1, <3>2 DEF LoadKeyspace, IInv
  <2>6. QED BY <2>1, <2>4, <2>5 DEF LoadKeyspace
<1>9. CASE UnwindRmBase BY <1>0, <1>9 DEF UnwindRmBase, IInv
<1>10. CASE Crash BY <1>0, <1>10 DEF Crash, IInv
<1>11. CASE UNCHANGED vars BY <1>0, <1>11 DEF vars, IInv
<1>12. QED BY <1>1, <1>2, <1>3, <1>4, <1>5, <1>6, <1>7, <1>8, <1>9, <1>10,
              <1>11 DEF Next

(***************************************************************************)
(* CassandraPlugin.Restore, for every instance: sstableloader only loads  *)
(* kept table directories of the run's own archive, never those of a     *)
(* stale staging tree, and a nil return has loaded all of them.           *)
(***************************************************************************)
THEOREM LoadsExactly == Spec => []RestoreLoadsExactly
<1>1. IInv => RestoreLoadsExactly BY DEF IInv, RunInv
<1>2. QED BY <1>1, IInvInit, IInvStep, PTL DEF Spec

\* Every step keeps StagingInv, given the run invariant: a return after
\* MkdirAll unwinds through the deferred removal, and one from MkdirAll
\* itself finds the stale tree removed.
LEMMA StagingStep == IInv /\ StagingInv /\ [Next]_vars => StagingInv'
<1> SUFFICES ASSUME IInv, StagingInv, [Next]_vars PROVE StagingInv'
  OBVIOUS
<1> USE DEF StagingInv, StagingAbsentAtRest
<1>1. CASE Start BY <1>1 DEF Start
<1>2. CASE RmStale BY <1>2, FailFacts DEF RmStale
<1>3. CASE MkBase BY <1>3, FailFacts DEF MkBase
<1>4. CASE Extract BY <1>4, FailFacts DEF Extract, IInv, RunInv
<1>5. CASE OpenBase BY <1>5, FailFacts DEF OpenBase, IInv, RunInv
<1>6. CASE LoadDone BY <1>6 DEF LoadDone
<1>7. CASE \E ks \in KeyspacesOf(UNION Archives) : SkipKeyspace(ks)
  BY <1>7 DEF SkipKeyspace
<1>8. CASE \E ks \in KeyspacesOf(UNION Archives) : LoadKeyspace(ks)
  BY <1>8, FailFacts DEF LoadKeyspace, IInv, RunInv
<1>9. CASE UnwindRmBase BY <1>9 DEF UnwindRmBase
<1>10. CASE Crash BY <1>10 DEF Crash
<1>11. CASE UNCHANGED vars BY <1>11 DEF vars
<1>12. QED BY <1>1, <1>2, <1>3, <1>4, <1>5, <1>6, <1>7, <1>8, <1>9, <1>10,
              <1>11 DEF Next

(***************************************************************************)
(* CassandraPlugin.Restore, for every instance: a run that returned after *)
(* removing the stale staging tree, with its deferred rm -rf succeeding,  *)
(* leaves no staging tree, whichever later step failed.                   *)
(***************************************************************************)
THEOREM NoStagingLeft == Spec => []StagingAbsentAtRest
<1>1. Init => StagingInv BY DEF Init, StagingInv, StagingAbsentAtRest
<1>2. IInv /\ StagingInv => StagingAbsentAtRest BY DEF StagingInv
<1>3. QED BY <1>1, <1>2, IInvInit, IInvStep, StagingStep, PTL DEF Spec

=============================================================================
