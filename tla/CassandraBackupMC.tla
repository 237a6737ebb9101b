------------------------- MODULE CassandraBackupMC -------------------------
(***************************************************************************)
(* A node with one table in each of three keyspaces: "app", "system" and   *)
(* "system_traces" (ranks 0, 1 and 5 of KeyspaceFilter), the endpoint      *)
(* configurations a run may get, and the bound on runs.                    *)
(***************************************************************************)
EXTENDS CassandraBackup, TLC

CONSTANTS t1, t2, t3

MCTables == {t1, t2, t3}
MCKsOf   == (t1 :> App) @@ (t2 :> System) @@ (t3 :> SystemTraces)
MCNameOf == [t \in MCTables |-> "users"]

\* No exclude list at all, or the default one, without an include list;
\* and an include list of two keyspaces, one of them excluded.
MCConfigs ==
  {[include |-> Nil, exclude |-> << >>],
   [include |-> Nil, exclude |-> DefaultExcludeKeyspaces],
   [include |-> <<System, App>>, exclude |-> DefaultExcludeKeyspaces]}

=============================================================================
