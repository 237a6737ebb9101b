------------------------- MODULE CassandraRestoreMC -------------------------
(***************************************************************************)
(* Restores of archives over the keyspaces "app" and "system" (ranks 0 and *)
(* 1), one archive of two keyspaces and one of a single table, under an   *)
(* exclude list that drops "system", one that drops nothing, and an       *)
(* include list that keeps only "system".                                 *)
(***************************************************************************)
EXTENDS CassandraRestore

MCArchives ==
  { {[ks |-> App, table |-> "users"], [ks |-> System, table |-> "local"]},
    {[ks |-> App, table |-> "events"]} }

MCConfigs ==
  { [include |-> Nil, exclude |-> << >>],
    [include |-> Nil, exclude |-> <<System>>],
    [include |-> <<System>>, exclude |-> << >>] }

=============================================================================
