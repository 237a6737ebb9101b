\* Backups of a three-keyspace node, with failures at every step, crashes
\* and three filter configurations (one with an include list), over three
\* runs.  The system stops after MaxRuns runs, so
\* deadlock is not checked.
CONSTANTS
  Nil = Nil
  t1 = t1
  t2 = t2
  t3 = t3
  Tables <- MCTables
  KsOf <- MCKsOf
  NameOf <- MCNameOf
  TableNames = {"users"}
  Configs <- MCConfigs
  MaxRuns = 3
SPECIFICATION Spec
INVARIANTS ArchiveExact NoLeakAtRest
PROPERTY ContractSpec
CHECK_DEADLOCK FALSE
