\* Spec section 8 on the same node: is the staging tree gone after every
\* run that terminates without a crash and whose cleanups succeed?
\* The system stops after MaxRuns runs, so deadlock is not checked.
CONSTANTS
  Nil = Nil
  t1 = t1
  t2 = t2
  t3 = t3
  Tables <- MCTables
  KsOf <- MCKsOf
  NameOf <- MCNameOf
  TableNames = {"users"}
  Configs <- MCConfigs
  MaxRuns = 3
SPECIFICATION Spec
INVARIANT StagingAbsentAfterRun
CHECK_DEADLOCK FALSE
