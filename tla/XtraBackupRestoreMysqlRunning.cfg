\* Restores into a datadir directory while the operator may leave mysqld
\* running: a restore that finds mysqld running returns a nil error.
CONSTANTS
  Owners = {"mysql", "root"}
  PluginUser = "root"
  DatadirKinds = {"dir"}
  MysqldStates = {"running", "stopped"}
  MaxRuns = 3
SPECIFICATION Spec
INVARIANT NilMeansRestored
CHECK_DEADLOCK FALSE
