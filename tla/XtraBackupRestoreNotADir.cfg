\* Restores with mysqld stopped into a mysql_datadir that is a regular
\* file: the IsDir check returns a nil error.
CONSTANTS
  Owners = {"mysql", "root"}
  PluginUser = "root"
  DatadirKinds = {"file"}
  MysqldStates = {"stopped"}
  MaxRuns = 3
SPECIFICATION Spec
INVARIANT NilMeansRestored
CHECK_DEADLOCK FALSE
