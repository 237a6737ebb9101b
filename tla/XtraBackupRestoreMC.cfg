\* Restores into a datadir that is a directory, a file or missing, with
\* mysqld started and stopped between runs, failures at every step and
\* crashes, over three runs.  A plugin process stops after its run, and the
\* model after MaxRuns of them, so deadlock is not checked.
CONSTANTS
  Owners = {"mysql", "root"}
  PluginUser = "root"
  DatadirKinds = {"dir", "file", "absent"}
  MysqldStates = {"running", "stopped"}
  MaxRuns = 3
SPECIFICATION Spec
INVARIANT RestoredExactly
PROPERTY OwnerKept
CHECK_DEADLOCK FALSE
