\* Restores of two archives under three filters, with failures at every step
\* and crashes, over three runs.  A plugin process stops after its run, and
\* the model after MaxRuns of them, so deadlock is not checked.
CONSTANTS
  Nil = Nil
  Archives <- MCArchives
  Configs <- MCConfigs
  MaxRuns = 3
SPECIFICATION Spec
INVARIANTS RestoreLoadsExactly StagingAbsentAtRest
CHECK_DEADLOCK FALSE
