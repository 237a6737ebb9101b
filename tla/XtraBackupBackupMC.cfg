\* Backups with a file, a directory or nothing left at the target path,
\* failures at every step and crashes, over three runs.  A plugin process
\* stops after its run, and the model after MaxRuns of them, so deadlock is
\* not checked.
CONSTANTS
  MaxRuns = 3
SPECIFICATION Spec
INVARIANT ArchiveOfThisRun
PROPERTY ContractSpec
CHECK_DEADLOCK FALSE
