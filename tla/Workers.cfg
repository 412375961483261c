SPECIFICATION Spec
CONSTANTS
  MaxItems = 2
  MaxJobs = 3
  Cpus = 2
  Objects = 2
  Builds = 2
INVARIANTS TypeOK JobsShared SuccessIsComplete
PROPERTY LoopEnds
CHECK_DEADLOCK FALSE
