CONSTANTS
  Target <- FourTargets
  Projects <- AllProjects
SPECIFICATION Spec
INVARIANTS DependenciesFirst CyclesFound ClosureComplete
CHECK_DEADLOCK FALSE
