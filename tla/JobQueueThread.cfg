CONSTANTS
  Callers = {c1, c2}
  MaxJobs = 4
SPECIFICATION Spec
INVARIANTS
  OneLateStart
PROPERTIES
  Implements
  SleepOnlyThroughWindow
  OnlyTheWindowBlocks
CHECK_DEADLOCK FALSE
