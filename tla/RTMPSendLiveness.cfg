\* The destructor on a socket that may never drain or fail, and messages on one
\* that drains.
CONSTANTS
  MaxMsgs = 2
  MaxJobs = 2
  MaxSem = 1
  Sizes = {2}
  ControlSize = 1
  SendLimits = {1, 3}
  InitialChunk = 128
  PageSize = 4096
SPECIFICATION FairSpec
PROPERTIES
  DestructorReturns
  EveryMessageFinishes
CHECK_DEADLOCK FALSE
