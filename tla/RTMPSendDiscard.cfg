\* What the code prints about a discarded message, against what it did.
CONSTANTS
  MaxMsgs = 2
  MaxJobs = 2
  MaxSem = 1
  Sizes = {2}
  ControlSize = 1
  SendLimits = {1, 3}
  InitialChunk = 128
  PageSize = 4096
SPECIFICATION Spec
INVARIANT DiscardsAreWhole
CHECK_DEADLOCK FALSE
