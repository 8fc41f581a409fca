\* One source with jitter, once round the ring, with and without an output.
CONSTANTS
  Windows = 4
  Frame = 3
  Tolerance = 2
  Sources = {s1}
  Lengths = {2, 3}
  JobDelay = 1
  MixDelay = 1
  Lead = 3
  MaxTime = 13
  MaxPushes = 3
SPECIFICATION Spec
INVARIANTS
  SamplesOnTime
  WindowsApart
  NothingLate
CHECK_DEADLOCK FALSE
