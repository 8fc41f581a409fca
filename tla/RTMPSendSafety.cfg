\* Interleavings of the job thread, the network thread and the destructor.
CONSTANTS
  MaxMsgs = 3
  MaxJobs = 2
  MaxSem = 1
  Sizes = {2}
  ControlSize = 1
  SendLimits = {1}
  InitialChunk = 128
  PageSize = 4096
SPECIFICATION Spec
INVARIANTS
  ResumeAtKeyframe
  DiscardedForKeyframe
  ChunkSizeAgreed
  BufferSizeExact
  StoppedWhenDestroyed
CHECK_DEADLOCK FALSE
