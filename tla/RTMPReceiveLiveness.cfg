\* A buffer that has room for some runs of messages and not for others.
CONSTANTS
  SignatureSize = 1
  FullHeader = 3
  LengthHeader = 2
  TimeHeader = 1
  InitialChunk = 2
  Capacity = 8
  Lengths = {1, 2}
  ChunkSizes = {2}
  MaxMessages = 2
SPECIFICATION FairSpec
PROPERTY MessagesHandled
CHECK_DEADLOCK FALSE
