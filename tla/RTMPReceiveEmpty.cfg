\* A message without a body.
CONSTANTS
  SignatureSize = 1
  FullHeader = 3
  LengthHeader = 2
  TimeHeader = 1
  InitialChunk = 2
  Capacity = 8
  Lengths = {0, 1}
  ChunkSizes = {2}
  MaxMessages = 1
SPECIFICATION Spec
INVARIANT FalseMeansNotEnough
CHECK_DEADLOCK FALSE
