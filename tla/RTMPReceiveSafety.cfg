\* Every cut of the handshake and of messages around the chunk size, in a
\* buffer that large ones fill.
CONSTANTS
  SignatureSize = 2
  FullHeader = 2
  LengthHeader = 1
  TimeHeader = 1
  InitialChunk = 2
  Capacity = 10
  Lengths = {2, 3}
  ChunkSizes = {2, 3}
  MaxMessages = 3
SPECIFICATION Spec
INVARIANTS
  FramesAgree
  C2AnswersS1
PROPERTY StateAdvances
CHECK_DEADLOCK FALSE
