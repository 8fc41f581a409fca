\* The parts that stand alone, and the calculations.
CONSTANTS
  Base = 13
  Half = 8
  m_total = 3
  MaxOffered = 7
  capBytes = 2
  WriteSizes = {1, 2, 3}
  MaxWritten = 6
  Rooms = {1, 2}
  MaxArrived = 2
  FrameSizes <- MCFrameSizes
  BoxSizes <- MCBoxSizes
  ImageSizes <- MCImageSizes
  Context <- MCContext
  Position <- MCPosition
  Formats <- MCFormats
  Outputs <- MCOutputs
  BufferFrames = {2, 3}
  Field = 32
  BufferSizes = {0, 1, 2}
  SentSizes = {1}
  Delays = {2}
  kPivotSamples = 2
  kSettlementDelay = 4
  kIncreaseDelta = 2
SPECIFICATION MCSpec
INVARIANTS
  AMFUnderstood
  
  FrameShowsSetting
  ReadsItsBuffer
  DownWhenGrowing
  OnlyLostUpdatesStopReading
PROPERTIES
  BuffersAreQueues
  SamplingDestructorReturns
CHECK_DEADLOCK FALSE
