\* The whole bit rate ladder, under ceilings below and above the adaptive
\* start, with sessions that replace one another.
SPECIFICATION FairSpec
CONSTANTS
    Bitrates = {300000, 1300000}
    MaxCalls = 3
    MaxSessions = 2
INVARIANTS
    RequestKept
    EncodersFeedPublishedSession
    
    LimitFollowsEncoder
PROPERTIES
    EncoderMovesWithThroughput
    GraphQueueDrains
CHECK_DEADLOCK FALSE
