CONSTANTS
    Sources <- MCSources
    BuffersOf <- MCBuffersOf
    Temporary = {1, 2}
    Filtered = {"camera"}
    Chosen = {"bgra", "sepia"}
    MaxPushes = 3
    MaxTurns = 3
SPECIFICATION Spec
CHECK_DEADLOCK FALSE
INVARIANTS
    
    PutsOutWholeFrames
    
