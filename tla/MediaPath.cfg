CONSTANTS
    MaxRounds = 2
    MaxWindows = 2
    MaxFrames = 2
    Rates = {80, 96}
    FirstRate = 96
SPECIFICATION Spec
CHECK_DEADLOCK FALSE
INVARIANTS
    AudioConfigFirst
    AudioInOrder
    FramesDecodable
    
    
