SPECIFICATION FairSpec
CONSTANTS
    Width = 6
    Delays = {1, 2, 3, 5, 12, 25}
    MaxAttempt = 6
    MaxStops = 2

    
PROPERTIES
    StopEnds
CHECK_DEADLOCK FALSE
