SPECIFICATION FairSpec
CONSTANTS
    SmokeCount = 3
    MaxAttempts = 3
    Ticks = 3
    MaxStored = 3
    MaxFaults = 2
    MaxPieces = 3
    FRAME_MAX_PAYLOAD = 2
    FRAME_BUFFER_CAPACITY = 21
    Count = 5
    Size = 4
    RecvSize = 3
    Pipe = 20
INVARIANTS
    ReturnIsTrue
    NoCallbackAfterReturn
    LibraryWhileUsed
    ChunkIndependent
PROPERTIES
    
    ResubscribedAfterReconnect
CHECK_DEADLOCK FALSE
