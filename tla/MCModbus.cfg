SPECIFICATION FairSpec
CONSTANTS
    Timeout = 2
    MaxRequests = 2
    MaxFaults = 1
    SeqMaxima = {3, 5}
    Fifo = 3
    None = None
INVARIANTS
    LineReleased
    PairsAreSamples
PROPERTIES
    NextReturns
CHECK_DEADLOCK FALSE
