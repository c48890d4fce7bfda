SPECIFICATION FairSpec
CONSTANTS
    Producers = {p1, p2}
    Capacity = 1
    MaxSequence = 3
INVARIANTS
    OkMeansDurable
    ShutdownWroteAll
PROPERTIES
    CallsReturn
CHECK_DEADLOCK FALSE
