SPECIFICATION FairSpec
CONSTANTS
    Threads = {t1, t2, t3}
    Items = {a}
    Capacity = 2
INVARIANTS
    NoLostWakeup
    ClosedWakesAll
PROPERTIES
    ImplementsAtomicQueue
    WaitersServed
