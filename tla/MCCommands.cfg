SPECIFICATION Spec
CONSTANTS
    MeasurementCap = 1
    CommandCap = 1
    DedupCap = 2
    Intervals <- MCIntervals
    ConfigInterval = 100
    RequestIds = {"r1", "r2", "r3"}
    LocalCommands <- SetLocally
    RemoteMessages <- RemoteMix
    Faults = {"store", "response"}
    Signals = FALSE
    SocketSwept = TRUE
    MaxProduced = 0
    MaxLocal = 1
    MaxRemote = 3
    MaxBoots = 1
INVARIANTS
    AnswerIsOwn
    IntervalPersisted
    DedupWindow
