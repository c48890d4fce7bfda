SPECIFICATION FairSpec
CONSTANTS
    MeasurementCap = 1
    CommandCap = 1
    DedupCap = 1
    Intervals <- MCIntervals
    ConfigInterval = 100
    RequestIds = {}
    LocalCommands <- NoMessages
    RemoteMessages <- NoMessages
    Faults = {"start", "source", "store", "socket"}
    Signals = TRUE
    SocketSwept = TRUE
    MaxProduced = 1
    MaxLocal = 0
    MaxRemote = 0
    MaxBoots = 1
INVARIANTS
    DeliveryInv
    CleanExitRecordsSent
    SignalledStopReturnsZero
PROPERTIES
    ShutdownCompletes
