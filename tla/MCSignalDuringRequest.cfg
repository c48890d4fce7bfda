SPECIFICATION Spec
CONSTANTS
    MeasurementCap = 1
    CommandCap = 1
    DedupCap = 1
    Intervals <- MCIntervals
    ConfigInterval = 100
    RequestIds = {"r1", "r2", "r3"}
    LocalCommands <- NoCommands
    RemoteMessages <- SetRemotely
    Faults = {}
    Signals = TRUE
    SocketSwept = TRUE
    MaxProduced = 0
    MaxLocal = 0
    MaxRemote = 1
    MaxBoots = 1
INVARIANT
    SignalledStopReturnsZero
