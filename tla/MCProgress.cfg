SPECIFICATION DeliverySpec
CONSTANTS
    MeasurementCap = 1
    CommandCap = 1
    DedupCap = 1
    Intervals <- MCIntervals
    ConfigInterval = 100
    RequestIds = {"r1", "r2", "r3"}
    LocalCommands <- PauseLocally
    RemoteMessages <- NoCommands
    Faults = {"crash"}
    Signals = FALSE
    SocketSwept = TRUE
    MaxProduced = 2
    MaxLocal = 1
    MaxRemote = 0
    MaxBoots = 2
INVARIANTS
    PauseTakesEffect
PROPERTIES
    EveryRowSent
