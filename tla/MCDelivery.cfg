SPECIFICATION Spec
CONSTANTS
    MeasurementCap = 1
    CommandCap = 1
    DedupCap = 1
    Intervals <- MCIntervals
    ConfigInterval = 100
    RequestIds = {}
    LocalCommands <- NoMessages
    RemoteMessages <- NoMessages
    Faults = {"crash", "payload", "clock"}
    Signals = TRUE
    SocketSwept = TRUE
    MaxProduced = 2
    MaxLocal = 0
    MaxRemote = 0
    MaxBoots = 2
INVARIANTS
    SentWasReceived
    DeliveredInOrder
    StoredInOrder
    CleanExitKeepsData
PROPERTIES
    ImplementsOutbox
