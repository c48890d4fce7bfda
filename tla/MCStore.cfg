CONSTANTS
    Stores = {s1, s2}
    s1 = s1 s2 = s2
    InitVersions = {0, 1, 2, 3, 4, 5}
    SharedVersions = {0, 3, 4}
    InitialRows = 1
    SqliteErrors = {"SQLITE_IOERR", "SQLITE_BUSY"}
    Intervals = {1}
    MaxRows = 2
    MaxAttempts = 1
SYMMETRY Symmetry
SPECIFICATION Spec
INVARIANTS
    NoOrphan
    SchemaMatchesVersion
PROPERTIES
    SettledStays
    CallsAreAtomic
CHECK_DEADLOCK FALSE
