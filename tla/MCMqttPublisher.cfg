SPECIFICATION FairSpec
CONSTANTS
    Callers = {data, response}
    MaxMid = 2
INVARIANTS
    NobodySleepsThrough
    StateMatchesLoop
PROPERTIES
    ImplementsPublishService
    StopReleases
