CONSTANTS
    MaxTs = 6
    SettleTime = 1
    Timeout = 1
    Jump = 1
    Calm = {"plc", "consumer", "session", "clock"}
    MaxCrashes = 1
    MaxStops = 0
    MaxFailures = 1
    MaxDrops = 0
    Scope <- MCScope
    Series <- MCSeries
    TagsOf <- MCTagsWithFault
    TriggersOf <- MCTriggersOf
    StateTag = "State"
    Producing = 1
    CellImage <- MCImageWithFault

SPECIFICATION Spec

INVARIANTS
    EventsAreTrue

CHECK_DEADLOCK FALSE
