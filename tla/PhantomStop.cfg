CONSTANTS
    MaxTs = 6
    SettleTime = 1
    Timeout = 1
    Jump = 1
    Calm = {"plc", "server", "consumer", "session", "clock"}
    MaxCrashes = 0
    MaxStops = 0
    MaxFailures = 1
    MaxDrops = 1
    Scope <- MCScope
    Series <- MCSeries
    TagsOf <- MCTagsWithFault
    TriggersOf <- MCTriggersOf
    StateTag = "State"
    Producing = 1
    CellImage <- MCImageWithFault

SPECIFICATION Spec

INVARIANT EventsAreTrue

CHECK_DEADLOCK FALSE
