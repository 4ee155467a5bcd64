CONSTANTS
    MaxTs = 8
    SettleTime = 1
    Timeout = 1
    Jump = 1
    Calm = {"plc", "server", "consumer", "session"}
    MaxCrashes = 1
    MaxStops = 1
    MaxFailures = 1
    MaxDrops = 1
    Scope <- MCScope
    Series <- MCSeries
    TagsOf <- MCTagsOf
    TriggersOf <- MCTriggersOf
    StateTag = "State"
    Producing = 1
    CellImage <- MCCellImage

SPECIFICATION Spec

INVARIANTS
    TypeOK
    NoSilentLoss
    GapIsKnown
    NeverRefused
    InSyncWhenIdle
    StopsFollowEvents

CHECK_DEADLOCK FALSE
