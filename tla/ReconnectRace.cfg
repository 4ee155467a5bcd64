CONSTANTS
    MaxTs = 8
    SettleTime = 1
    Timeout = 1
    Jump = 1
    Calm = {"plc", "session", "clock"}
    MaxCrashes = 0
    MaxStops = 0
    MaxFailures = 1
    MaxDrops = 1
    Scope <- MCScope
    Series <- MCSeries
    TagsOf <- MCTagsOf
    TriggersOf <- MCTriggersOf
    StateTag = "State"
    Producing = 1
    CellImage <- MCCellImage

SPECIFICATION Spec

INVARIANT NoSilentLoss

CHECK_DEADLOCK FALSE
