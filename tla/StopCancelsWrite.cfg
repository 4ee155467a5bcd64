CONSTANTS
    MaxTs = 6
    SettleTime = 1
    Timeout = 1
    Jump = 1
    Calm = {"plc", "consumer", "session", "clock"}
    MaxCrashes = 0
    MaxStops = 1
    MaxFailures = 1
    MaxDrops = 0
    Scope <- MCScope
    Series <- MCSeries
    TagsOf <- MCTagsOf
    TriggersOf <- MCTriggersOf
    StateTag = "State"
    Producing = 1
    CellImage <- MCCellImage

SPECIFICATION Spec

INVARIANT LossIsAlwaysAGap

CHECK_DEADLOCK FALSE
