CONSTANTS
    MaxTs = 6
    StartTs = 1
    SeedUntil = 2
    Batch = 1
    CellStates = {1, 3}
    StartStates = {1}
    Working = {1}
    Producing = 1
    StateTag = "State"
    PartKinds = {"good"}
    MaxParts = 1
    MaxIdle = 2
    SaveEvery = 1
    CounterRange = 100
    RolloverWindow = 2
    Lookahead = 3
    Jump = 1
    Timeout = 1
    MayFail = {"seed", "plc stops", "plc crashes", "collector", "all"}
    MaxFailures = 1
    Scope <- MCScope
    Series <- MCSeries
    TagsOf <- MCTagsOf
    TriggersOf <- MCTriggersOf

SPECIFICATION Spec

INVARIANTS
    TypeOK
    HistoryIsTrue
    PartsAreCountedOnce
    TimeGoesOn

PROPERTIES
    CatchesUp

CHECK_DEADLOCK FALSE
