CONSTANTS
    MaxTs = 3
    MaxUnwritten = 2
    Scope <- MCScope
    Series <- MCSeries
    TagsOf <- MCTagsOf
    TriggersOf <- MCTriggersOf
    StateTag = "State"
    Producing = 1
    GroupValues <- MCGroupValues

SPECIFICATION Spec

INVARIANTS
    TypeOK
    StopsFollowEvents
    MemoryIsWhatIsStored

PROPERTIES
    HistoryGrowsByChanges
    ImplementsLedger
