CONSTANTS
    MaxTs = 3
    SettleTime = 1
    MaxBatch = 2
    Tag <- MCTag
    Value <- MCValue
    Change <- MCChange

SPECIFICATION FairSpec

INVARIANTS
    TypeOK
    NothingLost
    NothingInvented
    LateMeansOvertaken

PROPERTIES
    HistoryInOrder
    EventuallyReleased
