SPECIFICATION Spec
CONSTANTS
    LossStates <- MCLossStates
    MicroStop = 2
    DayLength = 4
    Shifts <- MCShifts
    DayStart = 3
    TargetBuckets = 2
    BucketFloor = 1
    ShiftLookback = 4
    CounterRange = 8
    RolloverWindow = 2
    MaxTs = 5
    CellStates = {1, 2, 4}
    FirstCounters <- MCFirstCounters
    Causes = {"repaired"}
    MaxNews = 2
    MaxGaps = 2
    MaxResets = 1
    MaxAnswers = 1
INVARIANTS
    EachSecondIsCountedOnce
    PartsAreCountedAsMade
    WindowsAddUp
    ViewsAgree
PROPERTY
    PastIsSettled
CHECK_DEADLOCK FALSE
