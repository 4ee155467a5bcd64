SPECIFICATION Spec
CONSTANTS
    PointsPerPart = 2
    ConsecutiveNok = 2
    DressingThresholds = {1}
    CapThresholds = {1, 2}
    SetupDuration = 1
    ShiftLength = 5
    BreakOffset = 2
    BreakLength = 2
    HeartbeatPeriod = 1
    SlotLengths = {2}
    Durations = {1, 3}
    Delays = {1, 2}
    StartTs = 0
    Acceleration = 1
    SaveInterval = 1
    Jitter = 1
    Margin = 1
    MaxTs = 12
    MaxStarts = 1
    MaxForced = 1
INVARIANTS
    TypeOK
    OneWayOut
    BreakOnSchedule
    SlotTakesItsTime
    MaintenanceIsDone
PROPERTIES
    NothingBeginsInABreak
    TimeNeverGoesBack
CHECK_DEADLOCK FALSE
