CONSTANTS
    None = None
    NotSubscribed = NotSubscribed
    FirstSeen = 4
    Fractions = 2
    Instants = {4, 5, 6}
    MaxRev = 2
    MaxFailures = 1

SPECIFICATION FairSpec

INVARIANTS
    TypeOK
    WakeUpNotLost
    NewestWins

PROPERTIES
    NowNeverGoesBack
    PageCatchesUp

CHECK_DEADLOCK FALSE
