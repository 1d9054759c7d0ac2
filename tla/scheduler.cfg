SPECIFICATION FairSpec
CONSTANTS
    MAX_TASKS = 3
    TickMod = 8
    SleepTicks = {0, 1, 3}
    MaxClock = 4
INVARIANTS
    TypeOK
    SingleRunner
    ResumesSavedFrame
    NoEarlyWake
    BoundedBypass
    IdleMeansAllAsleep
PROPERTIES
    ImplementsCooperative
    NoStarvation
    SleeperRuns
