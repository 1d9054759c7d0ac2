SPECIFICATION FairSpec
CONSTANTS
    Task = {a, b}
    Registered = {a, b}
    WD_MAX_CHANNELS = 3
    Timeout = 4
    CheckPeriod = 2
    MaxDelay = 2
    TickMod = 11
    MaxClock = 15
INVARIANTS
    NoFalseReset
    DetectedInTime
PROPERTY HungTaskResets
