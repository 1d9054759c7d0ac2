SPECIFICATION FairSpec
CONSTANTS
    Task = {a, b}
    Registered = {}
    WD_MAX_CHANNELS = 3
    Timeout = 3
    CheckPeriod = 2
    MaxDelay = 1
    TickMod = 8
    MaxClock = 12
PROPERTY HungTaskResets
