SPECIFICATION Spec
CONSTANTS
    MAX_TASKS = 2
    TickMod = 4
    SleepTicks = {0, 2}
    MaxClock = 6
INVARIANT NoEarlyWake
