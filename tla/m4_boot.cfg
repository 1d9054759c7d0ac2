SPECIFICATION Spec
CONSTANTS
    NTasks = 2
    Sleepers = {1}
    SleepTicks = {1}
    TickMod = 16
    MaxClock = 3
    BootTicks = TRUE
INVARIANT BootCompletes
