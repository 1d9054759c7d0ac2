SPECIFICATION PortSpec
CONSTANTS
    NTasks = 3
    Sleepers = {1, 2}
    SleepTicks = {0, 1, 2}
    TickMod = 16
    MaxClock = 7
    BootTicks = TRUE
    Period = 2
    UpdateMod = 4
INVARIANTS
    CurrentIsRunning
    NoEarlyReturn
    BoundedBypass
    ReportSpansOneUpdate
