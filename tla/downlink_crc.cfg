SPECIFICATION Spec
CONSTANTS
    Orbit = 40
    Sunlit = 24
    ChargeTicks = 4
    DrainTicks = 8
    BatteryStart = 7
    BatteryMin = 6
    BatteryMax = 8
    EpsPeriod = 10
    AdcsPeriod = 2
    TlmPeriod = 20
    LatAmp = 5160
    LonRate = 691
    LonSpan = 36000
    RollPeriod = 16
    RollAmp = 30
    LockLimit = 40
    TickMod = 65536
    StartTicks = {0, 1}
    MaxLate = 1
    MaxTicks = 62
    MAX_DATA = 32
    SeqCounts = 2
INVARIANT FrameCarriesCrc
