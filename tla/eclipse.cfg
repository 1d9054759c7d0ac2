SPECIFICATION HkSpec
CONSTANTS
    Orbit = 6000
    Sunlit = 3600
    ChargeTicks = 20
    DrainTicks = 40
    BatteryStart = 82
    BatteryMin = 5
    BatteryMax = 100
    EpsPeriod = 50
    AdcsPeriod = 10
    TlmPeriod = 500
    LatAmp = 5160
    LonRate = 3
    LonSpan = 36000
    RollPeriod = 800
    RollAmp = 450
    LockLimit = 600
    TickMod = 2147483647
    StartTicks = {10, 11, 17}
    MaxLate = 0
    MaxTicks = 6000
INVARIANT EclipseDischarges
