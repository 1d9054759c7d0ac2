SPECIFICATION Spec
CONSTANTS
    TickMod = 3
    WdLimit = 3
    SpinsPerTick = 1
    Printable = {"a", "b"}
    BUF_SIZE = 3
    FifoDepth = 2
    MaxLineKeys = 4
INVARIANTS
    TypeOK
    CommandIsTypedLine
    ScreenShowsCommand
PROPERTIES
    TicksAreExpiries
    BootReachesShell
    OthersAlwaysRun
