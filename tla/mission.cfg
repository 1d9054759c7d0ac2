SPECIFICATION Spec
CONSTANTS
    SJFS_MAX_FILES = 3
    SJFS_FILE_UNITS = 7
    Keys = {k1, k2}
    Monitored = TRUE
    MaxPulls = 2
    MaxBoots = 3
    MaxCommands = 2
    MaxMinute = 1
INVARIANTS
    TypeOK
    AuthSound
    KeyKnownUnlessCut
    OneSessionPerLog
    FileIsPrefixOfHistory
    ClosedMeansFinished
    OpenPathsUnambiguous
    LoggingStopsOnlyWhenFull
PROPERTIES
    KeyStable
    ImplementsSessionLog
