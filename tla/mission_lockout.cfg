SPECIFICATION Spec
CONSTANTS
    SJFS_MAX_FILES = 2
    SJFS_FILE_UNITS = 6
    Keys = {k1}
    Monitored = FALSE
    MaxPulls = 1
    MaxBoots = 2
    MaxCommands = 1
    MaxMinute = 0
INVARIANT OperatorKnowsKey
