SPECIFICATION PSpec
CONSTANTS
    Calls = {c1}
    MaxSignals = 0
    MaxFaults = 2
CHECK_DEADLOCK FALSE
INVARIANT
    CrashIsNotClean
