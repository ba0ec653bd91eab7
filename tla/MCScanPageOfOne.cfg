SPECIFICATION SSpec
CONSTANTS
    Ids = {a, b, c}
    Blank = Blank
    Junk = Junk
    MaxRecords = 4
    MaxDrift = 1
    MaxPages = 6
    Ceiling = 5
    Caps = {1, 2}
    NoLimit = NoLimit
    Limits <- MCLimits
SYMMETRY Interchangeable
CHECK_DEADLOCK FALSE
INVARIANTS
    GapFreeAtEveryPageSize
