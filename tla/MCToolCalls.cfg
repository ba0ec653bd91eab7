SPECIFICATION TSpec
CONSTANTS
    Invocations = {c1, c2}
    MaxSends = 2
SYMMETRY Interchangeable
CHECK_DEADLOCK FALSE
INVARIANTS
    TTypeOK
    NoRowUnauthorised
    ToldTheTruth
    
    TrailConsistent
