SPECIFICATION Spec
CONSTANTS
    Invocations = {i1, i2}
    Budget = 3
    NPhases = 2
    PhaseTimeout <- MCPhaseTimeout
    MaxAttempts = 2
    MaxBackoff = 1
    Hints = {2}
    Threshold = 2
    Recovery = 2
    Prompt = FALSE
    AgeCap = 4
    OpsCap = 1
SYMMETRY Symmetric
INVARIANTS
    TypeOK
    WriteSentOnce
    SleepWithinBudget
    HintsNeverInvented
    BreakerConsistent
    TransitionsAnnounced
PROPERTIES
    NoSendPastDeadline
    RetryAfterHonoured
    OnlyEvidenceMovesBreaker
    ImplementsContract
