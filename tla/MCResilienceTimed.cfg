SPECIFICATION Spec
CONSTANTS
    Invocations = {i1}
    Budget = 4
    NPhases = 2
    PhaseTimeout <- MCPhaseTimeout
    MaxAttempts = 3
    MaxBackoff = 1
    Hints = {2}
    Threshold = 2
    Recovery = 2
    Prompt = TRUE
    AgeCap = 12
    OpsCap = 5
INVARIANTS
    ExchangeBounded
