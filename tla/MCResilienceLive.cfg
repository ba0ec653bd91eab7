SPECIFICATION FairSpec
CONSTANTS
    Invocations = {i1, i2}
    Budget = 2
    NPhases = 1
    PhaseTimeout <- MCPhaseTimeout
    MaxAttempts = 2
    MaxBackoff = 0
    Hints = {1}
    Threshold = 1
    Recovery = 2
    Prompt = FALSE
    AgeCap = 3
    OpsCap = 1
PROPERTIES
    RequestTerminates
    BreakerReopens
