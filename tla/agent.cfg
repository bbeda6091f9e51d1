SPECIFICATION AgentFairSpec
CONSTANTS
    Agents = {a1, a2}
    InitialBackoff = 1
    MaxBackoff = 6
    MaxAttempts = 5
INVARIANTS
    AgentTypeOK
    GivesUpAtTheLimit
    BackoffIsExponential
PROPERTIES
    InterruptsEndIt
