SPECIFICATION ControlPlaneFairSpec
CONSTANTS
    Calls = {c1, c2}
    Requests = {r1}
    SignalBuffer = 1
    MaxSignals = 3
INVARIANTS
    StreamGaugeExact
    EveryCallCounted
    NoPlaintextIfRequired
PROPERTIES
    HupIsServed
    TermEndsProcess
