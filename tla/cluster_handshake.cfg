SPECIFICATION ClusterFairSpec
CONSTANTS
    Nodes = {n1}
    Agents = {n1}
    Tasks = {}
    MaxTasks = 0
    Threshold = 1
    CleanupPeriod = 1
    MaxRegs = 2
    Streams = {s1, s2}
    BadID = BadID
    NoStream = NoStream
    InitialBackoff = 1
    MaxBackoff = 2
    MaxAttempts = 2
    EagerHeaders = FALSE
    Faults = FALSE
    ChannelSize = 1
    MaxLate = 1
PROPERTIES
    AgentGetsConnected
