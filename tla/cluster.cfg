SPECIFICATION ClusterFairSpec
CONSTANTS
    Nodes = {n1}
    Agents = {n1}
    Tasks = {}
    MaxTasks = 0
    Threshold = 0
    CleanupPeriod = 1
    MaxRegs = 2
    Streams = {s1, s2}
    BadID = BadID
    NoStream = NoStream
    InitialBackoff = 1
    MaxBackoff = 2
    MaxAttempts = 2
    EagerHeaders = TRUE
    Faults = TRUE
    ChannelSize = 2
    MaxLate = 1
INVARIANTS
    OneLiveStream
    SessionOwnsRegistration
PROPERTIES
    EndedAgentLeaves
    UnlistedComesBack
