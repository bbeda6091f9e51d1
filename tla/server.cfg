SPECIFICATION ServerFairSpec
CONSTANTS
    Nodes = {n1, n2}
    Tasks = {t1}
    MaxTasks = 0
    Threshold = 1
    CleanupPeriod = 1
    MaxRegs = 2
    Streams = {s1, s2}
    BadID = BadID
INVARIANTS
    ServerTypeOK
    CapturedNumberIdentifies
    OneSenderPerStream
PROPERTIES
    EndRemovesOwnRegistration
    NoZombieNodes
