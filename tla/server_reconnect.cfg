SPECIFICATION ServerSpec
CONSTANTS
    Nodes = {n1}
    Tasks = {t1}
    MaxTasks = 1
    Threshold = 1
    CleanupPeriod = 1
    MaxRegs = 2
    Streams = {s1, s2}
    BadID = BadID
PROPERTIES
    OldStreamKeepsReconnectedNode
