SPECIFICATION RegistrySpec
CONSTANTS
    Nodes = {n1, n2, n3}
    Tasks = {t1, t2}
    MaxTasks = 2
    Threshold = 2
    CleanupPeriod = 2
    MaxRegs = 3
SYMMETRY Symmetry
INVARIANTS
    BoundedStaleness
    RegisteredGaugeExact
    TasksGaugeNeverUndercounts
    ConnIDCountsResidence
PROPERTIES
    ImplementsMembership
