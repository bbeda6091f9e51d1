SPECIFICATION RegistrySpec
CONSTANTS
    Nodes = {n1}
    Tasks = {t1}
    MaxTasks = 1
    Threshold = 3
    CleanupPeriod = 1
    MaxRegs = 2
INVARIANTS
    TasksGaugeExact
