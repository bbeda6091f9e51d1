SPECIFICATION RestFairSpec
CONSTANTS
    Nodes = {n1, n2}
    Tasks = {}
    MaxTasks = 0
    Threshold = 0
    CleanupPeriod = 1
    MaxRegs = 2
    Handlers = {h1}
    Readers = {q1}
    Cleaner = cleaner
    Full = Full
    Bare = Bare
    Profiles = {Full, Bare}
    Registration <- MCRegistration
    Requests <- MCRequests
    ApiKey = "key"
    GiB = 4
    Nil = Nil
INVARIANTS
    CopiesAreCurrent
    NodesGaugeLagsOnlyInside
PROPERTIES
    MethodsAreAtomic
    ListingIsRegistry
    CallsReturn
