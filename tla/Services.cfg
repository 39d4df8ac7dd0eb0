SPECIFICATION ServicesSpec
CONSTANTS
    r1 = r1
    r2 = r2
    r3 = r3
    none = none
    absent = absent
    unstated = unstated
    Requests = {r1, r2, r3}
    Window = 2
    Skew = 1
    Retention = 3
    Capacity = 2
    MaxTime = 5
    Threads = {"t1", "t2", "t3"}
    Peers = {"p1", "p2"}
    Handles = {"h1", "h2", "h3", "h4"}
    PoolSize = 2
    MaxEpoch = 2
    None = none
    Ops = {"a", "b", "c"}
    Keyed = {"a", "b"}
    Tasks = {"t"}
    TaskOf <- OneTask
    Prints = {"p", "q"}
    NoPrint = "none"
    Clients = {"c1", "c2"}
    Nobody = "nobody"
    MaxActive = 2
    MaxPerTask = 1
    MaxOperations = 2
    MaxCalls = 2
    Principals = {"a", "b"}
    NoPrincipal = "none"
    Calls = {1, 2, 3}
    Caller <- Callers
    Writers = {"w1", "w2"}
    States = {"s", "t"}
    NoState = "none"
    NoWriter = "nobody"
    MaxRevision = 3
    OAuthClients = {"c1", "c2"}
    Codes = {"d1"}
    Pairs = {"k1", "k2"}
    MaxClients = 1
    NoClient = none
CHECK_DEADLOCK FALSE
INVARIANTS
    DispatchedOnce
    ConnectionsSound
    StateKept
    LaunchedOnce
    AccessSound
    EvidenceSound
PROPERTIES
    MaintenanceSound
    TasksSound
    
    
