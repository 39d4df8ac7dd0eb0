SPECIFICATION HostSpec
CONSTANTS
    c1 = c1
    c2 = c2
    d1 = d1
    d2 = d2
    d3 = d3
    d4 = d4
    none = none
    Requests = {c1, c2}
    Drivers = {d1, d2, d3, d4}
    Commands = {"pause", "cancel"}
    Faults = {"crash", "restart", "timeout", "failure"}
    MaxCommands = 3
    None = none
    Procs = {"p1", "p2"}
    Launched = "p1"
    NoProc = "none"
    Readers = {"r1"}
CHECK_DEADLOCK FALSE
INVARIANTS
    WorkerOwned
PROPERTIES
    DecisionsStand
    JobRecordTrue
    ServiceKept
    
    DesktopSound
