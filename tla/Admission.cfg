SPECIFICATION AdmissionSpec
CONSTANTS
    b1 = b1
    b2 = b2
    i2 = i2
    none = none
    Waiters = {b1, b2, i2}
    Kind <- Kinds
    Class <- Classes
    Total = 3
    Reserved = 1
    Watch = 1
    Capacity <- Twos
    Weight <- Twos
    Pressures = {FALSE, TRUE}
    Faults = {"crash", "cancel"}
    None = none
    Principals = {"p"}
    MaxCalls = 3
    MaxChanges = 1
    Requests = {"a", "b", "c"}
    MaxCommands = 2
    BatchLimit = 2
    DrainLimit = 2
    QueueLimit = 2
    Connections = {"a", "b", "c"}
    ConnectionLimit = 2
    ByteLimit = 2
CHECK_DEADLOCK FALSE
INVARIANTS
    SlotsExact
    ReserveKept
    
    
PROPERTIES
    NoOvertaking
    LimitsKept
