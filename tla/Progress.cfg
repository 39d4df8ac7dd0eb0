SPECIFICATION ProgressSpec
CONSTANTS
    t1 = t1
    t2 = t2
    none = none
    Threads = {t1, t2}
    Sizes = {1, 3, 5, 7}
    Capacity = 6
    Word = 8
    Subs = {"s1"}
    Wake = "w"
    Tasks = {"a", "b"}
    Timed = {"a"}
    Workers = {1, 2}
    PoolCapacity = 2
    MaxRequests = 2
    Buffer = 1
    Connections = {"c1", "c2"}
    Limit = 1
    Ids = {"i1", "i2"}
    MaxCalls = 3
    NoId = "none"
CHECK_DEADLOCK FALSE
INVARIANTS
    BudgetSound
    CallbacksOnce
    OneResponseEach
    RecordsTrue
    CommandsSound
PROPERTIES
    CallsAnswered
    
    WorkSettles
