SPECIFICATION Spec
CONSTANTS
    c1 = c1
    c2 = c2
    k1 = k1
    k2 = k2
    b1 = b1
    b2 = b2
    b3 = b3
    none = none
    Clients = {c1, c2}
    Keys = {k1}
    Batches = {b1, b2, b3}
    MaxRevision = 2
    MaxGeneration = 2
    MaxReceipts = 2
    MaxCalls <- OneRetries
    NoIntent = none
SYMMETRY Interchangeable
CHECK_DEADLOCK FALSE
INVARIANT UpdatesExact
PROPERTY ImplementsLedger
