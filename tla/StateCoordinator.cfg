SPECIFICATION FairSpec
CONSTANTS
    c1 = c1
    c2 = c2
    k1 = k1
    k2 = k2
    b1 = b1
    b2 = b2
    b3 = b3
    none = none
    Clients = {c1, c2}
    Keys = {k1, k2}
    Batches = {b1, b2}
    MaxRevision = 1
    MaxGeneration = 2
    MaxReceipts = 2
    MaxCalls <- Once
    NoIntent = none
CHECK_DEADLOCK FALSE
INVARIANT AllOrNothing
PROPERTY EveryCallReturns
