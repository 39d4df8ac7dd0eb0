SPECIFICATION Spec
CONSTANTS
    d1 = d1
    d2 = d2
    o1 = o1
    ls = ls
    rm = rm
    none = none
    Drivers = {d1}
    Operators = {o1}
    Tools = {ls}
    Declared = {ls}
    MaxRounds = 2
    MaxToolCalls = 1
    MaxRepetitions = 1
    TokenBudget = 2
    CallTokens = 1
    MaxCalls = 1
    Faults = FALSE
    NoProc = none
PROPERTIES
    LockDeadlineKeepsApproval
