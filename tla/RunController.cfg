SPECIFICATION Spec
CONSTANTS
    d1 = d1
    d2 = d2
    o1 = o1
    ls = ls
    rm = rm
    none = none
    Drivers = {d1, d2}
    Operators = {o1}
    Tools = {ls, rm}
    Declared = {ls}
    MaxRounds = 2
    MaxToolCalls = 2
    MaxRepetitions = 1
    TokenBudget = 3
    CallTokens = 2
    MaxCalls = 2
    Faults = TRUE
    NoProc = none
SYMMETRY DriverSymmetry
INVARIANTS
    EffectAtMostOnce
    CallsAccounted
    RecordConsistent
    AcceptedCancelWins
PROPERTY StatusMovesLegally
