SPECIFICATION Spec
CONSTANTS
    Procs = {p1, p2, p3}
    Faults = {}
    None = none
INVARIANT Exclusive
