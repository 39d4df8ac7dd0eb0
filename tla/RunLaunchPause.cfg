SPECIFICATION FairSpec
CONSTANTS
    Requests = {c1, c2}
    Drivers = {d1, d2, d3, d4}
    Commands = {"pause"}
    Faults = {}
    MaxCommands = 3
    None = none
CHECK_DEADLOCK FALSE
PROPERTY
    Driven
