SPECIFICATION CompanionSpec
CONSTANTS
    Count = 1
    Required = {}
    Slow = {1}
    Processes = {1, 2, 3}
    CompanionMaxCrashes = 0
    none = none
    MaxFaults = 4
CHECK_DEADLOCK FALSE
PROPERTIES
    Repaired
