SPECIFICATION ActionsSpec
CHECK_DEADLOCK FALSE
CONSTANTS
    Modules <- MCModules
    PriorityMin = 1
    PriorityMax = 2
    Timeout = 1
INVARIANTS
    StopWaits
