SPECIFICATION Spec
CONSTANTS
    b1 = b1
    b2 = b2
    b3 = b3
    Tabs <- MCTabs
    Idle = 4
    Warning = 2
    Throttle = 1
INVARIANTS
    TimersAgree
PROPERTIES
    ClosedOnlyIdle
    ManagersAreIdleClocks
CHECK_DEADLOCK FALSE
