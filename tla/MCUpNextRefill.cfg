SPECIFICATION Spec
CONSTANTS
    Items <- MCBusyItems
    HORIZON = 2
    IMMINENT = 1
    ENDOFDAY = 4
    ROWS = 1
    LIMIT = 2
    AWAY = 2
    TMAX = 4
    MaxAsks = 4
    Moves = 2
INVARIANT NothingElsePolls
CHECK_DEADLOCK FALSE
