SPECIFICATION Spec
CONSTANTS
    Items <- MCItems
    HORIZON = 2
    IMMINENT = 1
    ENDOFDAY = 4
    ROWS = 1
    LIMIT = 2
    AWAY = 2
    TMAX = 4
    MaxAsks = 3
    Moves = 2
INVARIANTS OpenGateIsNotSilent RetryNeverSticks
PROPERTIES LastAskWins
CHECK_DEADLOCK FALSE
