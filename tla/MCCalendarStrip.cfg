SPECIFICATION FairSpec
CONSTANTS
    DAYS = 5
    TODAY = 2
    WEEK_DAYS = 1
    WEEK = 2
    WHOLE = 2
    SLACK = 1
    PAST = 1
    NARROW = FALSE
    Payload <- MCPayload
    DayItems <- MCDayItems
    Gestures = 3
INVARIANTS NeedlePointsAtWork
PROPERTIES PressOpensWhatWasCounted PinnedCardGivesTheKeyboardBack ScrollHoldIsLetGo
CHECK_DEADLOCK FALSE
