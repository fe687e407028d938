CONSTANTS
    Requests = {r1, r2}
    Kinds = {"get_strip", "get_strip_counts", "get_day", "get_soon"}
    Dates = {"d1"}
    Sessions = {1}
    Items = {0, 3}
    Due <- MCDue
    Horizon = 1
    UpcomingLimit = 1
    DayLength = 2
    TTL = 2
    MaxClock = 2
    MaxChanges = 1
    Answers = {TRUE, FALSE}
SYMMETRY MCSymmetry
SPECIFICATION MCSpec
INVARIANTS NewDayFromCurrentSets UncrossedEntryHoldsTheAccess WholeStripCountsOnce GateKeepsWhatIsOpen
