CONSTANTS
    Courses = {1}
    CategoryOf <- MCCategoryOf
    Groups = {"g", "h"}
    Shapes <- MCShapes
    Windows <- MCWindows
    Settings <- MCSettings
    Sessions = {1}
    Sees <- MCSees
    Requests = {r1}
    DayLength = 3
    MaxAge = 2
    TTL = 2
    Limit = 1
    Probe = 1
    MaxClock = 3
    MaxChanges = 1
    MaxMoves = 1
SPECIFICATION NewsSpec
INVARIANTS AnswerFollowsTheCatalogue WithdrawalIsSeen UnracedEntryIsExact RacesEndWithMaxAge
