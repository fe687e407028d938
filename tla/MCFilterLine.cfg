SPECIFICATION LineSpec
CONSTANTS
    RowOrder <- MCRowOrder
    FactSets <- MCFactSets
    SCOPES <- MCSCOPES
    Texts = {"ab"}
    TooShort = {}
    Value = "v"
    Rank <- MCRank
    Match <- MCMatch
    START_COUNT = 2
    MATCH_COUNT = 2
    COURSE_COUNT = 1
    Toggled = {"r2"}
INVARIANTS CountsKeepTheirPromise PreviewTellsThePress
PROPERTY KeyboardIsKept
