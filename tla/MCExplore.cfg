SPECIFICATION Spec
CONSTANTS
    NameOrder <- MCNameOrder
    Selected <- MCSelected
    New <- MCNew
    Named <- MCNamed
    INVENTORY_MAX = 2
    PAGE_SIZE = 1
    MaxPresses = 3
    MaxFaults = 1
CHECK_DEADLOCK FALSE
INVARIANTS NoCourseTwice OpenGroupIsAskedFor RowsAnswerTheCriteria DrawnGroupIsWhole StarsFollowTheServer
