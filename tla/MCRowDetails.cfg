\* The browser may come to rest, and the bounds run out.
SPECIFICATION DetailsSpec
CHECK_DEADLOCK FALSE
CONSTANTS
    Rows = {1, 2}
    BATCH = 1
    MaxMounts = 3
    MaxScrolls = 1
    MaxRetries = 1
INVARIANTS RequestedOnce
PROPERTIES ViewedRowIsAnswered
