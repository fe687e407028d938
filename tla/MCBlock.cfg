SPECIFICATION Spec
CONSTANTS
    RETRY_ATTEMPTS = 1
    DETAILS_BATCH = 1
    Groups = {"g1", "g2"}
    Cut = {"g1"}
    Configs <- MCConfigs
    Payloads <- MCPayloads
INVARIANTS
    ReconnectingLineIsTrue
    WaitsHaveAReadOut
    StarsAgree
    StoredIsThePage
PROPERTIES
    LastLoadWins
    LineKeepsTheKeyboard
CHECK_DEADLOCK FALSE
