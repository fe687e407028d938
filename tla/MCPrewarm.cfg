CONSTANTS
    Users = {1, 2, 3}
    Broken = {2}
    BatchSize = 3
    Windows = {1}
    FirstDay = 2
    LastDay = 3
    MaxCrashes = 1
    MaxEdits = 1
SPECIFICATION Spec
INVARIANTS NobodyIsSkipped SweepReachesEveryone
PROPERTY SweepsComplete
