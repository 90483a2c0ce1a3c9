SPECIFICATION SweptSpec
CONSTANTS
    NoJob = NoJob
    Jobs = {j1, j2}
    Options <- RecoveryOptions
    MaxSpawnDepth = 1
    MaxAttempts = 2
    MaxStalled = 2
    Workers = {w1}
    Concurrency = 1
    Clocks = {"lock", "wall", "delay"}
    Commands = {}
    MaxMishaps = 2
INVARIANTS
    AttemptsBounded
    SlotsAccounted
PROPERTIES
    NoJobStaysActive
    EveryJobSettles
CHECK_DEADLOCK FALSE
