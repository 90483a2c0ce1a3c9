SPECIFICATION Spec
CONSTANTS
    NoJob = NoJob
    Jobs = {j1, j2}
    Options <- PlainOptions
    MaxSpawnDepth = 1
    MaxAttempts = 1
    MaxStalled = 1
    Workers = {w1}
    Concurrency = 1
    Clocks = {"lock"}
    Commands = {}
    MaxMishaps = 0
INVARIANTS
    NobodyStranded
CHECK_DEADLOCK FALSE
