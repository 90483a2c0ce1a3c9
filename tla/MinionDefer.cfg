SPECIFICATION Spec
CONSTANTS
    NoJob = NoJob
    Jobs = {j1, j2}
    Options <- DeferOptions
    MaxSpawnDepth = 1
    MaxAttempts = 1
    MaxStalled = 1
    Workers = {w1}
    Concurrency = 1
    Clocks = {"lock"}
    Commands = {}
    MaxMishaps = 1
PROPERTIES
    DeferReversesClaim
CHECK_DEADLOCK FALSE
