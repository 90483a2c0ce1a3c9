SPECIFICATION Spec
CONSTANTS
    NoJob = NoJob
    Jobs = {j1, j2}
    Options <- OperatorOptions
    MaxSpawnDepth = 1
    MaxAttempts = 1
    MaxStalled = 1
    Workers = {w1}
    Concurrency = 2
    Clocks = {"lock", "delay"}
    Commands = {"cancel", "retry", "pause", "remove", "delay"}
    MaxMishaps = 2
SYMMETRY JobWorkerSymmetry
INVARIANTS
    ResultIsOfLastClaim
PROPERTIES
    EndIsFinal
    JobsLiveOnce
CHECK_DEADLOCK FALSE
