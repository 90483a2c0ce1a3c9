SPECIFICATION Spec
CONSTANTS
    NoJob = NoJob
    Jobs = {j1, j2, j3}
    Options <- TreeOptions
    MaxSpawnDepth = 1
    MaxAttempts = 1
    MaxStalled = 1
    Workers = {w1}
    Concurrency = 2
    Clocks = {"lock", "timeout"}
    Commands = {}
    MaxMishaps = 0
SYMMETRY JobSymmetry
INVARIANTS
    TypeOK
    LiveChildrenCapped
    ParentNotStranded
    ChildDonePosted
    ParentRunsLast
    SlotsAccounted
CHECK_DEADLOCK FALSE
