SPECIFICATION Spec
CONSTANTS
    NoJob = NoJob
    Jobs = {job}
    Job = job
    Options <- SubagentOptions
    MaxSpawnDepth = 1
    MaxAttempts = 2
    MaxStalled = 2
    LeaseIds <- JobLeases
    MaxConcurrent = 1
    Tools = {"read", "write", "gone"}
    Registry = {"read", "write"}
    Idempotent = {"read"}
    Replies <- JobReplies
    MaxTurns = 2
    Fallible = {"write"}
    MaxClaims = 2
    MaxAstray = 1
    MaxCrashes = 1
INVARIANTS
    TypeOK
    ConversationSound
    ToolsRunOnce
    TurnsBounded
    TurnsCharged
    CallsCapped
PROPERTIES
    KeyIsFreedAgain
    LeaseIsSemaphore
CHECK_DEADLOCK FALSE
