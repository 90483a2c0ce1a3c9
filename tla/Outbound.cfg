SPECIFICATION Spec
CONSTANTS
    Approvals = {a1}
    Workers = {w1, w2}
    Crons = {c1}
    DispatchLimit = 1
    MaxCrashes = 1
INVARIANTS
    TypeOK
    ApprovedHasRow
    NothingLeavesUnapproved
    StatusAudited
    UndisturbedSendIsExact
    RejectedIsNotSent
PROPERTIES
    NeverRequeued
    DecisionIsFinal
    KeepsThePromise
    DueIsDispatched
CHECK_DEADLOCK FALSE
