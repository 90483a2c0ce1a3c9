SPECIFICATION Spec
CONSTANTS
    Approvals = {a1}
    Workers = {w1, w2}
    Crons = {c1}
    DispatchLimit = 1
    MaxCrashes = 0
INVARIANT PulledBackWasNotSent
CHECK_DEADLOCK FALSE
