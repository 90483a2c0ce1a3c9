SPECIFICATION FairSpec
CONSTANTS
    r1 = r1
    r2 = r2
    w1 = w1
    w2 = w2
    Runs = {r1, r2}
    Workers = {w1, w2}
    Replayable = {r1}
    Operators = {o1, o2}
    Placements <- OneOrTwoWorkers
    NoCursor = NoCursor
    Page = 1
    MaxMail = 2
INVARIANTS
    CursorCovers
    NewsOnce
    ReviewedOnce
PROPERTIES
    SyncEnds
CHECK_DEADLOCK FALSE
