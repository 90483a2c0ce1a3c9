SPECIFICATION Spec
CONSTANTS
    Procs = {p, q}
    PidOf <- OnePid
    NoPid = 0
    Order <- Walked
    Syncable = {"a.md", "b.md"}
    Walkable = {"README.md", "a.md", "b.md"}
    Trees <- History
    Ancestors <- Forward
    Cloned = "first"
    NoCommit = "none"
    Absent = "none"
    Bad = {"broken"}
    SaveEvery = 1
    Width = 2
    Modes <- SyncModes
    MaxUpsets = 2
INVARIANTS
    TypeOK
    BookmarkCovers
PROPERTIES
    BookmarkNeverRegresses
    LockIsMutex
    SyncCatchesUp
CHECK_DEADLOCK FALSE
