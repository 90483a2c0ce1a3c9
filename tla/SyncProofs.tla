------------------------------ MODULE SyncProofs ------------------------------
(***************************************************************************)
(* Proofs about the row lock (DbLock) and about the syncs that take it     *)
(* (Sync): the lock, seen through the processes that are in time, is a     *)
(* mutex; no sync in time moves the bookmark back behind another; and the  *)
(* bookmark tells the truth about the pages that are not stale.            *)
(***************************************************************************)
EXTENDS Sync, FiniteSetTheorems, SequenceTheorems, TLAPS

LockInv == LockTypeOK /\ HolderInTime

InTime == inside \ lost

(* Nobody holds the lock at the start.                                     *)
LEMMA LockInvInit == LockInit => LockInv
BY DEF LockInit, LockInv, LockTypeOK, HolderInTime

(* A process that acquires finds nobody in time, and is in time itself.    *)
LEMMA AcquireKeeps ==
    ASSUME LockInv, NEW p \in Procs, Acquire(p)
    PROVE  LockInv' /\ InTime = {} /\ InTime' = {p}
<1>1. InTime = {}
    BY LockAssumption DEF LockInv, LockTypeOK, HolderInTime, Acquire, Free, InTime
<1>2. p \notin lost
    BY DEF LockInv, LockTypeOK, Acquire
<1>3. InTime' = {p}
    BY <1>1, <1>2 DEF Acquire, InTime
<1>4. LockTypeOK'
    BY DEF LockInv, LockTypeOK, Acquire
<1>5. HolderInTime'
    BY <1>3 DEF HolderInTime, Acquire, InTime
<1>6. QED BY <1>1, <1>3, <1>4, <1>5 DEF LockInv

(* A release takes at most one process out of those in time: the one that  *)
(* releases, or the one whose row it deletes instead of its own.           *)
LEMMA ReleaseKeeps ==
    ASSUME LockInv, NEW p \in Procs, Release(p)
    PROVE  LockInv' /\ (InTime' = InTime \/ \E q \in InTime : InTime' = InTime \ {q})
<1>1. LockTypeOK'
    BY DEF LockInv, LockTypeOK, Release, Robbed
<1>2. InTime' \subseteq InTime
    BY DEF LockInv, LockTypeOK, Release, InTime
<1>3. \A q \in InTime' : holder' = PidOf[q] /\ ~expired'
    <2> SUFFICES ASSUME NEW q \in InTime' PROVE holder' = PidOf[q] /\ ~expired'
        OBVIOUS
    <2>1. q \in InTime /\ q # p /\ q \notin Robbed(p)
        BY <1>2 DEF Release, InTime
    <2>2. holder = PidOf[q] /\ ~expired
        BY <2>1 DEF LockInv, HolderInTime, InTime
    <2>3. PidOf[q] # PidOf[p]
        BY <2>1, <2>2 DEF Robbed, InTime
    <2>4. QED BY <2>2, <2>3 DEF Release
<1>4. HolderInTime'
    BY <1>2, <1>3 DEF LockInv, HolderInTime, InTime
<1>5. \A q, r \in InTime : q = r
    BY DEF LockInv, HolderInTime, InTime
<1>6. InTime' = InTime \/ \E q \in InTime : InTime' = InTime \ {q}
    <2>1. CASE InTime' = InTime
        BY <2>1
    <2>2. CASE InTime' # InTime
        <3>1. PICK q \in InTime : q \notin InTime'
            BY <1>2, <2>2
        <3>2. InTime' = InTime \ {q}
            BY <3>1, <1>2, <1>5
        <3>3. QED BY <3>1, <3>2
    <2>3. QED BY <2>1, <2>2
<1>7. QED BY <1>1, <1>4, <1>6 DEF LockInv

(* A process that dies leaves the row; it is out of the lock all the same. *)
LEMMA AbandonKeeps ==
    ASSUME LockInv, NEW p \in Procs, Abandon(p)
    PROVE  LockInv' /\ InTime' = InTime \ {p}
<1>1. InTime' = InTime \ {p}
    BY DEF Abandon, InTime
<1>2. LockTypeOK'
    BY DEF LockInv, LockTypeOK, Abandon
<1>3. HolderInTime'
    BY <1>1 DEF LockInv, HolderInTime, Abandon, InTime
<1>4. QED BY <1>1, <1>2, <1>3 DEF LockInv

(* When the TTL passes, nobody is in time.                                 *)
LEMMA ExpireKeeps ==
    ASSUME LockInv, Expire
    PROVE  LockInv' /\ InTime' = {}
<1>1. InTime' = {}
    BY DEF LockInv, HolderInTime, Expire, InTime
<1>2. LockTypeOK'
    BY DEF LockInv, LockTypeOK, Expire
<1>3. HolderInTime'
    BY <1>1 DEF HolderInTime, InTime
<1>4. QED BY <1>1, <1>2, <1>3 DEF LockInv

(* Every step of the lock keeps its invariant.                             *)
LEMMA LockInvStep == LockInv /\ [LockNext]_lockVars => LockInv'
<1> SUFFICES ASSUME LockInv, [LockNext]_lockVars PROVE LockInv'
    OBVIOUS
<1>1. CASE UNCHANGED lockVars
    BY <1>1 DEF lockVars, LockInv, LockTypeOK, HolderInTime
<1>2. QED
    BY <1>1, AcquireKeeps, ReleaseKeeps, AbandonKeeps, ExpireKeeps DEF LockNext

(* A step of the lock is a step of the mutex, or none.                     *)
LEMMA LockStepIsPlaceStep ==
    ASSUME LockInv, [LockNext]_lockVars
    PROVE  [LockPlaces!Next]_(inside \ lost)
<1>0. InTime = inside \ lost /\ InTime' = (inside \ lost)' /\ InTime \subseteq Procs
    BY DEF InTime, LockInv, LockTypeOK
<1>1. ASSUME NEW p \in Procs, Acquire(p) PROVE LockPlaces!Next
    <2>1. inside \ lost = {} /\ (inside \ lost)' = {p}
        BY <1>0, <1>1, AcquireKeeps
    <2>2. LockPlaces!Cardinality(inside \ lost) < 1
        <3>1. LockPlaces!Cardinality(inside \ lost) = Cardinality(inside \ lost)
            BY DEF Cardinality, LockPlaces!Cardinality
        <3>2. Cardinality(inside \ lost) = 0
            BY <2>1, FS_EmptySet
        <3>3. QED BY <3>1, <3>2
    <2>3. LockPlaces!Enter(p)
        BY <2>1, <2>2 DEF LockPlaces!Enter
    <2>4. QED BY <2>3 DEF LockPlaces!Next
<1>2. ASSUME NEW q \in InTime, InTime' = InTime \ {q} PROVE LockPlaces!Next
    BY <1>0, <1>2 DEF LockPlaces!Next, LockPlaces!Leave
<1>3. ASSUME NEW p \in Procs, Release(p) PROVE [LockPlaces!Next]_(inside \ lost)
    BY <1>0, <1>2, <1>3, ReleaseKeeps
<1>4. ASSUME NEW p \in Procs, Abandon(p) PROVE [LockPlaces!Next]_(inside \ lost)
    <2>1. CASE p \in InTime
        BY <1>2, <1>4, <2>1, AbandonKeeps
    <2>2. CASE p \notin InTime
        BY <1>0, <1>4, <2>2, AbandonKeeps
    <2>3. QED BY <2>1, <2>2
<1>5. CASE Expire
    <2>1. InTime' = {} /\ \A q, r \in InTime : q = r
        BY <1>5, ExpireKeeps DEF LockInv, HolderInTime, InTime
    <2>2. CASE InTime = {}
        BY <1>0, <2>1, <2>2
    <2>3. CASE InTime # {}
        <3>1. PICK q \in InTime : TRUE
            BY <2>3
        <3>2. InTime' = InTime \ {q}
            BY <2>1, <3>1
        <3>3. QED BY <1>2, <3>1, <3>2
    <2>4. QED BY <2>2, <2>3
<1>6. CASE UNCHANGED lockVars
    BY <1>6 DEF lockVars
<1>7. QED BY <1>1, <1>3, <1>4, <1>5, <1>6 DEF LockNext

(* A process that is in time has a live row with its pid, and is alone.    *)
THEOREM LockHolders == LockSpec => [](LockTypeOK /\ HolderInTime)
<1>1. LockInv => LockTypeOK /\ HolderInTime
    BY DEF LockInv
<1>2. QED BY <1>1, LockInvInit, LockInvStep, PTL DEF LockSpec

(* The row lock implements the mutex, for any processes and any pids.      *)
THEOREM LockRefinesMutex == LockSpec => LockIsMutex
<1>1. LockInit => LockPlaces!Init
    BY DEF LockInit, LockPlaces!Init
<1>2. LockInv /\ [LockNext]_lockVars => [LockPlaces!Next]_(inside \ lost)
    BY LockStepIsPlaceStep
<1>3. QED
    BY <1>1, <1>2, LockInvInit, LockInvStep, PTL DEF LockSpec, LockIsMutex, LockPlaces!Spec

-----------------------------------------------------------------------------
(* The syncs.  What they do to the lock are steps of the lock.             *)

(* Every step of the syncs is a step of the lock, or leaves it alone.      *)
LEMMA SyncStepIsLockStep == [Next]_vars => [LockNext]_lockVars
<1> SUFFICES ASSUME [Next]_vars PROVE [LockNext]_lockVars
    OBVIOUS
<1>1. ASSUME NEW p \in Procs, Start(p) PROVE LockNext
    BY <1>1 DEF Start, LockNext
<1>2. ASSUME NEW p \in Procs, Goes(p) PROVE [LockNext]_lockVars
    <2>1. CASE Leave(p)
        BY <2>1 DEF Leave, LockNext
    <2>2. CASE ~Leave(p)
        BY <1>2, <2>2 DEF Goes, Work, Capture, UpToDate, Diff, Walk, Drop, Delete, Import,
                          FailImport, Rename, CheckHead, EndImport, Record
    <2>3. QED BY <2>1, <2>2
<1>3. ASSUME NEW p \in Procs, Interrupt(p) PROVE [LockNext]_lockVars
    BY <1>3 DEF Interrupt, LockNext
<1>4. CASE \/ \E c \in Commits : MoveHead(c)
           \/ \E f \in Paths, content \in Contents : Edit(f, content)
    BY <1>4 DEF MoveHead, Edit
<1>5. CASE LockExpires
    BY <1>5 DEF LockExpires, LockNext
<1>6. CASE UNCHANGED vars
    BY <1>6 DEF vars
<1>7. QED BY <1>1, <1>2, <1>3, <1>4, <1>5, <1>6 DEF Next

(* Every behaviour of the syncs is one of the lock.                        *)
LEMMA SyncsUseTheLock == Spec => LockSpec
BY SyncStepIsLockStep, PTL DEF Spec, Init, LockSpec

(* Syncs exclude one another for as long as they are in time.              *)
THEOREM SyncsAreExclusive == Spec => LockIsMutex
BY SyncsUseTheLock, LockRefinesMutex, PTL

-----------------------------------------------------------------------------
(* The order of bookmarks.  A sync that has captured HEAD and is in time   *)
(* captured it no earlier than the bookmark was, unless the bookmark is    *)
(* the later one that its own import has just written.                     *)

Fields == DOMAIN Idle
IsRecord(r) == r = [f \in Fields |-> r[f]]
Shaped == sync = [p \in Procs |-> sync[p]] /\ \A p \in Procs : IsRecord(sync[p])

Captured(p) == sync[p].pc \in {"anchor", "work", "record"}

OrderInv ==
    /\ Shaped
    /\ moves \in Nat /\ asOf \in Nat /\ asOf <= moves
    /\ astray \in BOOLEAN
    /\ \A p \in Procs :
          /\ sync[p].pc # "idle" <=> p \in inside
          /\ sync[p].at \in Nat /\ sync[p].at <= moves
          /\ ~astray /\ Captured(p) /\ p \notin lost =>
                asOf <= sync[p].at \/ StepsBack(p)

(* What a step of the sync of p does to its own place and to the bookmark. *)
Stays(p) ==    \* it goes on, with the HEAD it captured
    /\ sync'[p].pc \in {"work", "record"} /\ sync'[p].at = sync[p].at

Ends(p) ==     \* it has nothing left but to release the lock
    /\ sync'[p].pc = "leave" /\ sync'[p].at = 0

OnlyOf(p) == Shaped' /\ \A q \in Procs \ {p} : sync'[q] = sync[q]

Steers(p) == OnlyOf(p) /\ (Stays(p) \/ Ends(p))

(* A sync that ends has given up the HEAD it captured.                     *)
LEMMA EndSteers ==
    ASSUME Shaped, NEW p \in Procs, End(p) PROVE OnlyOf(p) /\ Ends(p)
BY DEF Shaped, IsRecord, Fields, End, Through, Idle, OnlyOf, Ends

(* Each action of the work leaves the HEAD that was captured alone.        *)
LEMMA ConcludeSteers ==
    ASSUME Shaped, NEW p \in Procs, NEW failed, Conclude(p, failed) PROVE Steers(p)
<1>1. CASE MayRecord(p, failed)
    <2>1. PICK wandered :
              sync' = [sync EXCEPT ![p].pc = "record", ![p].wandered = wandered]
        BY <1>1 DEF Conclude
    <2>2. QED BY <2>1 DEF Shaped, IsRecord, Fields, Idle, Steers, OnlyOf, Stays
<1>2. CASE ~MayRecord(p, failed)
    BY <1>2, EndSteers DEF Conclude, Steers
<1>3. QED BY <1>1, <1>2

(* A manifest is of the HEAD that was captured.                            *)
LEMMA DiffSteers ==
    ASSUME Shaped, NEW p \in Procs, Diff(p) PROVE Steers(p)
<1> DEFINE from == Last(p)
           to == sync[p].captured
           changed == {f \in Paths : Trees[from][f] # Trees[to][f]}
           renames(R) == {r \in R : r[2] \in Syncable}
           deletes(R) == {f \in Gone(from, to) \cap Syncable : \A r \in R : r[1] # f}
           imports(R) == {f \in changed \cap Syncable :
                             Trees[to][f] # Absent /\ \A r \in R : r[2] # f}
           drops == {f \in changed \ Syncable : Trees[from][f] # Absent /\ Trees[to][f] # Absent}
<1>1. PICK R \in Matchings(from, to) :
          sync' = [sync EXCEPT
              ![p].drops = drops,
              ![p].deletes = deletes(R), ![p].renames = renames(R), ![p].imports = imports(R),
              ![p].diff = changed, ![p].renamed = UNION {{r[1], r[2]} : r \in R},
              ![p].pc = IF drops = {} /\ deletes(R) = {} /\ renames(R) = {} /\ imports(R) = {}
                        THEN "record" ELSE "work"]
    BY Zenon DEF Diff
<1> HIDE DEF changed, renames, deletes, imports, drops
<1>2. PICK diff, renamed, pc :
          /\ pc \in {"work", "record"}
          /\ sync' = [sync EXCEPT
                ![p].drops = drops,
                ![p].deletes = deletes(R), ![p].renames = renames(R), ![p].imports = imports(R),
                ![p].diff = diff, ![p].renamed = renamed, ![p].pc = pc]
    BY <1>1
<1>3. QED BY <1>2 DEF Shaped, IsRecord, Fields, Idle, Steers, OnlyOf, Stays

(* So is a full import.                                                    *)
LEMMA WalkSteers ==
    ASSUME Shaped, NEW p \in Procs, Walk(p) PROVE Steers(p)
<1> DEFINE OnDisk == {i \in DOMAIN Order : Order[i] \in Walkable /\ tree[Order[i]] # Absent}
           files(s) == [k \in DOMAIN s |-> Order[s[k]]]
           rest(s) == Resumed(files(s))
<1>0. PICK s \in Ascending(OnDisk) :
          sync' = [sync EXCEPT
              ![p].full = TRUE, ![p].walk = rest(s), ![p].total = Len(files(s)),
              ![p].imports = {rest(s)[i] : i \in DOMAIN rest(s)}, ![p].diff = Paths,
              ![p].pc = "work"]
    BY Zenon DEF Walk
<1> HIDE DEF files, rest
<1>1. PICK walk, total, imports :
          sync' = [sync EXCEPT
              ![p].full = TRUE, ![p].walk = walk, ![p].total = total,
              ![p].imports = imports, ![p].diff = Paths, ![p].pc = "work"]
    BY <1>0
<1>2. QED BY <1>1 DEF Shaped, IsRecord, Fields, Idle, Steers, OnlyOf, Stays

(* The work goes on with it, or ends when an import throws.                *)
LEMMA WorkSteers ==
    ASSUME Shaped, NEW p \in Procs, Work(p) PROVE Steers(p)
<1>1. At(p, "work")
    BY DEF Work, Drop, Delete, Import, Importing, FailImport, Rename
<1>2. ASSUME NEW f \in Paths, Delete(p, f) PROVE Steers(p)
    <2>1. PICK deletes, read :
              sync' = [sync EXCEPT ![p].deletes = deletes, ![p].read = read]
        BY <1>2 DEF Delete
    <2>2. QED BY <1>1, <2>1 DEF At, Shaped, IsRecord, Fields, Idle, Steers, OnlyOf, Stays
<1>3. ASSUME NEW f \in Paths, Import(p, f) PROVE Steers(p)
    <2>1. PICK imports, read, dirty, processed :
              sync' = [sync EXCEPT ![p].imports = imports, ![p].read = read,
                                   ![p].dirty = dirty, ![p].processed = processed]
        BY <1>3 DEF Import
    <2>2. QED BY <1>1, <2>1 DEF At, Shaped, IsRecord, Fields, Idle, Steers, OnlyOf, Stays
<1>4. ASSUME NEW f \in Paths, FailImport(p, f) PROVE Steers(p)
    <2>1. PICK failed, errors, processed, imports :
              sync' = [sync EXCEPT ![p].imports = imports, ![p].failed = failed,
                                   ![p].errors = errors, ![p].processed = processed]
        BY <1>4 DEF FailImport
    <2>2. QED BY <1>1, <2>1 DEF At, Shaped, IsRecord, Fields, Idle, Steers, OnlyOf, Stays
<1>5. ASSUME NEW r \in Paths \X Paths, Rename(p, r) PROVE Steers(p)
    <2>1. End(p) \/ \E renames, read :
                       sync' = [sync EXCEPT ![p].renames = renames, ![p].read = read]
        BY <1>5 DEF Rename
    <2>2. CASE End(p)
        BY <2>2, EndSteers DEF Steers
    <2>3. ASSUME NEW renames, NEW read,
                 sync' = [sync EXCEPT ![p].renames = renames, ![p].read = read]
          PROVE  Steers(p)
        BY <1>1, <2>3 DEF At, Shaped, IsRecord, Fields, Idle, Steers, OnlyOf, Stays
    <2>4. QED BY <2>1, <2>2, <2>3
<1>6. ASSUME NEW f \in Paths, Drop(p, f) PROVE Steers(p)
    <2>1. PICK drops, pc :
              /\ pc \in {"work", "record"}
              /\ sync' = [sync EXCEPT ![p].drops = drops, ![p].pc = pc]
        BY <1>6 DEF Drop
    <2>2. QED BY <2>1 DEF Shaped, IsRecord, Fields, Idle, Steers, OnlyOf, Stays
<1>7. QED BY <1>2, <1>3, <1>4, <1>5, <1>6 DEF Work

(* A step after which the bookmark is as it was.                           *)
Unmoved == moves' = moves /\ asOf' = asOf

(* What follows for the order, if the lock and HEAD are left alone.        *)
LEMMA SteersKeepsOrder ==
    ASSUME OrderInv, NEW p \in Procs, Steers(p), sync[p].pc # "idle",
           lockVars' = lockVars, Unmoved,
           astray' \in BOOLEAN, astray => astray',
           Stays(p) => Captured(p) /\ sync[p].pc # "record"
    PROVE  OrderInv'
<1>1. /\ Shaped' /\ \A q \in Procs \ {p} : sync'[q] = sync[q]
      /\ inside' = inside /\ lost' = lost /\ moves' = moves /\ asOf' = asOf
    BY DEF Steers, OnlyOf, lockVars, Unmoved
<1>2. ASSUME NEW q \in Procs
      PROVE  /\ sync'[q].pc # "idle" <=> q \in inside'
             /\ sync'[q].at \in Nat /\ sync'[q].at <= moves'
             /\ ~astray' /\ Captured(q)' /\ q \notin lost' =>
                   asOf' <= sync'[q].at \/ StepsBack(q)'
    <2>1. CASE q # p
        BY <1>1, <2>1 DEF OrderInv, Captured, StepsBack, At
    <2>2. CASE q = p
        BY <1>1, <2>2 DEF OrderInv, Captured, Steers, Stays, Ends, StepsBack, At
    <2>3. QED BY <2>1, <2>2
<1>3. QED BY <1>1, <1>2 DEF OrderInv

(* Moving the bookmark to the HEAD that was captured, or to the one of     *)
(* now: it goes forward, unless the sync was late or steps back behind its *)
(* own import.  The others that captured HEAD are late themselves then,    *)
(* for one at a time is in time.                                           *)
LEMMA SetBookmarkKeepsOrder ==
    ASSUME OrderInv, LockInv, NEW p \in Procs, NEW c, NEW w, NEW at \in {sync[p].at, moves},
           SetBookmark(p, c, at, w), Steers(p), Captured(p),
           Stays(p) => at <= sync'[p].at \/ StepsBack(p)',
           lockVars' = lockVars, moves' = moves
    PROVE  OrderInv' /\ (asOf' >= asOf \/ astray' \/ StepsBack(p))
<1>1. /\ Shaped' /\ \A q \in Procs \ {p} : sync'[q] = sync[q]
      /\ inside' = inside /\ lost' = lost /\ moves' = moves
      /\ asOf' = at /\ astray' = (astray \/ p \in lost)
    BY DEF Steers, OnlyOf, lockVars, SetBookmark, Writes
<1>2. p \in inside /\ at \in Nat /\ sync[p].at <= at /\ at <= moves
    BY DEF OrderInv, Captured
<1>3. ASSUME ~astray', NEW q \in Procs \ {p}, Captured(q)', q \notin lost' PROVE FALSE
    <2>1. p \in inside \ lost /\ q \in inside \ lost
        BY <1>1, <1>2, <1>3 DEF OrderInv, Captured
    <2>2. QED BY <2>1 DEF LockInv, HolderInTime
<1>4. ASSUME NEW q \in Procs
      PROVE  /\ sync'[q].pc # "idle" <=> q \in inside'
             /\ sync'[q].at \in Nat /\ sync'[q].at <= moves'
             /\ ~astray' /\ Captured(q)' /\ q \notin lost' =>
                   asOf' <= sync'[q].at \/ StepsBack(q)'
    <2>1. CASE q # p
        BY <1>1, <1>3, <2>1 DEF OrderInv, Captured
    <2>2. CASE q = p
        BY <1>1, <1>2, <2>2 DEF OrderInv, Captured, Steers, Stays, Ends
    <2>3. QED BY <2>1, <2>2
<1>5. OrderInv'
    BY <1>1, <1>2, <1>4 DEF OrderInv
<1>6. asOf' >= asOf \/ astray' \/ StepsBack(p)
    BY <1>1, <1>2 DEF OrderInv
<1>7. QED BY <1>5, <1>6

(* No step of a sync that has begun breaks the order.                      *)
LEMMA GoesKeepsOrder ==
    ASSUME OrderInv, LockInv, LockInv', NEW p \in Procs, Goes(p)
    PROVE  OrderInv' /\ (asOf' >= asOf \/ astray' \/ StepsBack(p))
<1>0. Shaped /\ asOf \in Nat /\ moves \in Nat
    BY DEF OrderInv
<1>1. CASE Capture(p)
    <2>1. /\ OnlyOf(p) /\ sync'[p].pc = "anchor" /\ sync'[p].at = moves /\ sync[p].pc = "head"
          /\ inside' = inside /\ lost' = lost /\ moves' = moves /\ asOf' = asOf /\ astray' = astray
        BY <1>0, <1>1 DEF Capture, At, Shaped, IsRecord, Fields, Idle, OnlyOf,
                          lockVars, repoVars, markVars
    <2>2. QED BY <2>1, <1>0 DEF OrderInv, OnlyOf, Captured, StepsBack, At
<1>2. CASE UpToDate(p)
    <2>1. Steers(p) /\ Ends(p)
        BY <1>0, <1>2, EndSteers DEF UpToDate, Steers
    <2>2. /\ lockVars' = lockVars /\ Unmoved /\ astray' = astray /\ sync[p].pc # "idle"
          /\ ~Stays(p)
        BY <1>2, <2>1 DEF UpToDate, At, repoVars, markVars, Unmoved, Stays, Ends
    <2>3. OrderInv'
        BY <2>1, <2>2, SteersKeepsOrder DEF OrderInv
    <2>4. QED BY <1>0, <2>2, <2>3 DEF Unmoved
<1>3. CASE Diff(p) \/ Walk(p)
    <2>1. Steers(p)
        BY <1>0, <1>3, DiffSteers, WalkSteers
    <2>2. /\ lockVars' = lockVars /\ Unmoved /\ astray' = astray /\ sync[p].pc # "idle"
          /\ Captured(p) /\ sync[p].pc # "record"
        BY <1>3 DEF Diff, Walk, At, repoVars, markVars, Unmoved, Captured
    <2>3. OrderInv'
        BY <2>1, <2>2, SteersKeepsOrder DEF OrderInv
    <2>4. QED BY <1>0, <2>2, <2>3 DEF Unmoved
<1>4. CASE Work(p)
    <2>1. Steers(p)
        BY <1>0, <1>4, WorkSteers
    <2>2. /\ lockVars' = lockVars /\ Unmoved /\ sync[p].pc = "work" /\ Captured(p)
          /\ astray' \in BOOLEAN /\ (astray => astray')
        BY <1>4 DEF Work, Drop, Delete, Import, FailImport, Rename, Importing, Write, Writes, At,
                    repoVars, markVars, Unmoved, Captured, OrderInv
    <2>3. OrderInv'
        BY <2>1, <2>2, SteersKeepsOrder
    <2>4. QED BY <1>0, <2>2, <2>3 DEF Unmoved
<1>5. CASE CheckHead(p)
    <2>1. Steers(p)
        BY <1>0, <1>5, ConcludeSteers DEF CheckHead
    <2>2. /\ lockVars' = lockVars /\ Unmoved /\ astray' = astray /\ sync[p].pc # "idle"
          /\ Captured(p) /\ sync[p].pc # "record"
        BY <1>5 DEF CheckHead, WorkDone, At, repoVars, markVars, Unmoved, Captured
    <2>3. OrderInv'
        BY <2>1, <2>2, SteersKeepsOrder DEF OrderInv
    <2>4. QED BY <1>0, <2>2, <2>3 DEF Unmoved
<1>6. CASE EndImport(p)
    <2>1. Steers(p)
        BY <1>0, <1>6, ConcludeSteers DEF EndImport
    <2>2. lockVars' = lockVars /\ moves' = moves /\ sync[p].pc = "work" /\ Captured(p)
        BY <1>6 DEF EndImport, WorkDone, At, repoVars, Captured
    <2>3. CASE sync[p].failed = {}
        <3>1. SetBookmark(p, head, moves, Unnoticed(p))
            BY <1>6, <2>3 DEF EndImport
        <3>2. sync[p].full /\ sync' = [sync EXCEPT ![p].pc = "record", ![p].wandered = Unnoticed(p)]
            BY <1>6, <2>3 DEF EndImport, Conclude, MayRecord
        <3>3. sync'[p].pc = "record" /\ sync'[p].full /\ sync'[p].wandered = Unnoticed(p)
              /\ sync'[p].at = sync[p].at
            BY <1>0, <3>2 DEF Shaped, IsRecord, Fields, Idle
        <3>4. moves <= sync'[p].at \/ StepsBack(p)'
            <4>1. CASE moves = sync[p].at
                BY <1>0, <3>3, <4>1
            <4>2. CASE moves # sync[p].at
                <5>1. Unnoticed(p)
                    BY <3>2, <4>2 DEF Unnoticed
                <5>2. QED BY <3>3, <5>1, Zenon DEF StepsBack, At
            <4>3. QED BY <4>1, <4>2
        <3>5. QED BY <2>1, <2>2, <3>1, <3>4, SetBookmarkKeepsOrder
    <2>4. CASE sync[p].failed # {}
        <3>1. Unmoved /\ astray' = astray
            BY <1>6, <2>2, <2>4 DEF EndImport, markVars, Unmoved
        <3>2. OrderInv'
            BY <2>1, <2>2, <3>1, SteersKeepsOrder DEF OrderInv
        <3>3. QED BY <1>0, <3>1, <3>2 DEF Unmoved
    <2>5. QED BY <2>3, <2>4
<1>7. CASE Record(p)
    <2>1. Steers(p) /\ ~Stays(p)
        BY <1>0, <1>7, EndSteers DEF Record, Steers, Stays, Ends
    <2>2. lockVars' = lockVars /\ moves' = moves /\ Captured(p)
        BY <1>7 DEF Record, At, repoVars, Captured
    <2>3. SetBookmark(p, sync[p].captured, sync[p].at, sync[p].wandered)
        BY <1>7 DEF Record
    <2>4. QED BY <2>1, <2>2, <2>3, SetBookmarkKeepsOrder
<1>8. CASE Leave(p)
    <2>1. /\ OnlyOf(p) /\ sync'[p].pc = "idle" /\ sync'[p].at = 0
          /\ moves' = moves /\ asOf' = asOf /\ astray' = astray
        BY <1>0, <1>8 DEF Leave, Shaped, IsRecord, Fields, Idle, OnlyOf, repoVars, markVars
    <2>2. inside' = inside \ {p} /\ lost \ {p} \subseteq lost'
        BY <1>8 DEF Leave, Release, Abandon
    <2>3. QED BY <2>1, <2>2, <1>0 DEF OrderInv, OnlyOf, Captured, StepsBack, At
<1>9. QED BY <1>1, <1>2, <1>3, <1>4, <1>5, <1>6, <1>7, <1>8 DEF Goes

(* No step does.                                                           *)
LEMMA OrderStep ==
    ASSUME OrderInv, LockInv, LockInv', [Next]_vars
    PROVE  OrderInv' /\ (asOf' >= asOf \/ astray' \/ \E p \in Procs : StepsBack(p))
<1>0. Shaped /\ asOf \in Nat /\ moves \in Nat
    BY DEF OrderInv
<1>1. ASSUME NEW p \in Procs, Start(p) PROVE OrderInv' /\ asOf' >= asOf
    <2>1. PICK full, skip :
              sync' = [sync EXCEPT ![p] = [Idle EXCEPT !.pc = "head", !.full = full, !.skip = skip]]
        BY <1>1 DEF Start
    <2>2. OnlyOf(p) /\ sync'[p].pc = "head" /\ sync'[p].at = 0
        BY <1>0, <2>1 DEF Shaped, IsRecord, Fields, Idle, OnlyOf
    <2>3. /\ moves' = moves /\ asOf' = asOf /\ astray' = astray
          /\ inside' = inside \cup {p} /\ lost' = lost
        BY <1>1 DEF Start, Acquire, repoVars, markVars
    <2>4. QED BY <2>2, <2>3, <1>0 DEF OrderInv, OnlyOf, Captured, StepsBack, At
<1>2. ASSUME NEW p \in Procs, Interrupt(p) PROVE OrderInv' /\ asOf' >= asOf
    <2>1. moves' = moves /\ asOf' = asOf /\ astray' = astray /\ sync[p].pc # "idle"
        BY <1>2 DEF Interrupt, repoVars, markVars
    <2>2. CASE End(p) /\ UNCHANGED lockVars
        <3>1. Steers(p) /\ Ends(p) /\ ~Stays(p)
            BY <1>0, <2>2, EndSteers DEF Steers, Stays, Ends
        <3>2. OrderInv'
            BY <2>1, <2>2, <3>1, SteersKeepsOrder DEF OrderInv, Unmoved
        <3>3. QED BY <1>0, <2>1, <3>2
    <2>3. CASE Abandon(p) /\ sync' = [sync EXCEPT ![p] = Idle]
        <3>1. OnlyOf(p) /\ sync'[p].pc = "idle" /\ sync'[p].at = 0
            BY <1>0, <2>3 DEF Shaped, IsRecord, Fields, Idle, OnlyOf
        <3>2. inside' = inside \ {p} /\ lost' = lost \ {p}
            BY <2>3 DEF Abandon
        <3>3. QED BY <2>1, <3>1, <3>2, <1>0 DEF OrderInv, OnlyOf, Captured, StepsBack, At
    <2>4. QED BY <1>2, <2>2, <2>3 DEF Interrupt
<1>3. ASSUME NEW c \in Commits, MoveHead(c) PROVE OrderInv' /\ asOf' >= asOf
    <2>1. /\ moves' = moves + 1 /\ asOf' = asOf /\ astray' = astray /\ sync' = sync
          /\ inside' = inside /\ lost' = lost
        BY <1>3 DEF MoveHead, markVars, lockVars
    <2>2. QED BY <2>1, <1>0 DEF OrderInv, Captured, Shaped, IsRecord, StepsBack, At
<1>7. ASSUME NEW f \in Paths, NEW content \in Contents, Edit(f, content)
      PROVE  OrderInv' /\ asOf' >= asOf
    <2>1. /\ moves' = moves /\ asOf' = asOf /\ astray' = astray /\ sync' = sync
          /\ inside' = inside /\ lost' = lost
        BY <1>7 DEF Edit, markVars, lockVars
    <2>2. QED BY <2>1, <1>0 DEF OrderInv, Captured, Shaped, IsRecord, StepsBack, At
<1>4. CASE LockExpires
    <2>1. /\ moves' = moves /\ asOf' = asOf /\ astray' = astray /\ sync' = sync
          /\ inside' = inside /\ lost \subseteq lost'
        BY <1>4 DEF LockExpires, Expire, markVars, repoVars
    <2>2. QED BY <2>1, <1>0 DEF OrderInv, Captured, Shaped, IsRecord, StepsBack, At
<1>5. CASE UNCHANGED vars
    <2>1. /\ moves' = moves /\ asOf' = asOf /\ astray' = astray /\ sync' = sync
          /\ inside' = inside /\ lost = lost'
        BY <1>5 DEF vars, lockVars, repoVars, markVars
    <2>2. QED BY <2>1, <1>0 DEF OrderInv, Captured, Shaped, IsRecord, StepsBack, At
<1>6. QED BY <1>1, <1>2, <1>3, <1>4, <1>5, <1>7, GoesKeepsOrder DEF Next

(* At the start no sync has captured HEAD.                                 *)
LEMMA OrderInit == Init => OrderInv
<1> SUFFICES ASSUME Init PROVE OrderInv
    OBVIOUS
<1>1. IsRecord(Idle) /\ Idle.pc = "idle" /\ Idle.at = 0
    BY DEF Idle, IsRecord, Fields
<1>2. /\ sync = [q \in Procs |-> Idle] /\ inside = {}
      /\ moves = 0 /\ asOf = 0
    BY DEF Init, LockInit
<1>3. Shaped /\ \A q \in Procs : sync[q].pc = "idle" /\ sync[q].at = 0
    BY <1>1, <1>2 DEF Shaped
<1>4. \A q \in Procs : ~Captured(q)
    BY <1>3 DEF Captured
<1>5. moves \in Nat /\ asOf \in Nat /\ asOf <= moves
    BY <1>2
<1>7. astray \in BOOLEAN
    BY DEF Init
<1>6. \A q \in Procs :
         /\ sync[q].pc # "idle" <=> q \in inside
         /\ sync[q].at \in Nat /\ sync[q].at <= moves
         /\ ~astray /\ Captured(q) /\ q \notin lost => asOf <= sync[q].at \/ StepsBack(q)
    BY <1>2, <1>3, <1>4
<1>8. QED BY <1>3, <1>5, <1>6, <1>7 DEF OrderInv

(* The bookmark never moves back behind a sync that captured HEAD later,   *)
(* unless a sync wrote after its lock had expired, or a full sync steps    *)
(* back behind the HEAD its own import recorded: for any processes, pids,  *)
(* histories and modes.                                                    *)
THEOREM BookmarkOrder == Spec => BookmarkNeverRegresses
<1>1. Init => OrderInv /\ LockInv
    BY OrderInit, LockInvInit DEF Init
<1>2. LockInv /\ [Next]_vars => LockInv'
    BY SyncStepIsLockStep, LockInvStep
<1>3. OrderInv /\ LockInv /\ LockInv' /\ [Next]_vars
         => OrderInv' /\ [asOf' >= asOf \/ astray' \/ \E p \in Procs : StepsBack(p)]_vars
    BY OrderStep
<1>4. QED BY <1>1, <1>2, <1>3, PTL DEF Spec, BookmarkNeverRegresses


-----------------------------------------------------------------------------
(* What the bookmark says.  Two things are known of a sync.  Of its record *)
(* alone, against HEAD: the paths it has still to do and those it has done *)
(* are apart, and while HEAD stands where it was captured each path it     *)
(* answers for is still to be done, has failed, or was read as the commit  *)
(* that was captured has it, whatever the working tree has by now.  And for as long as it is in time: the pages  *)
(* it wrote are as it left them, and the bookmark is the one it started    *)
(* from.                                                                   *)
SyncStates ==
    [pc : Pcs, captured : Commits \cup {NoCommit}, at : Nat, full : BOOLEAN, skip : BOOLEAN,
     drops : SUBSET (Paths \ Syncable), deletes : SUBSET Syncable,
     renames : SUBSET (Paths \X Syncable), imports : SUBSET Importable,
     diff : SUBSET Paths, walk : Seq(Walkable), total : Nat, processed : Nat, errors : BOOLEAN,
     read : SUBSET (Paths \X Contents), failed : SUBSET Paths, renamed : SUBSET Paths,
     dirty : SUBSET Paths, wandered : BOOLEAN]

(* The paths the commit of h answers for.                                  *)
Answers(h) ==
    {f \in h.diff \cap Syncable :
        f \notin h.renamed /\ f \notin h.dirty /\ (h.full => \E i \in DOMAIN h.walk : h.walk[i] = f)}

Done(h, f) == <<f, Trees[h.captured][f]>> \in h.read

Apart(h) ==
    /\ \A f \in h.deletes : f \notin h.imports
    /\ \A r \in h.renames :
          /\ r[1] # r[2]
          /\ r[1] \notin h.deletes /\ r[1] \notin h.imports
          /\ r[2] \notin h.deletes /\ r[2] \notin h.imports
    /\ \A r, s \in h.renames : r # s => r[1] # s[1] /\ r[2] # s[2] /\ r[1] # s[2]
    /\ \A e \in h.read :
          /\ e[1] \notin h.deletes /\ e[1] \notin h.imports
          /\ \A r \in h.renames : e[1] # r[1] /\ e[1] # r[2]

Fresh(h) ==
    /\ h.drops = {} /\ h.deletes = {} /\ h.renames = {} /\ h.imports = {} /\ h.diff = {}
    /\ h.read = {} /\ h.failed = {} /\ h.renamed = {} /\ h.dirty = {}
    /\ h.walk = <<>> /\ h.processed = 0 /\ ~h.wandered

Counted(h) ==
    /\ IsFiniteSet(h.imports)
    /\ h.processed + Cardinality(h.imports) <= Len(h.walk)
    /\ Len(h.walk) <= h.total /\ h.total <= Len(Order)

(* A sync of record h while HEAD is hd, after mv moves.                    *)
Sound(h, hd, mv) ==
    /\ h.pc \notin {"work", "record"} => Fresh(h)
    /\ h.pc \in {"anchor", "work", "record"} =>
          h.captured \in Commits /\ (mv = h.at => hd = h.captured)
    /\ Apart(h)
    /\ h.drops # {} =>
          /\ h.pc = "work" /\ ~h.full /\ h.read = {}
          /\ \A f \in Answers(h) : f \in h.deletes \/ f \in h.imports
    /\ \A f \in h.deletes : Trees[h.captured][f] = Absent
    /\ h.pc \in {"work", "record"} /\ h.full =>
          h.diff = Paths /\ h.deletes = {} /\ h.renames = {}
    /\ h.pc = "work" /\ h.full => Counted(h)
    /\ h.pc = "work" /\ mv = h.at =>
          \A f \in Answers(h) :
              f \in h.deletes \/ f \in h.imports \/ f \in h.failed \/ Done(h, f)
    /\ h.pc = "record" /\ ~h.wandered =>
          \A f \in Answers(h) : (h.skip /\ f \in h.failed) \/ Done(h, f)

(* And while it is in time.                                                *)
Current(h, pg, bm) ==
    /\ \A e \in h.read : pg[e[1]] = e[2]
    /\ h.pc \in {"work", "record"} /\ ~h.full =>
          bm \in Commits /\ \A f \in Paths \ h.diff : Trees[bm][f] = Trees[h.captured][f]

Covers(st, pg, bm) == bm # NoCommit => \A f \in Syncable \ st : pg[f] = Trees[bm][f]

CheckpointOK ==
    checkpoint = <<>> \/
        /\ checkpoint.total \in 1 .. Len(Order)
        /\ checkpoint.index \in 1 .. checkpoint.total

TablesOK ==
    /\ head \in Commits /\ moves \in Nat
    /\ tree \in [Paths -> Contents] /\ edits \in Nat
    /\ bookmark \in Commits \cup {NoCommit}
    /\ pages \in [Paths -> Contents \ Bad]
    /\ CheckpointOK
    /\ stale \subseteq Paths
    /\ mishaps \in Nat

SyncsSound == sync \in [Procs -> SyncStates] /\ \A p \in Procs : Sound(sync[p], head, moves)

CoverInv ==
    /\ LockInv /\ OrderInv /\ TablesOK /\ SyncsSound
    /\ ~astray =>
          /\ Covers(stale, pages, bookmark)
          /\ \A p \in inside \ lost : Current(sync[p], pages, bookmark)

(* What an action of the sync of p does to its record.                     *)
Proceeds(p) ==
    \E h \in SyncStates :
        /\ sync' = [sync EXCEPT ![p] = h]
        /\ Sound(h, head, moves)
        /\ Current(sync[p], pages, bookmark) => Current(h, pages', bookmark')

(* Commits have a content, or none, at every path.                         *)
LEMMA TreeContents ==
    /\ \A c \in Commits, f \in Paths : Trees[c][f] \in Contents
    /\ Absent \in Contents /\ Absent \notin Bad
    /\ Order \in Seq(Paths) /\ Importable \subseteq Paths
    /\ Syncable \subseteq Importable /\ Walkable \subseteq Importable
    /\ NoCommit \notin Commits
<1>1. \A c \in Commits, f \in Paths : Trees[c][f] \in Contents
    BY DEF Contents
<1>2. Absent \in Contents
    BY DEF Contents
<1>3. QED BY <1>1, <1>2, SyncAssumption DEF Importable

(* A sync that has not begun, or is through, claims nothing.               *)
LEMMA FreshSound ==
    ASSUME NEW h \in SyncStates, Fresh(h), h.pc \in {"idle", "head", "leave"}, NEW hd, NEW mv
    PROVE  Sound(h, hd, mv)
BY DEF Sound, Apart, Fresh

(* So does one that does not run.                                          *)
LEMMA IdleFresh == Idle \in SyncStates /\ Fresh(Idle) /\ Idle.pc = "idle"
<1>1. <<>> \in Seq(Walkable)
    OBVIOUS
<1>2. Idle \in SyncStates
    BY <1>1 DEF SyncStates, Pcs, Idle
<1>3. Fresh(Idle) /\ Idle.pc = "idle"
    BY DEF Fresh, Idle
<1>4. QED BY <1>2, <1>3

(* A sync that ends forgets what it knew.                                  *)
LEMMA EndProceeds ==
    ASSUME NEW p \in Procs, SyncsSound, End(p)
    PROVE  Proceeds(p) /\ sync' \in [Procs -> SyncStates]
<1>0. Idle \in SyncStates /\ Fresh(Idle)
    BY IdleFresh
<1>1. Through \in SyncStates /\ Fresh(Through) /\ Through.pc = "leave"
    BY <1>0 DEF Through, SyncStates, Pcs, Fresh
<1>2. Sound(Through, head, moves)
    BY <1>1, FreshSound
<1>3. Current(Through, pages', bookmark')
    BY <1>1 DEF Current, Fresh
<1>4. sync' = [sync EXCEPT ![p] = Through]
    BY DEF End
<1>5. QED BY <1>1, <1>2, <1>3, <1>4 DEF Proceeds, SyncsSound

(* A sync that captures HEAD has done nothing yet.                         *)
LEMMA CaptureProceeds ==
    ASSUME NEW p \in Procs, TablesOK, SyncsSound, Capture(p)
    PROVE  Proceeds(p)
<1> DEFINE h == [sync[p] EXCEPT !.captured = head, !.at = moves, !.pc = "anchor"]
<1>1. sync[p] \in SyncStates /\ Sound(sync[p], head, moves) /\ sync[p].pc = "head"
    BY DEF SyncsSound, Capture, At
<1>2. sync' = [sync EXCEPT ![p] = h]
    BY DEF Capture, SyncsSound
<1>3. moves \in Nat /\ head \in Commits
    BY DEF TablesOK
<1>4. h \in SyncStates
    BY <1>1, <1>3 DEF SyncStates, Pcs
<1>5. /\ h.captured = head /\ h.pc = "anchor"
      /\ h.drops = sync[p].drops /\ h.dirty = sync[p].dirty
      /\ h.read = sync[p].read /\ h.deletes = sync[p].deletes /\ h.renames = sync[p].renames
      /\ h.imports = sync[p].imports /\ h.diff = sync[p].diff /\ h.failed = sync[p].failed
      /\ h.renamed = sync[p].renamed /\ h.walk = sync[p].walk
      /\ h.processed = sync[p].processed /\ h.wandered = sync[p].wandered
    BY <1>1 DEF SyncStates
<1> HIDE DEF h
<1>6. Fresh(h)
    BY <1>1, <1>5 DEF Sound, Fresh
<1>7. Sound(h, head, moves)
    BY <1>3, <1>5, <1>6 DEF Sound, Apart, Fresh
<1>8. Current(h, pages', bookmark')
    BY <1>5, <1>6 DEF Current, Fresh
<1>9. QED BY <1>2, <1>4, <1>7, <1>8 DEF Proceeds


(* A manifest splits the paths that changed; what it leaves out was paired *)
(* by git, or is not syncable.                                             *)
LEMMA DiffProceeds ==
    ASSUME NEW p \in Procs, TablesOK, SyncsSound, Diff(p)
    PROVE  Proceeds(p)
<1> DEFINE from == Last(p)
           to == sync[p].captured
           changed == {f \in Paths : Trees[from][f] # Trees[to][f]}
           renames(R) == {r \in R : r[2] \in Syncable}
           deletes(R) == {f \in Gone(from, to) \cap Syncable : \A r \in R : r[1] # f}
           imports(R) == {f \in changed \cap Syncable :
                             Trees[to][f] # Absent /\ \A r \in R : r[2] # f}
           drops == {f \in changed \ Syncable : Trees[from][f] # Absent /\ Trees[to][f] # Absent}
           paired(R) == UNION {{r[1], r[2]} : r \in R}
<1>1. PICK R \in Matchings(from, to) :
          sync' = [sync EXCEPT
              ![p].drops = drops,
              ![p].deletes = deletes(R), ![p].renames = renames(R), ![p].imports = imports(R),
              ![p].diff = changed, ![p].renamed = paired(R),
              ![p].pc = IF drops = {} /\ deletes(R) = {} /\ renames(R) = {} /\ imports(R) = {}
                        THEN "record" ELSE "work"]
    BY Zenon DEF Diff
<1> DEFINE pc == IF drops = {} /\ deletes(R) = {} /\ renames(R) = {} /\ imports(R) = {}
                 THEN "record" ELSE "work"
           h == [sync[p] EXCEPT !.drops = drops, !.deletes = deletes(R), !.renames = renames(R),
                                !.imports = imports(R), !.diff = changed,
                                !.renamed = paired(R), !.pc = pc]
<1>2. sync[p] \in SyncStates /\ Sound(sync[p], head, moves) /\ sync[p].pc = "anchor"
    BY DEF SyncsSound, Diff, At
<1>3. Fresh(sync[p]) /\ to \in Commits /\ (moves = sync[p].at => head = to)
    BY <1>2 DEF Sound
<1>4. ~sync[p].full /\ from = bookmark /\ from \in Commits
    <2>1. from # NoCommit
        BY DEF Diff, NeedsFull
    <2>2. QED BY <1>2, <2>1 DEF Last, TablesOK, SyncStates
<1>5. /\ R \subseteq Paths \X Paths
      /\ \A r \in R : Trees[from][r[1]] # Absent /\ Trees[to][r[1]] = Absent
      /\ \A r \in R : Trees[from][r[2]] = Absent /\ Trees[to][r[2]] # Absent
      /\ \A r, s \in R : r[1] = s[1] \/ r[2] = s[2] => r = s
    BY DEF Matchings, Gone
<1>6. /\ deletes(R) \subseteq Syncable /\ imports(R) \subseteq Importable
      /\ changed \subseteq Paths /\ drops \subseteq Paths \ Syncable
      /\ renames(R) \subseteq Paths \X Syncable
    BY <1>5, TreeContents
<1>7. \A f : f \in paired(R) <=> \E r \in R : f = r[1] \/ f = r[2]
    OBVIOUS
<1>8. paired(R) \subseteq Paths
    BY <1>5, <1>7
<1>9. /\ \A f \in deletes(R) : f \in Paths /\ Trees[to][f] = Absent /\ \A r \in R : r[1] # f
      /\ \A f \in imports(R) : f \in Paths /\ Trees[to][f] # Absent /\ \A r \in R : r[2] # f
      /\ \A f \in renames(R) : f \in R
    BY TreeContents DEF Gone
<1>10. \A f \in changed \cap Syncable :
          f \in deletes(R) \/ f \in imports(R) \/ f \in paired(R)
    <2> SUFFICES ASSUME NEW f \in changed \cap Syncable, f \notin paired(R)
                 PROVE  f \in deletes(R) \/ f \in imports(R)
        OBVIOUS
    <2>1. \A r \in R : r[1] # f /\ r[2] # f
        BY <1>7
    <2>2. QED BY <2>1 DEF Gone
<1>11. \A f \in Paths \ changed : Trees[from][f] = Trees[to][f]
    OBVIOUS
<1>12. pc = "record" => drops = {} /\ deletes(R) = {} /\ imports(R) = {}
    OBVIOUS
<1>13. pc \in {"work", "record"}
    OBVIOUS
<1>14. sync' = [sync EXCEPT ![p] = h]
    BY <1>1 DEF SyncsSound
<1> HIDE DEF from, changed, renames, deletes, imports, drops, paired, pc
<1>15. h \in SyncStates
    BY <1>2, <1>6, <1>8, <1>13 DEF SyncStates, Pcs
<1>16. /\ h.captured = to /\ h.pc = pc /\ h.full = FALSE /\ h.at = sync[p].at
       /\ h.drops = drops /\ h.dirty = {}
       /\ h.read = {} /\ h.failed = {} /\ h.deletes = deletes(R) /\ h.renames = renames(R)
       /\ h.imports = imports(R) /\ h.diff = changed /\ h.renamed = paired(R)
    BY <1>2, <1>3, <1>4 DEF SyncStates, Fresh
<1> HIDE DEF h, to
<1>17. Apart(h)
    BY <1>5, <1>9, <1>16 DEF Apart
<1>18. Sound(h, head, moves)
    <2>1. \A f \in Answers(h) : f \in deletes(R) \/ f \in imports(R)
        BY <1>10, <1>16 DEF Answers
    <2>2. QED BY <1>3, <1>9, <1>12, <1>13, <1>16, <1>17, <2>1 DEF Sound
<1>19. Current(h, pages', bookmark')
    <2>1. bookmark' = bookmark
        BY DEF Diff, markVars
    <2>2. QED BY <1>4, <1>11, <1>16, <2>1 DEF Current
<1>20. QED BY <1>14, <1>15, <1>18, <1>19 DEF Proceeds

(* A sync with nothing to do ends.                                         *)
LEMMA UpToDateProceeds ==
    ASSUME NEW p \in Procs, SyncsSound, UpToDate(p) PROVE Proceeds(p)
BY EndProceeds DEF UpToDate


(* The list of a walk: walkable files, no more of them than paths, and     *)
(* what is left of it after a checkpoint.                                  *)
LEMMA WalkList ==
    ASSUME TablesOK, NEW I \in SUBSET DOMAIN Order, \A i \in I : Order[i] \in Walkable,
           NEW s \in Ascending(I)
    PROVE  LET files == [k \in DOMAIN s |-> Order[s[k]]]
           IN  /\ files \in Seq(Walkable) /\ Len(files) <= Len(Order)
               /\ Resumed(files) \in Seq(Walkable) /\ Len(Resumed(files)) <= Len(files)
<1> DEFINE n == Cardinality(I)
           files == [k \in DOMAIN s |-> Order[s[k]]]
<1>1. Len(Order) \in Nat /\ DOMAIN Order = 1 .. Len(Order)
    BY TreeContents
<1>2. n \in Nat /\ n <= Len(Order)
    <2>1. IsFiniteSet(1 .. Len(Order)) /\ Cardinality(1 .. Len(Order)) = Len(Order)
        <3> DEFINE top == Len(Order)
        <3>1. top \in Nat
            BY <1>1
        <3> HIDE DEF top
        <3>2. IsFiniteSet(1 .. top) /\ Cardinality(1 .. top) = top
            BY <3>1, FS_Interval
        <3>3. QED BY <3>2 DEF top
    <2>2. QED BY <1>1, <2>1, FS_Subset, FS_CardinalityType
<1>3. DOMAIN s = 1 .. n /\ \A k \in 1 .. n : s[k] \in I
    BY DEF Ascending
<1>4. files \in Seq(Walkable) /\ Len(files) = n
    <2>1. files \in [1 .. n -> Walkable]
        BY <1>3
    <2>2. QED BY <1>2, <2>1
<1> HIDE DEF files, n
<1>5. Resumed(files) \in Seq(Walkable) /\ Len(Resumed(files)) <= Len(files)
    <2>1. CASE checkpoint # <<>> /\ checkpoint.total = Len(files)
        <3>1. checkpoint.index \in 1 .. Len(files)
            BY <2>1 DEF TablesOK, CheckpointOK
        <3>2. Resumed(files) = SubSeq(files, checkpoint.index + 1, Len(files))
            BY <2>1 DEF Resumed
        <3>3. QED BY <1>2, <1>4, <3>1, <3>2
    <2>2. CASE ~(checkpoint # <<>> /\ checkpoint.total = Len(files))
        BY <1>2, <1>4, <2>2 DEF Resumed
    <2>3. QED BY <2>1, <2>2
<1>6. QED BY <1>2, <1>4, <1>5 DEF files

(* A list has no more members than places.                                 *)
LEMMA ListSize ==
    ASSUME NEW S, NEW s \in Seq(S)
    PROVE  LET T == {s[i] : i \in DOMAIN s}
           IN  IsFiniteSet(T) /\ Cardinality(T) \in Nat /\ Cardinality(T) <= Len(s)
<1> DEFINE T == {s[i] : i \in DOMAIN s}
<1>1. Len(s) \in Nat /\ DOMAIN s = 1 .. Len(s)
    OBVIOUS
<1>2. IsFiniteSet(1 .. Len(s)) /\ Cardinality(1 .. Len(s)) = Len(s)
    BY <1>1, FS_Interval
<1>3. s \in Surjection(1 .. Len(s), T)
    BY <1>1 DEF Surjection
<1>4. IsFiniteSet(T) /\ Cardinality(T) <= Len(s)
    BY <1>2, <1>3, FS_Surjection
<1>5. QED BY <1>4, FS_CardinalityType

(* A full import answers for the files it walks, and for no other.         *)
LEMMA WalkProceeds ==
    ASSUME NEW p \in Procs, TablesOK, SyncsSound, Walk(p)
    PROVE  Proceeds(p)
<1> DEFINE OnDisk == {i \in DOMAIN Order : Order[i] \in Walkable /\ tree[Order[i]] # Absent}
           files(s) == [k \in DOMAIN s |-> Order[s[k]]]
           rest(s) == Resumed(files(s))
           listed(s) == {rest(s)[i] : i \in DOMAIN rest(s)}
<1>1. PICK s \in Ascending(OnDisk) :
          sync' = [sync EXCEPT
              ![p].full = TRUE, ![p].walk = rest(s), ![p].total = Len(files(s)),
              ![p].imports = listed(s), ![p].diff = Paths, ![p].pc = "work"]
    BY Zenon DEF Walk
<1> DEFINE h == [sync[p] EXCEPT !.full = TRUE, !.walk = rest(s), !.total = Len(files(s)),
                                !.imports = listed(s), !.diff = Paths, !.pc = "work"]
<1>2. sync[p] \in SyncStates /\ Sound(sync[p], head, moves) /\ sync[p].pc = "anchor"
    BY DEF SyncsSound, Walk, At
<1>3. Fresh(sync[p]) /\ sync[p].captured \in Commits
      /\ (moves = sync[p].at => head = sync[p].captured)
    BY <1>2 DEF Sound
<1>4. /\ files(s) \in Seq(Walkable) /\ Len(files(s)) <= Len(Order)
      /\ rest(s) \in Seq(Walkable) /\ Len(rest(s)) <= Len(files(s))
    BY WalkList
<1>5. IsFiniteSet(listed(s)) /\ Cardinality(listed(s)) \in Nat
      /\ Cardinality(listed(s)) <= Len(rest(s))
    <2> HIDE DEF rest
    <2>1. QED BY <1>4, ListSize
<1>6. sync' = [sync EXCEPT ![p] = h]
    BY <1>1 DEF SyncsSound
<1> HIDE DEF files, rest
<1>7. /\ \A i \in DOMAIN rest(s) : rest(s)[i] \in listed(s)
      /\ listed(s) \subseteq Importable
    BY <1>4, TreeContents
<1> HIDE DEF listed
<1>8. h \in SyncStates
    <2>1. Len(files(s)) \in Nat
        BY <1>4
    <2>2. QED BY <1>2, <1>4, <1>7, <2>1 DEF SyncStates, Pcs
<1>9. /\ h.captured = sync[p].captured /\ h.pc = "work" /\ h.full = TRUE /\ h.at = sync[p].at
      /\ h.drops = {} /\ h.dirty = {}
      /\ h.read = {} /\ h.failed = {} /\ h.deletes = {} /\ h.renames = {}
      /\ h.imports = listed(s) /\ h.diff = Paths /\ h.renamed = {}
      /\ h.walk = rest(s) /\ h.total = Len(files(s)) /\ h.processed = 0
    BY <1>2, <1>3 DEF SyncStates, Fresh
<1> HIDE DEF h
<1>10. Apart(h)
    BY <1>9 DEF Apart
<1>11. Counted(h)
    BY <1>4, <1>5, <1>9 DEF Counted
<1>12. Sound(h, head, moves)
    <2>1. \A f \in Answers(h) : f \in h.imports
        BY <1>7, <1>9 DEF Answers
    <2>2. QED BY <1>3, <1>9, <1>10, <1>11, <2>1 DEF Sound
<1>13. Current(h, pages', bookmark')
    BY <1>9 DEF Current
<1>14. QED BY <1>6, <1>8, <1>12, <1>13 DEF Proceeds


(* Each file that is processed is taken from those left.                   *)
LEMMA ImportCounted ==
    ASSUME NEW g \in SyncStates, NEW h, Counted(g), NEW f \in g.imports,
           h.imports = g.imports \ {f}, h.processed = g.processed + 1,
           h.walk = g.walk, h.total = g.total
    PROVE  Counted(h) /\ g.processed + 1 <= Len(g.walk)
<1>1. IsFiniteSet(g.imports \ {f}) /\ Cardinality(g.imports \ {f}) = Cardinality(g.imports) - 1
    BY FS_RemoveElement DEF Counted
<1>2. Cardinality(g.imports) \in Nat /\ Cardinality(g.imports \ {f}) \in Nat
    BY <1>1, FS_CardinalityType DEF Counted
<1>3. g.processed \in Nat /\ Len(g.walk) \in Nat
    BY DEF SyncStates
<1>4. QED BY <1>1, <1>2, <1>3 DEF Counted

(* A page that is dropped is of no syncable path.                          *)
LEMMA DropProceeds ==
    ASSUME NEW p \in Procs, TablesOK, OrderInv, SyncsSound, NEW f \in Paths, Drop(p, f)
    PROVE  Proceeds(p)
<1> DEFINE left == sync[p].drops \ {f}
           unchanged == sync[p].deletes = {} /\ sync[p].renames = {} /\ sync[p].imports = {}
           pc == IF sync[p].drops = {f} /\ unchanged THEN "record" ELSE "work"
           h == [sync[p] EXCEPT !.drops = left, !.pc = pc]
<1>1. sync[p] \in SyncStates /\ Sound(sync[p], head, moves) /\ sync[p].pc = "work"
      /\ f \in sync[p].drops
    BY DEF SyncsSound, Drop, At
<1>2. sync' = [sync EXCEPT ![p] = h]
    BY DEF Drop, SyncsSound
<1>3. pc \in {"work", "record"} /\ (pc = "record" => left = {} /\ unchanged)
    OBVIOUS
<1>4. h \in SyncStates
    <2>1. left \in SUBSET (Paths \ Syncable)
        BY <1>1 DEF SyncStates
    <2> HIDE DEF left, pc
    <2>2. QED BY <1>1, <1>3, <2>1 DEF SyncStates, Pcs
<1>5. /\ h.captured = sync[p].captured /\ h.pc = pc /\ h.full = sync[p].full
      /\ h.at = sync[p].at /\ h.drops = left /\ h.deletes = sync[p].deletes
      /\ h.read = sync[p].read /\ h.dirty = sync[p].dirty
      /\ h.renames = sync[p].renames /\ h.imports = sync[p].imports /\ h.diff = sync[p].diff
      /\ h.failed = sync[p].failed /\ h.renamed = sync[p].renamed /\ h.walk = sync[p].walk
    BY <1>1 DEF SyncStates
<1> HIDE DEF h, pc, left
<1>6. Apart(sync[p]) /\ ~sync[p].full /\ sync[p].read = {}
      /\ \A g \in Answers(sync[p]) : g \in sync[p].deletes \/ g \in sync[p].imports
    BY <1>1 DEF Sound
<1>7. Apart(h)
    BY <1>5, <1>6 DEF Apart
<1>8. Answers(h) = Answers(sync[p])
    BY <1>5 DEF Answers
<1>9. Sound(h, head, moves)
    BY <1>1, <1>3, <1>5, <1>6, <1>7, <1>8 DEF Sound
<1>10. Current(sync[p], pages, bookmark) => Current(h, pages', bookmark')
    <2>1. bookmark' = bookmark
        BY DEF Drop, markVars
    <2>2. QED BY <1>1, <1>3, <1>5, <1>6, <2>1 DEF Current
<1>11. QED BY <1>2, <1>4, <1>9, <1>10 DEF Proceeds

(* A deleted page is absent, as its file is from the captured commit.      *)
LEMMA DeleteProceeds ==
    ASSUME NEW p \in Procs, TablesOK, OrderInv, SyncsSound, NEW f \in Paths, Delete(p, f)
    PROVE  Proceeds(p)
<1> DEFINE left == sync[p].deletes \ {f}
           seen == sync[p].read \cup {<<f, Absent>>}
           h == [sync[p] EXCEPT !.deletes = left, !.read = seen]
<1>1. sync[p] \in SyncStates /\ Sound(sync[p], head, moves) /\ sync[p].pc = "work"
      /\ f \in sync[p].deletes /\ sync[p].drops = {}
    BY DEF SyncsSound, Delete, At
<1>2. sync' = [sync EXCEPT ![p] = h]
    BY DEF Delete, SyncsSound
<1>3. h \in SyncStates
    <2>1. left \in SUBSET Syncable /\ seen \in SUBSET (Paths \X Contents)
        BY <1>1, TreeContents DEF SyncStates
    <2> HIDE DEF left, seen
    <2>2. QED BY <1>1, <2>1 DEF SyncStates
<1>4. /\ h.captured = sync[p].captured /\ h.pc = "work" /\ h.full = sync[p].full
      /\ h.at = sync[p].at /\ h.deletes = sync[p].deletes \ {f}
      /\ h.drops = {} /\ h.dirty = sync[p].dirty
      /\ h.read = sync[p].read \cup {<<f, Absent>>}
      /\ h.renames = sync[p].renames /\ h.imports = sync[p].imports /\ h.diff = sync[p].diff
      /\ h.failed = sync[p].failed /\ h.renamed = sync[p].renamed /\ h.walk = sync[p].walk
    BY <1>1 DEF SyncStates
<1> HIDE DEF h
<1>5. Apart(sync[p]) /\ Trees[sync[p].captured][f] = Absent /\ ~sync[p].full
    BY <1>1 DEF Sound
<1>6. Apart(h)
    BY <1>1, <1>4, <1>5 DEF Apart
<1>7. Answers(h) = Answers(sync[p])
    BY <1>4 DEF Answers
<1>8. Sound(h, head, moves)
    BY <1>1, <1>4, <1>5, <1>6, <1>7 DEF Sound, Done, SyncStates
<1>9. Current(sync[p], pages, bookmark) => Current(h, pages', bookmark')
    <2>1. pages' = [pages EXCEPT ![f] = Absent] /\ pages \in [Paths -> Contents \ Bad]
          /\ bookmark' = bookmark
        BY DEF Delete, Write, TablesOK, markVars
    <2>2. \A e \in sync[p].read : e[1] \in Paths /\ e[1] # f
        BY <1>1, <1>5 DEF Apart, SyncStates
    <2>3. QED BY <1>1, <1>4, <2>1, <2>2 DEF Current
<1>10. QED BY <1>2, <1>3, <1>8, <1>9 DEF Proceeds

(* An import reads the file as the working tree has it: what HEAD has, or  *)
(* what the sync does not answer for.                                      *)
LEMMA ImportProceeds ==
    ASSUME NEW p \in Procs, TablesOK, OrderInv, SyncsSound, NEW f \in Paths, Import(p, f)
    PROVE  Proceeds(p)
<1> DEFINE file == tree[f]
           left == sync[p].imports \ {f}
           seen == sync[p].read \cup {<<f, file>>}
           dirty == sync[p].dirty \cup (IF file = Trees[head][f] THEN {} ELSE {f})
           n == sync[p].processed + 1
           h == [sync[p] EXCEPT !.imports = left, !.read = seen, !.dirty = dirty,
                                !.processed = n]
<1>1. /\ sync[p] \in SyncStates /\ Sound(sync[p], head, moves) /\ sync[p].pc = "work"
      /\ f \in sync[p].imports /\ sync[p].drops = {} /\ sync[p].deletes = {}
      /\ sync[p].renames = {}
    BY DEF SyncsSound, Import, Importing, At
<1>2. sync' = [sync EXCEPT ![p] = h]
    BY DEF Import, SyncsSound
<1>3. file \in Contents
    BY DEF TablesOK
<1>14. sync[p].dirty \subseteq dirty /\ (f \in dirty \/ file = Trees[head][f])
    OBVIOUS
<1>4. h \in SyncStates
    <2> HIDE DEF file
    <2>1. /\ left \in SUBSET Importable /\ seen \in SUBSET (Paths \X Contents)
          /\ dirty \in SUBSET Paths /\ n \in Nat
        BY <1>1, <1>3 DEF SyncStates
    <2> HIDE DEF left, seen, dirty, n
    <2>2. QED BY <1>1, <2>1 DEF SyncStates
<1>5. /\ h.captured = sync[p].captured /\ h.pc = "work" /\ h.full = sync[p].full
      /\ h.at = sync[p].at /\ h.drops = {} /\ h.deletes = {}
      /\ h.read = sync[p].read \cup {<<f, file>>} /\ h.dirty = dirty
      /\ h.renames = {} /\ h.imports = sync[p].imports \ {f} /\ h.diff = sync[p].diff
      /\ h.failed = sync[p].failed /\ h.renamed = sync[p].renamed /\ h.walk = sync[p].walk
      /\ h.processed = sync[p].processed + 1 /\ h.total = sync[p].total
    BY <1>1 DEF SyncStates
<1> HIDE DEF h, file, dirty
<1>6. Apart(sync[p])
    BY <1>1 DEF Sound
<1>7. Apart(h)
    BY <1>5, <1>6 DEF Apart
<1>8. \A g \in Answers(h) : g \in Answers(sync[p]) /\ g \notin dirty
    BY <1>5, <1>14 DEF Answers
<1>9. sync[p].full => Counted(h)
    BY <1>1, <1>5, ImportCounted DEF Sound
<1>10. moves = sync[p].at /\ f \notin dirty => file = Trees[sync[p].captured][f]
    BY <1>1, <1>14 DEF Sound
<1>11. Sound(h, head, moves)
    BY <1>1, <1>5, <1>7, <1>8, <1>9, <1>10 DEF Sound, Done
<1>12. Current(sync[p], pages, bookmark) => Current(h, pages', bookmark')
    <2>1. pages' = [pages EXCEPT ![f] = file] /\ pages \in [Paths -> Contents \ Bad]
          /\ bookmark' = bookmark
        BY DEF Import, Write, TablesOK, markVars, file
    <2>2. \A e \in sync[p].read : e[1] \in Paths /\ e[1] # f
        BY <1>1, <1>6 DEF Apart, SyncStates
    <2>3. QED BY <1>1, <1>5, <2>1, <2>2 DEF Current
<1>13. QED BY <1>2, <1>4, <1>11, <1>12 DEF Proceeds

(* A file that fails is left to the gates.                                 *)
LEMMA FailImportProceeds ==
    ASSUME NEW p \in Procs, TablesOK, OrderInv, SyncsSound, NEW f \in Paths, FailImport(p, f)
    PROVE  Proceeds(p)
<1>1. PICK thrown \in BOOLEAN :
          sync' = [sync EXCEPT ![p].imports = @ \ {f}, ![p].failed = @ \cup {f},
                               ![p].errors = @ \/ thrown, ![p].processed = @ + 1]
    BY DEF FailImport
<1> DEFINE left == sync[p].imports \ {f}
           failed == sync[p].failed \cup {f}
           errors == sync[p].errors \/ thrown
           n == sync[p].processed + 1
           h == [sync[p] EXCEPT !.imports = left, !.failed = failed, !.errors = errors,
                                !.processed = n]
<1>2. /\ sync[p] \in SyncStates /\ Sound(sync[p], head, moves) /\ sync[p].pc = "work"
      /\ f \in sync[p].imports /\ sync[p].drops = {} /\ sync[p].deletes = {}
      /\ sync[p].renames = {}
    BY DEF SyncsSound, FailImport, Importing, At
<1>3. sync' = [sync EXCEPT ![p] = h]
    BY <1>1 DEF SyncsSound
<1>4. h \in SyncStates
    <2>1. left \in SUBSET Importable /\ failed \in SUBSET Paths /\ n \in Nat
        BY <1>2 DEF SyncStates
    <2>2. errors \in BOOLEAN
        OBVIOUS
    <2> HIDE DEF left, failed, errors, n
    <2>3. QED BY <1>2, <2>1, <2>2 DEF SyncStates
<1>5. /\ h.captured = sync[p].captured /\ h.pc = "work" /\ h.full = sync[p].full
      /\ h.at = sync[p].at /\ h.drops = {} /\ h.deletes = {} /\ h.read = sync[p].read
      /\ h.dirty = sync[p].dirty
      /\ h.renames = {} /\ h.imports = sync[p].imports \ {f} /\ h.diff = sync[p].diff
      /\ h.failed = sync[p].failed \cup {f} /\ h.renamed = sync[p].renamed
      /\ h.walk = sync[p].walk
      /\ h.processed = sync[p].processed + 1 /\ h.total = sync[p].total
    BY <1>2 DEF SyncStates
<1> HIDE DEF h
<1>6. Apart(h)
    BY <1>2, <1>5 DEF Apart, Sound
<1>7. Answers(h) = Answers(sync[p])
    BY <1>5 DEF Answers
<1>8. sync[p].full => Counted(h)
    BY <1>2, <1>5, ImportCounted DEF Sound
<1>9. Sound(h, head, moves)
    BY <1>2, <1>5, <1>6, <1>7, <1>8 DEF Sound, Done
<1>10. Current(sync[p], pages, bookmark) => Current(h, pages', bookmark')
    <2>1. pages' = pages /\ bookmark' = bookmark
        BY DEF FailImport, markVars
    <2>2. QED BY <1>2, <1>5, <2>1 DEF Current
<1>11. QED BY <1>3, <1>4, <1>9, <1>10 DEF Proceeds


(* A rename touches two paths that nothing else of the manifest touches,   *)
(* and keeps what it knows of each.                                        *)
LEMMA RenameProceeds ==
    ASSUME NEW p \in Procs, TablesOK, OrderInv, SyncsSound, NEW r \in Paths \X Paths, Rename(p, r)
    PROVE  Proceeds(p)
<1> DEFINE moved == IF pages[r[1]] # Absent /\ pages[r[2]] = Absent
                    THEN [pages EXCEPT ![r[2]] = pages[r[1]], ![r[1]] = Absent] ELSE pages
           file == tree[r[2]]
           imported == file # Absent /\ file \notin Bad
           left == sync[p].renames \ {r}
           seen == sync[p].read \cup (IF imported THEN {<<r[2], file>>} ELSE {})
                                \cup (IF moved[r[1]] = Absent THEN {<<r[1], Absent>>} ELSE {})
           h == [sync[p] EXCEPT !.renames = left, !.read = seen]
<1>1. /\ sync[p] \in SyncStates /\ Sound(sync[p], head, moves) /\ sync[p].pc = "work"
      /\ sync[p].drops = {} /\ sync[p].deletes = {} /\ r \in sync[p].renames
    BY DEF SyncsSound, Rename, At
<1>2. CASE End(p)
    BY <1>2, EndProceeds
<1>3. CASE sync' = [sync EXCEPT ![p].renames = left, ![p].read = seen]
    <2>1. sync' = [sync EXCEPT ![p] = h]
        BY <1>3 DEF SyncsSound
    <2>2. file \in Contents
        BY <1>1 DEF TablesOK
    <2>3. /\ pages \in [Paths -> Contents \ Bad] /\ bookmark' = bookmark
          /\ pages' = IF imported THEN [moved EXCEPT ![r[2]] = file] ELSE moved
        BY DEF TablesOK, Rename, markVars
    <2>4. Apart(sync[p]) /\ r[1] # r[2] /\ r[1] \in Paths /\ r[2] \in Paths
        BY <1>1 DEF Sound, Apart
    <2>5. /\ \A g \in Paths : g # r[1] /\ g # r[2] => pages'[g] = pages[g]
          /\ imported => pages'[r[2]] = file
          /\ moved[r[1]] = Absent => pages'[r[1]] = Absent
        BY <2>3, <2>4
    <2>6. \A e : e \in seen => \/ e \in sync[p].read
                               \/ e[1] = r[2] /\ e[2] = file /\ imported
                               \/ e[1] = r[1] /\ e[2] = Absent /\ moved[r[1]] = Absent
        OBVIOUS
    <2>7. seen \in SUBSET (Paths \X Contents) /\ sync[p].read \subseteq seen
        BY <1>1, <2>2, <2>4, TreeContents DEF SyncStates
    <2>8. left \in SUBSET (Paths \X Syncable)
        BY <1>1 DEF SyncStates
    <2>14. \A s \in left : s \in sync[p].renames /\ s # r
        OBVIOUS
    <2> HIDE DEF moved, file, imported, left, seen
    <2>9. h \in SyncStates
        BY <1>1, <2>7, <2>8 DEF SyncStates
    <2>10. /\ h.captured = sync[p].captured /\ h.pc = "work" /\ h.full = sync[p].full
           /\ h.at = sync[p].at /\ h.drops = {} /\ h.deletes = {} /\ h.read = seen
           /\ h.dirty = sync[p].dirty
           /\ h.renames = left /\ h.imports = sync[p].imports /\ h.diff = sync[p].diff
           /\ h.failed = sync[p].failed /\ h.renamed = sync[p].renamed /\ h.walk = sync[p].walk
        BY <1>1 DEF SyncStates
    <2> HIDE DEF h
    <2>11. Apart(h)
        <3>1. \A e \in seen : e[1] \notin h.imports
            BY <1>1, <2>4, <2>6, <2>10 DEF Apart
        <3>2. \A e \in seen, s \in left : e[1] # s[1] /\ e[1] # s[2]
            BY <1>1, <2>4, <2>6, <2>14 DEF Apart
        <3>3. QED BY <1>1, <2>4, <2>10, <2>14, <3>1, <3>2 DEF Apart
    <2>12. Sound(h, head, moves)
        <3>1. Answers(h) = Answers(sync[p])
            BY <2>10 DEF Answers
        <3>2. ~sync[p].full
            BY <1>1 DEF Sound
        <3>3. QED BY <1>1, <2>7, <2>10, <2>11, <3>1, <3>2 DEF Sound, Done, SyncStates
    <2>13. Current(sync[p], pages, bookmark) => Current(h, pages', bookmark')
        <3>1. \A e \in sync[p].read : e[1] \in Paths /\ e[1] # r[1] /\ e[1] # r[2]
            BY <1>1, <2>4 DEF Apart, SyncStates
        <3>2. QED BY <1>1, <2>3, <2>5, <2>6, <2>10, <3>1 DEF Current
    <2>15. QED BY <2>1, <2>9, <2>12, <2>13 DEF Proceeds
<1>4. QED
    <2>1. End(p) \/ sync' = [sync EXCEPT ![p].renames = left, ![p].read = seen]
        <3>1. PICK thrown \in BOOLEAN :
                 IF thrown THEN End(p)
                 ELSE sync' = [sync EXCEPT ![p].renames = left, ![p].read = seen]
            BY Zenon DEF Rename
        <3>2. QED BY <3>1
    <2>2. QED BY <1>2, <1>3, <2>1

(* The sync comes to its end: what it did not read, it does not answer for,*)
(* or has failed.                                                          *)
LEMMA ConcludeProceeds ==
    ASSUME NEW p \in Procs, SyncsSound, OrderInv, WorkDone(p), NEW failed,
           Conclude(p, failed),
           MayRecord(p, failed) /\ ~Unnoticed(p) =>
              moves = sync[p].at /\ (sync[p].skip \/ sync[p].failed = {}),
           pages' = pages, ~sync[p].full => bookmark' = bookmark
    PROVE  Proceeds(p)
<1>1. CASE ~MayRecord(p, failed)
    BY <1>1, EndProceeds DEF Conclude
<1>2. CASE MayRecord(p, failed)
    <2> DEFINE wandered == Unnoticed(p)
               h == [sync[p] EXCEPT !.pc = "record", !.wandered = wandered]
    <2>1. sync[p] \in SyncStates /\ Sound(sync[p], head, moves) /\ sync[p].pc = "work"
        BY DEF SyncsSound, WorkDone, At
    <2>2. sync' = [sync EXCEPT ![p] = h]
        BY <1>2 DEF Conclude, SyncsSound
    <2>3. sync[p].drops = {} /\ sync[p].deletes = {} /\ sync[p].renames = {} /\ sync[p].imports = {}
        BY DEF WorkDone
    <2>4. wandered \in BOOLEAN
        BY DEF Unnoticed
    <2>5. ~wandered => moves = sync[p].at /\ (sync[p].skip \/ sync[p].failed = {})
        BY <1>2
    <2> HIDE DEF wandered
    <2>6. h \in SyncStates
        BY <2>1, <2>4 DEF SyncStates, Pcs
    <2>7. /\ h.captured = sync[p].captured /\ h.pc = "record" /\ h.full = sync[p].full
          /\ h.at = sync[p].at /\ h.drops = {} /\ h.deletes = {} /\ h.read = sync[p].read
          /\ h.dirty = sync[p].dirty
          /\ h.renames = {} /\ h.imports = {} /\ h.diff = sync[p].diff
          /\ h.failed = sync[p].failed /\ h.renamed = sync[p].renamed
          /\ h.walk = sync[p].walk /\ h.skip = sync[p].skip /\ h.wandered = wandered
        BY <2>1, <2>3 DEF SyncStates
    <2> HIDE DEF h
    <2>8. Apart(h)
        BY <2>7 DEF Apart
    <2>9. Answers(h) = Answers(sync[p])
        BY <2>7 DEF Answers
    <2>10. ~wandered => \A f \in Answers(h) : (h.skip /\ f \in h.failed) \/ Done(h, f)
        BY <2>1, <2>3, <2>5, <2>7, <2>9 DEF Sound, Done
    <2>11. Sound(h, head, moves)
        BY <2>1, <2>7, <2>8, <2>10 DEF Sound
    <2>12. Current(sync[p], pages, bookmark) => Current(h, pages', bookmark')
        BY <2>1, <2>7 DEF Current
    <2>13. QED BY <2>2, <2>6, <2>11, <2>12 DEF Proceeds
<1>3. QED BY <1>1, <1>2

(* The gates of an incremental sync let no failure and no drift pass       *)
(* unseen.                                                                 *)
LEMMA CheckHeadProceeds ==
    ASSUME NEW p \in Procs, SyncsSound, OrderInv, CheckHead(p)
    PROVE  Proceeds(p)
<1> DEFINE failed == sync[p].failed # {} \/ Drifted(p)
<1>1. WorkDone(p) /\ ~sync[p].full /\ Conclude(p, failed) /\ pages' = pages /\ bookmark' = bookmark
    BY DEF CheckHead, markVars
<1>2. Sound(sync[p], head, moves) /\ sync[p].pc = "work"
    BY <1>1 DEF SyncsSound, WorkDone, At
<1>3. MayRecord(p, failed) /\ ~Unnoticed(p) =>
          moves = sync[p].at /\ (sync[p].skip \/ sync[p].failed = {})
    BY <1>1, <1>2 DEF MayRecord, Unnoticed, Drifted
<1> HIDE DEF failed
<1>4. QED BY <1>1, <1>3, ConcludeProceeds

(* A full import has no drift gate, and remembers that HEAD moved.         *)
LEMMA EndImportProceeds ==
    ASSUME NEW p \in Procs, SyncsSound, OrderInv, EndImport(p)
    PROVE  Proceeds(p)
<1> DEFINE failed == sync[p].failed # {}
<1>1. WorkDone(p) /\ sync[p].full /\ Conclude(p, failed) /\ pages' = pages
    BY DEF EndImport
<1>2. MayRecord(p, failed) /\ ~Unnoticed(p) =>
          moves = sync[p].at /\ (sync[p].skip \/ sync[p].failed = {})
    BY <1>1 DEF MayRecord, Unnoticed
<1> HIDE DEF failed
<1>3. QED BY <1>1, <1>2, ConcludeProceeds


-----------------------------------------------------------------------------
(* The tables.                                                             *)

(* Moving the bookmark to a commit as whose paths the sync read all that   *)
(* it answers for: what is not stale after it is as that commit has it.    *)
LEMMA SetBookmarkCovers ==
    ASSUME NEW p \in Procs, SyncsSound, NEW c \in Commits, NEW at, NEW w \in BOOLEAN,
           SetBookmark(p, c, at, w), pages' = pages, sync[p].pc \in {"work", "record"},
           Current(sync[p], pages, bookmark), Covers(stale, pages, bookmark),
           ~w => \A f \in Answers(sync[p]) :
                    \/ sync[p].skip /\ f \in sync[p].failed
                    \/ <<f, Trees[c][f]>> \in sync[p].read,
           ~sync[p].full => \A f \in Paths \ sync[p].diff : Trees[bookmark][f] = Trees[c][f]
    PROVE  Covers(stale', pages', bookmark') /\ stale' \subseteq Paths \cup stale
<1> DEFINE h == sync[p]
<1>1. h \in SyncStates /\ Sound(h, head, moves)
    BY DEF SyncsSound
<1>2. /\ bookmark' = c /\ NoCommit \notin Commits /\ Syncable \subseteq Paths
      /\ stale' = ((stale \ h.diff) \cup Excused(p, w)) \ Vouched(p, c)
    BY TreeContents DEF SetBookmark
<1>3. \A f : f \in Excused(p, w) <=>
          \/ h.skip /\ f \in h.failed
          \/ f \in h.renamed \/ f \in h.dirty
          \/ h.full /\ f \in Paths /\ ~\E i \in DOMAIN h.walk : h.walk[i] = f
          \/ w /\ f \in h.diff
    BY DEF Excused
<1>4. \A f : f \in Vouched(p, c) <=> f \in Paths /\ <<f, Trees[c][f]>> \in h.read
    BY DEF Vouched
<1>5. ASSUME NEW f \in Syncable \ stale' PROVE pages[f] = Trees[c][f]
    <2>1. CASE f \in Vouched(p, c)
        <3>1. <<f, Trees[c][f]>> \in h.read
            BY <1>4, <2>1
        <3>2. QED BY <3>1 DEF Current
    <2>2. CASE f \notin Vouched(p, c)
        <3>1. f \notin Excused(p, w) /\ (f \in stale => f \in h.diff) /\ f \in Paths
            BY <1>2, <2>2
        <3>2. f \notin h.diff
            <4> SUFFICES ASSUME f \in h.diff PROVE FALSE
                OBVIOUS
            <4>1. f \in Answers(h) /\ ~w
                BY <1>3, <3>1 DEF Answers
            <4>2. QED BY <1>3, <1>4, <2>2, <3>1, <4>1
        <3>3. ~h.full /\ bookmark \in Commits /\ pages[f] = Trees[bookmark][f]
            BY <1>1, <1>2, <3>1, <3>2 DEF Sound, Current, Covers
        <3>4. QED BY <3>1, <3>2, <3>3
    <2>3. QED BY <2>1, <2>2
<1>6. stale' \subseteq Paths \cup stale
    BY <1>1, <1>2, <1>3 DEF SyncStates
<1>7. QED BY <1>2, <1>5, <1>6 DEF Covers

(* What a step of the sync of p leaves alone, or else writes in its time.  *)
Quiet == pages' = pages /\ bookmark' = bookmark /\ stale' = stale /\ astray' = astray

Covering(p) ==
    /\ astray' = (astray \/ p \in lost)
    /\ ~astray' /\ Covers(stale, pages, bookmark) /\ Current(sync[p], pages, bookmark)
          => Covers(stale', pages', bookmark')

(* The checkpoint stays within the list it was made of.                    *)
LEMMA SavedOK ==
    ASSUME NEW p \in Procs, SyncsSound, TablesOK, NEW f \in Paths, Importing(p, f),
           checkpoint' = Saved(p)
    PROVE  CheckpointOK'
<1>1. sync[p] \in SyncStates /\ Sound(sync[p], head, moves) /\ sync[p].pc = "work"
      /\ f \in sync[p].imports
    BY DEF SyncsSound, Importing, At
<1>2. CASE checkpoint' = checkpoint
    BY <1>2 DEF TablesOK, CheckpointOK
<1>3. CASE checkpoint' # checkpoint
    <2> DEFINE n == sync[p].processed + 1
               total == sync[p].total
               index == total - Len(sync[p].walk) + n
    <2>1. sync[p].full /\ checkpoint' = [total |-> total, index |-> index]
        BY <1>3 DEF Saved
    <2>2. Counted(sync[p])
        BY <1>1, <2>1 DEF Sound
    <2> DEFINE h == [imports |-> sync[p].imports \ {f}, processed |-> n,
                     walk |-> sync[p].walk, total |-> total]
    <2>3. n <= Len(sync[p].walk)
        <3>1. /\ h.imports = sync[p].imports \ {f} /\ h.processed = n
              /\ h.walk = sync[p].walk /\ h.total = total
            OBVIOUS
        <3> HIDE DEF h
        <3>2. QED BY <1>1, <2>2, <3>1, ImportCounted
    <2>4. total \in Nat /\ Len(sync[p].walk) \in Nat /\ n \in Nat /\ n >= 1 /\ Len(Order) \in Nat
        BY <1>1, TreeContents DEF SyncStates
    <2>5. Len(sync[p].walk) <= total /\ total <= Len(Order)
        BY <2>2 DEF Counted
    <2>6. total \in 1 .. Len(Order) /\ index \in 1 .. total
        BY <2>3, <2>4, <2>5
    <2> HIDE DEF total, index
    <2>7. checkpoint'.total = total /\ checkpoint'.index = index
        BY <2>1
    <2>8. QED BY <2>6, <2>7 DEF CheckpointOK
<1>4. QED BY <1>2, <1>3

(* What the work writes is stale from then on.                             *)
LEMMA WorkTables ==
    ASSUME NEW p \in Procs, SyncsSound, TablesOK, Work(p)
    PROVE  TablesOK' /\ (Quiet \/ Covering(p))
<1>0. /\ pages \in [Paths -> Contents \ Bad] /\ stale \subseteq Paths
      /\ head \in Commits /\ moves \in Nat /\ bookmark \in Commits \cup {NoCommit}
      /\ tree \in [Paths -> Contents] /\ edits \in Nat
      /\ CheckpointOK /\ mishaps \in Nat
    BY DEF TablesOK
<1>1. ASSUME NEW f \in Paths, NEW x \in Contents \ Bad, Write(p, f, x),
             head' = head, moves' = moves, tree' = tree, edits' = edits,
             bookmark' = bookmark, CheckpointOK', mishaps' \in Nat
      PROVE  TablesOK' /\ Covering(p)
    <2>1. pages' = [pages EXCEPT ![f] = x] /\ stale' = stale \cup {f}
          /\ astray' = (astray \/ p \in lost)
        BY <1>1 DEF Write, Writes
    <2>2. TablesOK'
        BY <1>0, <1>1, <2>1 DEF TablesOK
    <2>3. Covering(p)
        BY <1>0, <1>1, <2>1, TreeContents DEF Covering, Covers
    <2>4. QED BY <2>2, <2>3
<1>2. ASSUME NEW f \in Paths, Delete(p, f) PROVE TablesOK' /\ Covering(p)
    <2>1. CheckpointOK' /\ head' = head /\ moves' = moves /\ tree' = tree /\ edits' = edits /\ bookmark' = bookmark
          /\ mishaps' = mishaps /\ Write(p, f, Absent)
        BY <1>0, <1>2 DEF Delete, CheckpointOK, repoVars, markVars
    <2>2. QED BY <1>0, <1>1, <2>1, TreeContents
<1>3. ASSUME NEW f \in Paths, Import(p, f) PROVE TablesOK' /\ Covering(p)
    <2>1. head' = head /\ moves' = moves /\ tree' = tree /\ edits' = edits /\ bookmark' = bookmark /\ mishaps' = mishaps
          /\ Write(p, f, tree[f]) /\ tree[f] \notin Bad
        BY <1>3 DEF Import, repoVars, markVars
    <2>2. CheckpointOK'
        BY <1>3, SavedOK DEF Import
    <2>3. tree[f] \in Contents \ Bad
        BY <1>0, <2>1
    <2>4. QED BY <1>0, <1>1, <2>1, <2>2, <2>3
<1>4. ASSUME NEW f \in Paths, FailImport(p, f) PROVE TablesOK' /\ Quiet
    <2>1. head' = head /\ moves' = moves /\ tree' = tree /\ edits' = edits /\ bookmark' = bookmark /\ pages' = pages
          /\ stale' = stale /\ astray' = astray
        BY <1>4 DEF FailImport, repoVars, markVars
    <2>2. CheckpointOK'
        BY <1>4, SavedOK DEF FailImport
    <2>3. mishaps' \in Nat
        BY <1>0, <1>4, SyncAssumption DEF FailImport, Mishap
    <2>4. QED BY <1>0, <2>1, <2>2, <2>3 DEF TablesOK, Quiet
<1>5. ASSUME NEW r \in Paths \X Paths, Rename(p, r) PROVE TablesOK' /\ Covering(p)
    <2> DEFINE moved == IF pages[r[1]] # Absent /\ pages[r[2]] = Absent
                        THEN [pages EXCEPT ![r[2]] = pages[r[1]], ![r[1]] = Absent] ELSE pages
               file == tree[r[2]]
               imported == file # Absent /\ file \notin Bad
    <2>1. /\ pages' = IF imported THEN [moved EXCEPT ![r[2]] = file] ELSE moved
          /\ stale' = stale \cup {r[1], r[2]} /\ astray' = (astray \/ p \in lost)
          /\ head' = head /\ moves' = moves /\ tree' = tree /\ edits' = edits /\ bookmark' = bookmark /\ mishaps' = mishaps
          /\ checkpoint' = checkpoint
        BY <1>5 DEF Rename, Writes, repoVars, markVars
    <2>2. r[1] \in Paths /\ r[2] \in Paths /\ (imported => file \in Contents \ Bad)
        BY <1>0, TreeContents
    <2>3. moved \in [Paths -> Contents \ Bad]
        BY <1>0, <2>2, TreeContents
    <2>4. pages' \in [Paths -> Contents \ Bad]
        <3> HIDE DEF moved, file, imported
        <3>1. QED BY <2>1, <2>2, <2>3
    <2>5. \A g \in Paths : g \notin stale' => pages'[g] = pages[g]
        BY <1>0, <2>1, <2>2
    <2>6. TablesOK'
        <3>1. CheckpointOK' /\ stale' \subseteq Paths
            BY <1>0, <2>1, <2>2 DEF CheckpointOK
        <3>2. QED BY <1>0, <2>1, <2>4, <3>1 DEF TablesOK
    <2>7. Covering(p)
        BY <2>1, <2>5, TreeContents DEF Covering, Covers
    <2>8. QED BY <2>6, <2>7
<1>6. ASSUME NEW f \in Paths, Drop(p, f) PROVE TablesOK' /\ (Quiet \/ Covering(p))
    <2>1. /\ CheckpointOK' /\ head' = head /\ moves' = moves /\ tree' = tree /\ edits' = edits
          /\ bookmark' = bookmark
        BY <1>0, <1>6 DEF Drop, CheckpointOK, repoVars, markVars
    <2>2. mishaps' \in Nat
        BY <1>0, <1>6, SyncAssumption DEF Drop, Mishap
    <2>3. CASE Write(p, f, Absent)
        BY <1>1, <2>1, <2>2, <2>3, TreeContents
    <2>4. CASE UNCHANGED <<pages, stale, astray>>
        BY <1>0, <2>1, <2>2, <2>4 DEF TablesOK, Quiet
    <2>5. QED BY <1>6, <2>3, <2>4 DEF Drop
<1>7. QED BY <1>2, <1>3, <1>4, <1>5, <1>6 DEF Work


(* The gate of an incremental sync, and a full import that did not fail,   *)
(* leave a sync that may move the bookmark.                                *)
LEMMA EndImportTables ==
    ASSUME NEW p \in Procs, SyncsSound, TablesOK, EndImport(p)
    PROVE  TablesOK' /\ (Quiet \/ Covering(p))
<1> DEFINE h == sync[p]
<1>1. h \in SyncStates /\ Sound(h, head, moves) /\ h.pc = "work" /\ h.full
      /\ h.deletes = {} /\ h.imports = {}
    BY DEF SyncsSound, EndImport, WorkDone, At
<1>2. /\ head' = head /\ moves' = moves /\ tree' = tree /\ edits' = edits /\ mishaps' = mishaps /\ pages' = pages
      /\ checkpoint' = checkpoint \/ checkpoint' = <<>>
    BY DEF EndImport, repoVars
<1>3. CheckpointOK'
    BY <1>2 DEF TablesOK, CheckpointOK
<1>4. CASE h.failed # {}
    BY <1>2, <1>3, <1>4 DEF EndImport, markVars, TablesOK, Quiet
<1>5. CASE h.failed = {}
    <2> DEFINE w == Unnoticed(p)
    <2>1. SetBookmark(p, head, moves, w) /\ head \in Commits
        BY <1>5 DEF EndImport, TablesOK
    <2>2. w \in BOOLEAN /\ (~w => moves = h.at)
        BY <1>1 DEF Unnoticed
    <2> HIDE DEF w
    <2>3. ~w => \A f \in Answers(h) : <<f, Trees[head][f]>> \in h.read
        BY <1>1, <1>5, <2>2 DEF Sound, Done
    <2>4. bookmark' = head /\ astray' = (astray \/ p \in lost)
        BY <2>1 DEF SetBookmark, Writes
    <2>5. Covers(stale, pages, bookmark) /\ Current(h, pages, bookmark)
             => Covers(stale', pages', bookmark')
        BY <1>1, <1>2, <2>1, <2>2, <2>3, SetBookmarkCovers
    <2>6. stale' \subseteq Paths
        <3>1. Excused(p, w) \subseteq Paths
            BY <1>1 DEF Excused, SyncStates
        <3>2. QED BY <2>1, <3>1 DEF SetBookmark, TablesOK
    <2>7. TablesOK'
        BY <1>2, <1>3, <2>1, <2>4, <2>6 DEF TablesOK
    <2>8. QED BY <2>4, <2>5, <2>7 DEF Covering
<1>6. QED BY <1>4, <1>5

(* The anchor is written by a sync that came through the gates.            *)
LEMMA RecordTables ==
    ASSUME NEW p \in Procs, SyncsSound, TablesOK, Record(p)
    PROVE  TablesOK' /\ (Quiet \/ Covering(p))
<1> DEFINE h == sync[p]
           c == h.captured
           w == h.wandered
<1>1. h \in SyncStates /\ Sound(h, head, moves) /\ h.pc = "record"
    BY DEF SyncsSound, Record, At
<1>2. c \in Commits /\ w \in BOOLEAN
    BY <1>1 DEF Sound, SyncStates
<1>3. /\ head' = head /\ moves' = moves /\ tree' = tree /\ edits' = edits /\ mishaps' = mishaps /\ pages' = pages
      /\ checkpoint' = checkpoint /\ SetBookmark(p, c, h.at, w)
    BY DEF Record, repoVars
<1>4. bookmark' = c /\ astray' = (astray \/ p \in lost)
    BY <1>3 DEF SetBookmark, Writes
<1>5. ~w => \A f \in Answers(h) : (h.skip /\ f \in h.failed) \/ <<f, Trees[c][f]>> \in h.read
    BY <1>1 DEF Sound, Done
<1>6. ASSUME Covers(stale, pages, bookmark), Current(h, pages, bookmark)
      PROVE  Covers(stale', pages', bookmark')
    <2>1. ~h.full => \A f \in Paths \ h.diff : Trees[bookmark][f] = Trees[c][f]
        BY <1>1, <1>6 DEF Current
    <2>2. QED BY <1>1, <1>2, <1>3, <1>5, <1>6, <2>1, SetBookmarkCovers
<1>7. stale' \subseteq Paths
    <2>1. Excused(p, w) \subseteq Paths
        BY <1>1 DEF Excused, SyncStates
    <2>2. QED BY <1>3, <2>1 DEF SetBookmark, TablesOK
<1>8. TablesOK'
    BY <1>2, <1>3, <1>4, <1>7 DEF TablesOK, CheckpointOK
<1>9. QED BY <1>4, <1>6, <1>8 DEF Covering

(* All that a sync does between taking the lock and releasing it.          *)
LEMMA GoesOn ==
    ASSUME NEW p \in Procs, CoverInv, Goes(p), ~Leave(p)
    PROVE  /\ Proceeds(p) /\ TablesOK' /\ (Quiet \/ Covering(p))
           /\ head' = head /\ moves' = moves /\ tree' = tree /\ edits' = edits /\ lockVars' = lockVars /\ sync[p].pc # "idle"
<1>0. SyncsSound /\ TablesOK /\ OrderInv
    BY DEF CoverInv
<1>1. CASE Capture(p) \/ UpToDate(p) \/ Diff(p) \/ Walk(p) \/ CheckHead(p)
    <2>1. Proceeds(p)
        BY <1>0, <1>1, CaptureProceeds, UpToDateProceeds, DiffProceeds, WalkProceeds,
           CheckHeadProceeds
    <2>2. /\ Quiet /\ head' = head /\ moves' = moves /\ tree' = tree /\ edits' = edits /\ lockVars' = lockVars
          /\ sync[p].pc # "idle" /\ checkpoint' = checkpoint /\ mishaps' = mishaps
        BY <1>1 DEF Capture, UpToDate, Diff, Walk, CheckHead, WorkDone, At, Quiet, repoVars, markVars
    <2>3. TablesOK'
        BY <1>0, <2>2 DEF TablesOK, CheckpointOK, Quiet
    <2>4. QED BY <2>1, <2>2, <2>3
<1>2. CASE Work(p)
    <2>1. Proceeds(p)
        BY <1>0, <1>2, DropProceeds, DeleteProceeds, ImportProceeds, FailImportProceeds, RenameProceeds DEF Work
    <2>2. head' = head /\ moves' = moves /\ tree' = tree /\ edits' = edits /\ lockVars' = lockVars /\ sync[p].pc # "idle"
        BY <1>2 DEF Work, Drop, Delete, Import, FailImport, Rename, Importing, At, repoVars
    <2>3. QED BY <1>0, <1>2, <2>1, <2>2, WorkTables
<1>3. CASE EndImport(p)
    <2>1. head' = head /\ moves' = moves /\ tree' = tree /\ edits' = edits /\ lockVars' = lockVars /\ sync[p].pc # "idle"
        BY <1>3 DEF EndImport, WorkDone, At, repoVars
    <2>2. QED BY <1>0, <1>3, <2>1, EndImportProceeds, EndImportTables
<1>4. CASE Record(p)
    <2>1. head' = head /\ moves' = moves /\ tree' = tree /\ edits' = edits /\ lockVars' = lockVars /\ sync[p].pc # "idle"
          /\ End(p)
        BY <1>4 DEF Record, At, repoVars
    <2>2. QED BY <1>0, <1>4, <2>1, EndProceeds, RecordTables
<1>5. QED BY <1>1, <1>2, <1>3, <1>4 DEF Goes

(* Nobody but the sync that is in time writes without going astray, so     *)
(* that what is known of the one in time is not disturbed by another.      *)
LEMMA GoesOnKeepsCover ==
    ASSUME NEW p \in Procs, CoverInv, Goes(p), ~Leave(p), LockInv', OrderInv'
    PROVE  CoverInv'
<1>1. /\ TablesOK' /\ (Quiet \/ Covering(p)) /\ head' = head /\ moves' = moves /\ tree' = tree /\ edits' = edits
      /\ inside' = inside /\ lost' = lost /\ p \in inside
    BY GoesOn DEF CoverInv, OrderInv, lockVars
<1>2. PICK h \in SyncStates :
          /\ sync' = [sync EXCEPT ![p] = h] /\ Sound(h, head, moves)
          /\ Current(sync[p], pages, bookmark) => Current(h, pages', bookmark')
    BY GoesOn DEF Proceeds
<1>3. sync \in [Procs -> SyncStates] /\ \A q \in Procs : Sound(sync[q], head, moves)
    BY DEF CoverInv, SyncsSound
<1>4. SyncsSound'
    BY <1>1, <1>2, <1>3 DEF SyncsSound
<1>5. ASSUME ~astray'
      PROVE  /\ Covers(stale, pages, bookmark)' 
             /\ \A q \in inside' \ lost' : Current(sync'[q], pages', bookmark')
    <2>1. ~astray
        BY <1>1, <1>5 DEF Quiet, Covering
    <2>2. Covers(stale, pages, bookmark) /\ \A q \in inside \ lost : Current(sync[q], pages, bookmark)
        BY <2>1 DEF CoverInv
    <2>3. \A q \in inside : q \in Procs
        BY DEF CoverInv, LockInv, LockTypeOK
    <2>4. CASE Quiet
        BY <1>1, <1>2, <1>3, <2>2, <2>3, <2>4 DEF Quiet
    <2>5. CASE Covering(p)
        <3>1. p \in inside \ lost
            BY <1>1, <1>5, <2>5 DEF Covering
        <3>2. \A q \in inside \ lost : q = p
            BY <3>1 DEF CoverInv, LockInv, HolderInTime
        <3>3. Covers(stale', pages', bookmark')
            BY <1>5, <2>2, <2>5, <3>1 DEF Covering
        <3>4. \A q \in inside' \ lost' : Current(sync'[q], pages', bookmark')
            BY <1>1, <1>2, <1>3, <2>2, <3>1, <3>2
        <3>5. QED BY <3>3, <3>4
    <2>6. QED BY <1>1, <2>4, <2>5
<1>6. QED BY <1>1, <1>4, <1>5 DEF CoverInv

(* The steps that only take the lock, give it up, or change the checkout.  *)
LEMMA OthersKeepCover ==
    ASSUME CoverInv, [Next]_vars, \A p \in Procs : Goes(p) => Leave(p), LockInv', OrderInv'
    PROVE  CoverInv'
<1>0. /\ sync \in [Procs -> SyncStates] /\ \A q \in Procs : Sound(sync[q], head, moves)
      /\ TablesOK /\ inside \subseteq Procs
      /\ moves \in Nat /\ mishaps \in Nat
    BY SyncAssumption DEF CoverInv, SyncsSound, TablesOK, LockInv, LockTypeOK
<1>1. ASSUME NEW p \in Procs, NEW h \in SyncStates, Fresh(h), h.pc \in {"idle", "head", "leave"},
             sync' = [sync EXCEPT ![p] = h], Quiet, head' = head, moves' = moves, tree' = tree, edits' = edits,
             checkpoint' = checkpoint, mishaps' \in Nat,
             \A q \in inside' \ lost' : q # p => q \in inside \ lost
      PROVE  CoverInv'
    <2>1. Sound(h, head, moves) /\ Current(h, pages, bookmark)
        BY <1>1, FreshSound DEF Current, Fresh
    <2>2. SyncsSound'
        BY <1>0, <1>1, <2>1 DEF SyncsSound
    <2>3. TablesOK'
        BY <1>0, <1>1 DEF TablesOK, CheckpointOK, Quiet
    <2>4. ASSUME ~astray'
          PROVE  /\ Covers(stale', pages', bookmark')
                 /\ \A q \in inside' \ lost' : Current(sync'[q], pages', bookmark')
        BY <1>0, <1>1, <2>1, <2>4 DEF Quiet, CoverInv
    <2>5. QED BY <2>2, <2>3, <2>4 DEF CoverInv
<1>2. ASSUME NEW p \in Procs, Start(p) PROVE CoverInv'
    <2>1. PICK mode \in Modes :
              sync' = [sync EXCEPT ![p] = [Idle EXCEPT !.pc = "head", !.full = mode[1], !.skip = mode[2]]]
        BY <1>2 DEF Start
    <2> DEFINE h == [Idle EXCEPT !.pc = "head", !.full = mode[1], !.skip = mode[2]]
    <2>2. mode[1] \in BOOLEAN /\ mode[2] \in BOOLEAN
        BY SyncAssumption
    <2>3. h \in SyncStates /\ Fresh(h) /\ h.pc = "head"
        <3>1. h \in SyncStates
            BY <2>2, IdleFresh DEF SyncStates, Pcs
        <3>2. Fresh(h) /\ h.pc = "head"
            BY DEF Fresh, Idle
        <3>3. QED BY <3>1, <3>2
    <2>4. /\ Quiet /\ head' = head /\ moves' = moves /\ tree' = tree /\ edits' = edits /\ checkpoint' = checkpoint /\ mishaps' = mishaps
          /\ inside' = inside \cup {p} /\ lost' = lost
        BY <1>2 DEF Start, Acquire, Quiet, repoVars, markVars
    <2> HIDE DEF h
    <2>5. QED BY <1>0, <1>1, <2>1, <2>3, <2>4 DEF h
<1>3. ASSUME NEW p \in Procs, Leave(p) PROVE CoverInv'
    <2>1. /\ Quiet /\ head' = head /\ moves' = moves /\ tree' = tree /\ edits' = edits /\ checkpoint' = checkpoint
          /\ mishaps' \in Nat /\ sync' = [sync EXCEPT ![p] = Idle]
        BY <1>0, <1>3 DEF Leave, Mishap, Quiet, repoVars, markVars
    <2>2. inside' = inside \ {p} /\ lost \ {p} \subseteq lost'
        BY <1>3 DEF Leave, Release, Abandon
    <2>3. QED BY <1>1, <2>1, <2>2, IdleFresh
<1>4. ASSUME NEW p \in Procs, Interrupt(p) PROVE CoverInv'
    <2>1. /\ Quiet /\ head' = head /\ moves' = moves /\ tree' = tree /\ edits' = edits /\ checkpoint' = checkpoint
          /\ mishaps' \in Nat
        BY <1>0, <1>4 DEF Interrupt, Mishap, Quiet, repoVars, markVars
    <2>2. CASE End(p) /\ UNCHANGED lockVars
        <3>1. Through \in SyncStates /\ Fresh(Through) /\ Through.pc = "leave"
            BY IdleFresh DEF Through, SyncStates, Pcs, Fresh
        <3>2. inside' = inside /\ lost' = lost /\ sync' = [sync EXCEPT ![p] = Through]
            BY <2>2 DEF lockVars, End
        <3>3. QED BY <1>1, <2>1, <3>1, <3>2
    <2>3. CASE Abandon(p) /\ sync' = [sync EXCEPT ![p] = Idle]
        <3>1. inside' = inside \ {p} /\ lost' = lost \ {p}
            BY <2>3 DEF Abandon
        <3>2. QED BY <1>1, <2>1, <2>3, <3>1, IdleFresh
    <2>4. QED BY <1>4, <2>2, <2>3 DEF Interrupt
<1>5. ASSUME NEW c \in Commits, MoveHead(c) PROVE CoverInv'
    <2>1. /\ Quiet /\ head' = c /\ moves' = moves + 1 /\ checkpoint' = checkpoint
          /\ mishaps' = mishaps /\ sync' = sync /\ inside' = inside /\ lost' = lost
        BY <1>5 DEF MoveHead, Quiet, lockVars, markVars
    <2>2. ASSUME NEW q \in Procs PROVE Sound(sync[q], c, moves + 1)
        <3>1. Sound(sync[q], head, moves) /\ sync[q].at # moves + 1
            BY <1>0 DEF CoverInv, OrderInv
        <3>2. QED BY <3>1 DEF Sound
    <2>3. SyncsSound'
        BY <1>0, <2>1, <2>2 DEF SyncsSound
    <2>4. TablesOK'
        <3>1. tree' \in [Paths -> Contents] /\ edits' = edits
            BY <1>0, <1>5, TreeContents DEF MoveHead, TablesOK
        <3>2. QED BY <1>0, <2>1, <3>1 DEF TablesOK, CheckpointOK, Quiet
    <2>5. QED BY <2>1, <2>3, <2>4 DEF CoverInv, Quiet
<1>8. ASSUME NEW f \in Paths, NEW content \in Contents, Edit(f, content) PROVE CoverInv'
    <2>1. /\ Quiet /\ head' = head /\ moves' = moves /\ checkpoint' = checkpoint
          /\ mishaps' = mishaps /\ sync' = sync /\ inside' = inside /\ lost' = lost
        BY <1>8 DEF Edit, Quiet, lockVars, markVars
    <2>2. SyncsSound'
        BY <1>0, <2>1 DEF SyncsSound
    <2>3. TablesOK'
        <3>1. tree' \in [Paths -> Contents] /\ edits' \in Nat
            BY <1>0, <1>8, SyncAssumption DEF Edit, TablesOK
        <3>2. QED BY <1>0, <2>1, <3>1 DEF TablesOK, CheckpointOK, Quiet
    <2>4. QED BY <2>1, <2>2, <2>3 DEF CoverInv, Quiet
<1>6. CASE LockExpires \/ UNCHANGED vars
    <2>1. /\ Quiet /\ head' = head /\ moves' = moves /\ tree' = tree /\ edits' = edits /\ checkpoint' = checkpoint
          /\ mishaps' \in Nat /\ sync' = sync /\ inside' = inside /\ lost \subseteq lost'
        BY <1>0, <1>6 DEF LockExpires, Expire, Mishap, Quiet, vars, lockVars, repoVars, markVars
    <2>2. SyncsSound'
        BY <1>0, <2>1 DEF SyncsSound
    <2>3. TablesOK'
        BY <1>0, <2>1 DEF TablesOK, CheckpointOK, Quiet
    <2>4. QED BY <2>1, <2>2, <2>3 DEF CoverInv, Quiet
<1>7. QED BY <1>2, <1>3, <1>4, <1>5, <1>6, <1>8 DEF Next

(* Nothing is vouched for at the start.                                    *)
LEMMA CoverInit == Init => CoverInv
<1> SUFFICES ASSUME Init PROVE CoverInv
    OBVIOUS
<1>1. LockInv /\ OrderInv
    BY LockInvInit, OrderInit DEF Init
<1>2. SyncsSound
    BY IdleFresh, FreshSound DEF Init, SyncsSound
<1>3. TablesOK
    BY TreeContents, SyncAssumption DEF Init, TablesOK, CheckpointOK
<1>4. Covers(stale, pages, bookmark)
    BY DEF Init, Covers
<1>5. inside = {}
    BY DEF Init, LockInit
<1>6. QED BY <1>1, <1>2, <1>3, <1>4, <1>5 DEF CoverInv

(* Every step keeps what the bookmark says true.                           *)
LEMMA CoverStep == CoverInv /\ [Next]_vars => CoverInv'
<1> SUFFICES ASSUME CoverInv, [Next]_vars PROVE CoverInv'
    OBVIOUS
<1>1. LockInv'
    BY SyncStepIsLockStep, LockInvStep DEF CoverInv
<1>2. OrderInv'
    BY <1>1, OrderStep DEF CoverInv
<1>3. QED BY <1>1, <1>2, GoesOnKeepsCover, OthersKeepCover

(* The types of the lock, the checkout, the tables and the syncs.          *)
THEOREM SyncTypes == Spec => []TypeOK
<1>1. CoverInv => TypeOK
    <2> SUFFICES ASSUME CoverInv PROVE TypeOK
        OBVIOUS
    <2>1. LockTypeOK /\ TablesOK /\ SyncsSound /\ OrderInv
        BY DEF CoverInv, LockInv
    <2>2. asOf \in 0 .. moves /\ astray \in BOOLEAN
        BY <2>1 DEF OrderInv
    <2>3. ASSUME NEW p \in Procs
          PROVE  /\ sync[p].pc \in Pcs
                 /\ sync[p].captured \in Commits \cup {NoCommit} /\ sync[p].at \in 0 .. moves
                 /\ sync[p].drops \subseteq Paths \ Syncable /\ sync[p].deletes \subseteq Syncable
                 /\ sync[p].imports \subseteq Importable
                 /\ sync[p].renames \subseteq Paths \X Syncable
                 /\ UNION {sync[p].failed, sync[p].diff, sync[p].renamed, sync[p].dirty} \subseteq Paths
                 /\ sync[p].read \subseteq Paths \X Contents
                 /\ sync[p].pc # "idle" <=> p \in inside
        BY <2>1 DEF SyncsSound, SyncStates, OrderInv
    <2>4. QED BY <2>1, <2>2, <2>3 DEF TypeOK, TablesOK, CheckpointOK
<1>2. QED BY <1>1, CoverInit, CoverStep, PTL DEF Spec

(* The bookmark tells the truth about every path that is not stale: for    *)
(* any history, paths, processes, pids and flags, over crashes, failures,  *)
(* moves of HEAD, and files of the working tree that are not HEAD's, for   *)
(* as long as no sync wrote after it had lost the lock.                    *)
THEOREM BookmarkIsTrue == Spec => []BookmarkCovers
<1>1. CoverInv => BookmarkCovers
    BY DEF CoverInv, Covers, BookmarkCovers
<1>2. QED BY <1>1, CoverInit, CoverStep, PTL DEF Spec

=============================================================================
