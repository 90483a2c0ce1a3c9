--------------------------------- MODULE Sync ---------------------------------
(***************************************************************************)
(* gbrain sync: the pages of a brain follow the files of a git checkout    *)
(* (subsystems/gbrain/src/commands/sync.ts, the full import of             *)
(* commands/import.ts).  A sync holds the lock gbrain-sync, walks the net  *)
(* diff from the bookmark sync.last_commit to the HEAD it captured, and    *)
(* moves the bookmark at the end.  The diff is of commits, the files are   *)
(* read from the working tree; nothing holds either still, and the pages   *)
(* are written one by one.                                                 *)
(*                                                                         *)
(* A commit is its tree, and a path has one slug.  The manifest of a       *)
(* detached HEAD, dry runs, the chunker version and named sources are left *)
(* out: the bookmark is the global one.                                    *)
(***************************************************************************)
EXTENDS DbLock, Sequences

CONSTANTS
    Order,      \* the paths of all commits, as the import walks them
    Syncable,   \* those isSyncable accepts
    Walkable,   \* those the walker of a full import collects
    Trees,      \* commit -> path -> content
    Ancestors,  \* <<c, d>>: c is an ancestor of d, or d
    Cloned,     \* where HEAD is before the first sync
    NoCommit,   \* no bookmark
    Absent,     \* no file, or no page
    Bad,        \* contents that cannot be imported
    SaveEvery,  \* the import saves its checkpoint every so many files (100)
    Width,      \* parallel workers of an import
    Modes,      \* the flags syncs are started with: <<--full, --skip-failed>>
    MaxUpsets   \* bound on moves, edits and mishaps, together

Paths == {Order[i] : i \in DOMAIN Order}
Importable == Syncable \cup Walkable
Commits == DOMAIN Trees
Contents == {Trees[c][f] : c \in Commits, f \in Paths} \cup {Absent}

ASSUME SyncAssumption ==
    /\ NoCommit \notin Commits /\ Cloned \in Commits
    /\ Order \in Seq(Paths) /\ Importable \subseteq Paths
    /\ \A c \in Commits : Trees[c] \in [Paths -> Contents]
    /\ Ancestors \subseteq Commits \X Commits
    /\ Absent \notin Bad
    /\ Modes \subseteq BOOLEAN \X BOOLEAN /\ Modes # {}
    /\ SaveEvery \in Nat \ {0} /\ Width \in Nat \ {0}
    /\ MaxUpsets \in Nat

VARIABLES
    head,        \* HEAD of the checkout
    moves,       \* how often it moved
    tree,        \* path -> content of the file in the working tree
    edits,       \* how often a file became something else than HEAD's
    bookmark,    \* config sync.last_commit
    asOf,        \* history: the move at which the commit of the bookmark was captured
    pages,       \* path -> content hash of its page
    checkpoint,  \* import-checkpoint.json: [total, index], or <<>>
    sync,        \* per process: the sync it runs
    stale,       \* history: paths no finished sync vouches for
    astray,      \* history: a sync wrote after it had lost the lock
    mishaps      \* crashes, failed statements or imports, and expiries under a sync so far

repoVars == <<head, moves, tree, edits>>
markVars == <<bookmark, asOf>>
vars == <<lockVars, repoVars, markVars, pages, checkpoint, sync, stale, astray, mishaps>>

-----------------------------------------------------------------------------
(* The sync of a process.  captured: headCommit, at the move `at`; drops   *)
(* (unsyncableModified), deletes, renames, imports: what is left of the    *)
(* manifest; diff: its paths; walk: the list of a full import, total: its  *)
(* length before the checkpoint cut it; processed, errors: as in           *)
(* runImport; read: what was imported; failed: failedFiles; skip:          *)
(* --skip-failed.  History: renamed, the paths git paired; dirty, imported *)
(* when the file was not HEAD's; wandered, HEAD moved under the sync and   *)
(* no gate stopped it.                                                     *)
Idle == [pc |-> "idle", captured |-> NoCommit, at |-> 0, full |-> FALSE, skip |-> FALSE,
         drops |-> {}, deletes |-> {}, renames |-> {}, imports |-> {}, diff |-> {},
         walk |-> <<>>, total |-> 0, processed |-> 0, errors |-> FALSE,
         read |-> {}, failed |-> {}, renamed |-> {}, dirty |-> {}, wandered |-> FALSE]

At(p, pc) == sync[p].pc = pc

(* The sync is through, but for the lock.                                  *)
Through == [Idle EXCEPT !.pc = "leave"]
End(p) == sync' = [sync EXCEPT ![p] = Through]

(* The bound on what comes from outside or goes wrong.                     *)
Unrest == moves + edits + mishaps < MaxUpsets

Mishap == Unrest /\ mishaps' = mishaps + 1

(* p writes pages or the bookmark, whether or not the lock is still its.   *)
Writes(p) == astray' = (astray \/ p \in lost)

(* What the sync of p read is what commit c has.                           *)
Vouched(p, c) == {f \in Paths : <<f, Trees[c][f]>> \in sync[p].read}

-----------------------------------------------------------------------------
(* The beginning: lock, HEAD, bookmark, and what to do.                    *)

Start(p) ==
    /\ Acquire(p)
    /\ \E mode \in Modes :
          sync' = [sync EXCEPT ![p] = [Idle EXCEPT !.pc = "head", !.full = mode[1], !.skip = mode[2]]]
    /\ UNCHANGED <<repoVars, markVars, pages, checkpoint, stale, astray, mishaps>>

Capture(p) ==
    /\ At(p, "head")
    /\ sync' = [sync EXCEPT ![p].captured = head, ![p].at = moves, ![p].pc = "anchor"]
    /\ UNCHANGED <<lockVars, repoVars, markVars, pages, checkpoint, stale, astray, mishaps>>

Last(p) == IF sync[p].full THEN NoCommit ELSE bookmark

(* No bookmark, or it is not in the history of HEAD (or not in the         *)
(* repository at all, after a force push).                                 *)
NeedsFull(p) == Last(p) = NoCommit \/ <<Last(p), sync[p].captured>> \notin Ancestors

UpToDate(p) ==
    /\ At(p, "anchor")
    /\ ~NeedsFull(p)
    /\ Last(p) = sync[p].captured
    /\ End(p)
    /\ UNCHANGED <<lockVars, repoVars, markVars, pages, checkpoint, stale, astray, mishaps>>

(* The paths that git pairs as renames, similar as their contents may be.  *)
Gone(a, b) == {f \in Paths : Trees[a][f] # Absent /\ Trees[b][f] = Absent}
Matchings(a, b) ==
    {R \in SUBSET (Gone(a, b) \X Gone(b, a)) :
        \A r, s \in R : (r[1] = s[1] \/ r[2] = s[2]) => r = s}

(* A rename to a path that is not syncable is dropped from the manifest.   *)
(* A modified path that is not syncable loses its page.                    *)
Diff(p) ==
    LET from == Last(p)
        to == sync[p].captured
        changed == {f \in Paths : Trees[from][f] # Trees[to][f]}
    IN  /\ At(p, "anchor")
        /\ ~NeedsFull(p)
        /\ from # to
        /\ \E R \in Matchings(from, to) :
              LET renames == {r \in R : r[2] \in Syncable}
                  deletes == {f \in Gone(from, to) \cap Syncable : \A r \in R : r[1] # f}
                  imports == {f \in changed \cap Syncable :
                                 Trees[to][f] # Absent /\ \A r \in R : r[2] # f}
                  drops == {f \in changed \ Syncable :
                               Trees[from][f] # Absent /\ Trees[to][f] # Absent}
              IN  sync' = [sync EXCEPT
                      ![p].drops = drops,
                      ![p].deletes = deletes, ![p].renames = renames, ![p].imports = imports,
                      ![p].diff = changed, ![p].renamed = UNION {{r[1], r[2]} : r \in R},
                      ![p].pc = IF drops = {} /\ deletes = {} /\ renames = {} /\ imports = {}
                                THEN "record" ELSE "work"]
        /\ UNCHANGED <<lockVars, repoVars, markVars, pages, checkpoint, stale, astray, mishaps>>

(* runImport lists the files on disk.  A checkpoint of a walk of the same  *)
(* length is resumed, whatever commit it was of.                           *)
Resumed(files) ==
    IF checkpoint # <<>> /\ checkpoint.total = Len(files)
    THEN SubSeq(files, checkpoint.index + 1, Len(files)) ELSE files

(* The one ascending list of a set of places.                              *)
Ascending(I) ==
    {s \in [1 .. Cardinality(I) -> I] : \A i, j \in DOMAIN s : i < j => s[i] < s[j]}

Walk(p) ==
    LET OnDisk == {i \in DOMAIN Order : Order[i] \in Walkable /\ tree[Order[i]] # Absent}
    IN  /\ At(p, "anchor")
        /\ NeedsFull(p)
        /\ \E s \in Ascending(OnDisk) :
              LET files == [k \in DOMAIN s |-> Order[s[k]]]
                  rest == Resumed(files)
              IN  sync' = [sync EXCEPT
                      ![p].full = TRUE, ![p].walk = rest, ![p].total = Len(files),
                      ![p].imports = {rest[i] : i \in DOMAIN rest}, ![p].diff = Paths,
                      ![p].pc = "work"]
        /\ UNCHANGED <<lockVars, repoVars, markVars, pages, checkpoint, stale, astray, mishaps>>

-----------------------------------------------------------------------------
(* The work: drops, then deletes, then renames, then imports.              *)

Write(p, f, content) ==
    /\ pages' = [pages EXCEPT ![f] = content]
    /\ stale' = stale \cup {f}
    /\ Writes(p)

(* A deletePage that throws is not looked at.  With no syncable changes    *)
(* the bookmark is next, and no gate.                                      *)
Drop(p, f) ==
    LET no_changes == sync[p].deletes = {} /\ sync[p].renames = {} /\ sync[p].imports = {}
    IN  /\ At(p, "work")
        /\ f \in sync[p].drops
        /\ \/ Write(p, f, Absent) /\ UNCHANGED mishaps
           \/ Mishap /\ UNCHANGED <<pages, stale, astray>>
        /\ sync' = [sync EXCEPT
               ![p].drops = @ \ {f},
               ![p].pc = IF sync[p].drops = {f} /\ no_changes THEN "record" ELSE "work"]
        /\ UNCHANGED <<lockVars, repoVars, markVars, checkpoint>>

Delete(p, f) ==
    /\ At(p, "work")
    /\ sync[p].drops = {}
    /\ f \in sync[p].deletes
    /\ Write(p, f, Absent)
    /\ sync' = [sync EXCEPT ![p].deletes = @ \ {f}, ![p].read = @ \cup {<<f, Absent>>}]
    /\ UNCHANGED <<lockVars, repoVars, markVars, checkpoint, mishaps>>

(* updateSlug, which does nothing if the new slug has a page already; then *)
(* the file is imported at its new path, if it is there.  An import that   *)
(* is refused is not looked at; one that throws ends the sync.             *)
Rename(p, r) ==
    LET moved == IF pages[r[1]] # Absent /\ pages[r[2]] = Absent
                 THEN [pages EXCEPT ![r[2]] = pages[r[1]], ![r[1]] = Absent] ELSE pages
        file == tree[r[2]]
        imported == file # Absent /\ file \notin Bad
    IN  /\ At(p, "work")
        /\ sync[p].drops = {} /\ sync[p].deletes = {}
        /\ r \in sync[p].renames
        /\ pages' = IF imported THEN [moved EXCEPT ![r[2]] = file] ELSE moved
        /\ stale' = stale \cup {r[1], r[2]}
        /\ Writes(p)
        /\ \E thrown \in BOOLEAN :
              /\ thrown => file \in Bad
              /\ IF thrown THEN End(p)
                 ELSE sync' = [sync EXCEPT ![p].renames = @ \ {r},
                    ![p].read = @ \cup (IF imported THEN {<<r[2], file>>} ELSE {})
                                  \cup (IF moved[r[1]] = Absent THEN {<<r[1], Absent>>} ELSE {})]
        /\ UNCHANGED <<lockVars, repoVars, markVars, checkpoint, mishaps>>

(* Files are taken from the list in order, Width of them at a time.        *)
InTurn(p, f) ==
    LET walk == sync[p].walk
    IN  ~sync[p].full \/
        \E i \in DOMAIN walk :
            /\ walk[i] = f
            /\ Cardinality({j \in 1 .. i - 1 : walk[j] \in sync[p].imports}) < Width

Importing(p, f) ==
    /\ At(p, "work")
    /\ sync[p].drops = {} /\ sync[p].deletes = {} /\ sync[p].renames = {}
    /\ f \in sync[p].imports
    /\ InTurn(p, f)

(* Mutant: the checkpoint counts the file after this one as done.          *)
SavedAhead(p) ==
    LET n == sync[p].processed + 1
    IN  IF sync[p].full /\ n % SaveEvery = 0
        THEN [total |-> sync[p].total,
              index |-> sync[p].total - Len(sync[p].walk) + n + 1]
        ELSE checkpoint

(* processFile counts the file, and saves the count now and then.          *)
Saved(p) ==
    LET n == sync[p].processed + 1
    IN  IF sync[p].full /\ n % SaveEvery = 0
        THEN [total |-> sync[p].total,
              index |-> sync[p].total - Len(sync[p].walk) + n]
        ELSE checkpoint

Import(p, f) ==
    LET file == tree[f]
    IN  /\ Importing(p, f)
        /\ file # Absent /\ file \notin Bad
        /\ Write(p, f, file)
        /\ sync' = [sync EXCEPT ![p].imports = @ \ {f}, ![p].read = @ \cup {<<f, file>>},
                                ![p].dirty = @ \cup (IF file = Trees[head][f] THEN {} ELSE {f}),
                                ![p].processed = @ + 1]
        /\ checkpoint' = Saved(p)
        /\ UNCHANGED <<lockVars, repoVars, markVars, mishaps>>

(* The file is gone, or cannot be parsed, or its transaction failed.  Only *)
(* what throws counts as an error of runImport.                            *)
FailImport(p, f) ==
    LET file == tree[f]
    IN  /\ Importing(p, f)
        /\ IF file = Absent \/ file \in Bad THEN UNCHANGED mishaps ELSE Mishap
        /\ \E thrown \in BOOLEAN :
              /\ file \notin Bad => thrown
              /\ sync' = [sync EXCEPT ![p].imports = @ \ {f}, ![p].failed = @ \cup {f},
                                      ![p].errors = @ \/ thrown, ![p].processed = @ + 1]
        /\ checkpoint' = Saved(p)
        /\ UNCHANGED <<lockVars, repoVars, markVars, pages, stale, astray>>

-----------------------------------------------------------------------------
(* The end: the gates in front of the bookmark.                            *)

WorkDone(p) ==
    /\ At(p, "work")
    /\ sync[p].drops = {} /\ sync[p].deletes = {} /\ sync[p].renames = {} /\ sync[p].imports = {}

(* Mutant: no drift gate.                                                  *)
DriftedNever(p) == FALSE

Drifted(p) == head # sync[p].captured

MayRecord(p, failed) == ~failed \/ sync[p].skip

(* HEAD moved, and no gate will say so: a full import has none, and a HEAD *)
(* that came back in time passes it.                                       *)
Unnoticed(p) ==
    moves # sync[p].at /\ (sync[p].full \/ sync[p].skip \/ head = sync[p].captured)

Conclude(p, failed) ==
    IF MayRecord(p, failed)
    THEN sync' = [sync EXCEPT ![p].pc = "record", ![p].wandered = Unnoticed(p)]
    ELSE End(p)

(* The head-drift gate of an incremental sync.                             *)
CheckHead(p) ==
    LET failed == sync[p].failed # {} \/ Drifted(p)
    IN  /\ WorkDone(p) /\ ~sync[p].full
        /\ Conclude(p, failed)
        /\ UNCHANGED <<lockVars, repoVars, markVars, pages, checkpoint, stale, astray, mishaps>>

(* What a sync that moves the bookmark does not answer for: failures it    *)
(* was told to skip, what git paired as renames, files that were not       *)
(* HEAD's when it imported them, what a full import did not walk, and      *)
(* everything if HEAD moved under it unnoticed.                            *)
Excused(p, wandered) ==
    UNION {IF sync[p].skip THEN sync[p].failed ELSE {},
           sync[p].renamed,
           sync[p].dirty,
           IF sync[p].full THEN Paths \ {sync[p].walk[i] : i \in DOMAIN sync[p].walk} ELSE {},
           IF wandered THEN sync[p].diff ELSE {}}

SetBookmark(p, c, at, wandered) ==
    /\ bookmark' = c
    /\ asOf' = at
    /\ stale' = ((stale \ sync[p].diff) \cup Excused(p, wandered)) \ Vouched(p, c)
    /\ Writes(p)

(* runImport: the checkpoint goes unless an import threw, and if none      *)
(* failed the bookmark is set to where HEAD is by now.                     *)
EndImport(p) ==
    /\ WorkDone(p) /\ sync[p].full
    /\ checkpoint' = IF sync[p].errors THEN checkpoint ELSE <<>>
    /\ IF sync[p].failed = {} THEN SetBookmark(p, head, moves, Unnoticed(p))
                              ELSE UNCHANGED <<markVars, stale, astray>>
    /\ Conclude(p, sync[p].failed # {})
    /\ UNCHANGED <<lockVars, repoVars, pages, mishaps>>

(* writeSyncAnchor                                                         *)
Record(p) ==
    /\ At(p, "record")
    /\ SetBookmark(p, sync[p].captured, sync[p].at, sync[p].wandered)
    /\ End(p)
    /\ UNCHANGED <<lockVars, repoVars, pages, checkpoint, mishaps>>

(* The lock is released when performSyncInner is through, embedding and    *)
(* extraction included.                                                    *)
Leave(p) ==
    /\ At(p, "leave")
    /\ \/ Release(p) /\ UNCHANGED mishaps
       \/ Abandon(p) /\ Mishap
    /\ sync' = [sync EXCEPT ![p] = Idle]
    /\ UNCHANGED <<repoVars, markVars, pages, checkpoint, stale, astray>>

(* A statement throws, and the finally releases the lock; or the process   *)
(* dies.                                                                   *)
Interrupt(p) ==
    /\ sync[p].pc \notin {"idle", "leave"}
    /\ Mishap
    /\ \/ End(p) /\ UNCHANGED lockVars
       \/ Abandon(p) /\ sync' = [sync EXCEPT ![p] = Idle]
    /\ UNCHANGED <<repoVars, markVars, pages, checkpoint, stale, astray>>

-----------------------------------------------------------------------------
(* The files that are not as HEAD has them: not committed, not tracked,    *)
(* deleted, or written by a checkout that is not through.                  *)
Uncommitted == {f \in Paths : tree[f] # Trees[head][f]}

(* Somebody pulls, commits, resets or checks out; some uncommitted files   *)
(* stay as they are.                                                       *)
MoveHead(c) ==
    /\ c # head
    /\ Unrest
    /\ head' = c
    /\ moves' = moves + 1
    /\ \E kept \in SUBSET Uncommitted :
          tree' = [f \in Paths |-> IF f \in kept THEN tree[f] ELSE Trees[c][f]]
    /\ UNCHANGED <<lockVars, edits, markVars, pages, checkpoint, sync, stale, astray, mishaps>>

(* Somebody writes or deletes a file, or takes that back.                  *)
Edit(f, content) ==
    /\ content # tree[f]
    /\ tree' = [tree EXCEPT ![f] = content]
    /\ IF content = Trees[head][f] THEN UNCHANGED edits
       ELSE Unrest /\ edits' = edits + 1
    /\ UNCHANGED <<lockVars, head, moves, markVars, pages, checkpoint, sync, stale, astray, mishaps>>

LockExpires ==
    /\ Expire
    /\ IF lost' = lost THEN UNCHANGED mishaps ELSE Mishap
    /\ UNCHANGED <<repoVars, markVars, pages, checkpoint, sync, stale, astray>>

Init ==
    /\ LockInit
    /\ head = Cloned /\ moves = 0
    /\ tree = Trees[Cloned] /\ edits = 0
    /\ bookmark = NoCommit /\ asOf = 0
    /\ pages = [f \in Paths |-> Absent]
    /\ checkpoint = <<>>
    /\ sync = [p \in Procs |-> Idle]
    /\ stale = Paths
    /\ astray = FALSE
    /\ mishaps = 0

Work(p) ==
    \/ \E f \in Paths : Drop(p, f) \/ Delete(p, f) \/ Import(p, f) \/ FailImport(p, f)
    \/ \E r \in Paths \X Paths : Rename(p, r)

(* What a sync does by itself once it has begun.                           *)
Goes(p) ==
    \/ Capture(p) \/ UpToDate(p) \/ Diff(p) \/ Walk(p)
    \/ Work(p)
    \/ CheckHead(p) \/ EndImport(p) \/ Record(p) \/ Leave(p)

Next ==
    \/ \E p \in Procs : Start(p) \/ Goes(p) \/ Interrupt(p)
    \/ \E c \in Commits : MoveHead(c)
    \/ \E f \in Paths, content \in Contents : Edit(f, content)
    \/ LockExpires

Spec == Init /\ [][Next]_vars

(* Time goes on, and while a sync is under way some sync goes on.          *)
SyncFairness ==
    /\ WF_vars(LockExpires)
    /\ WF_vars(\E p \in Procs : Goes(p))

(* Syncs are started again and again.  cron does so; the watch loop ends   *)
(* after five errors in a row, the autopilot after five failed cycles, and *)
(* a lock that is taken is an error.                                       *)
Restarts == WF_vars(\E p \in Procs : Start(p))

-----------------------------------------------------------------------------
Pcs == {"idle", "head", "anchor", "work", "record", "leave"}

TypeOK ==
    /\ LockTypeOK
    /\ head \in Commits /\ moves \in Nat
    /\ tree \in [Paths -> Contents] /\ edits \in Nat
    /\ bookmark \in Commits \cup {NoCommit} /\ asOf \in 0 .. moves
    /\ pages \in [Paths -> Contents \ Bad]
    /\ checkpoint = <<>> \/
          /\ checkpoint.total \in 1 .. Len(Order)
          /\ checkpoint.index \in 1 .. checkpoint.total
    /\ \A p \in Procs :
          /\ sync[p].pc \in Pcs
          /\ sync[p].captured \in Commits \cup {NoCommit} /\ sync[p].at \in 0 .. moves
          /\ sync[p].drops \subseteq Paths \ Syncable /\ sync[p].deletes \subseteq Syncable
          /\ sync[p].imports \subseteq Importable
          /\ sync[p].renames \subseteq Paths \X Syncable
          /\ UNION {sync[p].failed, sync[p].diff, sync[p].renamed, sync[p].dirty} \subseteq Paths
          /\ sync[p].read \subseteq Paths \X Contents
          /\ sync[p].pc # "idle" <=> p \in inside
    /\ stale \subseteq Paths
    /\ astray \in BOOLEAN
    /\ mishaps \in Nat

(* What the bookmark says is true: over crashes, failed files, syncs that  *)
(* were blocked, HEADs that moved and files that were edited, the page of  *)
(* every path is what the commit of the bookmark has there, except for     *)
(* paths a sync touched without finishing, and those a finished one does   *)
(* not answer for (Excused).  It holds as long as no sync wrote after it   *)
(* had lost the lock.                                                      *)
BookmarkCovers ==
    bookmark # NoCommit /\ ~astray =>
        \A f \in Syncable \ stale : pages[f] = Trees[bookmark][f]

(* A full sync is about to put the commit it captured in the place of the  *)
(* later one its import recorded.                                          *)
StepsBack(p) == At(p, "record") /\ sync[p].full /\ sync[p].wandered

(* No sync that is in time overwrites the bookmark of one that captured    *)
(* HEAD after it did, and so moves it backwards; only the two writes of a  *)
(* full sync under which HEAD moved do.                                    *)
BookmarkNeverRegresses ==
    [][asOf' >= asOf \/ astray' \/ \E p \in Procs : StepsBack(p)]_vars

(* What of the working tree, or missing from it, cannot be imported.       *)
Blocked(f) ==
    \/ f \in Importable /\ tree[f] \in Bad
    \/ f \in Syncable /\ tree[f] = Absent /\ Trees[head][f] # Absent

(* Whatever crashed, failed or blocked before, and whoever left the lock   *)
(* behind: once HEAD stands still the bookmark gets there, unless a file   *)
(* cannot be imported, and provided that syncs go on being started.        *)
SyncCatchesUp ==
    SyncFairness /\ Restarts => []<>(bookmark = head \/ \E f \in Paths : Blocked(f))

=============================================================================
