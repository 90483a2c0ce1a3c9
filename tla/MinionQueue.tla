----------------------------- MODULE MinionQueue -----------------------------
(***************************************************************************)
(* The job table of gbrain's Minions                                       *)
(* (subsystems/gbrain/src/core/minions/queue.ts): the columns of           *)
(* minion_jobs that decide what happens next, the child_done messages of   *)
(* minion_inbox, and one action per method of MinionQueue.                 *)
(*                                                                         *)
(* A method is one statement, or one transaction that first locks the      *)
(* parent's row, and is one step here; but for cancelJob and the two       *)
(* timeout sweeps.  They lock no parent, and under READ COMMITTED others   *)
(* commit between what they read and what they write: they begin in one    *)
(* step and commit in another, and their rows are locked in between.  A    *)
(* transaction that rolls back only made others wait: it is no step.       *)
(*                                                                         *)
(* now() does not appear.  A deadline (lock_until, timeout_at, the         *)
(* wall-clock limit on started_at, delay_until) is either still ahead or   *)
(* in late[j], and Passes is the step that moves it there.                 *)
(***************************************************************************)
EXTENDS Naturals, FiniteSets

CONSTANTS
    Jobs,           \* ids the table can hand out
    NoJob,          \* NULL as a parent_job_id
    Options,        \* the submissions of an instance: records of JobOptions
    MaxSpawnDepth,  \* MinionQueueOpts.maxSpawnDepth
    MaxAttempts,    \* max_attempts of every job
    MaxStalled      \* max_stalled of every job

Policies == {"fail_parent", "remove_dep", "ignore", "continue"}

(* on_child_fail, max_children (0: NULL), whether timeout_ms is set, when  *)
(* the row deletes itself, and the quiet-hours policy.                     *)
JobOptions == [policy : Policies, cap : Nat, timed : BOOLEAN,
               remove : {"never", "on_complete", "on_fail"},
               quiet : {"none", "skip", "defer"}]

ASSUME QueueAssumption ==
    /\ NoJob \notin Jobs
    /\ Options \subseteq JobOptions /\ Options # {}
    /\ MaxSpawnDepth \in Nat
    /\ MaxAttempts \in Nat \ {0}
    /\ MaxStalled \in Nat \ {0}

VARIABLES
    status,     \* minion_jobs.status ("absent": id not handed out, "removed": row deleted)
    parent,     \* parent_job_id
    depth,      \* depth
    opts,       \* the options the row was inserted with
    token,      \* lock_token: the number of the claim that set it (0: NULL, and lock_until too)
    late,       \* the deadlines of the row that have passed
    started,    \* attempts_started
    made,       \* attempts_made
    stalls,     \* stalled_counter
    result,     \* the claim whose handler returned the stored result (0: NULL)
    inbox,      \* per addressee, the child_done messages <<child, outcome>>
    ending,     \* the transactions of cancelJob and the timeout sweeps that are open
    touched,    \* history: jobs that were retried, paused or deferred
    silent,     \* history: <<parent, child>> when the child ended without a word to the parent
    misread     \* history: parents that a transaction left or woke on a snapshot out of date

links == <<parent, depth, opts>>
counters == <<started, made, stalls>>
history == <<touched, silent, misread>>
queueVars == <<status, links, token, late, counters, result, inbox, ending, history>>

-----------------------------------------------------------------------------
OpenStatuses == {"waiting", "active", "delayed", "waiting-children", "paused"}
Terminal == {"completed", "failed", "dead", "cancelled"}
Statuses == OpenStatuses \cup Terminal \cup {"absent", "removed"}
Outcomes == {"complete", "dead", "cancelled", "timeout"}
Deadlines == {"lock", "timeout", "wall", "delay"}

(* rows, why they end, the parents that are told, the parents that were    *)
(* waiting, and the links from these to other open children.               *)
Ending == [rows : SUBSET Jobs, why : {"timeout", "cancelled"}, told : SUBSET Jobs,
           asleep : SUBSET Jobs, seen : SUBSET (Jobs \X Jobs)]

Open(j) == status[j] \in OpenStatuses

Override(f, S, v) == [j \in Jobs |-> IF j \in S THEN v ELSE f[j]]

(* lock_token = NULL, lock_until = NULL                                    *)
Unlock(S) ==
    /\ token' = Override(token, S, 0)
    /\ late' = [j \in Jobs |-> IF j \in S THEN late[j] \ {"lock"} ELSE late[j]]

ParentsOf(S) == {p \in Jobs : \E c \in S : parent[c] = p}

(* Mutant: one ended child is enough.                                      *)
ResolvedEarly(newStatus, newParent, P) ==
    [p \in Jobs |-> IF p \in P /\ newStatus[p] = "waiting-children"
                    THEN "waiting" ELSE newStatus[p]]

(* resolveParent, which every terminal transition folds in: the parents P  *)
(* that wait for their children and have no open one left go on.           *)
(* newStatus and newParent are the columns as the transaction left them.   *)
Resolved(newStatus, newParent, P) ==
    [p \in Jobs |->
        IF /\ p \in P /\ newStatus[p] = "waiting-children"
           /\ \A c \in Jobs : newParent[c] = p => newStatus[c] \notin OpenStatuses
        THEN "waiting" ELSE newStatus[p]]

(* The child_done messages of the jobs in S, to parents that are open.     *)
Notified(newStatus, S, outcome) ==
    [p \in Jobs |->
        IF newStatus[p] \in OpenStatuses
        THEN inbox[p] \cup {<<c, outcome>> : c \in {i \in S : parent[i] = p}}
        ELSE inbox[p]]

(* ON DELETE SET NULL of the foreign key on parent_job_id.                 *)
Orphaned(newParent, gone) ==
    [c \in Jobs |-> IF c \in gone \/ newParent[c] \in gone THEN NoJob ELSE newParent[c]]

(* The rows that an open transaction has updated: who needs one waits.     *)
Locked == UNION {e.rows : e \in ending}

Free(S) == S \cap Locked = {}

WithParent(j) == {j} \cup ParentsOf({j})
WithChildren(j) == {j} \cup {c \in Jobs : parent[c] = j}

-----------------------------------------------------------------------------
(* End the jobs in S, tell their parents, resolve their parents: the       *)
(* common body of cancelJob and of the two timeout sweeps.                 *)

OpenLinks(P, S) == {link \in P \X (Jobs \ S) : parent[link[2]] = link[1] /\ Open(link[2])}

(* The UPDATE of the rows, the INSERT into the inbox of the parents it     *)
(* finds open, and what resolveParent's UPDATE reads: the parents that are *)
(* waiting-children, and the other open children they have.  None of it is *)
(* visible yet.                                                            *)
EndBegin(S, why) ==
    LET P == ParentsOf(S) \ S
        waiting == {p \in P : status[p] = "waiting-children"}
    IN  /\ Free(S)
        /\ ending' = ending \cup
               {[rows |-> S, why |-> why, told |-> {p \in P : Open(p)},
                 asleep |-> waiting, seen |-> OpenLinks(waiting, S)]}
        /\ UNCHANGED <<status, links, token, late, counters, result, inbox, history>>

(* Mutant: a status the schema does not know.                              *)
EndOfNamed(why) == IF why = "timeout" THEN "timeout" ELSE "cancelled"

EndOf(why) == IF why = "timeout" THEN "dead" ELSE "cancelled"

(* The parents whose last open child ends with e, as e has read them.  The *)
(* row is checked again when it is updated, the children are not.          *)
Woken(e) == {p \in e.asleep : /\ status[p] = "waiting-children"
                             /\ \A link \in e.seen : link[1] # p}

(* The waiting parents of which e has not read what is true now.           *)
Misread(e) ==
    {p \in ParentsOf(e.rows) \ e.rows :
        /\ status[p] = "waiting-children"
        /\ p \in e.asleep => {link \in e.seen : link[1] = p} # OpenLinks({p}, e.rows)}

(* Mutant: the parent is resolved, but not told.                           *)
PostedNothing(e) == inbox

(* The child_done messages become visible.                                 *)
Posted(e) ==
    [p \in Jobs |->
        IF p \in e.told
        THEN inbox[p] \cup {<<c, e.why>> : c \in {i \in e.rows : parent[i] = p}}
        ELSE inbox[p]]

(* resolveParent's UPDATE waits for whoever has locked the parent, and the *)
(* transaction commits.                                                    *)
EndCommit(e) ==
    /\ \A d \in ending : d = e \/ d.rows \cap Woken(e) = {}
    /\ ending' = ending \ {e}
    /\ status' = Override(Override(status, e.rows, EndOf(e.why)), Woken(e), "waiting")
    /\ inbox' = Posted(e)
    /\ misread' = misread \cup Misread(e)
    /\ Unlock(e.rows)
    /\ UNCHANGED <<links, counters, result, touched, silent>>

-----------------------------------------------------------------------------
(* Submission.                                                             *)

LiveChildren(p) == {c \in Jobs : parent[c] = p /\ Open(c)}

(* Mutant: the cap lets one child too many in.                             *)
AdmittedLate(p) ==
    /\ status[p] \notin {"absent", "removed"}
    /\ depth[p] + 1 <= MaxSpawnDepth
    /\ opts[p].cap # 0 => Cardinality(LiveChildren(p)) <= opts[p].cap

(* add locks the parent row, then checks depth and max_children.           *)
Admitted(p) ==
    /\ status[p] \notin {"absent", "removed"}
    /\ depth[p] + 1 <= MaxSpawnDepth
    /\ opts[p].cap # 0 => Cardinality(LiveChildren(p)) < opts[p].cap

(* add: insert the row, then move the parent to waiting-children.  The     *)
(* parent keeps its lock_token.  A submission that meets an idempotency    *)
(* key or the maxWaiting bound returns a row it found: no step.            *)
Add(j, p, o, first) ==
    /\ status[j] = "absent"
    /\ p # NoJob => Free({p}) /\ Admitted(p)
    /\ status' = [i \in Jobs |->
                     IF i = j THEN first
                     ELSE IF i = p /\ status[i] \in {"waiting", "active", "delayed"}
                          THEN "waiting-children" ELSE status[i]]
    /\ parent' = [parent EXCEPT ![j] = p]
    /\ depth' = [depth EXCEPT ![j] = IF p = NoJob THEN 0 ELSE depth[p] + 1]
    /\ opts' = [opts EXCEPT ![j] = o]
    /\ UNCHANGED <<token, late, counters, result, inbox, ending, history>>

-----------------------------------------------------------------------------
(* The methods a worker calls with the token of its claim.                 *)

Fenced(j, t) == status[j] = "active" /\ token[j] = t

(* What the worker's own UPDATEs check instead: the token alone.           *)
Holds(j, t) == status[j] # "removed" /\ token[j] = t

(* Mutant: completeJob matches the status only.                            *)
CompletableAnyToken(j, t) == status[j] = "active"

Completable(j, t) == Fenced(j, t)

(* claim: any waiting row may be the first that no other transaction has   *)
(* locked.  started_at keeps its first value.                              *)
ClaimRow(j) ==
    /\ Free({j})
    /\ status[j] = "waiting"
    /\ status' = [status EXCEPT ![j] = "active"]
    /\ started' = [started EXCEPT ![j] = @ + 1]
    /\ token' = [token EXCEPT ![j] = started[j] + 1]
    /\ late' = [late EXCEPT ![j] = @ \ {"lock", "timeout"}]
    /\ UNCHANGED <<links, made, stalls, result, inbox, ending, history>>

(* completeJob                                                             *)
CompleteRow(j, t) ==
    LET ended == Override(status, {j}, "completed")
        gone == IF opts[j].remove = "on_complete" THEN {j} ELSE {}
    IN  /\ Free(WithParent(j)) /\ (gone # {} => Free(WithChildren(j)))
        /\ Completable(j, t)
        /\ status' = Override(Resolved(ended, parent, ParentsOf({j})), gone, "removed")
        /\ inbox' = Override(Notified(ended, {j}, "complete"), gone, {})
        /\ parent' = Orphaned(parent, gone)
        /\ result' = [result EXCEPT ![j] = t]
        /\ Unlock({j})
        /\ UNCHANGED <<depth, opts, counters, ending, history>>

(* failJob with newStatus "delayed": the attempt is spent, a retry is due  *)
(* after the backoff.                                                      *)
DelayRow(j, t) ==
    /\ Free(WithParent(j))
    /\ Fenced(j, t)
    /\ status' = [status EXCEPT ![j] = "delayed"]
    /\ made' = [made EXCEPT ![j] = @ + 1]
    /\ token' = [token EXCEPT ![j] = 0]
    /\ late' = [late EXCEPT ![j] = @ \ {"lock", "delay"}]
    /\ UNCHANGED <<links, started, stalls, result, inbox, ending, history>>

(* <<parent, child>> for the children in S.                                *)
LinksOf(S) == {<<parent[c], c>> : c \in {i \in S : parent[i] # NoJob}}

(* Mutant: with remove_dep or ignore nobody looks at the parent again.     *)
AfterChildFailedForgotten(ended, newParent, j) ==
    IF opts[j].policy = "fail_parent"
    THEN [p \in Jobs |-> IF p \in ParentsOf({j}) /\ ended[p] = "waiting-children"
                         THEN "failed" ELSE ended[p]]
    ELSE ended

(* What the on_child_fail policy of j does to the status of its parent.    *)
AfterChildFailed(ended, newParent, j) ==
    IF opts[j].policy = "fail_parent"
    THEN [p \in Jobs |-> IF p \in ParentsOf({j}) /\ ended[p] = "waiting-children"
                         THEN "failed" ELSE ended[p]]
    ELSE Resolved(ended, newParent, ParentsOf({j}))

(* failJob with newStatus "dead".                                          *)
KillRow(j, t) ==
    LET ended == Override(status, {j}, "dead")
        newParent == IF opts[j].policy = "remove_dep" THEN [parent EXCEPT ![j] = NoJob]
                                                      ELSE parent
        settled == AfterChildFailed(ended, newParent, j)
        gone == IF opts[j].remove = "on_fail" THEN {j} ELSE {}
    IN  /\ Free(WithParent(j)) /\ (gone # {} => Free(WithChildren(j)))
        /\ Fenced(j, t)
        /\ made' = [made EXCEPT ![j] = @ + 1]
        /\ status' = Override(settled, gone, "removed")
        /\ inbox' = Override(Notified(ended, {j}, "dead"), gone, {})
        /\ parent' = Orphaned(newParent, gone)
        /\ silent' = silent \cup LinksOf({p \in Jobs : settled[p] = "failed" /\ status[p] # "failed"})
        /\ Unlock({j})
        /\ UNCHANGED <<depth, opts, started, stalls, result, ending, touched, misread>>

(* renewLock                                                               *)
RenewRow(j, t) ==
    /\ Free({j})
    /\ Fenced(j, t)
    /\ "lock" \in late[j]
    /\ late' = [late EXCEPT ![j] = @ \ {"lock"}]
    /\ UNCHANGED <<status, links, token, counters, result, inbox, ending, history>>

-----------------------------------------------------------------------------
(* The sweeps.                                                             *)

(* A deadline passes.  Only those a sweep would look at are worth a step.  *)
Passes(j, deadline) ==
    /\ deadline \notin late[j]
    /\ CASE deadline = "lock"    -> status[j] = "active" /\ token[j] # 0
         [] deadline = "timeout" -> status[j] = "active" /\ opts[j].timed
         [] deadline = "wall"    -> status[j] = "active"
         [] deadline = "delay"   -> status[j] = "delayed"
    /\ late' = [late EXCEPT ![j] = @ \cup {deadline}]
    /\ UNCHANGED <<status, links, token, counters, result, inbox, ending, history>>

(* promoteDelayed                                                          *)
PromoteDelayed ==
    LET S == {j \in Jobs : status[j] = "delayed" /\ "delay" \in late[j]}
    IN  /\ S # {} /\ Free(S)
        /\ status' = Override(status, S, "waiting")
        /\ token' = Override(token, S, 0)
        /\ late' = [j \in Jobs |-> IF j \in S THEN late[j] \ {"lock", "delay"} ELSE late[j]]
        /\ UNCHANGED <<links, counters, result, inbox, ending, history>>

(* handleStalled: SKIP LOCKED leaves out rows another transaction holds.   *)
(* A job out of stalls is dead, and no parent hears of it.                 *)
Stalled == {j \in Jobs : Free({j}) /\ status[j] = "active" /\ "lock" \in late[j]}

OutOfStalls(j) == stalls[j] + 1 >= MaxStalled

HandleStalled ==
    \E S \in SUBSET Stalled :
        LET dead == {j \in S : OutOfStalls(j)}
        IN  /\ S # {}
            /\ status' = Override(Override(status, S, "waiting"), dead, "dead")
            /\ stalls' = [j \in Jobs |-> IF j \in S THEN stalls[j] + 1 ELSE stalls[j]]
            /\ silent' = silent \cup LinksOf(dead)
            /\ Unlock(S)
            /\ UNCHANGED <<links, started, made, result, inbox, ending, touched, misread>>

(* handleTimeouts leaves a row whose lock has expired, or that has no      *)
(* lock, to the other sweeps.                                              *)
TimedOut == {j \in Jobs : /\ status[j] = "active" /\ "timeout" \in late[j]
                          /\ token[j] # 0 /\ "lock" \notin late[j]}

HandleTimeouts == TimedOut # {} /\ EndBegin(TimedOut, "timeout")

(* Mutant: the wall-clock sweep wants a lock, as handleTimeouts does.      *)
OverdueLocked == {j \in Jobs : status[j] = "active" /\ "wall" \in late[j] /\ token[j] # 0}

(* handleWallClockTimeouts: whatever the lock says.                        *)
Overdue == {j \in Jobs : status[j] = "active" /\ "wall" \in late[j]}

HandleWallClockTimeouts == Overdue # {} /\ EndBegin(Overdue, "timeout")

-----------------------------------------------------------------------------
(* The operator's commands.                                                *)

(* j and everything below it, level by level.                              *)
Descendants(j) ==
    LET below[n \in 0 .. Cardinality(Jobs)] ==
            IF n = 0 THEN {j}
            ELSE below[n - 1] \cup {c \in Jobs : parent[c] \in below[n - 1]}
    IN  below[Cardinality(Jobs)]

(* Mutant: whatever their status.                                          *)
CancellableAll(j) == {i \in Jobs : i \in Descendants(j) /\ status[i] \notin {"absent", "removed"}}

Cancellable(j) == {i \in Jobs : i \in Descendants(j) /\ Open(i)}

CancelJob(j) ==
    /\ Cancellable(j) # {}
    /\ EndBegin(Cancellable(j), "cancelled")

(* Mutant: the attempts that were made are forgotten.                      *)
RetryJobForgetting(j) ==
    /\ Free({j})
    /\ status[j] \in {"failed", "dead"}
    /\ status' = [status EXCEPT ![j] = "waiting"]
    /\ token' = [token EXCEPT ![j] = 0]
    /\ made' = [made EXCEPT ![j] = 0]
    /\ late' = [late EXCEPT ![j] = @ \ {"lock", "delay"}]
    /\ touched' = touched \cup {j}
    /\ silent' = {link \in silent : link[2] # j}
    /\ UNCHANGED <<links, started, stalls, result, inbox, ending, misread>>

(* retryJob: the counters, started_at and the parent link stay.            *)
RetryJob(j) ==
    /\ Free({j})
    /\ status[j] \in {"failed", "dead"}
    /\ status' = [status EXCEPT ![j] = "waiting"]
    /\ token' = [token EXCEPT ![j] = 0]
    /\ late' = [late EXCEPT ![j] = @ \ {"lock", "delay"}]
    /\ touched' = touched \cup {j}
    /\ silent' = {link \in silent : link[2] # j}
    /\ UNCHANGED <<links, counters, result, inbox, ending, misread>>

PauseJob(j) ==
    /\ Free({j})
    /\ status[j] \in {"waiting", "active", "delayed"}
    /\ status' = [status EXCEPT ![j] = "paused"]
    /\ touched' = touched \cup {j}
    /\ Unlock({j})
    /\ UNCHANGED <<links, counters, result, inbox, ending, silent, misread>>

ResumeJob(j) ==
    /\ Free({j})
    /\ status[j] = "paused"
    /\ status' = [status EXCEPT ![j] = "waiting"]
    /\ Unlock({j})
    /\ UNCHANGED <<links, counters, result, inbox, ending, history>>

(* removeJob; prune removes a set of rows of the same statuses.            *)
RemoveJob(j) ==
    /\ Free(WithChildren(j))
    /\ status[j] \in Terminal
    /\ status' = [status EXCEPT ![j] = "removed"]
    /\ parent' = Orphaned(parent, {j})
    /\ inbox' = [inbox EXCEPT ![j] = {}]
    /\ UNCHANGED <<depth, opts, token, late, counters, result, ending, history>>

-----------------------------------------------------------------------------
QueueInit ==
    /\ status = [j \in Jobs |-> "absent"]
    /\ parent = [j \in Jobs |-> NoJob]
    /\ depth = [j \in Jobs |-> 0]
    /\ opts \in [Jobs -> {CHOOSE o \in Options : TRUE}]
    /\ token = [j \in Jobs |-> 0]
    /\ late = [j \in Jobs |-> {}]
    /\ started = [j \in Jobs |-> 0]
    /\ made = [j \in Jobs |-> 0]
    /\ stalls = [j \in Jobs |-> 0]
    /\ result = [j \in Jobs |-> 0]
    /\ inbox = [j \in Jobs |-> {}]
    /\ ending = {}
    /\ touched = {}
    /\ silent = {}
    /\ misread = {}

QueueTypeOK ==
    /\ status \in [Jobs -> Statuses]
    /\ parent \in [Jobs -> Jobs \cup {NoJob}]
    /\ depth \in [Jobs -> Nat]
    /\ opts \in [Jobs -> JobOptions]
    /\ token \in [Jobs -> Nat]
    /\ late \in [Jobs -> SUBSET Deadlines]
    /\ started \in [Jobs -> Nat]
    /\ made \in [Jobs -> Nat]
    /\ stalls \in [Jobs -> Nat]
    /\ result \in [Jobs -> Nat]
    /\ inbox \in [Jobs -> SUBSET (Jobs \X Outcomes)]
    /\ ending \subseteq Ending
    /\ touched \subseteq Jobs
    /\ silent \subseteq Jobs \X Jobs
    /\ misread \subseteq Jobs

=============================================================================
