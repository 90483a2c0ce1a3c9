----------------------------- MODULE MinionWorker -----------------------------
(***************************************************************************)
(* The workers of gbrain's Minions                                         *)
(* (subsystems/gbrain/src/core/minions/worker.ts) over the table of        *)
(* MinionQueue.  A worker is one process: a loop that claims a job and     *)
(* launches it or, inside its quiet hours, gives it back; the handlers it  *)
(* has in flight, each with its claim's token and a lock-renewal timer;    *)
(* and the sweeps it runs on an interval.                                  *)
(*                                                                         *)
(* A handler may return, throw, ignore its abort signal, or never end.     *)
(* Losing the lock does not stop it: it runs on beside the next claim of   *)
(* the same job, and only the token keeps its outcome out of the table.    *)
(***************************************************************************)
EXTENDS MinionQueue

CONSTANTS
    Workers,      \* worker processes (a crashed one is restarted under the same name)
    Concurrency,  \* MinionWorkerOpts.concurrency
    Clocks,       \* the deadlines that ever pass in an instance
    Commands,     \* operator commands and delayed submissions an instance exercises
    MaxMishaps    \* bound on crashes, retries, pauses, quiet claims and failed statements together

ASSUME WorkerAssumption ==
    /\ Concurrency \in Nat \ {0}
    /\ Clocks \subseteq Deadlines
    /\ Commands \subseteq {"cancel", "retry", "pause", "remove", "delay"}
    /\ MaxMishaps \in Nat

VARIABLES
    runs,     \* the handlers that are executing
    inFlight, \* per worker: the keys of its inFlight map
    gate,     \* per worker: the claim its loop is giving back for quiet hours
    mishaps   \* crashes, retries, pauses, quiet claims and failed statements so far

workerVars == <<runs, inFlight, gate, mishaps>>
vars == <<queueVars, workerVars>>

(* attempts is job.attempts_made as the claim returned it; evicted: the    *)
(* worker gave up on the handler and stopped its lock timer.               *)
Run == [worker : Workers, job : Jobs, token : Nat, attempts : Nat, evicted : BOOLEAN]

(* released: the lock is given up; cancels: the rows of its cancelJob that *)
(* is open.                                                                *)
NoClaim == [job |-> NoJob, token |-> 0, released |-> FALSE, cancels |-> {}]
Gated(j, t) == [job |-> j, token |-> t, released |-> FALSE, cancels |-> {}]
Gate == [job : Jobs, token : Nat, released : BOOLEAN, cancels : SUBSET Jobs] \cup {NoClaim}

-----------------------------------------------------------------------------
(* The claiming loop.                                                      *)

Submit(j) ==
    /\ \E p \in Jobs \cup {NoJob}, o \in Options, first \in {"waiting", "delayed"} :
          /\ first = "delayed" => "delay" \in Commands
          /\ Add(j, p, o, first)
    /\ UNCHANGED workerVars

FreeSlot(w) == gate[w] = NoClaim /\ Cardinality(inFlight[w]) < Concurrency

(* claim, verdict "allow", launchJob.  inFlight is keyed by the job: an    *)
(* earlier handler of the same job loses its entry to the new one.         *)
ClaimAndLaunch(w, j) ==
    /\ FreeSlot(w)
    /\ ClaimRow(j)
    /\ runs' = runs \cup {[worker |-> w, job |-> j, token |-> started[j] + 1,
                           attempts |-> made[j], evicted |-> FALSE]}
    /\ inFlight' = [inFlight EXCEPT ![w] = @ \cup {j}]
    /\ UNCHANGED <<gate, mishaps>>

(* claim, and the quiet-hours verdict is the policy of the job.            *)
ClaimAndGate(w, j) ==
    /\ FreeSlot(w)
    /\ opts[j].quiet # "none"
    /\ mishaps < MaxMishaps
    /\ mishaps' = mishaps + 1
    /\ ClaimRow(j)
    /\ gate' = [gate EXCEPT ![w] = Gated(j, started[j] + 1)]
    /\ UNCHANGED <<runs, inFlight>>

(* handleQuietHoursDefer, policy "defer": the UPDATE matches the token     *)
(* alone, whatever the status has become.                                  *)
GateDefer(w) ==
    LET j == gate[w].job
    IN  /\ gate[w] # NoClaim
        /\ opts[j].quiet = "defer"
        /\ gate' = [gate EXCEPT ![w] = NoClaim]
        /\ IF Holds(j, gate[w].token)
           THEN /\ Free({j})
                /\ status' = [status EXCEPT ![j] = "delayed"]
                /\ token' = [token EXCEPT ![j] = 0]
                /\ late' = [late EXCEPT ![j] = @ \ {"lock", "delay"}]
                /\ touched' = touched \cup {j}
           ELSE UNCHANGED <<status, token, late, touched>>
        /\ UNCHANGED <<links, counters, result, inbox, ending, silent, misread,
                       runs, inFlight, mishaps>>

(* Policy "skip": first the lock is given up, then the job is cancelled.   *)
GateRelease(w) ==
    LET j == gate[w].job
    IN  /\ gate[w] # NoClaim /\ ~gate[w].released
        /\ opts[j].quiet = "skip"
        /\ gate' = [gate EXCEPT ![w].released = TRUE]
        /\ IF Holds(j, gate[w].token)
           THEN Free({j}) /\ Unlock({j})
           ELSE UNCHANGED <<token, late>>
        /\ UNCHANGED <<status, links, counters, result, inbox, ending, history,
                       runs, inFlight, mishaps>>

(* The loop waits for the transaction, if there is something to cancel.    *)
GateCancel(w) ==
    LET S == Cancellable(gate[w].job)
    IN  /\ gate[w].released /\ gate[w].cancels = {}
        /\ \/ /\ CancelJob(gate[w].job)
              /\ gate' = [gate EXCEPT ![w].cancels = S]
           \/ /\ S = {}
              /\ gate' = [gate EXCEPT ![w] = NoClaim]
              /\ UNCHANGED queueVars
        /\ UNCHANGED <<runs, inFlight, mishaps>>

(* cancelJob threw: the job is marked cancelled and its parent not told.   *)
GateCancelFallback(w) ==
    LET j == gate[w].job
    IN  /\ gate[w].released /\ gate[w].cancels = {}
        /\ mishaps < MaxMishaps
        /\ mishaps' = mishaps + 1
        /\ gate' = [gate EXCEPT ![w] = NoClaim]
        /\ IF status[j] \notin {"completed", "failed", "dead", "removed"}
           THEN /\ Free({j})
                /\ status' = [status EXCEPT ![j] = "cancelled"]
                /\ silent' = silent \cup LinksOf({j})
           ELSE UNCHANGED <<status, silent>>
        /\ UNCHANGED <<links, token, late, counters, result, inbox, ending, touched, misread,
                       runs, inFlight>>

(* One of these UPDATEs threw: the claim is forgotten, the row left as the *)
(* last UPDATE that worked made it.                                        *)
GateError(w) ==
    /\ gate[w] # NoClaim /\ gate[w].cancels = {}
    /\ mishaps < MaxMishaps
    /\ mishaps' = mishaps + 1
    /\ gate' = [gate EXCEPT ![w] = NoClaim]
    /\ UNCHANGED <<queueVars, runs, inFlight>>

-----------------------------------------------------------------------------
(* The handlers.                                                           *)

(* Mutant: a dropped outcome returns before the finally.                   *)
LeaveIfSettled(r) ==
    /\ runs' = runs \ {r}
    /\ inFlight' = IF Fenced(r.job, r.token)
                   THEN [inFlight EXCEPT ![r.worker] = @ \ {r.job}] ELSE inFlight
    /\ UNCHANGED <<gate, mishaps>>

(* The finally of launchJob deletes the entry of the job, whose ever it is.*)
Leave(r) ==
    /\ runs' = runs \ {r}
    /\ inFlight' = [inFlight EXCEPT ![r.worker] = @ \ {r.job}]
    /\ UNCHANGED <<gate, mishaps>>

Complete(r) ==
    /\ CompleteRow(r.job, r.token)
    /\ Leave(r)

(* Mutant: the attempt that just failed is not counted.                    *)
MayRetryOnce(r) == r.attempts < MaxAttempts

MayRetry(r) == r.attempts + 1 < MaxAttempts

Retry(r) ==
    /\ MayRetry(r)
    /\ DelayRow(r.job, r.token)
    /\ Leave(r)

(* An UnrecoverableError, no handler, or the last attempt.                 *)
Die(r) ==
    /\ KillRow(r.job, r.token)
    /\ Leave(r)

(* The outcome of a handler that lost its lock is dropped.                 *)
Drop(r) ==
    /\ ~Fenced(r.job, r.token)
    /\ Leave(r)
    /\ UNCHANGED queueVars

Renew(r) ==
    /\ ~r.evicted
    /\ RenewRow(r.job, r.token)
    /\ UNCHANGED workerVars

(* 30 s after the per-job timeout: the slot is freed, the handler runs on. *)
(* failJob may match no row, or fail itself.                               *)
ForceEvict(r) ==
    /\ opts[r.job].timed /\ ~r.evicted
    /\ r.job \in inFlight[r.worker]
    /\ runs' = (runs \ {r}) \cup {[r EXCEPT !.evicted = TRUE]}
    /\ inFlight' = [inFlight EXCEPT ![r.worker] = @ \ {r.job}]
    /\ KillRow(r.job, r.token) \/ UNCHANGED queueVars
    /\ UNCHANGED <<gate, mishaps>>

(* The process dies, or exits at the end of a graceful shutdown with       *)
(* handlers still running.                                                 *)
Crash(w) ==
    /\ mishaps < MaxMishaps
    /\ mishaps' = mishaps + 1
    /\ inFlight[w] # {} \/ gate[w] # NoClaim
    /\ runs' = {r \in runs : r.worker # w}
    /\ inFlight' = [inFlight EXCEPT ![w] = {}]
    /\ gate' = [gate EXCEPT ![w] = NoClaim]
    /\ UNCHANGED queueVars

-----------------------------------------------------------------------------
Elapse(j, deadline) ==
    /\ deadline \in Clocks
    /\ Passes(j, deadline)
    /\ UNCHANGED workerVars

Sweep ==
    /\ PromoteDelayed \/ HandleStalled \/ HandleTimeouts \/ HandleWallClockTimeouts
    /\ UNCHANGED workerVars

(* A transaction of cancelJob or of a sweep commits, and a loop that waited*)
(* for it goes on.                                                         *)
Commits(e) ==
    /\ EndCommit(e)
    /\ gate' = [w \in Workers |-> IF gate[w].cancels = e.rows THEN NoClaim ELSE gate[w]]
    /\ UNCHANGED <<runs, inFlight, mishaps>>

Command(j) ==
    \/ /\ "cancel" \in Commands /\ CancelJob(j)
       /\ UNCHANGED workerVars
    \/ /\ "remove" \in Commands /\ RemoveJob(j)
       /\ UNCHANGED workerVars
    \/ /\ "pause" \in Commands /\ ResumeJob(j)
       /\ UNCHANGED workerVars
    \/ /\ mishaps < MaxMishaps
       /\ mishaps' = mishaps + 1
       /\ \/ "retry" \in Commands /\ RetryJob(j)
          \/ "pause" \in Commands /\ PauseJob(j)
       /\ UNCHANGED <<runs, inFlight, gate>>

Init ==
    /\ QueueInit
    /\ runs = {}
    /\ inFlight = [w \in Workers |-> {}]
    /\ gate = [w \in Workers |-> NoClaim]
    /\ mishaps = 0

Claim(w) == \E j \in Jobs : ClaimAndLaunch(w, j) \/ ClaimAndGate(w, j)

GiveBack(w) ==
    \/ GateDefer(w)
    \/ GateRelease(w)
    \/ GateCancel(w)
    \/ GateCancelFallback(w)
    \/ GateError(w)

Finish(r) == Complete(r) \/ Retry(r) \/ Die(r) \/ Drop(r)

Next ==
    \/ \E j \in Jobs : Submit(j) \/ Command(j) \/ \E deadline \in Deadlines : Elapse(j, deadline)
    \/ \E w \in Workers : Claim(w) \/ GiveBack(w) \/ Crash(w)
    \/ \E r \in runs : Finish(r) \/ Renew(r) \/ ForceEvict(r)
    \/ Sweep \/ \E e \in ending : Commits(e)

(* Time goes on, and some worker runs its loop and its sweeps.             *)
SweepFairness ==
    /\ \A j \in Jobs : WF_vars(Elapse(j, "wall"))
    /\ WF_vars(HandleWallClockTimeouts /\ UNCHANGED workerVars)
    /\ WF_vars(\E e \in ending : Commits(e))

(* Every worker keeps promoting and claiming, gives back what it gated,    *)
(* and its handlers end, which nothing in the code obliges them to.        *)
WorkerFairness ==
    /\ \A j \in Jobs : WF_vars(Elapse(j, "delay"))
    /\ WF_vars(PromoteDelayed /\ UNCHANGED workerVars)
    /\ \A w \in Workers :
          /\ WF_vars(Claim(w))
          /\ WF_vars(GiveBack(w))
          /\ WF_vars(\E r \in runs : r.worker = w /\ Finish(r))

Spec == Init /\ [][Next]_vars

SweptSpec == Spec /\ SweepFairness

-----------------------------------------------------------------------------
TypeOK ==
    /\ QueueTypeOK
    /\ runs \subseteq Run
    /\ inFlight \in [Workers -> SUBSET Jobs]
    /\ gate \in [Workers -> Gate]
    /\ mishaps \in 0 .. MaxMishaps

(* The token fence of completeJob: however many handlers of a job overlap  *)
(* after stalls, pauses and crashes, the stored result is the one of the   *)
(* last claim.                                                             *)
ResultIsOfLastClaim ==
    \A j \in Jobs : status[j] = "completed" => result[j] = started[j]

(* The constraint chk_attempts_order of the schema, and the promises of    *)
(* max_attempts and max_stalled, which only retryJob may stretch: no       *)
(* overlap of handlers counts a failure or a stall twice.                  *)
AttemptsBounded ==
    \A j \in Jobs :
        /\ made[j] <= started[j]
        /\ j \notin touched => made[j] <= MaxAttempts /\ stalls[j] <= MaxStalled

(* max_children: open children never exceed the cap, unless one of them    *)
(* was brought back by an operator after it had ended.                     *)
LiveChildrenCapped ==
    \A p \in Jobs :
        opts[p].cap # 0 /\ LiveChildren(p) \cap touched = {} =>
            Cardinality(LiveChildren(p)) <= opts[p].cap

(* A parent that waits for its children has one to wait for, or one that   *)
(* ended on a path that tells no parent: the stall sweep, the fail_parent  *)
(* cascade, the fallback of a quiet-hours skip; or else a cancelJob or a   *)
(* timeout sweep, which lock no parent, left it on a snapshot out of date. *)
ParentNotStranded ==
    \A p \in Jobs :
        status[p] = "waiting-children" =>
            \/ \E c \in Jobs : parent[c] = p /\ Open(c)
            \/ \E c \in Jobs : <<p, c>> \in silent
            \/ p \in misread

(* An open parent has a child_done message from every child that ended,    *)
(* on whatever rail, except the silent ones.  A parent that was brought    *)
(* back by an operator may have missed some while it was terminal.         *)
ChildDonePosted ==
    \A c \in Jobs :
        LET p == parent[c]
        IN  p # NoJob /\ Open(p) /\ p \notin touched
            /\ status[c] \in Terminal /\ <<p, c>> \notin silent =>
                \E outcome \in Outcomes : <<c, outcome>> \in inbox[p]

(* A parent runs only when its children have ended, unless an operator or  *)
(* a quiet-hours deferral moved one of them by hand, or a cancelJob or a   *)
(* timeout sweep woke the parent on a snapshot out of date.                *)
ParentRunsLast ==
    \A c \in Jobs :
        LET p == parent[c]
        IN  p # NoJob /\ {c, p} \cap touched = {} /\ Open(c) /\ status[p] = "active"
                => p \in misread

(* The concurrency limit as the loop counts it, and every slot it counts   *)
(* belongs to a handler that will give it back.                            *)
SlotsAccounted ==
    \A w \in Workers :
        /\ Cardinality(inFlight[w]) <= Concurrency
        /\ \A j \in inFlight[w] : \E r \in runs : r.worker = w /\ r.job = j

-----------------------------------------------------------------------------
(* Whatever stale handlers and late sweeps do: a completed or cancelled    *)
(* job never moves again, and a dead one only by retryJob.                 *)
EndIsFinal ==
    [][\A j \in Jobs :
          /\ status[j] \in {"completed", "cancelled"} => status'[j] \in {status[j], "removed"}
          /\ status[j] = "dead" =>
                \/ status'[j] \in {"dead", "removed"}
                \/ status'[j] = "waiting" /\ mishaps' = mishaps + 1]_vars

(* The life of a job as JobLife tells it.  A lock_token that an ended row  *)
(* still carries owns nothing any more.                                    *)
PhaseOf(j) ==
    CASE Open(j)                        -> "open"
      [] status[j] \in {"failed", "dead"} -> "given_up"
      [] status[j] = "removed"          -> "gone"
      [] OTHER                          -> status[j]

OwnerOf(j) == IF Open(j) THEN token[j] ELSE 0

Life == INSTANCE JobLife WITH
    phase <- [j \in Jobs |-> PhaseOf(j)], claims <- started,
    owner <- [j \in Jobs |-> OwnerOf(j)], spent <- made, outcome <- result,
    revived <- touched

(* The fence on lock_token and the status guards of every UPDATE together  *)
(* make the table a queue of such jobs, whoever else still works on them.  *)
JobsLiveOnce == Life!Spec

(* A claimed job does not stay active for ever, even if every worker has   *)
(* crashed, hangs or never claims again: the wall-clock sweep sees jobs    *)
(* that no lock speaks for.                                                *)
NoJobStaysActive == \A j \in Jobs : status[j] = "active" ~> status[j] # "active"

(* If handlers end, every open job is settled, paused by an operator, or   *)
(* has an ancestor or descendant stranded behind a silent end.             *)
Stranded(p) ==
    /\ status[p] = "waiting-children"
    /\ \A c \in Jobs : parent[c] = p => ~Open(c)

EveryJobSettles ==
    WorkerFairness =>
    \A j \in Jobs :
        Open(j) ~> \/ ~Open(j) \/ status[j] = "paused"
                  \/ \E p \in Jobs : Stranded(p)

-----------------------------------------------------------------------------
(* What the comments say, and the code does not do.                        *)

(* subagent-aggregator.ts: every terminal transition of a child emits a    *)
(* child_done and flips the parent out of waiting-children once all        *)
(* children are terminal.                                                  *)
NobodyStranded == \A p \in Jobs : ~Stranded(p)


(* worker.ts: a deferral reverses the transition of the claim, which had   *)
(* set status='active'.                                                    *)
DeferReversesClaim ==
    [][\A w \in Workers :
          LET j == gate[w].job
          IN  GateDefer(w) /\ status'[j] # status[j] => status[j] = "active"]_vars

=============================================================================
