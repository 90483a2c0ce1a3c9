---------------------------- MODULE ProviderSync ----------------------------
(***************************************************************************)
(* POST /providers/{provider}/sync of FlavorOS (services/api/app/routers/  *)
(* providers.py), composed with the executor that reviews what a sync      *)
(* brought in.  sync_provider is a coroutine with blocking database calls: *)
(* while it is not awaiting the provider it has the event loop of its      *)
(* worker process to itself, and it keeps the row lock of its connection   *)
(* across that await.  One connection; its mail is numbered from 1.        *)
(***************************************************************************)
EXTENDS TaskRun, FiniteSets

CONSTANTS Workers,      \* the uvicorn worker processes
          Placements,   \* how the requests may be dealt to the workers
          NoCursor,     \* no SyncCheckpoint row, or no cursor in an answer
          Page,         \* max_results of a fetch
          MaxMail       \* bound: the mail that ever arrives

(* A sync request makes at most one run, known by the request's name.      *)
Requests == Runs

NoOne == "none"

ASSUME SyncAssumption ==
    /\ Placements \subseteq [Requests -> Workers]
    /\ NoCursor \notin Nat /\ NoOne \notin Requests
    /\ Page \in Nat \ {0} /\ MaxMail \in Nat

VARIABLES conn,    \* [usable: status is connected, ready or degraded;
                   \*  cursor: the SyncCheckpoint's value], committed
          rowLock, \* the request that has updated the connection's row, or NoOne
          sent,    \* how much mail the provider holds
          stored,  \* the mail that has its ProviderEvent and NormalizedItem
          given,   \* [Runs -> the mail handed to that run as new_items]
          missed,  \* history: mail a fetch asked for and its page left out
          req,     \* [Requests -> the local state of sync_provider]
          on       \* [Requests -> Workers], who accepts a request and runs its task

syncVars == <<conn, rowLock, sent, stored, given, missed, req, on>>
vars == <<taskVars, syncVars>>

Mail == 1..MaxMail
Cursors == 0..MaxMail \union {NoCursor}

ReqPhases == {"idle", "read", "flush", "away", "answered", "stored", "ended"}
NoAnswer == [items |-> {}, next |-> NoCursor]
Fresh == [at |-> "idle", from |-> NoCursor, answer |-> NoAnswer]

-----------------------------------------------------------------------------
(* A coroutine between two awaits: nothing else runs on its worker.        *)
RequestRuns(r) == req[r].at \in {"read", "flush", "stored"}
TaskRuns(r) == exec[r] \in {"read", "claimed"}
LoopIsFree(w) == \A r \in Requests : on[r] = w => ~RequestRuns(r) /\ ~TaskRuns(r)

Goes(r, phase) == req' = [req EXCEPT ![r].at = phase]

(* The locals of a request mean nothing after its last use of them.        *)
Spent(phase) == [Fresh EXCEPT !.at = phase]
Leaves(r, phase) == req' = [req EXCEPT ![r] = Spent(phase)]

(* The connection is loaded; another status is answered with 409.          *)
ReadConnection(r) ==
    /\ req[r].at = "idle"
    /\ LoopIsFree(on[r])
    /\ Goes(r, IF conn.usable THEN "read" ELSE "ended")
    /\ UNCHANGED <<taskVars, conn, rowLock, sent, stored, given, missed, on>>

ReadCheckpoint(r) ==
    /\ req[r].at = "read"
    /\ req' = [req EXCEPT ![r].at = "flush", ![r].from = conn.cursor]
    /\ UNCHANGED <<taskVars, conn, rowLock, sent, stored, given, missed, on>>

(* flush of status "syncing": the UPDATE waits for the row lock, and the   *)
(* worker's event loop waits with it.  Then the provider is asked.         *)
RowIsFree(r) == rowLock = NoOne

Flush(r) ==
    /\ req[r].at = "flush"
    /\ RowIsFree(r)
    /\ rowLock' = r
    /\ Goes(r, "away")
    /\ UNCHANGED <<taskVars, conn, sent, stored, given, missed, on>>

(* The provider answers with the newest page of the mail after the cursor, *)
(* and perhaps a cursor at the end of the mailbox; or with an error, which *)
(* the adapter turns into an answer with neither.                          *)
Asked(r) == {i \in 1..sent : req[r].from = NoCursor \/ i > req[r].from}
Newest(S) == {i \in S : Cardinality({j \in S : j > i}) < Page}

Answered(r) ==
    /\ req[r].at = "away"
    /\ \E next \in {sent, NoCursor} :
          req' = [req EXCEPT ![r].at = "answered",
                    ![r].answer = [items |-> Newest(Asked(r)), next |-> next]]
    /\ missed' = missed \union (Asked(r) \ Newest(Asked(r)))
    /\ UNCHANGED <<taskVars, conn, rowLock, sent, stored, given, on>>

Refused(r) ==
    /\ req[r].at = "away"
    /\ req' = [req EXCEPT ![r].at = "answered", ![r].answer = NoAnswer]
    /\ UNCHANGED <<taskVars, conn, rowLock, sent, stored, given, missed, on>>

(* From the answer to the commit the coroutine does not await and holds    *)
(* the row: one step.  The mail that has no ProviderEvent yet is new.  The *)
(* status becomes ready, or degraded after an error.                       *)
AllItems(items) == items   \* mutant: no look at the idempotency key
New(items) == items \ stored
AdvanceAnyway(r) ==        \* mutant: to the end of the mailbox, whatever was fetched
    IF req[r].answer.next = NoCursor THEN sent ELSE req[r].answer.next
Advance(r) == IF req[r].answer.next = NoCursor THEN conn.cursor ELSE req[r].answer.next

(* A checkpoint row that appeared since ReadCheckpoint: the INSERT of a    *)
(* second one violates uq_sync_checkpoints_conn_key.                       *)
Collides(r) == req[r].from = NoCursor /\ conn.cursor # NoCursor /\ req[r].answer.next # NoCursor

Store(r) ==
    LET answer == req[r].answer IN
    /\ req[r].at = "answered"
    /\ LoopIsFree(on[r])
    /\ ~Collides(r)
    /\ conn' = [usable |-> TRUE, cursor |-> Advance(r)]
    /\ stored' = stored \union answer.items
    /\ given' = [given EXCEPT ![r] = New(answer.items)]
    /\ rowLock' = NoOne
    /\ Leaves(r, "stored")
    /\ CreateRun(r)
    /\ UNCHANGED <<sent, missed, on>>

(* IntegrityError, or an exception while the adapter parses an item, which *)
(* is outside its try: the request answers 500, and closing its session    *)
(* rolls the transaction back.                                             *)
MayGarble(r) == req[r].answer.items # {}

Raise(r) ==
    /\ req[r].at = "answered"
    /\ LoopIsFree(on[r])
    /\ Collides(r) \/ MayGarble(r)
    /\ rowLock' = NoOne
    /\ Leaves(r, "ended")
    /\ UNCHANGED <<taskVars, conn, sent, stored, given, missed, on>>

(* After the commit: _schedule_workflow_dispatch, an audit row, gbrain.    *)
Schedule(r) ==
    /\ req[r].at = "stored"
    /\ ScheduleTask(r)
    /\ Goes(r, "ended")
    /\ UNCHANGED <<conn, rowLock, sent, stored, given, missed, on>>

(* The executor's coroutine starts when its worker's loop is free; it has  *)
(* no await between its first statement and its last.                      *)
Execute(r) ==
    /\ exec[r] = "scheduled" => LoopIsFree(on[r])
    /\ ExecStep(r)
    /\ UNCHANGED syncVars

Replay(o) == ReplayStep(o) /\ UNCHANGED syncVars

-----------------------------------------------------------------------------
(* The environment.                                                        *)
MailArrives ==
    /\ sent < MaxMail
    /\ sent' = sent + 1
    /\ UNCHANGED <<taskVars, conn, rowLock, stored, given, missed, req, on>>

(* provider_callback, in a thread, reports connected or a status no sync   *)
(* is accepted in; its UPDATE waits for the row lock.                      *)
Callback ==
    /\ rowLock = NoOne
    /\ \E usable \in BOOLEAN : conn' = [conn EXCEPT !.usable = usable]
    /\ UNCHANGED <<taskVars, rowLock, sent, stored, given, missed, req, on>>

(* A worker process dies: its coroutines are gone, Postgres rolls back its *)
(* open transactions, and the supervisor starts a new process.             *)
KeptAfterCrash(w) == rowLock   \* mutant: a committed status for a lock
AfterCrash(w) == IF \E r \in Requests : rowLock = r /\ on[r] = w THEN NoOne ELSE rowLock
Open == {"read", "flush", "away", "answered", "stored"}

Crash(w) ==
    /\ req' = [r \in Requests |->
                 IF on[r] = w /\ req[r].at \in Open THEN Spent("ended")
                 ELSE req[r]]
    /\ exec' = [r \in Runs |-> IF on[r] = w THEN "idle" ELSE exec[r]]
    /\ rowLock' = AfterCrash(w)
    /\ UNCHANGED <<run, task, reviews, replay, overlap, conn, sent, stored, given, missed,
                   on>>

Init ==
    /\ TaskInit
    /\ conn = [usable |-> TRUE, cursor |-> NoCursor]
    /\ rowLock = NoOne
    /\ sent = 0
    /\ stored = {}
    /\ given = [r \in Runs |-> {}]
    /\ missed = {}
    /\ req = [r \in Requests |-> Fresh]
    /\ on \in Placements

SyncStep(r) ==
    \/ ReadCheckpoint(r) \/ Flush(r) \/ Answered(r) \/ Refused(r)
    \/ Store(r) \/ Raise(r) \/ Schedule(r)

Next ==
    \/ \E r \in Requests : ReadConnection(r) \/ SyncStep(r) \/ Execute(r)
    \/ \E o \in Operators : Replay(o)
    \/ MailArrives
    \/ Callback
    \/ \E w \in Workers : Crash(w)

(* Coroutines are resumed and replays' threads run; the provider answers,  *)
(* or its client times out after ten seconds.                              *)
Fairness ==
    /\ \A r \in Requests : WF_vars(SyncStep(r) \/ Execute(r))
    /\ \A o \in Operators : WF_vars(replay[o] # NoReplay /\ Replay(o))

Spec == Init /\ [][Next]_vars
FairSpec == Spec /\ Fairness

-----------------------------------------------------------------------------
(* The variables keep their types.                                         *)
TypeOK ==
    /\ run \in [Runs -> RunStatuses] /\ task \in [Runs -> TaskStatuses]
    /\ reviews \in [Runs -> Nat] /\ exec \in [Runs -> ExecPhases]
    /\ replay \in [Operators -> [at : ReplayPhases, run : Runs] \union {NoReplay}]
    /\ overlap \subseteq Runs
    /\ conn \in [usable : BOOLEAN, cursor : Cursors]
    /\ rowLock \in Requests \union {NoOne}
    /\ sent \in 0..MaxMail
    /\ stored \subseteq Mail /\ missed \subseteq Mail
    /\ given \in [Runs -> SUBSET Mail]
    /\ req \in [Requests -> [at : ReqPhases, from : Cursors,
                             answer : [items : SUBSET Mail, next : Cursors]]]
    /\ on \in [Requests -> Workers]

(* No mail is lost behind the cursor: whatever lies at or before the       *)
(* stored SyncCheckpoint has its NormalizedItem, unless a fetch asked for  *)
(* it and the provider's page left it out.  Overlapping syncs, failed      *)
(* fetches, crashes and refused commits notwithstanding (providers.py      *)
(* 289-357): the cursor a request writes is the one of its own fetch.      *)
CursorCovers ==
    conn.cursor # NoCursor => 1..conn.cursor \subseteq stored \union missed

(* Every ingested mail is handed to exactly one workflow run as new, in    *)
(* whatever order overlapping and repeated syncs fetched it (326-357).     *)
NewsOnce ==
    /\ stored = UNION {given[r] : r \in Runs}
    /\ \A r, s \in Runs : r # s => given[r] \intersect given[s] = {}

(* The review of a run: a completed run has its artifact and approval, a   *)
(* completed task belongs to a completed run, and a second review exists   *)
(* only where an executor and a replay, or two replays, worked on the run  *)
(* at once, against "making it safe to call more than once per run"        *)
(* (provider_first_sync.py, routers/workflows.py 112-135, executor.py 63). *)
ReviewedOnce ==
    \A r \in Runs :
        /\ run[r] = "completed" <=> reviews[r] > 0
        /\ task[r] = "completed" => run[r] = "completed"
        /\ r \notin overlap => reviews[r] <= 1

(* Two syncs of one connection on one worker: the second blocks the event  *)
(* loop on the row lock of the first, which needs the loop to release it.  *)
Frozen(w) ==
    \E h, b \in Requests :
        /\ on[h] = w /\ on[b] = w
        /\ rowLock = h /\ req[b].at = "flush"

(* Every accepted sync ends and its task is executed to an end, unless     *)
(* some worker has frozen itself in that way: nothing else can stop them.  *)
Working(r) == req[r].at \in Open \/ exec[r] # "idle"

SyncEnds ==
    \A r \in Requests : Working(r) ~> ~Working(r) \/ \E w \in Workers : Frozen(w)
=============================================================================
