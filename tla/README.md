# FlavorOS 1.5: TLA+ models and proofs

This directory models the parts of FlavorOS 1.5 whose correctness depends on
the order of things. Of the API (`services/api`): the approval-gated write-back,
provider syncs, and the executor and replay that review what a sync brings in.
Of gbrain (`subsystems/gbrain`): the Minions job system, the subagent
conversations it runs with their rate leases, and the sync of a git checkout
into pages with its lock and bookmark. The rest of the repository is listed
below with the reason it is not modelled.

    tlasany M.tla                          parse a module
    tlc -workers 2 -config X.cfg M         model-check (X.cfg and M are listed under "Runs")
    tlapm M.tla                            check the proofs of a module
                                           (OutboundProofs, QueueProofs, MinionProofs,
                                           MinionTreeProofs, LeaseProofs,
                                           SubagentProofs, SyncProofs,
                                           ProviderSyncProofs)

## 1. Inventory

### FlavorOS API (Python, FastAPI, SQLAlchemy, Postgres)

| Part | State | Operations | What is hard |
|---|---|---|---|
| Approvals and write-back (`routers/approvals.py`, `routers/outbound_actions.py`, `workflows/*_outbound.py`, `adapters/gmail_outbound.py`, `scripts/dispatch_outbound_due.py`) | `approvals.decision`, `outbound_actions.status`, `audit_events`, the process-wide Gmail adapter | create, decide, pull back, execute, dispatch what is due | each handler checks a status in Python and commits an UPDATE by primary key; no row is locked for it; the provider call sits inside the transaction |
| Agent task executor (`executor.py`, `skills/`) | `agent_tasks.status`, `workflow_runs.status`, task events | dispatch a task, run a skill, replay a run | check and set in two steps; a replay does not look at the task; a crash leaves `running` |
| Provider connections and sweeps (`routers/providers.py`, `adapters/composio.py`, `workflows/provider_first_sync.py`, `*_sweep.py`) | connection status, `sync_checkpoints`, `provider_events`, `normalized_items` | connect, callback, sync, sweep | overlapping syncs of one connection; a row lock held across an await; blocking database calls on an event loop |
| Auth and invites (`routers/auth.py`) | `invite_tokens.used_at`, users | create, preview, accept | an invite is used once, under concurrent accepts |
| Send windows (`workflows/outbound_schedule.py`) | none | next window after a time | boundaries, time zones |
| Onboarding, DNA, profiles, universe, seed | rows of form data | create, update | little: data is copied |
| Composio, LLM, orchestrator, gbrain adapters | none | calls to services | timeouts; modelled where the write-back depends on them |

### gbrain (TypeScript, Postgres or PGLite)

| Part | State | Operations | What is hard |
|---|---|---|---|
| Minions queue (`core/minions/queue.ts`) | `minion_jobs`, `minion_inbox` | add, claim, complete, fail, renew, promote, three sweeps, cancel, retry, pause, resume, remove | leases that expire under a running handler; parents that wait for children |
| Minions worker (`core/minions/worker.ts`) | `inFlight`, timers | claim loop, quiet-hours gate, launch, renew, force-evict, sweep, shutdown | handlers cannot be killed and report late; crashes |
| Fan-out, subagent, aggregator (`commands/agent.ts`, `handlers/`) | `subagent_messages`, `subagent_tool_executions`, job data | converse, call tools, resume; submit N children and an aggregator | a crash between any two writes; writes after the lock is lost; the aggregator is claimable before its children exist |
| Rate leases (`rate-leases.ts`) | `subagent_rate_leases` | acquire, reject, release (renewals have no caller) | expiry while in use; owners that die |
| Locks (`db-lock.ts`, `cycle.ts`, `page-lock.ts`, `pglite-lock.ts`) | lock rows and files with a TTL | acquire, refresh, release | superseded holders, pids that repeat across hosts |
| Supervisor, autopilot | child process, crash counter | spawn, restart, drain | backoff, signals |
| Dream cycle and budgets (`core/cycle`, `core/enrichment/budget.ts`) | reservations | reserve, commit, roll back | expired reservations |
| Sync and import (`commands/sync.ts`, `commands/import.ts`) | `sync.last_commit`, pages, `import-checkpoint.json` | incremental sync, full import, resume, skip failures | HEAD moves while pages are written; failures block the bookmark; a checkpoint outlives a crash |
| Engines, migrations, search, skillpacks, MCP and OAuth | pages, tokens | many | mostly input and output; OAuth token rotation is the exception |

Interactions: an approval becomes an outbound row, which a request thread or the
cron dispatcher executes through the Gmail adapter. A Minions job is submitted
by a command, an MCP call or another job; workers of any number of processes
share one table and speak to each other through it only; a subagent job adds its
conversation and takes leases from a table all workers share. Syncs of a brain
meet in one lock row and one bookmark. A provider sync hands a workflow run and
a task to the executor on its own event loop; operators may replay the run from
any worker. The API and gbrain do not share state.

What makes each correct is stated as properties below; the list `hazards` in
`PROJECT.json` names the lines where it could go wrong.

## 2. What is modelled

### `WriteBack`, `Outbound`: approvals and governed write-back

`WriteBack` is the abstract promise, without sessions: an approval is filed,
decided once, its send delivered at most once and then settled, or withdrawn
before it is delivered; a set `excused` of approvals for which nothing is
promised only grows. `KeepsThePromise` maps `Outbound` to it, with `overlapped`
and `uncertain` for `excused`.

Every request and every dispatcher run is a database session with a
transaction in `sess[s]`. `Open...` is the part of a handler up to its status
check: it reads committed rows into the session. `Enqueue...` and `Run...` are
the calls in between, each of which may wait, fail or reach the provider.
`Commit` makes the writes visible the way the unit of work does: a column is
written only when it differs from what was loaded, and the UPDATE does not look
at what it overwrites. Between any two of these steps every other session may
act. This is what READ COMMITTED gives, and the code asks for nothing stronger.

| Model | Code |
|---|---|
| `approval`, `outbound`, `audit` | `approvals.decision`, `outbound_actions.status` (one row per approval, by the unique `approval_id`), `audit_events` |
| `env` | `OUTBOUND_INLINE_EXECUTE*`, `OUTBOUND_DEFER_EXECUTION`, `COMPOSIO_API_KEY`, read once at `Init` |
| `request` | what is asked for (mail, calendar hold, anything else) and the failure hook of the stub |
| `OpenApprove`, `OpenReject`, `Enqueue*`, `Commit` | `decide_approval` with `enqueue_for_approval` and `maybe_enqueue_and_execute` of both workflows |
| `OpenPullBack`, `OpenExecute`, `OpenDispatch` | `pull_back_outbound`, `execute_outbound_action`, `dispatch_due_outbound_actions` |
| `RunLive`, `RunStub`, `RunCalendar` | `execute_outbound` through each adapter, `execute_calendar_outbound` |
| `Crash` | a process that dies or a commit that fails: nothing is written, what the provider did stays done |
| `sent` | messages the provider delivered, saturating at 2 |
| `overlapped`, `uncertain` | history: approvals two sessions held at once, and deliveries the code never learnt about. The guarantees of the status checks hold outside these sets, and two runs show what happens inside the first |

### `JobLife`, `MinionQueue`, `MinionWorker`, `MCMinion`: jobs and workers

`JobLife` is the abstract promise to the one who submits a job: claims are
counted, at most the last one owns the job, only the owner completes it or
spends an attempt, and an ended job stays ended unless it is revived by hand.
`JobsLiveOnce` maps the table to it: the five open statuses are one phase,
`failed` and `dead` are another, the owner is `lock_token` while the job is
open.

`MinionQueue` has one action per method of the class; a method is one statement
or one transaction and is one step, except for `cancelJob` and the two timeout
sweeps. These end rows and then unblock the parents without first locking them,
and two of them, or one and an `add`, may be open at once. `EndBegin` is the
UPDATE of the rows, which takes their locks, with the guard of the inbox INSERT
and what the last UPDATE reads of the siblings; `EndCommit` writes and commits.
In between the rows in `ending` are locked (`Locked`) and every other method that
updates one of them waits (`Free`). A transaction that rolls back leaves nothing
behind and is no step. `MinionWorker` adds the processes: the
claiming loop, the handlers in flight (`runs`), the map the concurrency limit is
counted on (`inFlight`), the quiet-hours gate as the separate statements it is
(`GateRelease` then `GateCancel`), the sweeps, the operator's commands, and
crashes. `MCMinion` holds the submissions and symmetry sets of the instances.

Abstractions: `now()` is replaced by deadlines that pass (`Passes`); a lock token
is the number of the claim that set it (the code's worker id and millisecond are
unique per claim of a job); a job's data and result are the claim that produced
it; messages in the inbox are `<<child, outcome>>`; `max_attempts` and
`max_stalled` are the same for all jobs of an instance. `touched`, `silent` and
`misread` are history: jobs an operator or a deferral moved by hand, children
that ended on a path which tells no parent, and parents that an ending left or
woke on what it had read before another transaction committed.

### `Semaphore`, `RateLease`, `Subagent`: conversations and their leases

`Semaphore` is the abstract promise of anything that is held for a time: at most
`Capacity` holders, each entering only while there is room. `RateLease` is
`rate-leases.ts`, one transaction per step, and `LeaseIsSemaphore` maps it to
`Semaphore` by the rows that are in force (`Kept`).

`Subagent` EXTENDS `MinionQueue` and `RateLease`: one subagent job, a handler per
claim of it (`agent[c]`), and the two tables of the conversation. Each `await` of
`handlers/subagent.ts` that touches the database, the provider or a tool ends a
step. The actions of `MinionQueue` claim, renew, sweep and settle the row, so a
handler whose lock expired runs beside its successor, as in `MinionWorker`.
A message is its role, the claim that received it, and its tool uses or answers;
a tool's output is its status. `astray` counts what handlers stored after they
had lost the lock: the tables are not fenced by the token, so the properties of
the conversation are stated for `astray = 0`.

### `DbLock`, `Sync`: the bookmark and the pages

`DbLock` is `tryAcquireDbLock` with its release: one upsert, one DELETE, both
matched by pid; `LockIsMutex` maps it to `Semaphore` with one place by the
holders whose time is not up (`inside \ lost`). `Sync` EXTENDS it: a sync
captures HEAD, reads the bookmark, decides between "up to date", a diff and a
full import, and works through drops, deletes, renames and imports while
`MoveHead` changes the checkout under it. `runImport` with its checkpoint, its
workers (`Width`) and its own write of the bookmark is part of it. A commit is
its tree, a page its content, a path has one slug. The diff is of commits, but
the files are read from the working tree: `tree` is what lies there, `Edit`
changes it without a commit, and `MoveHead` may leave some of these changes
where they are. `Syncable` is what `isSyncable` accepts, `Walkable` what the
walker of a full import collects (READMEs, for instance, which the other
refuses); `Drop` deletes the page of a modified path that is not syncable. What
a sync that moves the bookmark does not answer for is spelled out in `Excused`:
failures it was told to skip, paths git paired as renames (`updateSlug` may find
nothing to move, and a refused re-import is not looked at), files that were not
HEAD's when they were imported (`dirty`), what a full import did not walk, and
everything if HEAD moved unnoticed: a full import has no drift gate, and a HEAD
that came back passes it.

### `TaskRun`, `ProviderSync`: provider syncs and their reviews

`TaskRun` has `dispatch_task` step by step (read, commit `running`, commit the
review or the failure) and the replay of a run (read, lock by the flush of
`running`, one commit). `ProviderSync` EXTENDS it with the requests: from the
guard to the flush that takes the row lock, the await of the provider, and the
one transaction that stores the mail, moves the cursor and creates the run and
its task. An answer that cannot be parsed raises outside the adapter's `try`
(`Raise`), as a violated unique key does: the request ends with a rollback. What
is synchronous in the code is one step per database statement that others can
see, and `LoopIsFree` keeps every other coroutine of that worker waiting
meanwhile. `overlap` is history: runs whose executor and replays were at work at
the same time; `missed` is the mail a fetch asked for and its page left out.

## 3. Properties and runs

| Run | Expect | Shows |
|---|---|---|
| `outbound` (`Outbound.cfg`) | pass | approval gate, audit, status checks, finality, dispatch liveness; refinement of `WriteBack` |
| `outbound_pull_back` | violation | a pull-back that overlaps an execution ends `pulled_back` with the message sent |
| `outbound_stub` | violation | the dispatcher process runs the stub adapter and records `executed` without sending |
| `minion_tree` (`MinionTree.cfg`) | pass | parents and children: told, resolved, run last, capped, while endings overlap; slots with evicted handlers |
| `minion_operator` (`MinionOperator.cfg`) | pass | token fence and finality under operator commands, quiet hours, crashes and stalls; jobs as `JobLife` |
| `minion_recovery` (`MinionRecovery.cfg`) | pass | attempts, stalls and slots are counted right over retries, requeues and crashes; no job stays active; jobs settle |
| `subagent` (`Subagent.cfg`) | pass | conversations resumed over crashes, stalls, aborts and lost locks; leases as a semaphore |
| `sync` (`Sync.cfg`) | pass | bookmark and pages under a moving HEAD, uncommitted edits, failures, crashes and an expiring lock; the lock as a mutex |
| `provider_sync` (`ProviderSync.cfg`) | pass | cursor, deduplication, reviews and termination of overlapping provider syncs on one and two workers |
| `minion_stranded` | violation | a stall death strands the parent |
| `minion_siblings` | violation | two children end in overlapping transactions, and nobody wakes the parent |
| `minion_defer` | violation | a deferral moves a job that is no longer active |

**Write-back.** `NothingLeavesUnapproved` is the promise of the whole design: a
row and a delivered message trace back to a committed approval; the one
exception, inline execution before its own commit, is spelled out.
`ApprovedHasRow` relates the decision to the row (one transaction, or neither).
`UndisturbedSendIsExact` says what the status checks are worth: at most one
message, and a sent message means an executed row, as long as nobody else held
the row and no outcome was lost. `RejectedIsNotSent` and `DecisionIsFinal` are
about concurrent decisions: two that read the approval while it is pending both
commit, the later one wins, and a rejection may leave behind the row the
approval had created. `NeverRequeued` is about the in-memory reset of a failed
row. `StatusAudited` says of executed and withdrawn rows what
`docs/FLAVOROS_TAXONOMY.md:126-128` says. It is silent about failed ones: that
document has `outbound.executed` as "Successful execution" and `outbound.failed`
as "Execution failure", and the code logs a failed live send under the first
name (`communications_outbound.py:206`). `outbound_stub` shows a row that is
executed and not sent; line 100 of the document allows "send (or stub)", where
the stub is the adapter that was wired, whereas here the live one is, in another
process. `KeepsThePromise` gathers the order of these steps in one place:
outside the two history sets the sessions move an approval the way `WriteBack`
does, so that, for instance, nothing but a queued and unsent row is taken back,
and nothing is delivered after a rejection. `DueIsDispatched` is liveness.

**Jobs.** `ParentNotStranded` and `ChildDonePosted` are what the folding of
`resolveParent` and `child_done` into every ending transaction is for. The
`silent` paths are exempt and `minion_stranded` shows that they matter; so are
the parents in `misread`, and `minion_siblings` shows why: `completeJob` locks
the parent first (`queue.ts:733-737` says what would happen otherwise), a
timeout sweep or a cancel does not, and of two that overlap each sees the
other's child open. `ParentRunsLast` has the same exemption. Without it the
counterexample is an `add` that holds the lock of a waiting parent while a
sweep, whose snapshot is older, waits for it and then wakes the parent, which
runs with an open child. `ResultIsOfLastClaim`, `AttemptsBounded` and
`EndIsFinal` are the token fence seen from the table: a handler that lost its
lock may still run, report, fail or be swept, and changes nothing.
`JobsLiveOnce` says the same of every step: the table implements `JobLife`.
`LiveChildrenCapped`, `ParentRunsLast` and `SlotsAccounted` are limits and
order. What `SlotsAccounted` counts is the map: `inFlight` is keyed by job
(`worker.ts:605`), so after a re-claim more handlers run than `concurrency`
allows while the map says otherwise. `NoJobStaysActive` and `EveryJobSettles`
are liveness.

**Conversations.** `ConversationSound` is the claim in the header of
`subagent.ts`: wherever handlers died, the stored messages alternate the way the
provider requires, the answers are those of the uses before them, with the
outcomes the other table records. `ToolsRunOnce` is the reason for the two-phase
rows, `TurnsBounded` and `TurnsCharged` relate turns and their bill over all
claims. `CallsCapped` and `LeaseIsSemaphore` say what a lease is worth, and
`KeyIsFreedAgain` that dead owners do not fill a key for good. Calls that outlive
their lease are counted in `overrun` and exempt: nothing renews a lease.

**Syncs.** `BookmarkCovers` relates the bookmark to every page.
`BookmarkNeverRegresses` is what the comment at the lock (`sync.ts:283`) wants,
and holds as long as no sync writes after it has lost the lock: nothing
refreshes it during its 30 minutes and `writeSyncAnchor` does not look at it. It
also leaves out `StepsBack`: a full sync under which HEAD moved stores the later
HEAD first (`import.ts:313`) and the commit it captured after it
(`sync.ts:1037`). `LockIsMutex` is the lock's own part. `SyncCatchesUp` rules
out that a crash, a blocked sync or a lock left behind stops the brain for good,
provided syncs go on being started. A file that cannot be imported, or that is
in HEAD and not in the working tree, is excused, since it blocks the bookmark by
design.

**Provider syncs.** `CursorCovers` and `NewsOnce` are about overlapping requests
that read the checkpoint before they wait for the row lock. Both are to be read
with what they leave out. A page has a limit (`providers.py:278`) and the cursor
moves past what it cut off: that mail is in `missed` and lost, and
`CursorCovers` says that nothing else is. An item has an id and does not change:
the code drops a calendar event that was updated under the id it had, and the
model has none. `ReviewedOnce` bounds what the docstring of
`provider_first_sync.py` calls safe "to call more than once per run": one at a
time it is; two operators, or an operator and the executor, each leave an
artifact and an approval if they read the status before either commits.
`SyncEnds` needs its exception: two syncs of one connection on one worker freeze
that worker, because the second blocks the event loop on the row lock of the
first (`providers.py:290`), and the whole service is two such workers
(`Dockerfile:25`).

**Bounds.** `Outbound.cfg` has one approval: sessions of different approvals
share only the dispatcher's batch, and the batch rows are executed
independently. Two request threads and one dispatcher give every pair of
overlapping handlers, including dispatcher against request, and a third session.
One crash is enough to lose any one session at any point. With one approval and
a batch of one, a due row never waits for a batch that is full. `MinionTree.cfg`
has three jobs (a parent with two children), one attempt and one stall, timeouts
and a limit of two handlers. `MinionOperator.cfg` has two jobs, all commands and
two mishaps, and again one attempt and one stall, which the commands may
stretch. `MinionRecovery.cfg` has two jobs with two attempts and two stalls each
(`MaxAttempts`, `MaxStalled`), so that a job is retried after a failure and
requeued after a stall, two mishaps and one slot; a stalled handler still runs
beside its successor. The properties of a tree are checked by `minion_tree`,
without operators; that they survive cancel, retry, pause, removal and quiet
hours is what `MinionTreeProofs` shows for every instance. `MaxMishaps` bounds
crashes, retries, pauses, quiet claims and failed statements together, and
without it retry and re-claim go on for ever. Symmetry is used only in runs
without liveness. `Subagent.cfg` has two claims (`MaxClaims`), so each handler
has one successor, with which it may run concurrently; two turns (`MaxTurns`);
one crash or shutdown (`MaxCrashes`), and one write after the lock was lost
(`MaxAstray`), which is enough to see that such writes matter and keeps them
from multiplying the states. The replies are a final answer, a tool that must
not run twice and may fail (`Fallible`), and a pair of an idempotent tool and
one the job does not have. The key has one place, so a dead owner fills it.
`Sync.cfg` has two syncs of one pid (the case in which pids do not tell holders
apart), three commits in which a file moves to another name, the old name comes
back with a file that cannot be imported, and a README that is walked but not
synced goes and changes; two workers, and a checkpoint after every file
(`SaveEvery`; the code saves every 100). Moves of HEAD, uncommitted edits and
mishaps (a crash, a failed statement or import, an expiry under a running sync)
share one bound, `MaxUpsets`, of two: HEAD there and back again passes the drift
gate, an edit and a move give a working tree that is no commit's, a move and an
expiry give a sync that lost its lock something to overwrite. `ProviderSync.cfg`
has two requests, dealt to one worker or to two (`Placements`), two mails and a
page of one (`Page`; the code asks for 10 or 20), so that a page leaves
something out; of the two runs one is replayed (`Replayable`), by two operators.
Crashes need no bound there. `CHECK_DEADLOCK FALSE` is set everywhere: when all
approvals are decided or all jobs have ended, the system rests.

**Fairness.** `Outbound`: cron starts the dispatcher every minute
(`.github/workflows/deploy-api.yml:103`) and a session that is open goes on to
its end; nobody must file, decide, execute or pull back. `MinionWorker`:
`SweptSpec` assumes time passes, some worker runs its sweep interval, and an
ending that began commits. `EveryJobSettles` carries its further assumption in
the formula: workers go on claiming and handlers end. Nothing in the code
obliges a handler to end, so `NoJobStaysActive` does not use it. `Subagent`
assumes only that time passes for leases; handlers may hang for ever.
`SyncFairness` says that time passes and that some sync under way goes on. That
syncs are started again and again, `Restarts`, is a hypothesis inside
`SyncCatchesUp`: cron does it (gbrain's `skills/migrations/v0.5.0.md:19`,
`docs/guides/live-sync.md:67`), but the watch loop exits after five errors in a
row (`sync.ts:1280`) and the autopilot after five failed cycles, and a lock that
is taken counts as an error, so that a crash may stop both long before the TTL
ends. `ProviderSync!Fairness`: the event loop resumes a coroutine that can run,
the provider answers or its client gives up, and the thread of a replay runs.
Crashes, mail, callbacks and new requests are never forced.

## 4. Proofs

`OutboundProofs` proves, for every finite or infinite set of approvals, threads
and dispatchers and every bound on crashes, all the safety properties of the run
`outbound`. The only assumptions are `ConstantsAssumption` (threads and
dispatchers are different, the limits are naturals).

None of the properties is inductive. The invariant `IInv` adds:

- `SessionsCoherent`: the shape of a transaction for its operation and program
  counter (what it holds, has loaded, still has to run, has logged);
- `SessionsGrounded`: what a session believes about committed rows, as long as
  it has not overlapped with another;
- `OneInserter` and `RowDecided`: at most one session is creating a row, and a row
  implies its two audit events;
- `DeliveryTraced`: a sent message has a session or a committed row behind it,
  or is uncertain;
- `HeldAlone`, `SentOnce`, `RejectedHasNoRow`: outside `overlapped` and
  `uncertain` at most one session holds a row, and status and deliveries agree.

The proof has one lemma per kind of step: opening a session (five handlers share
`OpenedKeepsIInv`), the four outcomes of the enqueue, the execution of a row
(three adapters share `RecordKeepsIInv`), commit, crash. `TypeCorrect` comes
first and the others use it. TLC checked the parts of `IInv` before the proof.

`OutboundKeepsThePromise` is the refinement of `WriteBack`. `HolderFacts` says
what `IInv` tells the one session that holds an undisturbed approval: what it
loaded is still committed, a row means an approved decision, a delivery means
that it noted "executed". With them a commit is `Approve`, `Reject`, `Settle`,
`PullBack` or a stutter, and a live execution is `Deliver` or a stutter. One
more invariant is needed, `WithdrawnWasQueued`: a session only withdraws a row
it loaded as queued.

The Minion modules are about any set of jobs, any number of workers and any
options, limits, clocks and commands, from `QueueAssumption` and
`WorkerAssumption` (one attempt, one stall and one slot at least; `NULL` is not a
job).

- `QueueProofs`: one lemma per method of `MinionQueue` that it keeps the types
  of the job table, and the lemmas about `Resolved`, `AfterChildFailed`,
  `Unlock` and `Notified`. `MinionWorker` and `Subagent` are both built on that
  queue, and their proofs cite the lemmas.
- `MinionProofs`, types: `TypeCorrect`, with one lemma per group of worker
  steps.
- `MinionProofs`, token fence: `RowStep` lists the twelve things a step may do
  to one row. `EveryRowSteps` shows that every step of the system does one of
  them to every row, which needs the fence itself: an outcome only counts with a
  token that is not NULL, and a retry only with the attempts the claim handed
  out. From there `Fencing` is inductive row by row. It adds to the properties:
  `LocksCurrent` (a lock is that of the last claim, and no lock survives the end
  of a job except after the fallback of a quiet-hours skip, which is why such a
  job must not have the policy "defer"), `BudgetLeft` (an open job has an
  attempt and a stall in reserve), `RunsFenced` and `GatesFenced` (a token in
  use is not newer than the last claim; with the lock it is up to date).
  `ResultOfLastClaim`, `AttemptsAreBounded` and `EndsAreFinal` follow.
  `JobsLiveOnceHolds` is the refinement of `JobLife`: each of the twelve row
  steps is a step of the job's life or a stutter (`RowStepLives`), given that
  ids not yet handed out have no lock (`UnusedUnlocked`). `SlotsAreAccounted` is
  inductive once the map is known to be finite.
- `MinionTreeProofs`, families: `FamilyStep` is to a child and its parent what
  `RowStep` is to one row, and every step of the system is one of both.
  `ParentRunsLast` needs that no untouched job from which a claim is possible
  has an open child, and that what is paused was touched. `LiveChildrenCapped`
  has to be stated of the open children nobody brought back: a revived child may
  end, and must not leave more than the cap. `ChildDonePosted` is inductive with
  `LinksGrounded`, because a message stays as long as the addressee is open.
- `MinionTreeProofs`, waiting parents: `ParentNotStranded` is not inductive,
  since a link in `silent` may be outdated: a child can be revived, detached by
  `remove_dep` and end again. While an ending is open its rows are locked, so
  what it is going to write is still right when it commits, except for what it
  read of other rows; where that differs from the table at the commit, the
  parent goes to `misread`. `Expected` asks that the link still be there or the
  child's row be gone, and that ids not handed out have no parent.

`LeaseProofs` works with any set of ids and any `MaxConcurrent`. The invariant is
`LeaseTypeOK` and `CallsCovered`: a call that is not overrun has its row in
force. With the count at the acquire it gives `CallsCapped`, and each step maps
to a step of `Semaphore` or to none. `HandlersAreCapped` carries it to `Subagent`:
every step of that module is a step of `RateLease` or leaves its variables alone.

`SubagentProofs` is about any number of jobs, claims, messages, tools and leases.
Its invariant `SubagentInv` has three parts. `Types`. `Fencing`: a handler that
holds the token of the last claim is the only one, and one that lost it never has
it again, since a claim only hands out fresh tokens. And `Kempt`, which is said as
long as no handler wrote after it had lost its lock (`astray`, the guard of all
four properties): the handler of the last claim remembers what is stored
(`HolderLive`: the messages it holds are the stored ones, what it is about to
execute is an open use, what it has answered so far is answered in order), what is
stored is a conversation (`Tables`), and a job ends on a final answer or at its
limit (`EndsFinished`). A handler without the lock needs nothing, because its next
write sets `astray`. `ConversationsStaySound`, `NoToolRunsTwice`,
`TurnsStayBounded` and `RepliesAreCharged` follow. `SubagentTypes` and
`HandlersRefineSemaphore` assume `Claims \X Nat \subseteq LeaseIds`: the ids of
leases are serial numbers and do not run out. TLC cannot evaluate an assumption
about all naturals, so it is a hypothesis of the two theorems; the run bounds the
ids instead.

`SyncProofs` takes any set of processes with any pids. `HolderInTime` (the
holder in time has a live row with its pid, and is alone) is inductive because a
pid that finds its row superseded by its own number moves the robbed holder to
`lost`. `BookmarkOrder` needs more: a sync that is in time and has captured HEAD
did so no earlier than the one whose bookmark is stored, or is itself a full
sync that is about to step back behind its own import. `BookmarkIsTrue` is about
any history of commits, any working trees, paths and flags. `CoverInv` adds what
is true of the record of each sync (`Sound`: what is left to do and what was
read are about different paths; while HEAD stands where it was captured, every
path the sync answers for is still to be done, has failed, was not HEAD's in the
working tree, or was read as the captured commit has it; a sync past the gates
that did not wander has read all of them) and what is true while it is in time
(`Current`: the pages it wrote are as it left them, the bookmark is the one it
started from). `SetBookmarkCovers` turns these into the claim when the bookmark
moves. `SyncTypes` needs `Counted` for the checkpoint: files processed and files
left never exceed the list.

`ProviderSyncProofs` is about any requests, workers, operators, page and
mailbox. `CursorIsCovered` and `NewsIsGivenOnce` rest on `MailInv`: what a
request has read or received is covered by what is stored, what pages left out
and what it still carries, and this survives the steps of all others because
`stored` and `missed` only grow. `RunsAreReviewedOnce` rests on `ReviewInv`:
nobody works on a run before its request stored it, and outside `overlap` at
most one worker is at work, on a run without a review.

TLC checked the parts of `Fencing`, `Expected` and `RowStep` on the instances of
`minion_tree`, `minion_operator` and `minion_recovery`, those of `SubagentInv`
on `subagent` and those of `CoverInv` on `sync`, before the proofs.

Every invariant, action property and refinement that a passing run checks has a
theorem. Only model-checked: `DueIsDispatched`, `NoJobStaysActive`,
`EveryJobSettles`, `KeyIsFreedAgain`, `SyncCatchesUp` and `SyncEnds` (liveness and
ENABLED are out of the prover's reach), and the violations.

## 5. Not modelled

Text, layout, prompts, search ranking, file and network formats, the web and
mobile apps, deployment scripts, the migration archive. In the queue:
idempotency keys and `maxWaiting` (they return a row that exists), `replayJob`
(an `add`), inbox reads, attachments, token counts. In the worker: the health
check and the memory watchdog, whose only effect is the exit `Crash` covers.
`Outbound` takes a row's due time as an event (`BecomesDue`).

In `Subagent`: the aggregator and the fan-out command, token counts as numbers,
the choice of a model, `renewLease` and `renewLeaseWithBackoff` (no caller). In
`DbLock`: `refresh` (no caller), the cycle's copy of the statements, the lock
files of `page-lock.ts` and `pglite-lock.ts`. In `Sync`: dry runs, the manifest
of a detached HEAD, named sources and chunker versions (both add a row per
source beside the global bookmark), embedding, and the `gbrain import` command,
which writes the bookmark without taking the lock; and two paths with one slug.
In `TaskRun`: skills other than the provider review, which share its control,
and the admin tooling that `routers/workflows.py:102` mentions and the
repository does not contain. In `ProviderSync`: connect links, upserts, updates
of an item that was stored, and the sweeps; whether a sync counts as the first
one is not modelled, since it only selects the wording and the kind of the run.

`BookmarkCovers` needs the exceptions of `Excused`, and each of them is a way in
which the pages may differ from the bookmark for good, until a later diff names
the path again. The most surprising ones: a HEAD that moves and comes back during
a sync (`sync.ts:768`), a full import during which HEAD moves (no gate, and
`import.ts:313` stores the HEAD of that moment), a checkpoint of another commit's
walk of the same length (`import.ts:97`), a rename whose re-import is refused
(`sync.ts:616`), and a file that was edited and not committed when a sync came by
(`sync.ts:656`). The count in a checkpoint includes files whose import failed
(`import.ts:177` calls it more than a counter), so the run that resumes it passes
them over.

`completeJob`, `failJob` and `add` are one step each, because they lock the parent
before they look at its children (`queue.ts:733-748`, `847-859`, `188`).

## 6. Plan

Done: `Outbound`, `MinionQueue`, `MinionWorker`, `RateLease`, `Subagent`,
`DbLock`, `Sync`, `TaskRun`, `ProviderSync`, the abstract `Semaphore` with the
two refinements to it, the abstract `WriteBack` that `Outbound` implements, the
abstract `JobLife` that `MinionWorker` implements, and the proofs above.

1. `MinionFanOut`, composed with `MinionQueue`: the submission loop of
   `commands/agent.ts`, inbox reads, the aggregator.
2. Invites, in the style of `ProviderSync`; the account and communication sweeps.
3. Pure operators over bounded inputs: `next_send_window`, backoff, stagger,
   quiet hours.
4. Proofs for the modules of items 1 to 3, along the lines of those above.
