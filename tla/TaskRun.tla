------------------------------- MODULE TaskRun -------------------------------
(***************************************************************************)
(* The FlavorOS task executor, services/api/app/executor.py, and the       *)
(* replay of a workflow run, routers/workflows.py with workflows/          *)
(* provider_first_sync.py.  A run comes with one AgentTask; both live in   *)
(* Postgres.  dispatch_task runs on the event loop of the worker process   *)
(* that created the task, a replay in a thread of any worker, and nothing  *)
(* but row locks keeps them apart.                                         *)
(***************************************************************************)
EXTENDS Naturals

CONSTANTS Runs,        \* the workflow runs, each with its AgentTask
          Replayable,  \* bound: the runs somebody ever replays
          Operators    \* people who may call POST /workflows/{id}/process

VARIABLES run,      \* [Runs -> RunStatuses], committed: no transaction ends with "running"
          task,     \* [Runs -> TaskStatuses], committed
          reviews,  \* [Runs -> Nat], the Artifact + Approval pairs of a run
          exec,     \* [Runs -> ExecPhases], the dispatch_task coroutine of the task
          replay,   \* [Operators -> a replay or NoReplay]
          overlap   \* the runs whose executor and replays worked at the same time

taskVars == <<run, task, reviews, exec, replay, overlap>>

RunStatuses == {"absent", "queued", "completed"}
TaskStatuses == {"absent", "queued", "retrying", "running", "completed", "failed"}
ExecPhases == {"idle", "scheduled", "read", "claimed"}
NoReplay == [at |-> "idle"]
ReplayPhases == {"read", "locked"}

Replaying(r) == {o \in Operators : replay[o].at # "idle" /\ replay[o].run = r}
RunLocked(r) == \E o \in Replaying(r) : replay[o].at = "locked"

(* History only: from now on two workers of run r are at work at once.     *)
Meets(r, others) == overlap' = IF others THEN overlap \union {r} ELSE overlap

(* The skill and the processor both leave one Artifact and one Approval.   *)
Review(r) == reviews' = [reviews EXCEPT ![r] = @ + 1]

ASSUME RunAssumption == Replayable \subseteq Runs

-----------------------------------------------------------------------------
(* dispatch_task reads the task; a task that is neither queued nor         *)
(* "retrying", which no code sets, is skipped.                             *)
DispatchAlways(r) == TRUE   \* mutant: the status is not looked at
MayDispatch(r) == task[r] \in {"queued", "retrying"}

ReadTask(r) ==
    /\ exec[r] = "scheduled"
    /\ exec' = [exec EXCEPT ![r] = IF MayDispatch(r) THEN "read" ELSE "idle"]
    /\ Meets(r, MayDispatch(r) /\ Replaying(r) # {})
    /\ UNCHANGED <<run, task, reviews, replay>>

(* It commits "running", whatever the row says by now.                     *)
ClaimTask(r) ==
    /\ exec[r] = "read"
    /\ exec' = [exec EXCEPT ![r] = "claimed"]
    /\ task' = [task EXCEPT ![r] = "running"]
    /\ UNCHANGED <<run, reviews, replay, overlap>>

(* The skill has written its report, artifact and approval; one commit     *)
(* makes them visible with the two statuses.  The run's row is updated     *)
(* only if it was not completed, and then waits for a replay's row lock.   *)
FinishTask(r) ==
    /\ exec[r] = "claimed"
    /\ run[r] # "completed" => ~RunLocked(r)
    /\ exec' = [exec EXCEPT ![r] = "idle"]
    /\ task' = [task EXCEPT ![r] = "completed"]
    /\ run' = [run EXCEPT ![r] = "completed"]
    /\ Review(r)
    /\ UNCHANGED <<replay, overlap>>

(* The skill raises before its first row of the review: _fail commits.     *)
FailTask(r) ==
    /\ exec[r] = "claimed"
    /\ exec' = [exec EXCEPT ![r] = "idle"]
    /\ task' = [task EXCEPT ![r] = "failed"]
    /\ UNCHANGED <<run, reviews, replay, overlap>>

(* A database error: the session refuses the commit of _fail as well, the  *)
(* outer handler rolls back, and the task stays as it was committed last.  *)
DropTask(r) ==
    /\ exec[r] \in {"read", "claimed"}
    /\ exec' = [exec EXCEPT ![r] = "idle"]
    /\ UNCHANGED <<run, task, reviews, replay, overlap>>

-----------------------------------------------------------------------------
(* process_run: a completed run is left alone.                             *)
MayReplay(r) == run[r] = "queued"

ReadRun(o, r) ==
    /\ replay[o] = NoReplay
    /\ MayReplay(r)
    /\ replay' = [replay EXCEPT ![o] = [at |-> "read", run |-> r]]
    /\ Meets(r, exec[r] \in {"read", "claimed"} \/ Replaying(r) # {})
    /\ UNCHANGED <<run, task, reviews, exec>>

(* The flush of status "running" takes the row lock of the run.            *)
LockRun(o) ==
    /\ replay[o].at = "read"
    /\ ~RunLocked(replay[o].run)
    /\ replay' = [replay EXCEPT ![o].at = "locked"]
    /\ UNCHANGED <<run, task, reviews, exec, overlap>>

(* One commit: the review, the task and the run.                           *)
ReplayedTask(r) == [task EXCEPT ![r] = "completed"]

CommitReplay(o) ==
    LET r == replay[o].run IN
    /\ replay[o].at = "locked"
    /\ run' = [run EXCEPT ![r] = "completed"]
    /\ task' = ReplayedTask(r)
    /\ Review(r)
    /\ replay' = [replay EXCEPT ![o] = NoReplay]
    /\ UNCHANGED <<exec, overlap>>

(* The model call or a statement raises, or the thread dies: all is undone.*)
AbandonReplay(o) ==
    /\ replay[o] # NoReplay
    /\ replay' = [replay EXCEPT ![o] = NoReplay]
    /\ UNCHANGED <<run, task, reviews, exec, overlap>>

TaskInit ==
    /\ run = [r \in Runs |-> "absent"]
    /\ task = [r \in Runs |-> "absent"]
    /\ reviews = [r \in Runs |-> 0]
    /\ exec = [r \in Runs |-> "idle"]
    /\ replay = [o \in Operators |-> NoReplay]
    /\ overlap = {}

(* What the request that made run r commits, and what it schedules next.   *)
CreateRun(r) ==
    /\ run' = [run EXCEPT ![r] = "queued"]
    /\ task' = [task EXCEPT ![r] = "queued"]
    /\ UNCHANGED <<reviews, exec, replay, overlap>>

ScheduleTask(r) ==
    /\ exec' = [exec EXCEPT ![r] = "scheduled"]
    /\ UNCHANGED <<run, task, reviews, replay, overlap>>

ReplayStep(o) ==
    \/ \E r \in Replayable : ReadRun(o, r)
    \/ LockRun(o) \/ CommitReplay(o) \/ AbandonReplay(o)

ExecStep(r) ==
    \/ ReadTask(r) \/ ClaimTask(r) \/ FinishTask(r) \/ FailTask(r) \/ DropTask(r)
=============================================================================
