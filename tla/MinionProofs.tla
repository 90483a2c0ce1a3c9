---------------------------- MODULE MinionProofs -----------------------------
(***************************************************************************)
(* The workers (MinionWorker), for any set of jobs, any number of workers  *)
(* and any options, limits, clocks and commands.  Their types, and the token*)
(* fence: whatever handlers that lost their lock, late sweeps and operators*)
(* do, the table only takes the steps of RowStep, and those keep results,  *)
(* counters and ends right.                                                *)
(***************************************************************************)
EXTENDS MinionWorker, QueueProofs

USE DEF links, counters, history

-----------------------------------------------------------------------------
(* Types, the steps of the workers.                                        *)

Claims == [job : Jobs, token : Nat, released : BOOLEAN, cancels : SUBSET Jobs]

(* A worker that gives a claim back holds a proper one.                    *)
LEMMA GateType ==
    ASSUME TypeOK, NEW w \in Workers, gate[w] # NoClaim
    PROVE  gate[w] \in Claims
BY DEF TypeOK, Gate, Claims

(* A handler that executes has a worker, a job and a token.                *)
LEMMA RunType ==
    ASSUME TypeOK, NEW r \in runs
    PROVE  r \in Run /\ r.worker \in Workers /\ r.job \in Jobs /\ r.token \in Nat
BY DEF TypeOK, Run

(* What cancelJob ends are jobs.                                           *)
LEMMA CancellableType == \A j : Cancellable(j) \in SUBSET Jobs
BY DEF Cancellable

(* handleQuietHoursDefer, statement by statement                           *)
LEMMA GiveBackType ==
    ASSUME TypeOK, NEW w \in Workers, GiveBack(w)
    PROVE  TypeOK'
<1>0. NoClaim \in Gate
  BY DEF Gate
<1>1. gate[w] # NoClaim
  BY DEF GiveBack, GateDefer, GateRelease, GateCancel, GateCancelFallback, GateError, NoClaim
<1>2. gate[w] \in Claims
  BY <1>1, GateType
<1>3. gate[w].job \in Jobs
  BY <1>2 DEF Claims
<1>4. CASE GateDefer(w)
  <2>1. QueueTypeOK'
    BY <1>3, <1>4, StatusNames DEF GateDefer, TypeOK, QueueTypeOK
  <2> QED BY <1>0, <1>4, <2>1 DEF GateDefer, TypeOK
<1>5. CASE GateRelease(w)
  <2>1. token' \in [Jobs -> Nat] /\ late' \in [Jobs -> SUBSET Deadlines]
    BY <1>5, UnlockEffect DEF GateRelease, TypeOK, QueueTypeOK
  <2>2. QueueTypeOK'
    BY <1>5, <2>1 DEF GateRelease, TypeOK, QueueTypeOK
  <2>3. [gate[w] EXCEPT !.released = TRUE] \in Claims
    BY <1>2 DEF Claims
  <2>4. gate' \in [Workers -> Gate]
    BY <1>5, <2>3 DEF GateRelease, TypeOK, Gate, Claims
  <2> QED BY <1>5, <2>2, <2>4 DEF GateRelease, TypeOK
<1>6. CASE GateCancel(w)
  <2>1. QueueTypeOK'
    <3>1. CASE CancelJob(gate[w].job)
      BY <1>3, <3>1, EndingsType DEF TypeOK
    <3>2. CASE UNCHANGED queueVars
      BY <3>2 DEF TypeOK, QueueTypeOK, queueVars
    <3> QED BY <1>6, <3>1, <3>2 DEF GateCancel
  <2>2. [gate[w] EXCEPT !.cancels = Cancellable(gate[w].job)] \in Claims
    BY <1>2, CancellableType DEF Claims
  <2>3. gate' \in [Workers -> Gate]
    BY <1>0, <1>6, <2>2 DEF GateCancel, TypeOK, Gate, Claims
  <2> QED BY <1>6, <2>1, <2>3 DEF GateCancel, TypeOK
<1>7. CASE GateCancelFallback(w)
  <2>1. LinksOf({gate[w].job}) \subseteq Jobs \X Jobs
    BY <1>3, LinksType DEF TypeOK
  <2>2. status' \in [Jobs -> Statuses] /\ silent' \subseteq Jobs \X Jobs
    BY <1>3, <1>7, <2>1, StatusNames DEF GateCancelFallback, TypeOK, QueueTypeOK
  <2>3. QueueTypeOK'
    BY <1>7, <2>2 DEF GateCancelFallback, TypeOK, QueueTypeOK
  <2>4. mishaps' \in 0 .. MaxMishaps
    BY <1>7, WorkerAssumption DEF GateCancelFallback, TypeOK
  <2> QED BY <1>0, <1>7, <2>3, <2>4 DEF GateCancelFallback, TypeOK
<1>8. CASE GateError(w)
  <2>1. QueueTypeOK'
    BY <1>8 DEF GateError, TypeOK, QueueTypeOK, queueVars
  <2>2. mishaps' \in 0 .. MaxMishaps
    BY <1>8, WorkerAssumption DEF GateError, TypeOK
  <2> QED BY <1>0, <1>8, <2>1, <2>2 DEF GateError, TypeOK
<1> QED BY <1>4, <1>5, <1>6, <1>7, <1>8 DEF GiveBack

(* claim, then launch or gate                                              *)
LEMMA ClaimType ==
    ASSUME TypeOK, NEW w \in Workers, Claim(w)
    PROVE  TypeOK'
<1>1. PICK j \in Jobs : ClaimAndLaunch(w, j) \/ ClaimAndGate(w, j)
  BY DEF Claim
<1>2. QueueTypeOK'
  BY <1>1, ClaimRowType DEF ClaimAndLaunch, ClaimAndGate, TypeOK
<1>3. started[j] + 1 \in Nat /\ made[j] \in Nat
  BY DEF TypeOK, QueueTypeOK
<1>4. CASE ClaimAndLaunch(w, j)
  <2> DEFINE launched == [worker |-> w, job |-> j, token |-> started[j] + 1,
                          attempts |-> made[j], evicted |-> FALSE]
  <2>3. launched \in Run
    BY <1>3 DEF Run
  <2>4. runs' = runs \cup {launched}
    BY <1>4 DEF ClaimAndLaunch
  <2>1. runs' \subseteq Run
    <3> HIDE DEF launched
    <3> QED BY <2>3, <2>4 DEF TypeOK
  <2>2. inFlight' \in [Workers -> SUBSET Jobs]
    BY <1>4 DEF ClaimAndLaunch, TypeOK
  <2> QED BY <1>2, <1>4, <2>1, <2>2 DEF ClaimAndLaunch, TypeOK
<1>5. CASE ClaimAndGate(w, j)
  <2>3. Gated(j, started[j] + 1) \in Claims
    BY <1>3 DEF Gated, Claims
  <2>1. gate' \in [Workers -> Gate]
    BY <1>5, <2>3 DEF ClaimAndGate, TypeOK, Gate, Claims
  <2>2. mishaps' \in 0 .. MaxMishaps
    BY <1>5, WorkerAssumption DEF ClaimAndGate, TypeOK
  <2> QED BY <1>2, <1>5, <2>1, <2>2 DEF ClaimAndGate, TypeOK
<1> QED BY <1>1, <1>4, <1>5

(* The outcomes of a handler, its lock timer and its force-evict           *)
LEMMA HandlerType ==
    ASSUME TypeOK, NEW r \in runs, Finish(r) \/ Renew(r) \/ ForceEvict(r)
    PROVE  TypeOK'
<1>1. r \in Run /\ r.worker \in Workers /\ r.job \in Jobs /\ r.token \in Nat
  BY RunType
<1>2. QueueTypeOK'
  <2>1. CASE Complete(r)
    BY <1>1, <2>1, CompleteRowType DEF Complete, TypeOK
  <2>2. CASE Retry(r)
    BY <1>1, <2>2, DelayRowType DEF Retry, TypeOK
  <2>3. CASE Die(r)
    BY <1>1, <2>3, KillRowType DEF Die, TypeOK
  <2>4. CASE Renew(r)
    BY <1>1, <2>4, RenewRowType DEF Renew, TypeOK
  <2>5. CASE ForceEvict(r) /\ KillRow(r.job, r.token)
    BY <1>1, <2>5, KillRowType DEF TypeOK
  <2>6. CASE UNCHANGED queueVars
    BY <2>6 DEF TypeOK, QueueTypeOK, queueVars
  <2> QED BY <2>1, <2>2, <2>3, <2>4, <2>5, <2>6 DEF Finish, Drop, ForceEvict
<1>3. runs' \subseteq Run /\ inFlight' \in [Workers -> SUBSET Jobs]
  <2>1. CASE Leave(r)
    BY <2>1 DEF Leave, TypeOK
  <2>2. CASE ForceEvict(r)
    <3>1. [r EXCEPT !.evicted = TRUE] \in Run
      BY <1>1 DEF Run
    <3> QED BY <2>2, <3>1 DEF ForceEvict, TypeOK
  <2>3. CASE UNCHANGED workerVars
    BY <2>3 DEF workerVars, TypeOK
  <2> QED BY <2>1, <2>2, <2>3 DEF Finish, Complete, Retry, Die, Drop, Renew
<1>4. UNCHANGED <<gate, mishaps>>
  BY DEF Finish, Complete, Retry, Die, Drop, Renew, ForceEvict, Leave, workerVars
<1> QED BY <1>2, <1>3, <1>4 DEF TypeOK

(* The sweeps and the operator's commands                                  *)
LEMMA TableType ==
    ASSUME TypeOK,
           \/ Sweep
           \/ \E j \in Jobs : Submit(j) \/ Command(j) \/ \E d \in Deadlines : Elapse(j, d)
    PROVE  TypeOK'
<1>1. CASE Sweep
  <2>1. QueueTypeOK'
    BY <1>1, PromoteDelayedType, HandleStalledType, EndingsType DEF Sweep, TypeOK
  <2> QED BY <1>1, <2>1 DEF Sweep, workerVars, TypeOK
<1>2. ASSUME NEW j \in Jobs, Submit(j) PROVE TypeOK'
  <2>1. QueueTypeOK'
    BY <1>2, AddType DEF Submit, TypeOK
  <2> QED BY <1>2, <2>1 DEF Submit, workerVars, TypeOK
<1>3. ASSUME NEW j \in Jobs, Command(j) PROVE TypeOK'
  <2>1. QueueTypeOK'
    BY <1>3, EndingsType, OperatorType DEF Command, TypeOK
  <2>2. mishaps' \in 0 .. MaxMishaps /\ UNCHANGED <<runs, inFlight, gate>>
    BY <1>3, WorkerAssumption DEF Command, workerVars, TypeOK
  <2> QED BY <2>1, <2>2 DEF TypeOK
<1>4. ASSUME NEW j \in Jobs, NEW d \in Deadlines, Elapse(j, d) PROVE TypeOK'
  <2>1. QueueTypeOK'
    BY <1>4, PassesType DEF Elapse, TypeOK
  <2> QED BY <1>4, <2>1 DEF Elapse, workerVars, TypeOK
<1> QED BY <1>1, <1>2, <1>3, <1>4

(* A worker process dies                                                   *)
LEMMA CrashType ==
    ASSUME TypeOK, NEW w \in Workers, Crash(w)
    PROVE  TypeOK'
<1>1. QueueTypeOK'
  BY DEF Crash, TypeOK, QueueTypeOK, queueVars
<1>2. runs' \subseteq Run /\ inFlight' \in [Workers -> SUBSET Jobs]
  BY DEF Crash, TypeOK
<1>3. gate' \in [Workers -> Gate]
  BY DEF Crash, TypeOK, Gate
<1>4. mishaps' \in 0 .. MaxMishaps
  BY WorkerAssumption DEF Crash, TypeOK
<1> QED BY <1>1, <1>2, <1>3, <1>4 DEF TypeOK

(* A transaction of cancelJob or of a sweep commits                        *)
LEMMA CommitsType ==
    ASSUME TypeOK, NEW e \in ending, Commits(e)
    PROVE  TypeOK'
<1>1. QueueTypeOK'
  BY EndCommitType DEF Commits, TypeOK
<1>2. gate' \in [Workers -> Gate]
  BY DEF Commits, TypeOK, Gate
<1> QED BY <1>1, <1>2 DEF Commits, TypeOK

(* The empty table has its types.                                          *)
LEMMA TypeInit == Init => TypeOK
<1> SUFFICES ASSUME Init PROVE TypeOK
  OBVIOUS
<1>1. (CHOOSE o \in Options : TRUE) \in JobOptions
  BY QueueAssumption
<1>2. opts \in [Jobs -> JobOptions]
  BY <1>1 DEF Init, QueueInit
<1>3. QueueTypeOK
  BY <1>2, StatusNames DEF Init, QueueInit, QueueTypeOK
<1>4. runs \subseteq Run /\ inFlight \in [Workers -> SUBSET Jobs] /\ gate \in [Workers -> Gate]
  BY DEF Init, Gate
<1>5. mishaps \in 0 .. MaxMishaps
  BY WorkerAssumption DEF Init
<1> QED BY <1>3, <1>4, <1>5 DEF TypeOK

(* Every step of a worker, a handler, a sweep, an operator and the clock   *)
(* keeps the types.                                                        *)
LEMMA TypeStep == TypeOK /\ [Next]_vars => TypeOK'
<1> SUFFICES ASSUME TypeOK, [Next]_vars PROVE TypeOK'
  OBVIOUS
<1>1. CASE UNCHANGED vars
  BY <1>1 DEF vars, queueVars, workerVars, TypeOK, QueueTypeOK
<1> QED BY <1>1, GiveBackType, ClaimType, HandlerType, TableType, CrashType,
       CommitsType DEF Next

(* Every column of the job table, every handler and every worker keeps its *)
(* type.                                                                   *)
THEOREM TypeCorrect == Spec => []TypeOK
<1> QED BY TypeInit, TypeStep, PTL DEF Spec

-----------------------------------------------------------------------------
(* What a step may do to the row of a job.  Every step of the system, the  *)
(* stale handlers and the sweeps included, is one of these for each row.   *)

SameCounts(j) ==
    /\ started'[j] = started[j] /\ made'[j] = made[j]
    /\ stalls'[j] = stalls[j] /\ result'[j] = result[j]

Stays(j) == status'[j] = status[j] /\ token'[j] \in {token[j], 0} /\ SameCounts(j)

Moves(j) ==
    /\ Open(j) /\ status'[j] \in OpenStatuses \cup {"failed"}
    /\ token'[j] \in {token[j], 0} /\ SameCounts(j)

Ends(j) ==
    /\ Open(j) /\ status'[j] \in {"dead", "cancelled"}
    /\ token'[j] = 0 /\ SameCounts(j)

Claimed(j) ==
    /\ status[j] = "waiting" /\ status'[j] = "active"
    /\ started'[j] = started[j] + 1 /\ token'[j] = started[j] + 1
    /\ made'[j] = made[j] /\ stalls'[j] = stalls[j] /\ result'[j] = result[j]

Completes(j) ==
    /\ status[j] = "active" /\ status'[j] \in {"completed", "removed"}
    /\ token[j] # 0 /\ token'[j] = 0 /\ result'[j] = token[j]
    /\ started'[j] = started[j] /\ made'[j] = made[j] /\ stalls'[j] = stalls[j]

Fails(j) ==
    /\ status[j] = "active" /\ token[j] # 0 /\ token'[j] = 0
    /\ made'[j] = made[j] + 1
    /\ \/ status'[j] = "delayed" /\ made[j] + 1 < MaxAttempts
       \/ status'[j] \in {"dead", "removed"}
    /\ started'[j] = started[j] /\ stalls'[j] = stalls[j] /\ result'[j] = result[j]

Stalls(j) ==
    /\ status[j] = "active" /\ token'[j] = 0
    /\ stalls'[j] = stalls[j] + 1
    /\ status'[j] = IF OutOfStalls(j) THEN "dead" ELSE "waiting"
    /\ started'[j] = started[j] /\ made'[j] = made[j] /\ result'[j] = result[j]

Added(j) ==
    /\ status[j] = "absent" /\ status'[j] \in {"waiting", "delayed"}
    /\ token'[j] = token[j] /\ SameCounts(j)

(* retryJob                                                                *)
Retried(j) ==
    /\ status[j] \in {"failed", "dead"} /\ status'[j] = "waiting"
    /\ token'[j] = 0 /\ SameCounts(j)
    /\ j \in touched' /\ mishaps' = mishaps + 1

(* A quiet-hours deferral goes by the token alone.                         *)
Deferred(j) ==
    /\ token[j] # 0 /\ status[j] \notin {"absent", "removed"}
    /\ opts[j].quiet = "defer" /\ status'[j] = "delayed"
    /\ token'[j] = 0 /\ SameCounts(j) /\ j \in touched'

(* The fallback of a quiet-hours skip leaves the lock it finds.            *)
Skipped(j) ==
    /\ Open(j) \/ status[j] = "cancelled"
    /\ opts[j].quiet = "skip" /\ status'[j] = "cancelled"
    /\ token'[j] = token[j] /\ SameCounts(j)

Deleted(j) ==
    /\ status[j] \in Terminal /\ status'[j] = "removed"
    /\ token'[j] = token[j] /\ SameCounts(j)

RowStep(j) ==
    /\ j \in touched => j \in touched'
    /\ status[j] # "absent" => opts'[j] = opts[j]
    /\ \/ Stays(j) \/ Moves(j) \/ Ends(j) \/ Claimed(j) \/ Completes(j) \/ Fails(j)
       \/ Stalls(j) \/ Added(j) \/ Retried(j) \/ Deferred(j) \/ Skipped(j) \/ Deleted(j)

-----------------------------------------------------------------------------
(* The inductive invariants.                                               *)

(* A lock is that of the last claim, and its attempt is not spent yet.  No *)
(* lock outlives the end of a job, but for the fallback of a skip.         *)
LocksCurrent ==
    \A j \in Jobs :
        /\ token[j] # 0 => token[j] = started[j] /\ made[j] < started[j]
        /\ made[j] <= started[j]
        /\ status[j] \in {"completed", "dead"} => token[j] = 0
        /\ status[j] = "cancelled" /\ token[j] # 0 => opts[j].quiet = "skip"
        /\ status[j] = "completed" => result[j] = started[j]

(* An open job has an attempt and a stall left.                            *)
BudgetLeft ==
    \A j \in Jobs : j \notin touched =>
        /\ made[j] <= MaxAttempts /\ stalls[j] <= MaxStalled
        /\ Open(j) \/ status[j] = "absent" => made[j] < MaxAttempts /\ stalls[j] < MaxStalled

(* A handler has the token of a claim that happened.  As long as the lock  *)
(* is its own, the attempts it was handed are those of the row.            *)
RunsFenced ==
    \A r \in runs :
        /\ r.token # 0 /\ r.token <= started[r.job]
        /\ token[r.job] = r.token => r.attempts = made[r.job]

(* A loop gives back a claim that happened, and releases only for a skip.  *)
GatesFenced ==
    \A w \in Workers : gate[w] # NoClaim =>
        /\ gate[w].token # 0
        /\ status[gate[w].job] # "absent"
        /\ gate[w].released => opts[gate[w].job].quiet = "skip"

(* The rows an open transaction has updated stay open until it commits, no *)
(* two transactions have the same one, and none wakes its own.             *)
LocksHeld ==
    \A e \in ending :
        /\ \A i \in e.rows : Open(i)
        /\ e.asleep \cap e.rows = {}
        /\ \A d \in ending : d = e \/ d.rows \cap e.rows = {}

Fencing == LocksCurrent /\ BudgetLeft /\ RunsFenced /\ GatesFenced /\ LocksHeld

-----------------------------------------------------------------------------
(* The steps of the queue, row by row.                                     *)

(* A statement that leaves the columns below alone.                        *)
LEMMA IdleRows ==
    ASSUME UNCHANGED <<status, opts, token, started, made, stalls, result, touched>>
    PROVE  \A i \in Jobs : RowStep(i)
BY DEF RowStep, Stays, SameCounts

(* add                                                                     *)
LEMMA AddRows ==
    ASSUME QueueTypeOK, NEW j \in Jobs, NEW p \in Jobs \cup {NoJob}, NEW o \in Options,
           NEW first \in {"waiting", "delayed"}, Add(j, p, o, first)
    PROVE  \A i \in Jobs : RowStep(i)
<1> SUFFICES ASSUME NEW i \in Jobs PROVE RowStep(i)
  OBVIOUS
<1>1. SameCounts(i) /\ token'[i] = token[i] /\ (i \in touched => i \in touched')
  BY DEF Add, SameCounts
<1>2. status[i] # "absent" => opts'[i] = opts[i]
  BY DEF Add, QueueTypeOK
<1>3. CASE i = j
  BY <1>1, <1>2, <1>3 DEF Add, QueueTypeOK, RowStep, Added
<1>4. CASE i # j
  BY <1>1, <1>2, <1>4 DEF Add, QueueTypeOK, RowStep, Stays, Moves, Open, OpenStatuses
<1> QED BY <1>3, <1>4

(* claim                                                                   *)
LEMMA ClaimRows ==
    ASSUME QueueTypeOK, NEW j \in Jobs, ClaimRow(j)
    PROVE  \A i \in Jobs : RowStep(i)
<1> SUFFICES ASSUME NEW i \in Jobs PROVE RowStep(i)
  OBVIOUS
<1>1. CASE i = j
  BY <1>1 DEF ClaimRow, QueueTypeOK, RowStep, Claimed
<1>2. CASE i # j
  BY <1>2 DEF ClaimRow, QueueTypeOK, RowStep, Stays, SameCounts
<1> QED BY <1>1, <1>2

(* cancelJob and the two timeout sweeps commit                             *)
LEMMA CommitRows ==
    ASSUME QueueTypeOK, LocksHeld, NEW e \in ending, EndCommit(e)
    PROVE  \A i \in Jobs : RowStep(i)
<1> SUFFICES ASSUME NEW i \in Jobs PROVE RowStep(i)
  OBVIOUS
<1>1. /\ status'[i] = IF i \in Woken(e) THEN "waiting"
                      ELSE IF i \in e.rows THEN EndOf(e.why) ELSE status[i]
      /\ token'[i] = IF i \in e.rows THEN 0 ELSE token[i]
      /\ i \in Woken(e) => status[i] = "waiting-children"
      /\ EndOf(e.why) \in {"dead", "cancelled"}
  BY EndCommitEffect, EndingFields
<1>2. (i \in e.rows => Open(i)) /\ (i \in Woken(e) => i \notin e.rows)
  BY DEF LocksHeld, Woken
<1>3. SameCounts(i) /\ touched' = touched /\ opts' = opts
  BY DEF EndCommit, SameCounts
<1>4. CASE i \in e.rows
  <2>1. Ends(i)
    BY <1>1, <1>2, <1>3, <1>4 DEF Ends
  <2> QED BY <1>3, <2>1 DEF RowStep
<1>5. CASE i \notin e.rows
  <2>1. Stays(i) \/ Moves(i)
    BY <1>1, <1>3, <1>5 DEF Stays, Moves, Open, OpenStatuses
  <2> QED BY <1>3, <2>1 DEF RowStep
<1> QED BY <1>4, <1>5

(* completeJob                                                             *)
LEMMA CompleteRows ==
    ASSUME QueueTypeOK, NEW j \in Jobs, NEW t \in Nat, t # 0, CompleteRow(j, t)
    PROVE  \A i \in Jobs : RowStep(i)
<1> SUFFICES ASSUME NEW i \in Jobs PROVE RowStep(i)
  OBVIOUS
<1> DEFINE ended == Override(status, {j}, "completed")
           settled == Resolved(ended, parent, ParentsOf({j}))
           gone == IF opts[j].remove = "on_complete" THEN {j} ELSE {}
<1>1. /\ ended \in [Jobs -> Statuses]
      /\ ended[i] = IF i \in {j} THEN "completed" ELSE status[i]
  BY OverrideType, StatusNames DEF QueueTypeOK
<1>2. /\ settled \in [Jobs -> Statuses]
      /\ \/ settled[i] = ended[i]
         \/ ended[i] = "waiting-children" /\ settled[i] = "waiting"
  <2> DEFINE P == ParentsOf({j})
  <2> HIDE DEF ended, P
  <2>1. /\ Resolved(ended, parent, P) \in [Jobs -> Statuses]
        /\ \A k \in Jobs :
              \/ Resolved(ended, parent, P)[k] = ended[k]
              \/ ended[k] = "waiting-children" /\ Resolved(ended, parent, P)[k] = "waiting"
    BY <1>1, ResolvedEffect
  <2> QED BY <2>1 DEF P
<1>3. status' = Override(settled, gone, "removed")
  BY DEF CompleteRow
<1>4. status'[i] = IF i \in gone THEN "removed" ELSE settled[i]
  <2> HIDE DEF settled, gone
  <2> QED BY <1>2, <1>3, OverrideType, StatusNames
<1>5. token'[i] = IF i \in {j} THEN 0 ELSE token[i]
  BY UnlockEffect DEF CompleteRow
<1>6. UNCHANGED <<started, made, stalls, touched, opts>> /\ result' = [result EXCEPT ![j] = t]
  BY DEF CompleteRow
<1>7. status[j] = "active" /\ token[j] = t
  BY DEF CompleteRow, Completable, Fenced
<1>8. CASE i = j
  <2>1. status'[i] \in {"completed", "removed"}
    BY <1>1, <1>2, <1>4, <1>8
  <2>2. Completes(i)
    BY <2>1, <1>5, <1>6, <1>7, <1>8 DEF Completes, QueueTypeOK
  <2> QED BY <1>6, <2>2 DEF RowStep
<1>9. CASE i # j
  <2>1. SameCounts(i) /\ token'[i] = token[i]
    BY <1>5, <1>6, <1>9 DEF SameCounts, QueueTypeOK
  <2>2. Stays(i) \/ Moves(i)
    BY <1>1, <1>2, <1>4, <1>9, <2>1 DEF Stays, Moves, Open, OpenStatuses
  <2> QED BY <1>6, <2>2 DEF RowStep
<1> QED BY <1>8, <1>9

(* failJob, a retry                                                        *)
LEMMA DelayRows ==
    ASSUME QueueTypeOK, NEW j \in Jobs, NEW t \in Nat, t # 0, DelayRow(j, t),
           made[j] + 1 < MaxAttempts
    PROVE  \A i \in Jobs : RowStep(i)
<1> SUFFICES ASSUME NEW i \in Jobs PROVE RowStep(i)
  OBVIOUS
<1>1. CASE i = j
  BY <1>1 DEF DelayRow, Fenced, QueueTypeOK, RowStep, Fails
<1>2. CASE i # j
  BY <1>2 DEF DelayRow, QueueTypeOK, RowStep, Stays, SameCounts
<1> QED BY <1>1, <1>2

(* failJob, the end                                                        *)
LEMMA KillRows ==
    ASSUME QueueTypeOK, NEW j \in Jobs, NEW t \in Nat, t # 0, KillRow(j, t)
    PROVE  \A i \in Jobs : RowStep(i)
<1> SUFFICES ASSUME NEW i \in Jobs PROVE RowStep(i)
  OBVIOUS
<1> DEFINE ended == Override(status, {j}, "dead")
           newParent == IF opts[j].policy = "remove_dep" THEN [parent EXCEPT ![j] = NoJob]
                                                         ELSE parent
           settled == AfterChildFailed(ended, newParent, j)
           gone == IF opts[j].remove = "on_fail" THEN {j} ELSE {}
<1>1. /\ ended \in [Jobs -> Statuses]
      /\ ended[i] = IF i \in {j} THEN "dead" ELSE status[i]
  BY OverrideType, StatusNames DEF QueueTypeOK
<1>2. /\ settled \in [Jobs -> Statuses]
      /\ \/ settled[i] = ended[i]
         \/ ended[i] = "waiting-children" /\ settled[i] \in {"waiting", "failed"}
  <2> HIDE DEF ended, newParent
  <2> QED BY <1>1, AfterChildFailedEffect
<1>3. status' = Override(settled, gone, "removed")
  BY DEF KillRow
<1>4. status'[i] = IF i \in gone THEN "removed" ELSE settled[i]
  <2> HIDE DEF settled, gone
  <2> QED BY <1>2, <1>3, OverrideType, StatusNames
<1>5. token'[i] = IF i \in {j} THEN 0 ELSE token[i]
  BY UnlockEffect DEF KillRow
<1>6. UNCHANGED <<started, stalls, result, touched, opts>> /\ made' = [made EXCEPT ![j] = @ + 1]
  BY DEF KillRow
<1>7. status[j] = "active" /\ token[j] = t
  BY DEF KillRow, Fenced
<1>8. CASE i = j
  <2>1. status'[i] \in {"dead", "removed"}
    BY <1>1, <1>2, <1>4, <1>8
  <2>2. Fails(i)
    BY <2>1, <1>5, <1>6, <1>7, <1>8 DEF Fails, QueueTypeOK
  <2> QED BY <1>6, <2>2 DEF RowStep
<1>9. CASE i # j
  <2>1. SameCounts(i) /\ token'[i] = token[i]
    BY <1>5, <1>6, <1>9 DEF SameCounts, QueueTypeOK
  <2>2. Stays(i) \/ Moves(i)
    BY <1>1, <1>2, <1>4, <1>9, <2>1 DEF Stays, Moves, Open, OpenStatuses
  <2> QED BY <1>6, <2>2 DEF RowStep
<1> QED BY <1>8, <1>9

(* promoteDelayed                                                          *)
LEMMA PromoteRows ==
    ASSUME QueueTypeOK, PromoteDelayed
    PROVE  \A i \in Jobs : RowStep(i)
<1> SUFFICES ASSUME NEW i \in Jobs PROVE RowStep(i)
  OBVIOUS
<1> DEFINE S == {j \in Jobs : status[j] = "delayed" /\ "delay" \in late[j]}
<1>1. /\ status'[i] = IF i \in S THEN "waiting" ELSE status[i]
      /\ token'[i] = IF i \in S THEN 0 ELSE token[i]
      /\ SameCounts(i) /\ touched' = touched /\ opts' = opts
  BY DEF PromoteDelayed, Override, SameCounts
<1>2. Stays(i) \/ Moves(i)
  BY <1>1 DEF Stays, Moves, Open, OpenStatuses
<1> QED BY <1>1, <1>2 DEF RowStep

(* handleStalled                                                           *)
LEMMA StalledRows ==
    ASSUME QueueTypeOK, HandleStalled
    PROVE  \A i \in Jobs : RowStep(i)
<1> SUFFICES ASSUME NEW i \in Jobs PROVE RowStep(i)
  OBVIOUS
<1>1. PICK S \in SUBSET Stalled :
        LET dead == {j \in S : OutOfStalls(j)}
        IN  /\ status' = Override(Override(status, S, "waiting"), dead, "dead")
            /\ stalls' = [j \in Jobs |-> IF j \in S THEN stalls[j] + 1 ELSE stalls[j]]
            /\ Unlock(S)
            /\ UNCHANGED <<links, started, made, result, touched>>
  BY DEF HandleStalled
<1>2. status'[i] = IF i \in S THEN (IF OutOfStalls(i) THEN "dead" ELSE "waiting") ELSE status[i]
  BY <1>1 DEF Override
<1>3. token'[i] = IF i \in S THEN 0 ELSE token[i]
  BY <1>1, UnlockEffect
<1>4. /\ stalls'[i] = IF i \in S THEN stalls[i] + 1 ELSE stalls[i]
      /\ UNCHANGED <<started, made, result, touched, opts>>
  BY <1>1
<1>5. CASE i \in S
  <2>1. status[i] = "active"
    BY <1>5 DEF Stalled
  <2>2. Stalls(i)
    BY <1>2, <1>3, <1>4, <1>5, <2>1 DEF Stalls
  <2> QED BY <1>4, <2>2 DEF RowStep
<1>6. CASE i \notin S
  <2>1. Stays(i)
    BY <1>2, <1>3, <1>4, <1>6 DEF Stays, SameCounts
  <2> QED BY <1>4, <2>1 DEF RowStep
<1> QED BY <1>5, <1>6

(* The sweeps                                                              *)
LEMMA SweepRows ==
    ASSUME QueueTypeOK,
           PromoteDelayed \/ HandleStalled \/ HandleTimeouts \/ HandleWallClockTimeouts
    PROVE  \A i \in Jobs : RowStep(i)
<1>1. CASE HandleTimeouts \/ HandleWallClockTimeouts
  BY <1>1, IdleRows DEF HandleTimeouts, HandleWallClockTimeouts, EndBegin
<1> QED BY <1>1, PromoteRows, StalledRows

(* cancelJob begins                                                        *)
LEMMA CancelRows ==
    ASSUME NEW j \in Jobs, CancelJob(j)
    PROVE  \A i \in Jobs : RowStep(i)
BY IdleRows DEF CancelJob, EndBegin

(* retryJob, pauseJob, resumeJob, removeJob                                *)
LEMMA OperatorRows ==
    ASSUME QueueTypeOK, NEW j \in Jobs,
           \/ RetryJob(j) /\ mishaps' = mishaps + 1
           \/ PauseJob(j) \/ ResumeJob(j) \/ RemoveJob(j)
    PROVE  \A i \in Jobs : RowStep(i)
<1> SUFFICES ASSUME NEW i \in Jobs PROVE RowStep(i)
  OBVIOUS
<1>1. CASE RetryJob(j) /\ mishaps' = mishaps + 1
  <2>1. CASE i = j
    BY <1>1, <2>1 DEF RetryJob, QueueTypeOK, RowStep, Retried, SameCounts
  <2>2. CASE i # j
    BY <1>1, <2>2 DEF RetryJob, QueueTypeOK, RowStep, Stays, SameCounts
  <2> QED BY <2>1, <2>2
<1>2. ASSUME PauseJob(j) \/ ResumeJob(j) PROVE RowStep(i)
  <2>1. token'[i] = IF i \in {j} THEN 0 ELSE token[i]
    BY <1>2, UnlockEffect DEF PauseJob, ResumeJob
  <2>2. SameCounts(i) /\ opts' = opts /\ (i \in touched => i \in touched')
    BY <1>2 DEF PauseJob, ResumeJob, SameCounts
  <2>3. Stays(i) \/ Moves(i)
    BY <1>2, <2>1, <2>2 DEF PauseJob, ResumeJob, QueueTypeOK, Stays, Moves, Open, OpenStatuses
  <2> QED BY <2>2, <2>3 DEF RowStep
<1>3. CASE RemoveJob(j)
  <2>1. CASE i = j
    BY <1>3, <2>1 DEF RemoveJob, QueueTypeOK, RowStep, Deleted, SameCounts
  <2>2. CASE i # j
    BY <1>3, <2>2 DEF RemoveJob, QueueTypeOK, RowStep, Stays, SameCounts
  <2> QED BY <2>1, <2>2
<1> QED BY <1>1, <1>2, <1>3

(* handleQuietHoursDefer                                                   *)
LEMMA GiveBackRows ==
    ASSUME TypeOK, GatesFenced, NEW w \in Workers, GiveBack(w)
    PROVE  \A i \in Jobs : RowStep(i)
<1>1. gate[w] # NoClaim
  BY DEF GiveBack, GateDefer, GateRelease, GateCancel, GateCancelFallback, GateError, NoClaim
<1>2. /\ gate[w].token # 0 /\ gate[w].job \in Jobs
      /\ status[gate[w].job] # "absent"
      /\ gate[w].released => opts[gate[w].job].quiet = "skip"
  BY <1>1, GateType DEF GatesFenced, Claims
<1>3. CASE GateCancel(w)
  <2>1. CASE CancelJob(gate[w].job)
    BY <1>2, <2>1, CancelRows
  <2>2. CASE UNCHANGED queueVars
    BY <2>2, IdleRows DEF queueVars
  <2> QED BY <1>3, <2>1, <2>2 DEF GateCancel
<1>4. CASE GateError(w)
  BY <1>4, IdleRows DEF GateError, queueVars
<1>5. ASSUME GateDefer(w) \/ GateRelease(w) \/ GateCancelFallback(w), NEW i \in Jobs
      PROVE  RowStep(i)
  <2> DEFINE j == gate[w].job
  <2>1. CASE GateDefer(w)
    <3>1. CASE Holds(j, gate[w].token) /\ i = j
      BY <1>2, <2>1, <3>1 DEF GateDefer, Holds, TypeOK, QueueTypeOK, RowStep, Deferred, SameCounts
    <3>2. CASE ~Holds(j, gate[w].token) \/ i # j
      BY <1>2, <2>1, <3>2 DEF GateDefer, TypeOK, QueueTypeOK, RowStep, Stays, SameCounts
    <3> QED BY <3>1, <3>2
  <2>2. CASE GateRelease(w)
    <3>1. token'[i] \in {token[i], 0}
      BY <2>2, UnlockEffect DEF GateRelease, TypeOK
    <3>2. /\ status'[i] = status[i] /\ SameCounts(i)
          /\ opts' = opts /\ touched' = touched
      BY <2>2 DEF GateRelease, SameCounts
    <3> QED BY <3>1, <3>2 DEF RowStep, Stays
  <2>3. CASE GateCancelFallback(w)
    <3>1. SameCounts(i) /\ token'[i] = token[i] /\ opts' = opts /\ touched' = touched
      BY <2>3 DEF GateCancelFallback, SameCounts
    <3>2. opts[j].quiet = "skip"
      BY <1>2, <2>3 DEF GateCancelFallback
    <3>3. \/ status'[i] = status[i]
          \/ /\ i = j /\ status'[i] = "cancelled"
             /\ Open(j) \/ status[j] = "cancelled"
      BY <1>2, <2>3 DEF GateCancelFallback, TypeOK, QueueTypeOK, Statuses, Terminal,
                        OpenStatuses, Open
    <3> HIDE DEF j
    <3> QED BY <3>1, <3>2, <3>3 DEF RowStep, Stays, Skipped
  <2> QED BY <1>5, <2>1, <2>2, <2>3
<1> QED BY <1>3, <1>4, <1>5 DEF GiveBack

(* The outcomes of a handler, its lock timer and its force-evict           *)
LEMMA HandlerRows ==
    ASSUME TypeOK, RunsFenced, NEW r \in runs, Finish(r) \/ Renew(r) \/ ForceEvict(r)
    PROVE  \A i \in Jobs : RowStep(i)
<1>1. r.job \in Jobs /\ r.token \in Nat /\ r.token # 0
  BY RunType DEF RunsFenced
<1>2. QueueTypeOK
  BY DEF TypeOK
<1>3. CASE Complete(r)
  BY <1>1, <1>2, <1>3, CompleteRows DEF Complete
<1>4. CASE Retry(r)
  <2>1. DelayRow(r.job, r.token) /\ made[r.job] + 1 < MaxAttempts
    BY <1>4 DEF Retry, MayRetry, DelayRow, Fenced, RunsFenced
  <2> QED BY <1>1, <1>2, <2>1, DelayRows
<1>5. CASE KillRow(r.job, r.token)
  BY <1>1, <1>2, <1>5, KillRows
<1>6. CASE RenewRow(r.job, r.token)
  BY <1>6, IdleRows DEF RenewRow
<1>7. CASE UNCHANGED queueVars
  BY <1>7, IdleRows DEF queueVars
<1> QED BY <1>3, <1>4, <1>5, <1>6, <1>7 DEF Finish, Die, Drop, Renew, ForceEvict

(* Whatever step the system takes, each row of the job table takes one of  *)
(* the steps of RowStep: handlers that lost their lock change nothing, no  *)
(* sweep and no operator moves a row outside its life cycle.               *)
LEMMA EveryRowSteps ==
    ASSUME TypeOK, RunsFenced, GatesFenced, LocksHeld, [Next]_vars
    PROVE  \A i \in Jobs : RowStep(i)
<1>0. QueueTypeOK
  BY DEF TypeOK
<1>1. CASE UNCHANGED vars
  BY <1>1, IdleRows DEF vars, queueVars
<1>2. ASSUME NEW j \in Jobs, Submit(j) PROVE \A i \in Jobs : RowStep(i)
  BY <1>0, <1>2, AddRows DEF Submit
<1>3. ASSUME NEW j \in Jobs, Command(j) PROVE \A i \in Jobs : RowStep(i)
  BY <1>0, <1>3, CancelRows, OperatorRows DEF Command
<1>4. ASSUME NEW j \in Jobs, NEW d \in Deadlines, Elapse(j, d)
      PROVE  \A i \in Jobs : RowStep(i)
  BY <1>4, IdleRows DEF Elapse, Passes
<1>5. ASSUME NEW w \in Workers, Claim(w) PROVE \A i \in Jobs : RowStep(i)
  BY <1>0, <1>5, ClaimRows DEF Claim, ClaimAndLaunch, ClaimAndGate
<1>6. ASSUME NEW w \in Workers, Crash(w) PROVE \A i \in Jobs : RowStep(i)
  BY <1>6, IdleRows DEF Crash, queueVars
<1>7. CASE Sweep
  BY <1>0, <1>7, SweepRows DEF Sweep
<1>8. ASSUME NEW e \in ending, Commits(e) PROVE \A i \in Jobs : RowStep(i)
  BY <1>0, <1>8, CommitRows DEF Commits
<1> QED BY <1>1, <1>2, <1>3, <1>4, <1>5, <1>6, <1>7, <1>8, GiveBackRows, HandlerRows DEF Next

-----------------------------------------------------------------------------
(* The invariants.                                                         *)

(* Locks stay those of the last claim.                                     *)
LEMMA LocksStep ==
    ASSUME TypeOK, LocksCurrent, \A i \in Jobs : RowStep(i)
    PROVE  LocksCurrent'
<1> SUFFICES ASSUME NEW j \in Jobs
             PROVE  /\ token'[j] # 0 => token'[j] = started'[j] /\ made'[j] < started'[j]
                    /\ made'[j] <= started'[j]
                    /\ status'[j] \in {"completed", "dead"} => token'[j] = 0
                    /\ status'[j] = "cancelled" /\ token'[j] # 0 => opts'[j].quiet = "skip"
                    /\ status'[j] = "completed" => result'[j] = started'[j]
  BY DEF LocksCurrent
<1>1. /\ token[j] \in Nat /\ started[j] \in Nat /\ made[j] \in Nat
      /\ stalls[j] \in Nat /\ result[j] \in Nat /\ status[j] \in Statuses
  BY DEF TypeOK, QueueTypeOK
<1>2. /\ token[j] # 0 => token[j] = started[j] /\ made[j] < started[j]
      /\ made[j] <= started[j]
      /\ status[j] \in {"completed", "dead"} => token[j] = 0
      /\ status[j] = "cancelled" /\ token[j] # 0 => opts[j].quiet = "skip"
      /\ status[j] = "completed" => result[j] = started[j]
  BY DEF LocksCurrent
<1>3. status[j] # "absent" => opts'[j] = opts[j]
  BY DEF RowStep
<1>4. CASE Stays(j) \/ Moves(j) \/ Ends(j)
  BY <1>1, <1>2, <1>3, <1>4 DEF Stays, Moves, Ends, SameCounts, Open, OpenStatuses
<1>5. CASE Claimed(j) \/ Completes(j)
  BY <1>1, <1>2, <1>5 DEF Claimed, Completes
<1>6. CASE Fails(j) \/ Stalls(j)
  BY <1>1, <1>2, <1>6 DEF Fails, Stalls
<1>7. CASE Added(j) \/ Retried(j) \/ Deferred(j)
  BY <1>1, <1>2, <1>7 DEF Added, Retried, Deferred, SameCounts
<1>8. CASE Skipped(j) \/ Deleted(j)
  BY <1>1, <1>2, <1>3, <1>8 DEF Skipped, Deleted, SameCounts, Open, OpenStatuses
<1> QED BY <1>4, <1>5, <1>6, <1>7, <1>8 DEF RowStep

(* Open jobs keep an attempt and a stall in reserve.                       *)
LEMMA BudgetStep ==
    ASSUME TypeOK, BudgetLeft, \A i \in Jobs : RowStep(i)
    PROVE  BudgetLeft'
<1> SUFFICES ASSUME NEW j \in Jobs, j \notin touched'
             PROVE  /\ made'[j] <= MaxAttempts /\ stalls'[j] <= MaxStalled
                    /\ status'[j] \in OpenStatuses \cup {"absent"} =>
                           made'[j] < MaxAttempts /\ stalls'[j] < MaxStalled
  BY DEF BudgetLeft, Open
<1>1. /\ made[j] \in Nat /\ stalls[j] \in Nat /\ status[j] \in Statuses
      /\ MaxAttempts \in Nat /\ MaxStalled \in Nat
  BY QueueAssumption DEF TypeOK, QueueTypeOK
<1>2. j \notin touched
  BY DEF RowStep
<1>3. /\ made[j] <= MaxAttempts /\ stalls[j] <= MaxStalled
      /\ status[j] \in OpenStatuses \cup {"absent"} =>
             made[j] < MaxAttempts /\ stalls[j] < MaxStalled
  BY <1>2 DEF BudgetLeft, Open
<1>4. CASE Stays(j) \/ Moves(j) \/ Ends(j)
  BY <1>1, <1>3, <1>4 DEF Stays, Moves, Ends, SameCounts, Open, OpenStatuses
<1>5. CASE Claimed(j) \/ Completes(j)
  BY <1>1, <1>3, <1>5 DEF Claimed, Completes, OpenStatuses
<1>6. CASE Fails(j) \/ Stalls(j)
  BY <1>1, <1>3, <1>6 DEF Fails, Stalls, OutOfStalls, OpenStatuses
<1>7. CASE Added(j) \/ Skipped(j) \/ Deleted(j)
  BY <1>1, <1>3, <1>7 DEF Added, Skipped, Deleted, SameCounts, OpenStatuses
<1>8. ~Retried(j) /\ ~Deferred(j)
  BY DEF Retried, Deferred
<1> QED BY <1>4, <1>5, <1>6, <1>7, <1>8 DEF RowStep

(* A handler that executes after a step executed before it, or was         *)
(* launched by the claim the step made.                                    *)
LEMMA RunsCome ==
    ASSUME TypeOK, [Next]_vars, NEW r \in runs'
    PROVE  \/ \E q \in runs : q.job = r.job /\ q.token = r.token /\ q.attempts = r.attempts
           \/ /\ r.job \in Jobs /\ started'[r.job] = started[r.job] + 1
              /\ r.token = started[r.job] + 1
              /\ r.attempts = made[r.job] /\ made'[r.job] = made[r.job]
<1>1. CASE runs' \subseteq runs
  BY <1>1
<1>2. ASSUME NEW w \in Workers, NEW j \in Jobs, ClaimAndLaunch(w, j), r \notin runs
      PROVE  /\ r.job \in Jobs /\ started'[r.job] = started[r.job] + 1
             /\ r.token = started[r.job] + 1
             /\ r.attempts = made[r.job] /\ made'[r.job] = made[r.job]
  <2>1. r = [worker |-> w, job |-> j, token |-> started[j] + 1,
             attempts |-> made[j], evicted |-> FALSE]
    BY <1>2 DEF ClaimAndLaunch
  <2>2. r.job = j /\ r.token = started[j] + 1 /\ r.attempts = made[j]
    BY <2>1
  <2>3. started'[j] = started[j] + 1 /\ made' = made
    BY <1>2 DEF ClaimAndLaunch, ClaimRow, TypeOK, QueueTypeOK
  <2> QED BY <2>2, <2>3
<1>3. ASSUME NEW q \in runs, ForceEvict(q), r \notin runs
      PROVE  q.job = r.job /\ q.token = r.token /\ q.attempts = r.attempts
  <2>1. r = [q EXCEPT !.evicted = TRUE]
    BY <1>3 DEF ForceEvict
  <2>2. q \in Run
    BY RunType
  <2> QED BY <2>1, <2>2 DEF Run
<1>4. CASE UNCHANGED vars \/ Sweep
  BY <1>1, <1>4 DEF vars, workerVars, Sweep
<1>5. ASSUME NEW j \in Jobs, Submit(j) \/ Command(j) \/ \E d \in Deadlines : Elapse(j, d)
      PROVE  runs' \subseteq runs
  BY <1>5 DEF Submit, Command, Elapse, workerVars
<1>6. ASSUME NEW w \in Workers, GiveBack(w) \/ Crash(w)
      PROVE  runs' \subseteq runs
  BY <1>6 DEF GiveBack, GateDefer, GateRelease, GateCancel, GateCancelFallback, GateError, Crash
<1>7. ASSUME NEW w \in Workers, NEW j \in Jobs, ClaimAndGate(w, j)
      PROVE  runs' \subseteq runs
  BY <1>7 DEF ClaimAndGate
<1>8. ASSUME NEW q \in runs, Finish(q) \/ Renew(q)
      PROVE  runs' \subseteq runs
  BY <1>8 DEF Finish, Complete, Retry, Die, Drop, Leave, Renew, workerVars
<1>9. ASSUME NEW e \in ending, Commits(e)
      PROVE  runs' \subseteq runs
  BY <1>9 DEF Commits
<1> QED BY <1>1, <1>2, <1>3, <1>4, <1>5, <1>6, <1>7, <1>8, <1>9 DEF Next, Claim

(* Handlers keep tokens of claims that happened.                           *)
LEMMA RunsStep ==
    ASSUME TypeOK, LocksCurrent, RunsFenced, [Next]_vars, \A i \in Jobs : RowStep(i)
    PROVE  RunsFenced'
<1> SUFFICES ASSUME NEW r \in runs'
             PROVE  /\ r.token # 0 /\ r.token <= started'[r.job]
                    /\ token'[r.job] = r.token => r.attempts = made'[r.job]
  BY DEF RunsFenced
<1>1. CASE /\ r.job \in Jobs /\ started'[r.job] = started[r.job] + 1
           /\ r.token = started[r.job] + 1
           /\ r.attempts = made[r.job] /\ made'[r.job] = made[r.job]
  BY <1>1 DEF TypeOK, QueueTypeOK
<1>2. ASSUME NEW q \in runs, q.job = r.job, q.token = r.token, q.attempts = r.attempts
      PROVE  /\ r.token # 0 /\ r.token <= started'[r.job]
             /\ token'[r.job] = r.token => r.attempts = made'[r.job]
  <2> DEFINE j == r.job
  <2>1. /\ j \in Jobs /\ r.token \in Nat /\ r.token # 0 /\ r.token <= started[j]
        /\ token[j] = r.token => r.attempts = made[j]
    BY <1>2, RunType DEF RunsFenced
  <2>2. started[j] \in Nat
    BY <2>1 DEF TypeOK, QueueTypeOK
  <2>3. \/ token'[j] \in {token[j], 0} /\ started'[j] = started[j] /\ made'[j] = made[j]
        \/ token'[j] = 0 /\ started'[j] = started[j]
        \/ token'[j] = started[j] + 1 /\ started'[j] = started[j] + 1
    <3>1. RowStep(j)
      BY <2>1
    <3> HIDE DEF j
    <3> QED BY <3>1 DEF RowStep, SameCounts, Stays, Moves, Ends, Claimed, Completes, Fails,
                        Stalls, Added, Retried, Deferred, Skipped, Deleted
  <2> HIDE DEF j
  <2>4. /\ r.token <= started'[j]
        /\ token'[j] = r.token => r.attempts = made'[j]
    BY <2>1, <2>2, <2>3
  <2> QED BY <2>1, <2>4 DEF j
<1> QED BY <1>1, <1>2, RunsCome

(* A gated claim stays, is released under the skip policy, or is new.      *)
LEMMA GatesCome ==
    ASSUME TypeOK, GatesFenced, [Next]_vars, NEW w \in Workers, gate'[w] # NoClaim
    PROVE  \/ gate'[w] = gate[w]
           \/ /\ gate[w] # NoClaim /\ opts[gate[w].job].quiet = "skip"
              /\ gate'[w].job = gate[w].job /\ gate'[w].token = gate[w].token
           \/ /\ gate'[w].job \in Jobs /\ status[gate'[w].job] = "waiting"
              /\ gate'[w].token = started[gate'[w].job] + 1 /\ ~gate'[w].released
<1> DEFINE G == \/ gate'[w] = gate[w]
                \/ /\ gate[w] # NoClaim /\ opts[gate[w].job].quiet = "skip"
                   /\ gate'[w].job = gate[w].job /\ gate'[w].token = gate[w].token
                \/ /\ gate'[w].job \in Jobs /\ status[gate'[w].job] = "waiting"
                   /\ gate'[w].token = started[gate'[w].job] + 1 /\ ~gate'[w].released
<1>1. gate \in [Workers -> Gate]
  BY DEF TypeOK
<1>2. ASSUME UNCHANGED gate PROVE G
  BY <1>2
<1>3. ASSUME NEW v \in Workers, NEW j \in Jobs, ClaimAndGate(v, j) PROVE G
  <2>1. gate' = [gate EXCEPT ![v] = [job |-> j, token |-> started[j] + 1,
                                     released |-> FALSE, cancels |-> {}]]
    BY <1>3 DEF ClaimAndGate, Gated
  <2>2. CASE v = w
    BY <1>1, <1>3, <2>1, <2>2 DEF ClaimAndGate, ClaimRow
  <2>3. CASE v # w
    BY <1>1, <2>1, <2>3
  <2> QED BY <2>2, <2>3
<1>4. ASSUME NEW v \in Workers, GateRelease(v) PROVE G
  <2>1. /\ gate' = [gate EXCEPT ![v] = [gate[v] EXCEPT !.released = TRUE]]
        /\ gate[v] # NoClaim /\ opts[gate[v].job].quiet = "skip"
    BY <1>4 DEF GateRelease
  <2>2. gate[v] \in Claims
    BY <2>1, GateType
  <2>3. CASE v = w
    <3>1. gate'[w] = [gate[w] EXCEPT !.released = TRUE]
      BY <1>1, <2>1, <2>3
    <3>2. gate'[w].job = gate[w].job /\ gate'[w].token = gate[w].token
      BY <2>2, <2>3, <3>1 DEF Claims
    <3> QED BY <2>1, <2>3, <3>2
  <2>4. CASE v # w
    BY <1>1, <2>1, <2>4
  <2> QED BY <2>3, <2>4
<1>5. ASSUME NEW v \in Workers,
             GateDefer(v) \/ GateCancelFallback(v) \/ GateError(v) \/ Crash(v)
      PROVE  G
  <2>1. gate' = [gate EXCEPT ![v] = NoClaim]
    BY <1>5 DEF GateDefer, GateCancelFallback, GateError, Crash
  <2> QED BY <1>1, <2>1
<1>10. ASSUME NEW v \in Workers, GateCancel(v) PROVE G
  <2> DEFINE S == Cancellable(gate[v].job)
  <2>1. gate[v] # NoClaim /\ gate[v].released
    BY <1>10 DEF GateCancel, NoClaim
  <2>2. gate[v] \in Claims /\ opts[gate[v].job].quiet = "skip"
    BY <2>1, GateType DEF GatesFenced
  <2>3. \/ gate' = [gate EXCEPT ![v] = [gate[v] EXCEPT !.cancels = S]]
        \/ gate' = [gate EXCEPT ![v] = NoClaim]
    BY <1>10 DEF GateCancel
  <2> HIDE DEF S
  <2>4. CASE v = w /\ gate'[w] = [gate[w] EXCEPT !.cancels = S]
    <3>1. gate'[w].job = gate[w].job /\ gate'[w].token = gate[w].token
      BY <2>2, <2>4 DEF Claims
    <3> QED BY <2>1, <2>2, <2>4, <3>1
  <2> QED BY <1>1, <2>3, <2>4
<1>11. ASSUME NEW e \in ending, Commits(e) PROVE G
  BY <1>11 DEF Commits
<1>6. ASSUME UNCHANGED vars \/ Sweep PROVE UNCHANGED gate
  BY <1>6 DEF vars, workerVars, Sweep
<1>7. ASSUME NEW j \in Jobs, Submit(j) \/ Command(j) \/ \E d \in Deadlines : Elapse(j, d)
      PROVE  UNCHANGED gate
  BY <1>7 DEF Submit, Command, Elapse, workerVars
<1>8. ASSUME NEW q \in runs, Finish(q) \/ Renew(q) \/ ForceEvict(q)
      PROVE  UNCHANGED gate
  BY <1>8 DEF Finish, Complete, Retry, Die, Drop, Leave, Renew, ForceEvict, workerVars
<1>9. ASSUME NEW v \in Workers, NEW j \in Jobs, ClaimAndLaunch(v, j)
      PROVE  UNCHANGED gate
  BY <1>9 DEF ClaimAndLaunch
<1> HIDE DEF G
<1>12. G
  BY <1>2, <1>3, <1>4, <1>5, <1>6, <1>7, <1>8, <1>9, <1>10, <1>11 DEF Next, Claim, GiveBack
<1> QED BY <1>12 DEF G

(* Loops keep giving back claims that happened.                            *)
LEMMA GatesStep ==
    ASSUME TypeOK, GatesFenced, [Next]_vars, \A i \in Jobs : RowStep(i)
    PROVE  GatesFenced'
<1> SUFFICES ASSUME NEW w \in Workers, gate'[w] # NoClaim
             PROVE  /\ gate'[w].token # 0
                    /\ status'[gate'[w].job] # "absent"
                    /\ gate'[w].released => opts'[gate'[w].job].quiet = "skip"
  BY DEF GatesFenced
<1>1. ASSUME NEW j \in Jobs, status[j] # "absent"
      PROVE  status'[j] # "absent" /\ opts'[j] = opts[j]
  <2>1. RowStep(j)
    OBVIOUS
  <2> QED BY <1>1, <2>1 DEF RowStep, Stays, Moves, Ends, Claimed, Completes, Fails, Stalls,
                            Added, Retried, Deferred, Skipped, Deleted, OpenStatuses
<1>2. ASSUME gate[w] # NoClaim
      PROVE  /\ gate[w].job \in Jobs /\ gate[w].token # 0
             /\ status'[gate[w].job] # "absent" /\ opts'[gate[w].job] = opts[gate[w].job]
             /\ gate[w].released => opts[gate[w].job].quiet = "skip"
  BY <1>1, <1>2, GateType DEF GatesFenced, Claims
<1>3. CASE gate'[w] = gate[w]
  BY <1>2, <1>3
<1>4. CASE /\ gate[w] # NoClaim /\ opts[gate[w].job].quiet = "skip"
           /\ gate'[w].job = gate[w].job /\ gate'[w].token = gate[w].token
  BY <1>2, <1>4
<1>5. CASE /\ gate'[w].job \in Jobs /\ status[gate'[w].job] = "waiting"
           /\ gate'[w].token = started[gate'[w].job] + 1 /\ ~gate'[w].released
  BY <1>1, <1>5 DEF TypeOK, QueueTypeOK
<1> QED BY <1>3, <1>4, <1>5, GatesCome

(* The rows an open transaction has updated: nobody else changes them, nor *)
(* their parent, before it commits.                                        *)
Untouched(S) == \A i \in S : status'[i] = status[i] /\ parent'[i] = parent[i]

(* The methods with a token                                                *)
LEMMA TokenLocks ==
    ASSUME QueueTypeOK, LocksHeld, NEW j \in Jobs, NEW t \in Nat,
           CompleteRow(j, t) \/ DelayRow(j, t) \/ KillRow(j, t) \/ RenewRow(j, t)
    PROVE  Untouched(Locked) /\ ending' = ending
<1>0. Locked \subseteq Jobs
  BY EndingFields DEF Locked
<1> SUFFICES ASSUME NEW i \in Locked
             PROVE  status'[i] = status[i] /\ parent'[i] = parent[i] /\ ending' = ending
  BY DEF Untouched, CompleteRow, DelayRow, KillRow, RenewRow
<1>1. i \in Jobs
  BY <1>0
<1>2. CASE CompleteRow(j, t)
  <2> DEFINE ended == Override(status, {j}, "completed")
             gone == IF opts[j].remove = "on_complete" THEN {j} ELSE {}
  <2>1. i \notin WithParent(j) /\ (gone # {} => i \notin WithChildren(j))
    BY <1>2 DEF CompleteRow, Free
  <2>2. i # j /\ i \notin ParentsOf({j}) /\ i \notin gone /\ parent[i] \notin gone
    BY <1>1, <2>1 DEF WithParent, WithChildren
  <2>3. status'[i] = status[i]
    BY <1>1, <1>2, <2>2 DEF CompleteRow, Override, Resolved
  <2>4. parent'[i] = parent[i]
    BY <1>1, <1>2, <2>2 DEF CompleteRow, Orphaned
  <2> QED BY <1>2, <2>3, <2>4 DEF CompleteRow
<1>3. CASE DelayRow(j, t)
  BY <1>1, <1>3 DEF DelayRow, Free, WithParent, QueueTypeOK
<1>4. CASE KillRow(j, t)
  <2> DEFINE gone == IF opts[j].remove = "on_fail" THEN {j} ELSE {}
             newParent == IF opts[j].policy = "remove_dep" THEN [parent EXCEPT ![j] = NoJob]
                                                           ELSE parent
  <2>1. i \notin WithParent(j) /\ (gone # {} => i \notin WithChildren(j))
    BY <1>4 DEF KillRow, Free
  <2>2. i # j /\ i \notin ParentsOf({j}) /\ i \notin gone /\ parent[i] \notin gone
    BY <1>1, <2>1 DEF WithParent, WithChildren
  <2>3. status'[i] = status[i]
    BY <1>1, <1>4, <2>2 DEF KillRow, Override, Resolved, AfterChildFailed
  <2>4. newParent[i] = parent[i]
    BY <1>1, <2>2 DEF QueueTypeOK
  <2>5. parent' = Orphaned(newParent, gone)
    BY <1>4 DEF KillRow
  <2>6. parent'[i] = parent[i]
    <3> HIDE DEF newParent, gone
    <3> QED BY <1>1, <2>2, <2>4, <2>5 DEF Orphaned
  <2> QED BY <1>4, <2>3, <2>6 DEF KillRow
<1>5. CASE RenewRow(j, t)
  BY <1>5 DEF RenewRow
<1> QED BY <1>2, <1>3, <1>4, <1>5

(* Submission, claim, deferred jobs, stalled jobs and the operator         *)
LEMMA TableLocks ==
    ASSUME QueueTypeOK, LocksHeld,
           \/ \E j \in Jobs, p \in Jobs \cup {NoJob}, o \in Options, f \in {"waiting", "delayed"} :
                 Add(j, p, o, f)
           \/ \E j \in Jobs : \/ ClaimRow(j) \/ RetryJob(j) \/ PauseJob(j)
                              \/ ResumeJob(j) \/ RemoveJob(j)
           \/ PromoteDelayed \/ HandleStalled
    PROVE  Untouched(Locked) /\ ending' = ending
<1>0. Locked \subseteq Jobs
  BY EndingFields DEF Locked
<1>1. ending' = ending
  BY DEF Add, ClaimRow, RetryJob, PauseJob, ResumeJob, RemoveJob, PromoteDelayed, HandleStalled
<1> SUFFICES ASSUME NEW i \in Locked
             PROVE  status'[i] = status[i] /\ parent'[i] = parent[i]
  BY <1>1 DEF Untouched
<1>2. i \in Jobs /\ status[i] \in OpenStatuses
  BY <1>0 DEF Locked, LocksHeld, Open
<1>3. ASSUME NEW j \in Jobs, NEW p \in Jobs \cup {NoJob}, NEW o \in Options,
             NEW f \in {"waiting", "delayed"}, Add(j, p, o, f)
      PROVE  status'[i] = status[i] /\ parent'[i] = parent[i]
  <2>1. i # j
    BY <1>2, <1>3 DEF Add, OpenStatuses
  <2>2. i # p
    BY <1>2, <1>3, QueueAssumption DEF Add, Free
  <2> QED BY <1>2, <1>3, <2>1, <2>2 DEF Add, QueueTypeOK
<1>4. ASSUME NEW j \in Jobs, ClaimRow(j) \/ RetryJob(j) \/ PauseJob(j) \/ ResumeJob(j)
      PROVE  status'[i] = status[i] /\ parent'[i] = parent[i]
  <2>1. i # j
    BY <1>4 DEF ClaimRow, RetryJob, PauseJob, ResumeJob, Free
  <2> QED BY <1>2, <1>4, <2>1 DEF ClaimRow, RetryJob, PauseJob, ResumeJob, QueueTypeOK
<1>5. ASSUME NEW j \in Jobs, RemoveJob(j)
      PROVE  status'[i] = status[i] /\ parent'[i] = parent[i]
  <2>1. i # j /\ parent[i] # j
    BY <1>2, <1>5 DEF RemoveJob, Free, WithChildren
  <2> QED BY <1>2, <1>5, <2>1 DEF RemoveJob, Orphaned, QueueTypeOK
<1>6. CASE PromoteDelayed
  BY <1>2, <1>6 DEF PromoteDelayed, Free, Override
<1>7. CASE HandleStalled
  <2>1. PICK S \in SUBSET Stalled :
          /\ status' = Override(Override(status, S, "waiting"), {j \in S : OutOfStalls(j)}, "dead")
          /\ UNCHANGED links
    BY <1>7 DEF HandleStalled
  <2>2. i \notin S
    BY DEF Stalled, Free
  <2> QED BY <1>2, <2>1, <2>2 DEF Override
<1> QED BY <1>3, <1>4, <1>5, <1>6, <1>7

(* No step but a commit changes an open transaction's rows, and one begins *)
(* with rows that are open and free.                                       *)
LEMMA LocksKept ==
    ASSUME TypeOK, LocksHeld, [Next]_vars,
           ~ \E e \in ending : Commits(e)
    PROVE  /\ Untouched(Locked)
           /\ \/ ending' = ending
              \/ \E S \in SUBSET Jobs, why \in {"timeout", "cancelled"} :
                    (\A i \in S : Open(i)) /\ EndBegin(S, why)
<1>0. QueueTypeOK
  BY DEF TypeOK
<1> DEFINE K == /\ Untouched(Locked)
                /\ \/ ending' = ending
                   \/ \E S \in SUBSET Jobs, why \in {"timeout", "cancelled"} :
                         (\A i \in S : Open(i)) /\ EndBegin(S, why)
<1>1. ASSUME UNCHANGED <<status, parent, ending>> PROVE K
  BY <1>1 DEF Untouched
<1>2. ASSUME UNCHANGED queueVars PROVE K
  BY <1>1, <1>2 DEF queueVars
<1>3. ASSUME NEW j \in Jobs, CancelJob(j) PROVE K
  <2> DEFINE S == Cancellable(j)
  <2>1. S \in SUBSET Jobs /\ (\A i \in S : Open(i)) /\ EndBegin(S, "cancelled")
    BY <1>3 DEF CancelJob, Cancellable
  <2>2. UNCHANGED <<status, parent>>
    BY <2>1 DEF EndBegin
  <2> HIDE DEF S
  <2> QED BY <2>1, <2>2 DEF Untouched
<1>4. ASSUME HandleTimeouts PROVE K
  BY <1>4 DEF HandleTimeouts, TimedOut, EndBegin, Untouched, Open, OpenStatuses
<1>5. ASSUME HandleWallClockTimeouts PROVE K
  BY <1>5 DEF HandleWallClockTimeouts, Overdue, EndBegin, Untouched, Open, OpenStatuses
<1>6. ASSUME NEW w \in Workers, GateDefer(w) \/ GateRelease(w) \/ GateCancelFallback(w) PROVE K
  <2>1. gate[w] # NoClaim
    BY <1>6 DEF GateDefer, GateRelease, GateCancelFallback, NoClaim
  <2>2. gate[w].job \in Jobs
    BY <2>1, GateType DEF Claims
  <2>3. Locked \subseteq Jobs
    BY <1>0, EndingFields DEF Locked
  <2>4. ending' = ending /\ parent' = parent
    BY <1>6 DEF GateDefer, GateRelease, GateCancelFallback
  <2>5. ASSUME NEW i \in Locked PROVE status'[i] = status[i]
    BY <1>6, <2>2, <2>3 DEF GateDefer, GateRelease, GateCancelFallback, Free, TypeOK, QueueTypeOK
  <2> QED BY <2>4, <2>5 DEF Untouched
<1>7. ASSUME NEW w \in Workers, GiveBack(w) PROVE K
  <2>1. CASE GateCancel(w)
    <3>1. gate[w] # NoClaim
      BY <2>1 DEF GateCancel, NoClaim
    <3>2. gate[w].job \in Jobs
      BY <3>1, GateType DEF Claims
    <3> QED BY <1>2, <1>3, <2>1, <3>2 DEF GateCancel
  <2> QED BY <1>2, <1>6, <1>7, <2>1 DEF GiveBack, GateError
<1>8. ASSUME NEW r \in runs, Finish(r) \/ Renew(r) \/ ForceEvict(r) PROVE K
  <2>1. r.job \in Jobs /\ r.token \in Nat
    BY RunType
  <2>2. \/ CompleteRow(r.job, r.token) \/ DelayRow(r.job, r.token) \/ KillRow(r.job, r.token)
        \/ RenewRow(r.job, r.token) \/ UNCHANGED queueVars
    BY <1>8 DEF Finish, Complete, Retry, Die, Drop, Renew, ForceEvict
  <2> QED BY <1>0, <1>2, <2>1, <2>2, TokenLocks
<1>9. ASSUME NEW j \in Jobs, Submit(j) \/ Command(j) \/ \E d \in Deadlines : Elapse(j, d)
      PROVE  K
  <2>1. CASE Submit(j)
    BY <1>0, <2>1, TableLocks DEF Submit
  <2>2. CASE Command(j)
    BY <1>0, <1>3, <2>2, TableLocks DEF Command
  <2>3. CASE \E d \in Deadlines : Elapse(j, d)
    BY <1>1, <2>3 DEF Elapse, Passes
  <2> QED BY <1>9, <2>1, <2>2, <2>3
<1>10. ASSUME Sweep PROVE K
  BY <1>0, <1>4, <1>5, <1>10, TableLocks DEF Sweep
<1>11. ASSUME NEW w \in Workers, Claim(w) \/ Crash(w) PROVE K
  <2>1. CASE Claim(w)
    BY <1>0, <2>1, TableLocks DEF Claim, ClaimAndLaunch, ClaimAndGate
  <2>2. CASE Crash(w)
    BY <1>2, <2>2 DEF Crash
  <2> QED BY <1>11, <2>1, <2>2
<1>12. ASSUME UNCHANGED vars PROVE K
  BY <1>2, <1>12 DEF vars
<1> HIDE DEF K
<1>13. K
  BY <1>7, <1>8, <1>9, <1>10, <1>11, <1>12 DEF Next
<1> QED BY <1>13 DEF K

(* The rows of open transactions stay open and apart.                      *)
LEMMA LocksHeldStep ==
    ASSUME TypeOK, LocksHeld, [Next]_vars
    PROVE  LocksHeld'
<1>0. QueueTypeOK
  BY DEF TypeOK
<1>1. CASE \E e \in ending : Commits(e)
  <2>1. PICK e \in ending : EndCommit(e)
    BY <1>1 DEF Commits
  <2>2. ending' = ending \ {e}
    BY <2>1 DEF EndCommit
  <2>3. ASSUME NEW d \in ending', NEW i \in d.rows PROVE Open(i)'
    <3>1. d \in ending /\ d # e /\ i \in Jobs /\ Open(i) /\ i \notin e.rows
      BY <1>0, <2>2, EndingFields DEF LocksHeld
    <3>2. status'[i] \in {status[i], "waiting"}
      BY <1>0, <2>1, <3>1, EndCommitEffect
    <3> QED BY <3>1, <3>2 DEF Open, OpenStatuses
  <2> QED BY <2>2, <2>3 DEF LocksHeld
<1>2. CASE ~ \E e \in ending : Commits(e)
  <2>1. ASSUME NEW d \in ending, NEW i \in d.rows PROVE Open(i)'
    BY <1>2, LocksKept DEF Untouched, Locked, LocksHeld, Open
  <2>2. CASE ending' = ending
    BY <2>1, <2>2 DEF LocksHeld
  <2>3. ASSUME NEW S \in SUBSET Jobs, NEW why \in {"timeout", "cancelled"},
               \A i \in S : Open(i), EndBegin(S, why)
        PROVE  LocksHeld'
    <3> DEFINE P == ParentsOf(S) \ S
               waiting == {p \in P : status[p] = "waiting-children"}
               begun == [rows |-> S, why |-> why, told |-> {p \in P : Open(p)},
                         asleep |-> waiting, seen |-> OpenLinks(waiting, S)]
    <3>1. ending' = ending \cup {begun} /\ status' = status /\ Free(S)
      BY <2>3 DEF EndBegin
    <3>2. begun.rows = S /\ begun.asleep \cap S = {}
      OBVIOUS
    <3> HIDE DEF begun
    <3>3. \A d \in ending : d.rows \cap S = {}
      BY <3>1 DEF Free, Locked
    <3>4. \A i \in S : Open(i)'
      BY <2>3, <3>1 DEF Open
    <3> QED BY <2>1, <3>1, <3>2, <3>3, <3>4 DEF LocksHeld
  <2> QED BY <1>2, <2>2, <2>3, LocksKept
<1> QED BY <1>1, <1>2

(* The empty table.                                                        *)
LEMMA FencingInit == Init => Fencing
<1> SUFFICES ASSUME Init PROVE Fencing
  OBVIOUS
<1>1. LocksCurrent /\ BudgetLeft
  BY QueueAssumption DEF Init, QueueInit, LocksCurrent, BudgetLeft
<1>2. RunsFenced /\ GatesFenced
  BY DEF Init, RunsFenced, GatesFenced
<1>3. LocksHeld
  BY DEF Init, QueueInit, LocksHeld
<1> QED BY <1>1, <1>2, <1>3 DEF Fencing

(* The fence is inductive, given the types.                                *)
LEMMA FencingStep == TypeOK /\ Fencing /\ [Next]_vars => Fencing'
<1> SUFFICES ASSUME TypeOK, Fencing, [Next]_vars PROVE Fencing'
  OBVIOUS
<1>1. LocksCurrent /\ BudgetLeft /\ RunsFenced /\ GatesFenced /\ LocksHeld
  BY DEF Fencing
<1>2. \A i \in Jobs : RowStep(i)
  BY <1>1, EveryRowSteps
<1>3. LocksCurrent' /\ BudgetLeft'
  BY <1>1, <1>2, LocksStep, BudgetStep
<1>4. RunsFenced' /\ GatesFenced'
  BY <1>1, <1>2, RunsStep, GatesStep
<1>5. LocksHeld'
  BY <1>1, LocksHeldStep
<1> QED BY <1>3, <1>4, <1>5 DEF Fencing

(* A lock in the table is the last claim's, and a handler or a loop that   *)
(* holds a token knows the counters of the claim that gave it.             *)
THEOREM FencingHolds == Spec => []Fencing
<1> QED BY TypeInit, TypeStep, FencingInit, FencingStep, PTL DEF Spec

(* However many handlers of a job overlap, the stored result is the one of *)
(* the last claim.                                                         *)
THEOREM ResultOfLastClaim == Spec => []ResultIsOfLastClaim
<1>1. Fencing => ResultIsOfLastClaim
  BY DEF Fencing, LocksCurrent, ResultIsOfLastClaim
<1> QED BY <1>1, FencingHolds, PTL

(* attempts_made never passes attempts_started, and unless an operator or  *)
(* a deferral intervenes, neither max_attempts nor max_stalled is passed.  *)
THEOREM AttemptsAreBounded == Spec => []AttemptsBounded
<1>1. Fencing => AttemptsBounded
  BY DEF Fencing, LocksCurrent, BudgetLeft, AttemptsBounded
<1> QED BY <1>1, FencingHolds, PTL

(* A completed or cancelled job never moves again, and a dead one moves    *)
(* only by retryJob.                                                       *)
THEOREM EndsAreFinal == Spec => EndIsFinal
<1> DEFINE Final == \A j \in Jobs :
              /\ status[j] \in {"completed", "cancelled"} => status'[j] \in {status[j], "removed"}
              /\ status[j] = "dead" =>
                    \/ status'[j] \in {"dead", "removed"}
                    \/ status'[j] = "waiting" /\ mishaps' = mishaps + 1
<1>1. ASSUME TypeOK, Fencing, [Next]_vars PROVE [Final]_vars
  <2>1. SUFFICES ASSUME NEW j \in Jobs
        PROVE  /\ status[j] \in {"completed", "cancelled"} => status'[j] \in {status[j], "removed"}
               /\ status[j] = "dead" =>
                     \/ status'[j] \in {"dead", "removed"}
                     \/ status'[j] = "waiting" /\ mishaps' = mishaps + 1
    OBVIOUS
  <2>2. RowStep(j)
    BY <1>1, EveryRowSteps DEF Fencing
  <2>3. /\ status[j] \in {"completed", "dead"} => token[j] = 0
        /\ status[j] = "cancelled" /\ token[j] # 0 => opts[j].quiet = "skip"
    BY <1>1 DEF Fencing, LocksCurrent
  <2> QED BY <2>2, <2>3 DEF RowStep, Stays, Moves, Ends, Claimed, Completes, Fails, Stalls,
                            Added, Retried, Deferred, Skipped, Deleted, Open, OpenStatuses
<1>2. TypeOK /\ Fencing /\ [Next]_vars => [Final]_vars
  BY <1>1
<1>3. Spec => [][Final]_vars
  BY <1>2, TypeCorrect, FencingHolds, PTL DEF Spec
<1> QED BY <1>3 DEF EndIsFinal

-----------------------------------------------------------------------------
(* The slots of a worker.                                                  *)

(* As the loop counts them, with what counting needs.                      *)
SlotsFinite == SlotsAccounted /\ \A w \in Workers : IsFiniteSet(inFlight[w])

(* Leaving a slot, by the finally or by the force-evict.                   *)
LEMMA SlotFreed ==
    ASSUME TypeOK, SlotsFinite, NEW v \in Workers, NEW r \in runs, r.worker = v,
           inFlight' = [inFlight EXCEPT ![v] = @ \ {r.job}],
           \A q \in runs : q # r => q \in runs'
    PROVE  SlotsFinite'
<1> SUFFICES ASSUME NEW w \in Workers
             PROVE  /\ IsFiniteSet(inFlight'[w]) /\ Cardinality(inFlight'[w]) <= Concurrency
                    /\ \A j \in inFlight'[w] : \E q \in runs' : q.worker = w /\ q.job = j
  BY DEF SlotsFinite, SlotsAccounted
<1>1. /\ IsFiniteSet(inFlight[w]) /\ Cardinality(inFlight[w]) <= Concurrency
      /\ \A j \in inFlight[w] : \E q \in runs : q.worker = w /\ q.job = j
  BY DEF SlotsFinite, SlotsAccounted
<1>2. CASE w # v
  <2>1. inFlight'[w] = inFlight[w]
    BY <1>2 DEF TypeOK
  <2> QED BY <1>1, <1>2, <2>1
<1>3. CASE w = v
  <2>1. inFlight'[w] = inFlight[w] \ {r.job}
    BY <1>3 DEF TypeOK
  <2>2. /\ IsFiniteSet(inFlight[w] \ {r.job})
        /\ Cardinality(inFlight[w] \ {r.job}) <= Cardinality(inFlight[w])
    BY <1>1, FS_Subset
  <2>3. Cardinality(inFlight[w] \ {r.job}) \in Nat /\ Cardinality(inFlight[w]) \in Nat
    BY <1>1, <2>2, FS_CardinalityType
  <2>4. Concurrency \in Nat
    BY WorkerAssumption
  <2> DEFINE n == Cardinality(inFlight[w] \ {r.job})
             m == Cardinality(inFlight[w])
  <2>5. n <= Concurrency
    <3>1. n \in Nat /\ m \in Nat /\ n <= m /\ m <= Concurrency
      BY <1>1, <2>2, <2>3
    <3> HIDE DEF n, m
    <3> QED BY <2>4, <3>1
  <2> QED BY <1>1, <1>3, <2>1, <2>2, <2>5
<1> QED BY <1>2, <1>3

(* Every step keeps the count.                                             *)
LEMMA SlotsStep ==
    ASSUME TypeOK, SlotsFinite, [Next]_vars
    PROVE  SlotsFinite'
<1>1. ASSUME UNCHANGED <<runs, inFlight>> PROVE SlotsFinite'
  BY <1>1 DEF SlotsFinite, SlotsAccounted
<1>2. ASSUME NEW v \in Workers, NEW j \in Jobs, ClaimAndLaunch(v, j) PROVE SlotsFinite'
  <2> SUFFICES ASSUME NEW w \in Workers
               PROVE  /\ IsFiniteSet(inFlight'[w]) /\ Cardinality(inFlight'[w]) <= Concurrency
                      /\ \A i \in inFlight'[w] : \E q \in runs' : q.worker = w /\ q.job = i
    BY DEF SlotsFinite, SlotsAccounted
  <2>1. /\ IsFiniteSet(inFlight[w]) /\ Cardinality(inFlight[w]) <= Concurrency
        /\ \A i \in inFlight[w] : \E q \in runs : q.worker = w /\ q.job = i
    BY DEF SlotsFinite, SlotsAccounted
  <2> DEFINE launched == [worker |-> v, job |-> j, token |-> started[j] + 1,
                          attempts |-> made[j], evicted |-> FALSE]
  <2>5. /\ Cardinality(inFlight[v]) < Concurrency
        /\ inFlight' = [inFlight EXCEPT ![v] = @ \cup {j}]
        /\ runs' = runs \cup {launched}
    BY <1>2 DEF ClaimAndLaunch, FreeSlot
  <2>6. launched.worker = v /\ launched.job = j
    OBVIOUS
  <2> HIDE DEF launched
  <2>2. /\ Cardinality(inFlight[v]) < Concurrency /\ runs \subseteq runs'
        /\ inFlight' = [inFlight EXCEPT ![v] = @ \cup {j}]
        /\ \E q \in runs' : q.worker = v /\ q.job = j
    BY <2>5, <2>6
  <2>3. CASE w # v
    <3>1. inFlight'[w] = inFlight[w]
      BY <2>2, <2>3 DEF TypeOK
    <3> QED BY <2>1, <2>2, <3>1
  <2>4. CASE w = v
    <3>1. inFlight'[w] = inFlight[w] \cup {j}
      BY <2>2, <2>4 DEF TypeOK
    <3>2. /\ IsFiniteSet(inFlight[w] \cup {j})
          /\ Cardinality(inFlight[w] \cup {j}) =
                 IF j \in inFlight[w] THEN Cardinality(inFlight[w])
                 ELSE Cardinality(inFlight[w]) + 1
      BY <2>1, FS_AddElement
    <3>3. Cardinality(inFlight[w]) \in Nat
      BY <2>1, FS_CardinalityType
    <3>6. Concurrency \in Nat
      BY WorkerAssumption
    <3> DEFINE n == Cardinality(inFlight[w] \cup {j})
               m == Cardinality(inFlight[w])
    <3>7. n <= Concurrency
      <4>1. m \in Nat /\ m < Concurrency /\ (n = m \/ n = m + 1)
        BY <2>2, <2>4, <3>2, <3>3
      <4> HIDE DEF n, m
      <4> QED BY <3>6, <4>1
    <3>4. Cardinality(inFlight'[w]) <= Concurrency
      BY <3>1, <3>7
    <3>5. \A i \in inFlight'[w] : \E q \in runs' : q.worker = w /\ q.job = i
      BY <2>1, <2>2, <2>4, <3>1
    <3> QED BY <3>1, <3>2, <3>4, <3>5
  <2> QED BY <2>3, <2>4
<1>3. ASSUME NEW r \in runs, Leave(r) \/ ForceEvict(r) PROVE SlotsFinite'
  <2>1. r.worker \in Workers
    BY RunType
  <2>2. /\ inFlight' = [inFlight EXCEPT ![r.worker] = @ \ {r.job}]
        /\ \A q \in runs : q # r => q \in runs'
    BY <1>3 DEF Leave, ForceEvict
  <2> QED BY <2>1, <2>2, SlotFreed
<1>4. ASSUME NEW v \in Workers, Crash(v) PROVE SlotsFinite'
  <2> SUFFICES ASSUME NEW w \in Workers
               PROVE  /\ IsFiniteSet(inFlight'[w]) /\ Cardinality(inFlight'[w]) <= Concurrency
                      /\ \A i \in inFlight'[w] : \E q \in runs' : q.worker = w /\ q.job = i
    BY DEF SlotsFinite, SlotsAccounted
  <2>1. /\ IsFiniteSet(inFlight[w]) /\ Cardinality(inFlight[w]) <= Concurrency
        /\ \A i \in inFlight[w] : \E q \in runs : q.worker = w /\ q.job = i
    BY DEF SlotsFinite, SlotsAccounted
  <2>2. inFlight'[w] = IF w = v THEN {} ELSE inFlight[w]
    BY <1>4 DEF Crash, TypeOK
  <2>3. w # v => \A q \in runs : q.worker = w => q \in runs'
    BY <1>4 DEF Crash
  <2>4. IsFiniteSet({}) /\ Cardinality({}) = 0 /\ 0 <= Concurrency
    BY FS_EmptySet, WorkerAssumption
  <2> QED BY <2>1, <2>2, <2>3, <2>4
<1>5. CASE UNCHANGED vars \/ Sweep
  BY <1>1, <1>5 DEF vars, workerVars, Sweep
<1>6. ASSUME NEW j \in Jobs, Submit(j) \/ Command(j) \/ \E d \in Deadlines : Elapse(j, d)
      PROVE  SlotsFinite'
  BY <1>1, <1>6 DEF Submit, Command, Elapse, workerVars
<1>7. ASSUME NEW w \in Workers, GiveBack(w) PROVE SlotsFinite'
  BY <1>1, <1>7 DEF GiveBack, GateDefer, GateRelease, GateCancel, GateCancelFallback, GateError
<1>8. ASSUME NEW w \in Workers, NEW j \in Jobs, ClaimAndGate(w, j) PROVE SlotsFinite'
  BY <1>1, <1>8 DEF ClaimAndGate
<1>9. ASSUME NEW r \in runs, Finish(r) \/ Renew(r) PROVE SlotsFinite'
  BY <1>1, <1>3, <1>9 DEF Finish, Complete, Retry, Die, Drop, Renew, workerVars
<1>10. ASSUME NEW e \in ending, Commits(e) PROVE SlotsFinite'
  BY <1>1, <1>10 DEF Commits
<1> QED BY <1>2, <1>3, <1>4, <1>5, <1>6, <1>7, <1>8, <1>9, <1>10 DEF Next, Claim

(* The loop never counts more entries than its concurrency, and every      *)
(* entry belongs to a handler that will give it back: no path loses one.   *)
THEOREM SlotsAreAccounted == Spec => []SlotsAccounted
<1>1. Init => SlotsFinite
  BY FS_EmptySet, WorkerAssumption DEF Init, SlotsFinite, SlotsAccounted
<1>2. TypeOK /\ SlotsFinite /\ [Next]_vars => SlotsFinite'
  BY SlotsStep
<1>3. SlotsFinite => SlotsAccounted
  BY DEF SlotsFinite
<1> QED BY <1>1, <1>2, <1>3, TypeCorrect, PTL DEF Spec

-----------------------------------------------------------------------------
(* The life of a job.                                                      *)

(* An id that was not handed out has no lock.                              *)
UnusedUnlocked == \A j \in Jobs : status[j] = "absent" => token[j] = 0

(* Rows come into the table without a lock.                                *)
LEMMA UnusedStep ==
    ASSUME UnusedUnlocked, \A i \in Jobs : RowStep(i)
    PROVE  UnusedUnlocked'
<1> SUFFICES ASSUME NEW j \in Jobs, status'[j] = "absent" PROVE token'[j] = 0
  BY DEF UnusedUnlocked
<1>1. Stays(j)
  BY DEF RowStep, Moves, Ends, Claimed, Completes, Fails, Stalls, Added, Retried, Deferred,
         Skipped, Deleted, OpenStatuses
<1> QED BY <1>1 DEF Stays, UnusedUnlocked

(* One job in a step of JobLife.                                           *)
Lives(j) ==
    \/ Life!Rest(j) \/ Life!Submit(j) \/ Life!Claim(j) \/ Life!Complete(j)
    \/ Life!Fail(j) \/ Life!Stop(j) \/ Life!Revive(j) \/ Life!Delete(j)

(* Every row step is a step in the life of the job.                        *)
LEMMA RowStepLives ==
    ASSUME TypeOK, LocksCurrent, UnusedUnlocked, NEW j \in Jobs, RowStep(j)
    PROVE  Lives(j)
<1>1. /\ token[j] \in Nat /\ started[j] \in Nat /\ made[j] \in Nat /\ status[j] \in Statuses
      /\ token[j] # 0 => token[j] = started[j]
      /\ status[j] \in {"completed", "dead"} => token[j] = 0
      /\ status[j] = "cancelled" /\ token[j] # 0 => opts[j].quiet = "skip"
      /\ status[j] = "absent" => token[j] = 0
  BY DEF TypeOK, QueueTypeOK, LocksCurrent, UnusedUnlocked
<1>2. CASE Stays(j)
  <2>1. Life!Rest(j)
    BY <1>1, <1>2 DEF Stays, Life!Rest, Life!Same, PhaseOf, OwnerOf, Open, OpenStatuses, Statuses, Terminal, SameCounts
  <2> QED BY <2>1 DEF Lives
<1>3. CASE Moves(j) \/ Ends(j)
  <2>1. Life!Rest(j) \/ Life!Stop(j)
    BY <1>1, <1>3 DEF Moves, Ends, Life!Rest, Life!Stop, Life!Same, PhaseOf, OwnerOf, Open, OpenStatuses, Statuses, Terminal, SameCounts
  <2> QED BY <2>1 DEF Lives
<1>4. CASE Claimed(j)
  <2>1. Life!Claim(j)
    BY <1>1, <1>4 DEF Claimed, Life!Claim, Life!Same, PhaseOf, OwnerOf, Open, OpenStatuses, Statuses, Terminal, SameCounts
  <2> QED BY <2>1 DEF Lives
<1>5. CASE Completes(j)
  <2>1. Life!Complete(j)
    BY <1>1, <1>5 DEF Completes, Life!Complete, Life!Same, PhaseOf, OwnerOf, Open, OpenStatuses, Statuses, Terminal, SameCounts
  <2> QED BY <2>1 DEF Lives
<1>6. CASE Fails(j)
  <2>1. Life!Fail(j)
    BY <1>1, <1>6 DEF Fails, Life!Fail, Life!Same, PhaseOf, OwnerOf, Open, OpenStatuses, Statuses, Terminal, SameCounts
  <2> QED BY <2>1 DEF Lives
<1>7. CASE Stalls(j)
  <2>1. Life!Rest(j) \/ Life!Stop(j)
    BY <1>1, <1>7 DEF Stalls, Life!Rest, Life!Stop, Life!Same, PhaseOf, OwnerOf, Open, OpenStatuses, Statuses, Terminal, SameCounts
  <2> QED BY <2>1 DEF Lives
<1>8. CASE Added(j)
  <2>1. Life!Submit(j)
    BY <1>1, <1>8 DEF Added, Life!Submit, Life!Same, PhaseOf, OwnerOf, Open, OpenStatuses, Statuses, Terminal, SameCounts
  <2> QED BY <2>1 DEF Lives
<1>9. CASE Retried(j)
  <2>1. Life!Revive(j)
    BY <1>1, <1>9 DEF Retried, Life!Revive, Life!Same, PhaseOf, OwnerOf, Open, OpenStatuses, Statuses, Terminal, SameCounts
  <2> QED BY <2>1 DEF Lives
<1>10. CASE Deferred(j)
  <2>1. Life!Rest(j) \/ Life!Revive(j)
    BY <1>1, <1>10 DEF Deferred, Life!Rest, Life!Revive, Life!Same, PhaseOf, OwnerOf, Open, OpenStatuses, Statuses, Terminal, SameCounts
  <2> QED BY <2>1 DEF Lives
<1>11. CASE Skipped(j)
  <2>1. Life!Rest(j) \/ Life!Stop(j)
    BY <1>1, <1>11 DEF Skipped, Life!Rest, Life!Stop, Life!Same, PhaseOf, OwnerOf, Open, OpenStatuses, Statuses, Terminal, SameCounts
  <2> QED BY <2>1 DEF Lives
<1>12. CASE Deleted(j)
  <2>1. Life!Delete(j)
    BY <1>1, <1>12 DEF Deleted, Life!Delete, Life!Same, PhaseOf, OwnerOf, Open, OpenStatuses, Statuses, Terminal, SameCounts
  <2> QED BY <2>1 DEF Lives
<1> QED BY <1>2, <1>3, <1>4, <1>5, <1>6, <1>7, <1>8, <1>9, <1>10, <1>11, <1>12 DEF RowStep

(* Stale handlers, late sweeps, crashes and operators included, the table  *)
(* is a queue of jobs that live as JobLife says: owned by their last       *)
(* claim, completed and failed by their owner alone, over when they end.   *)
THEOREM JobsLiveOnceHolds == Spec => JobsLiveOnce
<1>1. Init => Life!Init /\ UnusedUnlocked
  BY DEF Init, QueueInit, Life!Init, UnusedUnlocked, PhaseOf, OwnerOf, Open, OpenStatuses
<1>2. ASSUME TypeOK, Fencing, UnusedUnlocked, [Next]_vars
      PROVE  UnusedUnlocked' /\ Life!Next
  <2>1. \A i \in Jobs : RowStep(i)
    BY <1>2, EveryRowSteps DEF Fencing
  <2>2. \A i \in Jobs : Lives(i)
    BY <1>2, <2>1, RowStepLives DEF Fencing
  <2>3. touched \subseteq touched'
    BY <1>2, <2>1 DEF RowStep, TypeOK, QueueTypeOK
  <2> QED BY <1>2, <2>1, <2>2, <2>3, UnusedStep DEF Lives, Life!Next
<1>3. TypeOK /\ Fencing /\ UnusedUnlocked /\ [Next]_vars
         => UnusedUnlocked' /\ [Life!Next]_(Life!vars)
  BY <1>2
<1> QED BY <1>1, <1>3, TypeCorrect, FencingHolds, PTL DEF Spec, JobsLiveOnce, Life!Spec

=============================================================================
