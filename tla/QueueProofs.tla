----------------------------- MODULE QueueProofs -----------------------------
(***************************************************************************)
(* Lemmas about the job table (MinionQueue), for any set of jobs and any   *)
(* options: what its helpers return, and that every method keeps the types.*)
(* The proofs about the workers (MinionProofs) and about the subagent      *)
(* handler (SubagentProofs) rest on them.                                  *)
(***************************************************************************)
EXTENDS MinionQueue, FiniteSetTheorems, TLAPS

USE DEF links, counters, history

(* The column a status update of a whole set leaves in the table.          *)
LEMMA OverrideType ==
    ASSUME NEW f \in [Jobs -> Statuses], NEW S, NEW v \in Statuses
    PROVE  /\ Override(f, S, v) \in [Jobs -> Statuses]
           /\ \A i \in Jobs : Override(f, S, v)[i] = IF i \in S THEN v ELSE f[i]
BY DEF Override

(* The names of statuses used below are statuses.                          *)
LEMMA StatusNames ==
    /\ Terminal \subseteq Statuses /\ OpenStatuses \subseteq Statuses
    /\ {"removed", "absent"} \subseteq Statuses
    /\ {"completed", "failed", "dead", "cancelled"} \subseteq Statuses
    /\ {"waiting", "active", "delayed", "waiting-children", "paused"} \subseteq Statuses
BY DEF Statuses, Terminal, OpenStatuses

(* resolveParent moves rows from waiting-children to waiting, nothing else.*)
LEMMA ResolvedEffect ==
    ASSUME NEW f \in [Jobs -> Statuses], NEW g, NEW P
    PROVE  /\ Resolved(f, g, P) \in [Jobs -> Statuses]
           /\ \A i \in Jobs : \/ Resolved(f, g, P)[i] = f[i]
                              \/ f[i] = "waiting-children" /\ Resolved(f, g, P)[i] = "waiting"
BY DEF Resolved, Statuses, OpenStatuses

(* Giving up locks clears tokens, and touches no other deadline.           *)
LEMMA UnlockEffect ==
    ASSUME QueueTypeOK, NEW S, Unlock(S)
    PROVE  /\ token' \in [Jobs -> Nat]
           /\ late' \in [Jobs -> SUBSET Deadlines]
           /\ \A i \in Jobs : token'[i] = IF i \in S THEN 0 ELSE token[i]
BY DEF QueueTypeOK, Unlock, Override

(* child_done messages are well formed.                                    *)
LEMMA NotifiedType ==
    ASSUME QueueTypeOK, NEW f, NEW S \in SUBSET Jobs, NEW o \in Outcomes
    PROVE  Notified(f, S, o) \in [Jobs -> SUBSET (Jobs \X Outcomes)]
BY DEF QueueTypeOK, Notified

(* The fail_parent cascade and the other policies move a parent out of     *)
(* waiting-children, or leave it alone.                                    *)
LEMMA AfterChildFailedEffect ==
    ASSUME NEW f \in [Jobs -> Statuses], NEW g, NEW j \in Jobs
    PROVE  /\ AfterChildFailed(f, g, j) \in [Jobs -> Statuses]
           /\ \A i \in Jobs : \/ AfterChildFailed(f, g, j)[i] = f[i]
                              \/ /\ f[i] = "waiting-children"
                                 /\ AfterChildFailed(f, g, j)[i] \in {"waiting", "failed"}
BY ResolvedEffect DEF AfterChildFailed, Statuses, Terminal, OpenStatuses

-----------------------------------------------------------------------------
(* Types, one lemma per method of the queue.                               *)

(* cancelJob and the timeout sweeps: the statements before the commit.     *)
LEMMA EndBeginType ==
    ASSUME QueueTypeOK, NEW S \in SUBSET Jobs, NEW why \in {"timeout", "cancelled"},
           EndBegin(S, why)
    PROVE  QueueTypeOK'
<1> DEFINE P == ParentsOf(S) \ S
           waiting == {p \in P : status[p] = "waiting-children"}
           told == {p \in P : Open(p)}
           seen == OpenLinks(waiting, S)
           begun == [rows |-> S, why |-> why, told |-> told, asleep |-> waiting, seen |-> seen]
<1>1. waiting \in SUBSET Jobs /\ told \in SUBSET Jobs
  BY DEF ParentsOf
<1>2. seen \in SUBSET (Jobs \X Jobs)
  <2> HIDE DEF waiting
  <2> QED BY <1>1 DEF OpenLinks
<1>3. begun \in Ending
  <2> HIDE DEF waiting, told, seen
  <2> QED BY <1>1, <1>2 DEF Ending
<1>4. ending' = ending \cup {begun}
      /\ UNCHANGED <<status, links, token, late, counters, result, inbox, history>>
  BY DEF EndBegin
<1> HIDE DEF begun
<1> QED BY <1>3, <1>4 DEF QueueTypeOK

(* What an open transaction consists of.                                   *)
LEMMA EndingFields ==
    ASSUME QueueTypeOK, NEW e \in ending
    PROVE  /\ e.rows \in SUBSET Jobs /\ e.why \in {"timeout", "cancelled"}
           /\ e.told \in SUBSET Jobs /\ e.asleep \in SUBSET Jobs
           /\ EndOf(e.why) \in {"dead", "cancelled"} /\ e.why \in Outcomes
BY DEF QueueTypeOK, Ending, EndOf, Outcomes

(* What the commit makes visible, row by row.                              *)
LEMMA EndCommitEffect ==
    ASSUME QueueTypeOK, NEW e \in ending, EndCommit(e)
    PROVE  /\ status' \in [Jobs -> Statuses]
           /\ \A i \in Jobs :
                 status'[i] = IF i \in Woken(e) THEN "waiting"
                              ELSE IF i \in e.rows THEN EndOf(e.why) ELSE status[i]
           /\ \A i \in Jobs : token'[i] = IF i \in e.rows THEN 0 ELSE token[i]
           /\ \A i \in Woken(e) : status[i] = "waiting-children"
<1>1. Override(status, e.rows, EndOf(e.why)) \in [Jobs -> Statuses]
  BY EndingFields, OverrideType, StatusNames DEF QueueTypeOK
<1>2. status' = Override(Override(status, e.rows, EndOf(e.why)), Woken(e), "waiting")
  BY DEF EndCommit
<1>3. status' \in [Jobs -> Statuses]
  BY <1>1, <1>2, OverrideType, StatusNames
<1>4. \A i \in Jobs : token'[i] = IF i \in e.rows THEN 0 ELSE token[i]
  BY UnlockEffect DEF EndCommit
<1> QED BY <1>2, <1>3, <1>4 DEF Override, Woken

(* The commit.                                                             *)
LEMMA EndCommitType ==
    ASSUME QueueTypeOK, NEW e \in ending, EndCommit(e)
    PROVE  QueueTypeOK'
<1>1. status' \in [Jobs -> Statuses]
  BY EndCommitEffect
<1>2. inbox' \in [Jobs -> SUBSET (Jobs \X Outcomes)]
  <2>1. inbox' = Posted(e) /\ e.rows \in SUBSET Jobs /\ e.why \in Outcomes
    BY EndingFields DEF EndCommit
  <2> QED BY <2>1 DEF Posted, QueueTypeOK
<1>3. token' \in [Jobs -> Nat] /\ late' \in [Jobs -> SUBSET Deadlines]
  BY UnlockEffect DEF EndCommit
<1>4. misread' \subseteq Jobs
  BY DEF EndCommit, Misread, ParentsOf, QueueTypeOK
<1>5. ending' \subseteq Ending
  BY DEF EndCommit, QueueTypeOK
<1> QED BY <1>1, <1>2, <1>3, <1>4, <1>5 DEF EndCommit, QueueTypeOK

(* add                                                                     *)
LEMMA AddType ==
    ASSUME QueueTypeOK, NEW j \in Jobs, NEW p \in Jobs \cup {NoJob}, NEW o \in Options,
           NEW first \in {"waiting", "delayed"}, Add(j, p, o, first)
    PROVE  QueueTypeOK'
<1>1. status' \in [Jobs -> Statuses]
  BY DEF Add, QueueTypeOK, Statuses, OpenStatuses
<1>2. depth' \in [Jobs -> Nat]
  BY QueueAssumption DEF Add, QueueTypeOK
<1>3. opts' \in [Jobs -> JobOptions] /\ parent' \in [Jobs -> Jobs \cup {NoJob}]
  BY QueueAssumption DEF Add, QueueTypeOK
<1> QED BY <1>1, <1>2, <1>3 DEF Add, QueueTypeOK

(* claim                                                                   *)
LEMMA ClaimRowType ==
    ASSUME QueueTypeOK, NEW j \in Jobs, ClaimRow(j)
    PROVE  QueueTypeOK'
BY DEF ClaimRow, QueueTypeOK, Statuses, OpenStatuses

(* Deleting rows sets the parent_job_id of their children to NULL.         *)
LEMMA OrphanedType ==
    ASSUME NEW f \in [Jobs -> Jobs \cup {NoJob}], NEW gone
    PROVE  Orphaned(f, gone) \in [Jobs -> Jobs \cup {NoJob}]
BY DEF Orphaned

(* completeJob                                                             *)
LEMMA CompleteRowType ==
    ASSUME QueueTypeOK, NEW j \in Jobs, NEW t \in Nat, CompleteRow(j, t)
    PROVE  QueueTypeOK'
<1> DEFINE ended == Override(status, {j}, "completed")
           gone == IF opts[j].remove = "on_complete" THEN {j} ELSE {}
           told == Notified(ended, {j}, "complete")
<1>1. ended \in [Jobs -> Statuses]
  BY OverrideType, StatusNames DEF QueueTypeOK
<1>2. Resolved(ended, parent, ParentsOf({j})) \in [Jobs -> Statuses]
  BY <1>1, ResolvedEffect
<1>3. status' \in [Jobs -> Statuses]
  BY <1>2, OverrideType, StatusNames DEF CompleteRow
<1>4. told \in [Jobs -> SUBSET (Jobs \X Outcomes)]
  BY NotifiedType DEF Outcomes
<1>5. inbox' \in [Jobs -> SUBSET (Jobs \X Outcomes)]
  BY <1>4 DEF CompleteRow, Override
<1>6. token' \in [Jobs -> Nat] /\ late' \in [Jobs -> SUBSET Deadlines]
  BY UnlockEffect DEF CompleteRow
<1>7. parent' \in [Jobs -> Jobs \cup {NoJob}] /\ result' \in [Jobs -> Nat]
  BY OrphanedType DEF CompleteRow, QueueTypeOK
<1> QED BY <1>3, <1>5, <1>6, <1>7 DEF CompleteRow, QueueTypeOK

(* failJob, a retry                                                        *)
LEMMA DelayRowType ==
    ASSUME QueueTypeOK, NEW j \in Jobs, NEW t \in Nat, DelayRow(j, t)
    PROVE  QueueTypeOK'
BY DEF DelayRow, QueueTypeOK, Statuses, OpenStatuses

(* History: the children with a parent, next to it.                        *)
LEMMA LinksType ==
    ASSUME QueueTypeOK, NEW S \in SUBSET Jobs
    PROVE  LinksOf(S) \subseteq Jobs \X Jobs
<1>1. ASSUME NEW l \in LinksOf(S) PROVE l \in Jobs \X Jobs
  <2>1. PICK c \in S : parent[c] # NoJob /\ l = <<parent[c], c>>
    BY DEF LinksOf
  <2> QED BY <2>1 DEF QueueTypeOK
<1> QED BY <1>1

(* failJob, the end                                                        *)
LEMMA KillRowType ==
    ASSUME QueueTypeOK, NEW j \in Jobs, NEW t \in Nat, KillRow(j, t)
    PROVE  QueueTypeOK'
<1> DEFINE ended == Override(status, {j}, "dead")
           newParent == IF opts[j].policy = "remove_dep" THEN [parent EXCEPT ![j] = NoJob]
                                                         ELSE parent
           settled == AfterChildFailed(ended, newParent, j)
           gone == IF opts[j].remove = "on_fail" THEN {j} ELSE {}
           told == Notified(ended, {j}, "dead")
           failed == {p \in Jobs : settled[p] = "failed" /\ status[p] # "failed"}
<1>1. ended \in [Jobs -> Statuses]
  BY OverrideType, StatusNames DEF QueueTypeOK
<1>2. settled \in [Jobs -> Statuses]
  BY <1>1, AfterChildFailedEffect
<1>3. status' \in [Jobs -> Statuses]
  <2>1. status' = Override(settled, gone, "removed")
    BY DEF KillRow
  <2> HIDE DEF settled, gone
  <2> QED BY <1>2, <2>1, OverrideType, StatusNames
<1>4. told \in [Jobs -> SUBSET (Jobs \X Outcomes)]
  BY NotifiedType DEF Outcomes
<1>5. inbox' \in [Jobs -> SUBSET (Jobs \X Outcomes)]
  BY <1>4 DEF KillRow, Override
<1>6. token' \in [Jobs -> Nat] /\ late' \in [Jobs -> SUBSET Deadlines]
  BY UnlockEffect DEF KillRow
<1>7. newParent \in [Jobs -> Jobs \cup {NoJob}]
  BY DEF QueueTypeOK
<1>8. parent' \in [Jobs -> Jobs \cup {NoJob}]
  BY <1>7, OrphanedType DEF KillRow
<1>9. made' \in [Jobs -> Nat]
  BY DEF KillRow, QueueTypeOK
<1>10. silent' \subseteq Jobs \X Jobs
  BY LinksType DEF KillRow, QueueTypeOK
<1>11. UNCHANGED <<depth, opts, started, stalls, result, ending, touched, misread>>
  BY DEF KillRow
<1> QED BY <1>3, <1>5, <1>6, <1>8, <1>9, <1>10, <1>11 DEF QueueTypeOK

(* renewLock                                                               *)
LEMMA RenewRowType ==
    ASSUME QueueTypeOK, NEW j \in Jobs, NEW t \in Nat, RenewRow(j, t)
    PROVE  QueueTypeOK'
BY DEF RenewRow, QueueTypeOK

(* A deadline passes                                                       *)
LEMMA PassesType ==
    ASSUME QueueTypeOK, NEW j \in Jobs, NEW d \in Deadlines, Passes(j, d)
    PROVE  QueueTypeOK'
<1>1. /\ late' = [late EXCEPT ![j] = @ \cup {d}]
      /\ UNCHANGED <<status, links, token, counters, result, inbox, ending, history>>
  BY DEF Passes
<1> QED BY <1>1 DEF QueueTypeOK

(* promoteDelayed                                                          *)
LEMMA PromoteDelayedType ==
    ASSUME QueueTypeOK, PromoteDelayed
    PROVE  QueueTypeOK'
<1>1. PICK S \in SUBSET Jobs :
        /\ status' = Override(status, S, "waiting")
        /\ token' = Override(token, S, 0)
        /\ late' = [j \in Jobs |-> IF j \in S THEN late[j] \ {"lock", "delay"} ELSE late[j]]
        /\ UNCHANGED <<links, counters, result, inbox, ending, history>>
  BY DEF PromoteDelayed
<1>2. status' \in [Jobs -> Statuses]
  BY <1>1, OverrideType, StatusNames DEF QueueTypeOK
<1>3. token' \in [Jobs -> Nat]
  BY <1>1 DEF QueueTypeOK, Override
<1> QED BY <1>1, <1>2, <1>3 DEF QueueTypeOK

(* handleStalled                                                           *)
LEMMA HandleStalledType ==
    ASSUME QueueTypeOK, HandleStalled
    PROVE  QueueTypeOK'
<1>1. PICK S \in SUBSET Stalled :
        LET dead == {j \in S : OutOfStalls(j)}
        IN  /\ status' = Override(Override(status, S, "waiting"), dead, "dead")
            /\ stalls' = [j \in Jobs |-> IF j \in S THEN stalls[j] + 1 ELSE stalls[j]]
            /\ silent' = silent \cup LinksOf(dead)
            /\ Unlock(S)
            /\ UNCHANGED <<links, started, made, result, inbox, ending, touched, misread>>
  BY DEF HandleStalled
<1> DEFINE dead == {j \in S : OutOfStalls(j)}
<1>2. S \subseteq Jobs
  BY DEF Stalled
<1>3. Override(status, S, "waiting") \in [Jobs -> Statuses]
  BY OverrideType, StatusNames DEF QueueTypeOK
<1>4. status' \in [Jobs -> Statuses]
  BY <1>1, <1>3, OverrideType, StatusNames
<1>5. token' \in [Jobs -> Nat] /\ late' \in [Jobs -> SUBSET Deadlines]
  BY <1>1, UnlockEffect
<1>6. silent' \subseteq Jobs \X Jobs
  <2>1. LinksOf(dead) \subseteq Jobs \X Jobs
    BY <1>2, LinksType
  <2> QED BY <1>1, <2>1 DEF QueueTypeOK
<1>7. stalls' \in [Jobs -> Nat]
  BY <1>1 DEF QueueTypeOK
<1>8. UNCHANGED <<links, started, made, result, inbox, ending, touched, misread>>
  BY <1>1
<1> QED BY <1>4, <1>5, <1>6, <1>7, <1>8 DEF QueueTypeOK

(* handleTimeouts, handleWallClockTimeouts, cancelJob                      *)
LEMMA EndingsType ==
    ASSUME QueueTypeOK,
           \/ HandleTimeouts \/ HandleWallClockTimeouts
           \/ \E j \in Jobs : CancelJob(j)
    PROVE  QueueTypeOK'
<1>1. CASE HandleTimeouts
  BY <1>1, EndBeginType DEF HandleTimeouts, TimedOut
<1>2. CASE HandleWallClockTimeouts
  BY <1>2, EndBeginType DEF HandleWallClockTimeouts, Overdue
<1>3. ASSUME NEW j \in Jobs, CancelJob(j) PROVE QueueTypeOK'
  <2>1. Cancellable(j) \in SUBSET Jobs
    BY DEF Cancellable
  <2> QED BY <1>3, <2>1, EndBeginType DEF CancelJob
<1> QED BY <1>1, <1>2, <1>3

(* retryJob, pauseJob, resumeJob, removeJob                                *)
LEMMA OperatorType ==
    ASSUME QueueTypeOK, NEW j \in Jobs,
           RetryJob(j) \/ PauseJob(j) \/ ResumeJob(j) \/ RemoveJob(j)
    PROVE  QueueTypeOK'
<1>1. CASE RetryJob(j)
  BY <1>1 DEF RetryJob, QueueTypeOK, Statuses, OpenStatuses
<1>2. CASE PauseJob(j)
  <2>1. token' \in [Jobs -> Nat] /\ late' \in [Jobs -> SUBSET Deadlines]
    BY <1>2, UnlockEffect DEF PauseJob
  <2> QED BY <1>2, <2>1 DEF PauseJob, QueueTypeOK, Statuses, OpenStatuses
<1>3. CASE ResumeJob(j)
  <2>1. token' \in [Jobs -> Nat] /\ late' \in [Jobs -> SUBSET Deadlines]
    BY <1>3, UnlockEffect DEF ResumeJob
  <2> QED BY <1>3, <2>1 DEF ResumeJob, QueueTypeOK, Statuses, OpenStatuses
<1>4. CASE RemoveJob(j)
  BY <1>4, OrphanedType DEF RemoveJob, QueueTypeOK, Statuses
<1> QED BY <1>1, <1>2, <1>3, <1>4

=============================================================================
