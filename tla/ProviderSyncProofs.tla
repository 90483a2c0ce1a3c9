--------------------------- MODULE ProviderSyncProofs ---------------------------
(***************************************************************************)
(* Proofs about provider syncs and the review of what they bring in        *)
(* (ProviderSync, TaskRun): types, the cursor, the news, and the reviews,  *)
(* for any number of requests, workers and operators.                      *)
(***************************************************************************)
EXTENDS ProviderSync, TLAPS

ReqType == [at : ReqPhases, from : Cursors, answer : [items : SUBSET Mail, next : Cursors]]
ReplayType == [at : ReplayPhases, run : Runs] \union {NoReplay}

TaskTypeOK ==
    /\ run \in [Runs -> RunStatuses] /\ task \in [Runs -> TaskStatuses]
    /\ reviews \in [Runs -> Nat] /\ exec \in [Runs -> ExecPhases]
    /\ replay \in [Operators -> ReplayType]
    /\ overlap \subseteq Runs

LEMMA NoReplayIsIdle ==
    /\ NoReplay.at = "idle"
    /\ \A x \in ReplayType : x # NoReplay => x.at \in ReplayPhases /\ x.run \in Runs
    /\ \A x \in ReplayType : x.at = "idle" <=> x = NoReplay
BY DEF NoReplay, ReplayType, ReplayPhases

(* The executor and the replays keep their types.                          *)
LEMMA ExecTypes ==
    ASSUME TaskTypeOK, NEW r \in Runs, ExecStep(r) PROVE TaskTypeOK'
<1> USE DEF TaskTypeOK, RunStatuses, TaskStatuses, ExecPhases
<1>1. CASE ReadTask(r)
    BY <1>1 DEF ReadTask, Meets
<1>2. CASE ClaimTask(r)
    BY <1>2 DEF ClaimTask
<1>3. CASE FinishTask(r)
    BY <1>3 DEF FinishTask, Review
<1>4. CASE FailTask(r) \/ DropTask(r)
    BY <1>4 DEF FailTask, DropTask
<1>5. QED BY <1>1, <1>2, <1>3, <1>4 DEF ExecStep

LEMMA ReplayTypes ==
    ASSUME TaskTypeOK, NEW o \in Operators, ReplayStep(o) PROVE TaskTypeOK'
<1> USE DEF TaskTypeOK
<1>0. replay[o] \in ReplayType /\ NoReplay \in ReplayType
    BY DEF ReplayType
<1>1. ASSUME NEW r \in Replayable, ReadRun(o, r) PROVE TaskTypeOK'
    <2>1. [at |-> "read", run |-> r] \in ReplayType /\ r \in Runs
        BY RunAssumption DEF ReplayType, ReplayPhases
    <2>2. QED BY <1>1, <2>1 DEF ReadRun, Meets
<1>2. CASE LockRun(o)
    <2>1. replay[o] \in [at : ReplayPhases, run : Runs]
        BY <1>0, <1>2 DEF LockRun, ReplayType, NoReplay
    <2>2. [replay[o] EXCEPT !.at = "locked"] \in ReplayType
        BY <2>1 DEF ReplayType, ReplayPhases
    <2>3. replay' = [replay EXCEPT ![o] = [replay[o] EXCEPT !.at = "locked"]]
        BY <1>2 DEF LockRun
    <2>4. replay' \in [Operators -> ReplayType]
        BY <2>2, <2>3
    <2>5. QED BY <1>2, <2>4 DEF LockRun
<1>3. CASE CommitReplay(o)
    <2>1. replay[o].run \in Runs
        BY <1>0, <1>3, NoReplayIsIdle DEF CommitReplay
    <2>2. run' \in [Runs -> RunStatuses] /\ task' \in [Runs -> TaskStatuses]
        BY <1>3 DEF CommitReplay, ReplayedTask, RunStatuses, TaskStatuses
    <2>3. reviews' \in [Runs -> Nat]
        BY <1>3, <2>1 DEF CommitReplay, Review
    <2>4. replay' \in [Operators -> ReplayType]
        BY <1>0, <1>3 DEF CommitReplay
    <2>5. QED BY <1>3, <2>2, <2>3, <2>4 DEF CommitReplay
<1>4. CASE AbandonReplay(o)
    BY <1>0, <1>4 DEF AbandonReplay
<1>5. QED BY <1>1, <1>2, <1>3, <1>4 DEF ReplayStep

(* The requests keep their types: an answer holds mail that was sent.      *)
LEMMA AnswerTypes ==
    ASSUME TypeOK, NEW r \in Requests
    PROVE  Asked(r) \subseteq Mail /\ Newest(Asked(r)) \subseteq Asked(r)
BY SyncAssumption DEF TypeOK, Asked, Newest, Mail

LEMMA SyncTypes ==
    ASSUME TypeOK, NEW r \in Requests, SyncStep(r) \/ ReadConnection(r) PROVE TypeOK'
<1>0. TaskTypeOK /\ NoCursor \in Cursors /\ req[r] \in ReqType
    BY DEF TypeOK, TaskTypeOK, Cursors, ReplayType, ReqType
<1> DEFINE Rest ==
        /\ conn \in [usable : BOOLEAN, cursor : Cursors]
        /\ rowLock \in Requests \union {NoOne}
        /\ sent \in 0..MaxMail
        /\ stored \subseteq Mail /\ missed \subseteq Mail
        /\ given \in [Runs -> SUBSET Mail]
        /\ on \in [Requests -> Workers]
<1>1. TypeOK' <=> TaskTypeOK' /\ Rest' /\ req' \in [Requests -> ReqType]
    BY DEF TypeOK, TaskTypeOK, ReplayType, ReqType
<1>2. Rest /\ req \in [Requests -> ReqType]
    BY DEF TypeOK, ReqType
<1>3. ASSUME UNCHANGED taskVars PROVE TaskTypeOK'
    BY <1>0, <1>3 DEF TaskTypeOK, taskVars
<1>4. ASSUME NEW x \in ReqType, req' = [req EXCEPT ![r] = x] PROVE req' \in [Requests -> ReqType]
    BY <1>2, <1>4
<1>5. ASSUME NEW phase \in ReqPhases, Goes(r, phase) \/ Leaves(r, phase)
      PROVE  req' \in [Requests -> ReqType]
    <2>1. [req[r] EXCEPT !.at = phase] \in ReqType /\ Spent(phase) \in ReqType
        BY <1>0 DEF ReqType, Spent, Fresh, NoAnswer
    <2>2. QED BY <2>1, <1>4, <1>5 DEF Goes, Leaves
<1>6. CASE ReadConnection(r)
    BY <1>1, <1>2, <1>3, <1>5, <1>6 DEF ReadConnection, ReqPhases
<1>7. CASE ReadCheckpoint(r)
    <2>1. [req[r] EXCEPT !.at = "flush", !.from = conn.cursor] \in ReqType
        BY <1>0, <1>2 DEF ReqType, ReqPhases
    <2>2. req' = [req EXCEPT ![r] = [req[r] EXCEPT !.at = "flush", !.from = conn.cursor]]
        BY <1>7 DEF ReadCheckpoint
    <2>3. QED BY <1>1, <1>2, <1>3, <1>4, <1>7, <2>1, <2>2 DEF ReadCheckpoint
<1>8. CASE Flush(r)
    BY <1>1, <1>2, <1>3, <1>5, <1>8 DEF Flush, ReqPhases
<1>9. CASE Answered(r)
    <2>1. PICK next \in {sent, NoCursor} :
              req' = [req EXCEPT ![r].at = "answered",
                        ![r].answer = [items |-> Newest(Asked(r)), next |-> next]]
        BY <1>9 DEF Answered
    <2>2. next \in Cursors
        BY <1>0, <1>2, SyncAssumption DEF Cursors
    <2>3. [req[r] EXCEPT !.at = "answered",
             !.answer = [items |-> Newest(Asked(r)), next |-> next]] \in ReqType
        BY <1>0, <2>2, AnswerTypes DEF ReqType, ReqPhases
    <2>4. req' \in [Requests -> ReqType]
        BY <1>4, <2>1, <2>3
    <2>5. QED BY <1>1, <1>2, <1>3, <1>9, <2>4, AnswerTypes DEF Answered
<1>10. CASE Refused(r)
    <2>1. [req[r] EXCEPT !.at = "answered", !.answer = NoAnswer] \in ReqType
        BY <1>0 DEF ReqType, ReqPhases, NoAnswer
    <2>2. req' = [req EXCEPT ![r] = [req[r] EXCEPT !.at = "answered", !.answer = NoAnswer]]
        BY <1>10 DEF Refused
    <2>3. QED BY <1>1, <1>2, <1>3, <1>4, <1>10, <2>1, <2>2 DEF Refused
<1>11. CASE Store(r)
    <2>1. req' \in [Requests -> ReqType]
        BY <1>5, <1>11 DEF Store, ReqPhases
    <2>2. TaskTypeOK'
        BY <1>0, <1>11 DEF Store, CreateRun, TaskTypeOK, RunStatuses, TaskStatuses
    <2>3. req[r].answer.items \subseteq Mail /\ req[r].answer.next \in Cursors
        BY <1>0 DEF ReqType
    <2>4. Rest'
        BY <1>2, <1>11, <2>3 DEF Store, Advance, New
    <2>5. QED BY <1>1, <2>1, <2>2, <2>4
<1>12. CASE Raise(r)
    BY <1>1, <1>2, <1>3, <1>5, <1>12 DEF Raise, ReqPhases
<1>13. CASE Schedule(r)
    <2>1. req' \in [Requests -> ReqType]
        BY <1>5, <1>13 DEF Schedule, ReqPhases
    <2>2. TaskTypeOK'
        BY <1>0, <1>13 DEF Schedule, ScheduleTask, TaskTypeOK, ExecPhases
    <2>3. QED BY <1>1, <1>2, <1>13, <2>1, <2>2 DEF Schedule
<1>14. QED
    BY <1>6, <1>7, <1>8, <1>9, <1>10, <1>11, <1>12, <1>13 DEF SyncStep

(* The environment and the executor leave the types alone.                 *)
LEMMA TypesStep == TypeOK /\ [Next]_vars => TypeOK'
<1> SUFFICES ASSUME TypeOK, [Next]_vars PROVE TypeOK'
    OBVIOUS
<1>0. TaskTypeOK
    BY DEF TypeOK, TaskTypeOK, ReplayType
<1>1. ASSUME TaskTypeOK', UNCHANGED syncVars PROVE TypeOK'
    BY <1>1 DEF TypeOK, TaskTypeOK, ReplayType, syncVars
<1>2. ASSUME NEW r \in Requests, ReadConnection(r) \/ SyncStep(r) PROVE TypeOK'
    BY <1>2, SyncTypes
<1>3. ASSUME NEW r \in Requests, Execute(r) PROVE TypeOK'
    BY <1>0, <1>1, <1>3, ExecTypes DEF Execute, Requests
<1>4. ASSUME NEW o \in Operators, Replay(o) PROVE TypeOK'
    BY <1>0, <1>1, <1>4, ReplayTypes DEF Replay
<1>5. ASSUME UNCHANGED taskVars PROVE TaskTypeOK'
    BY <1>0, <1>5 DEF TaskTypeOK, taskVars
<1>6. CASE MailArrives
    BY <1>6, SyncAssumption DEF MailArrives, TypeOK, taskVars
<1>7. CASE Callback
    BY <1>7 DEF Callback, TypeOK, taskVars
<1>8. ASSUME NEW w \in Workers, Crash(w) PROVE TypeOK'
    <2>1. exec' \in [Runs -> ExecPhases]
        BY <1>0, <1>8 DEF Crash, TaskTypeOK, ExecPhases
    <2>2. \A r \in Requests : req[r] \in ReqType /\ Spent("ended") \in ReqType
        BY DEF TypeOK, ReqType, Spent, Fresh, NoAnswer, Cursors, ReqPhases
    <2>3. req' \in [Requests -> ReqType]
        BY <1>8, <2>2 DEF Crash
    <2>4. rowLock' \in Requests \union {NoOne}
        BY <1>8 DEF Crash, AfterCrash, TypeOK
    <2>5. QED BY <1>8, <2>1, <2>3, <2>4 DEF Crash, TypeOK, ReqType
<1>9. CASE UNCHANGED vars
    BY <1>9 DEF vars, TypeOK, taskVars, syncVars
<1>10. QED BY <1>2, <1>3, <1>4, <1>6, <1>7, <1>8, <1>9 DEF Next

LEMMA TypesInit == Init => TypeOK
<1> SUFFICES ASSUME Init PROVE TypeOK
    OBVIOUS
<1>1. Fresh \in [at : ReqPhases, from : Cursors, answer : [items : SUBSET Mail, next : Cursors]]
    BY DEF Fresh, NoAnswer, Cursors, ReqPhases
<1>2. TaskTypeOK
    BY DEF Init, TaskInit, TaskTypeOK, RunStatuses, TaskStatuses, ExecPhases, ReplayType
<1>3. conn \in [usable : BOOLEAN, cursor : Cursors] /\ on \in [Requests -> Workers]
    BY SyncAssumption DEF Init, Cursors
<1>4. QED
    BY <1>1, <1>2, <1>3, SyncAssumption DEF Init, TypeOK, TaskTypeOK, ReplayType, Requests

(* The variables keep their types.                                         *)
THEOREM SyncTypeCorrect == Spec => []TypeOK
BY TypesInit, TypesStep, PTL DEF Spec

-----------------------------------------------------------------------------
(* The cursor and the news.                                                *)

(* The mail up to cursor c has been dealt with.                            *)
Covered(c) == c # NoCursor => 1..c \subseteq stored \union missed

(* What a request knows: the checkpoint it read is covered, and so is the  *)
(* cursor of its answer, once the items of the answer are stored.          *)
Knows(r) ==
    /\ Covered(req[r].from)
    /\ LET a == req[r].answer IN
       a.next # NoCursor => 1..a.next \subseteq stored \union missed \union a.items
    /\ req[r].at \notin {"stored", "ended"} => given[r] = {}

MailInv ==
    /\ CursorCovers
    /\ NewsOnce
    /\ \A r \in Requests : Knows(r)

(* More stored, more missed: what is known stays true.                     *)
LEMMA KnownStaysKnown ==
    ASSUME NEW r \in Requests, Knows(r),
           stored \subseteq stored', missed \subseteq missed', given'[r] = given[r],
           req'[r] = req[r]
    PROVE  Knows(r)'
BY DEF Knows, Covered

(* A request that ended knows nothing, and that is covered.                *)
LEMMA SpentKnows ==
    ASSUME NEW r \in Requests, NEW phase \in {"stored", "ended"}, req'[r] = Spent(phase)
    PROVE  Knows(r)'
<1>1. req'[r].from = NoCursor /\ req'[r].answer.next = NoCursor /\ req'[r].at = phase
    BY DEF Spent, Fresh, NoAnswer
<1>2. QED BY <1>1 DEF Knows, Covered

LEMMA MailUntouched ==
    ASSUME TypeOK, MailInv,
           conn'.cursor = conn.cursor, stored' = stored, given' = given, missed' = missed,
           \A r \in Requests : req'[r] = req[r] \/ req'[r] = Spent("ended")
    PROVE  MailInv'
<1>1. CursorCovers' /\ NewsOnce'
    BY DEF MailInv, CursorCovers, NewsOnce
<1>2. ASSUME NEW r \in Requests PROVE Knows(r)'
    <2>1. CASE req'[r] = req[r]
        BY <2>1, KnownStaysKnown DEF MailInv
    <2>2. CASE req'[r] = Spent("ended")
        BY <2>2, SpentKnows
    <2>3. QED BY <2>1, <2>2
<1>3. QED BY <1>1, <1>2 DEF MailInv

(* The steps of a request r: the others know what they knew, so what is    *)
(* left to show is what r knows.                                           *)
LEMMA OthersKnow ==
    ASSUME MailInv, NEW r \in Requests, NEW q \in Requests \ {r},
           stored \subseteq stored', missed \subseteq missed', given'[q] = given[q],
           req'[q] = req[q]
    PROVE  Knows(q)'
BY KnownStaysKnown DEF MailInv

LEMMA StoreKeepsMail ==
    ASSUME TypeOK, MailInv, NEW r \in Requests, Store(r) PROVE MailInv'
<1>1. /\ stored' = stored \union req[r].answer.items
      /\ given' = [given EXCEPT ![r] = req[r].answer.items \ stored]
      /\ conn'.cursor = (IF req[r].answer.next = NoCursor THEN conn.cursor ELSE req[r].answer.next)
      /\ missed' = missed
      /\ req' = [req EXCEPT ![r] = Spent("stored")]
      /\ req[r].at = "answered"
    BY DEF Store, Advance, New, Leaves
<1>2. given[r] = {} /\ Knows(r)
    BY <1>1 DEF MailInv, Knows
<1>3. CursorCovers'
    BY <1>1, <1>2 DEF MailInv, CursorCovers, Knows
<1>4. \A q \in Runs : given'[q] = IF q = r THEN req[r].answer.items \ stored ELSE given[q]
    BY <1>1 DEF TypeOK, Requests
<1>5. \A q \in Runs : given[q] \subseteq stored
    BY DEF MailInv, NewsOnce
<1>6. NewsOnce'
    <2>1. \A q, s \in Runs : q # s => given'[q] \intersect given'[s] = {}
        BY <1>4, <1>5 DEF MailInv, NewsOnce
    <2>2. stored' = UNION {given'[q] : q \in Runs}
        <3>1. stored = UNION {given[q] : q \in Runs} /\ r \in Runs
            BY DEF MailInv, NewsOnce, Requests
        <3>2. ASSUME NEW i \in stored' PROVE \E q \in Runs : i \in given'[q]
            BY <1>1, <1>2, <1>4, <3>1
        <3>3. ASSUME NEW q \in Runs, NEW i \in given'[q] PROVE i \in stored'
            BY <1>1, <1>4, <1>5
        <3>4. QED BY <3>2, <3>3
    <2>3. QED BY <2>1, <2>2 DEF NewsOnce
<1>7. ASSUME NEW q \in Requests PROVE Knows(q)'
    <2>1. CASE q # r
        <3>1. req'[q] = req[q] /\ given'[q] = given[q]
            BY <1>1, <1>4, <2>1 DEF TypeOK, Requests
        <3>2. QED BY <1>1, <2>1, <3>1, OthersKnow
    <2>2. CASE q = r
        <3>1. req'[r] = Spent("stored")
            BY <1>1 DEF TypeOK
        <3>2. QED BY <2>2, <3>1, SpentKnows
    <2>3. QED BY <2>1, <2>2
<1>8. QED BY <1>3, <1>6, <1>7 DEF MailInv

LEMMA RequestKeepsMail ==
    ASSUME TypeOK, MailInv, NEW r \in Requests, ReadConnection(r) \/ SyncStep(r)
    PROVE  MailInv'
<1> DEFINE Same ==
        /\ conn'.cursor = conn.cursor /\ stored' = stored /\ given' = given
        /\ missed \subseteq missed'
        /\ \A q \in Requests \ {r} : req'[q] = req[q]
<1>1. ASSUME Same, Knows(r)' PROVE MailInv'
    <2>1. CursorCovers' /\ NewsOnce'
        BY <1>1 DEF MailInv, CursorCovers, NewsOnce
    <2>2. ASSUME NEW q \in Requests PROVE Knows(q)'
        BY <1>1, OthersKnow
    <2>3. QED BY <2>1, <2>2 DEF MailInv
<1>2. req[r] \in ReqType /\ Knows(r) /\ req \in [Requests -> ReqType]
    BY DEF TypeOK, ReqType, MailInv
<1>3. ASSUME NEW phase, Goes(r, phase), req[r].at \notin {"stored", "ended"},
             stored' = stored, missed' = missed, given' = given
      PROVE  Knows(r)'
    <2>1. req'[r].from = req[r].from /\ req'[r].answer = req[r].answer
        BY <1>2, <1>3 DEF Goes, ReqType
    <2>2. QED BY <1>2, <1>3, <2>1 DEF Knows, Covered
<1>4. CASE ReadConnection(r)
    BY <1>1, <1>2, <1>3, <1>4 DEF ReadConnection, Goes
<1>5. CASE ReadCheckpoint(r)
    <2>1. Same
        BY <1>2, <1>5 DEF ReadCheckpoint
    <2>2. /\ req'[r].from = conn.cursor /\ req'[r].answer = req[r].answer
          /\ req[r].at = "read"
        BY <1>2, <1>5 DEF ReadCheckpoint, ReqType
    <2>3. Knows(r)'
        BY <1>2, <2>1, <2>2, <1>5 DEF ReadCheckpoint, Knows, Covered, MailInv, CursorCovers
    <2>4. QED BY <1>1, <2>1, <2>3
<1>6. CASE Flush(r)
    BY <1>1, <1>2, <1>3, <1>6 DEF Flush, Goes
<1>7. CASE Answered(r)
    <2>1. PICK next \in {sent, NoCursor} :
              req' = [req EXCEPT ![r].at = "answered",
                        ![r].answer = [items |-> Newest(Asked(r)), next |-> next]]
        BY <1>7 DEF Answered
    <2>2. /\ req'[r].from = req[r].from /\ req'[r].answer.next = next
          /\ req'[r].answer.items = Newest(Asked(r)) /\ req[r].at = "away"
        BY <1>2, <1>7, <2>1 DEF Answered, ReqType
    <2>3. Same /\ missed' = missed \union (Asked(r) \ Newest(Asked(r)))
        BY <1>2, <1>7, <2>1 DEF Answered
    <2>4. ASSUME NEW i \in 1..sent, i \notin Asked(r)
          PROVE  i \in stored \union missed
        <3>1. req[r].from # NoCursor /\ ~(i > req[r].from) /\ req[r].from \in Nat
            BY <1>2, <2>4, SyncAssumption DEF Asked, ReqType, Cursors
        <3>2. i \in 1..req[r].from
            BY <3>1, SyncAssumption DEF TypeOK
        <3>3. QED BY <1>2, <3>1, <3>2 DEF Knows, Covered
    <2>5. 1..sent \subseteq stored \union missed' \union Newest(Asked(r))
        BY <2>3, <2>4
    <2>6. Knows(r)'
        BY <1>2, <2>2, <2>3, <2>5, <2>1 DEF Knows, Covered
    <2>7. QED BY <1>1, <2>3, <2>6
<1>8. CASE Refused(r)
    <2>1. Same
        BY <1>2, <1>8 DEF Refused
    <2>2. /\ req'[r].from = req[r].from /\ req'[r].answer = NoAnswer
          /\ req[r].at = "away"
        BY <1>2, <1>8 DEF Refused, ReqType
    <2>3. Knows(r)'
        BY <1>2, <2>1, <2>2, <1>8 DEF Refused, Knows, Covered, NoAnswer
    <2>4. QED BY <1>1, <2>1, <2>3
<1>9. CASE Store(r)
    BY <1>9, StoreKeepsMail
<1>10. CASE Raise(r)
    <2>1. Same /\ req'[r] = Spent("ended")
        BY <1>2, <1>10 DEF Raise, Leaves
    <2>2. QED BY <1>1, <2>1, SpentKnows
<1>11. CASE Schedule(r)
    <2>1. Same /\ Goes(r, "ended")
        BY <1>2, <1>11 DEF Schedule, Goes
    <2>2. ASSUME Goes(r, "ended") PROVE Knows(r)'
        <3>1. req'[r].from = req[r].from /\ req'[r].answer = req[r].answer /\ req'[r].at = "ended"
            BY <1>2, <2>2 DEF Goes, ReqType
        <3>2. QED BY <1>2, <1>11, <3>1 DEF Schedule, Knows, Covered
    <2>3. QED BY <1>1, <2>1, <2>2
<1>12. QED
    BY <1>4, <1>5, <1>6, <1>7, <1>8, <1>9, <1>10, <1>11 DEF SyncStep

LEMMA MailStep == TypeOK /\ MailInv /\ [Next]_vars => MailInv'
<1> SUFFICES ASSUME TypeOK, MailInv, [Next]_vars PROVE MailInv'
    OBVIOUS
<1>1. ASSUME NEW r \in Requests, ReadConnection(r) \/ SyncStep(r) PROVE MailInv'
    BY <1>1, RequestKeepsMail
<1>2. ASSUME UNCHANGED syncVars PROVE MailInv'
    BY <1>2, MailUntouched DEF syncVars
<1>3. CASE MailArrives \/ Callback
    <2>1. /\ conn'.cursor = conn.cursor /\ stored' = stored /\ given' = given
          /\ missed' = missed /\ req' = req
        BY <1>3 DEF MailArrives, Callback, TypeOK
    <2>2. QED BY <2>1, MailUntouched
<1>4. ASSUME NEW w \in Workers, Crash(w) PROVE MailInv'
    BY <1>4, MailUntouched DEF Crash
<1>5. QED BY <1>1, <1>2, <1>3, <1>4 DEF Next, Execute, Replay, vars

LEMMA MailInit == Init => MailInv
<1> SUFFICES ASSUME Init PROVE MailInv
    OBVIOUS
<1>1. CursorCovers /\ NewsOnce
    BY DEF Init, CursorCovers, NewsOnce
<1>2. ASSUME NEW r \in Requests PROVE Knows(r)
    <2>1. req[r].from = NoCursor /\ req[r].answer.next = NoCursor /\ given[r] = {}
        BY DEF Init, Fresh, NoAnswer, Requests
    <2>2. QED BY <2>1 DEF Knows, Covered
<1>3. QED BY <1>1, <1>2 DEF MailInv

(* No mail is lost behind the cursor.                                      *)
THEOREM CursorIsCovered == Spec => []CursorCovers
<1>1. MailInv => CursorCovers
    BY DEF MailInv
<1>2. QED BY <1>1, TypesInit, TypesStep, MailInit, MailStep, PTL DEF Spec

(* Every ingested mail is news to exactly one run.                         *)
THEOREM NewsIsGivenOnce == Spec => []NewsOnce
<1>1. MailInv => NewsOnce
    BY DEF MailInv
<1>2. QED BY <1>1, TypesInit, TypesStep, MailInit, MailStep, PTL DEF Spec


-----------------------------------------------------------------------------
(* The reviews.                                                            *)

(* The executor is between its read of the task and its last commit.       *)
Dispatching(r) == exec[r] \in {"read", "claimed"}

(* Where a run is in its life: it exists once its request has stored it,   *)
(* and nobody works on it before.                                          *)
LifeOK(r) ==
    /\ req[r].at \notin {"stored", "ended"} => run[r] = "absent"
    /\ req[r].at = "stored" => run[r] # "absent"
    /\ exec[r] # "idle" \/ Replaying(r) # {} => run[r] # "absent"

(* A run whose workers never overlapped: at most one of them is at work,   *)
(* it works on a run without a review, and a queued task has none either.  *)
AloneOK(r) ==
    /\ Dispatching(r) => Replaying(r) = {}
    /\ \A a, b \in Replaying(r) : a = b
    /\ Dispatching(r) \/ Replaying(r) # {} => reviews[r] = 0
    /\ task[r] \in {"queued", "retrying"} => run[r] # "completed"
    /\ reviews[r] <= 1

RunOK(r) ==
    /\ run[r] = "completed" <=> reviews[r] > 0
    /\ task[r] = "completed" => run[r] = "completed"
    /\ LifeOK(r)
    /\ r \notin overlap => AloneOK(r)

ReviewInv == \A r \in Runs : RunOK(r)

(* A run nobody worked on in a step: workers may have left, and its        *)
(* request may have moved on.                                              *)
LEMMA RunLeftAlone ==
    ASSUME NEW r \in Runs, RunOK(r), run'[r] = run[r], task'[r] = task[r],
           reviews'[r] = reviews[r], exec'[r] \in {exec[r], "idle"},
           Replaying(r)' \subseteq Replaying(r),
           r \notin overlap' => r \notin overlap,
           \/ req'[r].at \in {req[r].at, "ended"}
           \/ req[r].at \notin {"stored", "ended"} /\ req'[r].at \notin {"stored", "ended"}
    PROVE  RunOK(r)'
<1>1. LifeOK(r)'
    BY DEF RunOK, LifeOK
<1>2. ASSUME r \notin overlap' PROVE AloneOK(r)'
    <2>1. Dispatching(r)' => Dispatching(r)
        BY DEF Dispatching
    <2>2. QED BY <1>2, <2>1 DEF RunOK, AloneOK
<1>3. QED BY <1>1, <1>2 DEF RunOK

LEMMA ReplayingSame ==
    ASSUME NEW r \in Runs, replay' = replay PROVE Replaying(r)' = Replaying(r)
BY DEF Replaying

(* The executor's steps.                                                   *)
LEMMA ExecKeepsReviews ==
    ASSUME TypeOK, ReviewInv, NEW r \in Runs, ExecStep(r), req' = req
    PROVE  ReviewInv'
<1>1. replay' = replay /\ RunOK(r) /\ Replaying(r)' = Replaying(r)
    BY ReplayingSame DEF ReviewInv, ExecStep, ReadTask, ClaimTask, FinishTask, FailTask, DropTask
<1>2. ASSUME NEW q \in Runs \ {r} PROVE RunOK(q)'
    <2>1. /\ run'[q] = run[q] /\ task'[q] = task[q] /\ reviews'[q] = reviews[q]
          /\ exec'[q] = exec[q] /\ (q \notin overlap' => q \notin overlap)
        BY <1>2 DEF TypeOK, ExecStep, ReadTask, ClaimTask, FinishTask, FailTask, DropTask,
                    Meets, Review
    <2>2. QED BY <1>1, <2>1, RunLeftAlone, ReplayingSame DEF ReviewInv
<1>3. reviews[r] \in Nat /\ TypeOK
    BY DEF TypeOK
<1>4. CASE ReadTask(r)
    <2>1. /\ run' = run /\ task' = task /\ reviews' = reviews /\ exec[r] = "scheduled"
          /\ exec'[r] = (IF MayDispatch(r) THEN "read" ELSE "idle")
          /\ overlap' = IF MayDispatch(r) /\ Replaying(r) # {} THEN overlap \union {r} ELSE overlap
        BY <1>3, <1>4 DEF ReadTask, Meets, TypeOK
    <2>2. LifeOK(r)'
        BY <1>1, <2>1 DEF RunOK, LifeOK
    <2>3. ASSUME r \notin overlap' PROVE AloneOK(r)'
        <3>1. CASE MayDispatch(r)
            BY <1>1, <1>3, <2>1, <2>3, <3>1 DEF RunOK, AloneOK, MayDispatch, Dispatching
        <3>2. CASE ~MayDispatch(r)
            BY <1>1, <2>1, <2>3, <3>2 DEF RunOK, AloneOK, Dispatching
        <3>3. QED BY <3>1, <3>2
    <2>4. QED BY <1>1, <1>2, <2>1, <2>2, <2>3 DEF RunOK, ReviewInv
<1>5. CASE ClaimTask(r)
    <2>1. /\ run' = run /\ reviews' = reviews /\ overlap' = overlap
          /\ exec[r] = "read" /\ exec'[r] = "claimed" /\ task'[r] = "running"
        BY <1>3, <1>5 DEF ClaimTask, TypeOK
    <2>2. LifeOK(r)' /\ (r \notin overlap' => AloneOK(r)')
        BY <1>1, <2>1 DEF RunOK, LifeOK, AloneOK, Dispatching
    <2>3. QED BY <1>1, <1>2, <2>1, <2>2 DEF RunOK, ReviewInv
<1>6. CASE FinishTask(r)
    <2>1. /\ run'[r] = "completed" /\ reviews'[r] = reviews[r] + 1 /\ overlap' = overlap
          /\ exec[r] = "claimed" /\ exec'[r] = "idle" /\ task'[r] = "completed"
        BY <1>3, <1>6 DEF FinishTask, Review, TypeOK
    <2>2. LifeOK(r)'
        BY <1>1, <2>1 DEF RunOK, LifeOK
    <2>3. ASSUME r \notin overlap' PROVE AloneOK(r)'
        BY <1>1, <1>3, <2>1, <2>3 DEF RunOK, AloneOK, Dispatching
    <2>4. reviews'[r] > 0
        BY <1>3, <2>1
    <2>5. QED BY <1>2, <2>1, <2>2, <2>3, <2>4 DEF RunOK, ReviewInv
<1>7. CASE FailTask(r) \/ DropTask(r)
    <2>1. /\ run' = run /\ reviews' = reviews /\ overlap' = overlap
          /\ exec[r] # "idle" /\ exec'[r] = "idle" /\ task'[r] \in {task[r], "failed"}
        BY <1>3, <1>7 DEF FailTask, DropTask, TypeOK
    <2>2. LifeOK(r)' /\ (r \notin overlap' => AloneOK(r)')
        BY <1>1, <2>1 DEF RunOK, LifeOK, AloneOK, Dispatching
    <2>3. QED BY <1>1, <1>2, <2>1, <2>2 DEF RunOK, ReviewInv
<1>8. QED BY <1>4, <1>5, <1>6, <1>7 DEF ExecStep

(* The replays' steps.                                                     *)
LEMMA ReplayKeepsReviews ==
    ASSUME TypeOK, ReviewInv, NEW o \in Operators, ReplayStep(o), req' = req
    PROVE  ReviewInv'
<1>0. /\ replay \in [Operators -> ReplayType] /\ reviews \in [Runs -> Nat]
      /\ run \in [Runs -> RunStatuses] /\ task \in [Runs -> TaskStatuses] /\ overlap \subseteq Runs
    BY DEF TypeOK, ReplayType
<1>1. exec' = exec
    BY DEF ReplayStep, ReadRun, LockRun, CommitReplay, AbandonReplay
<1>2. CASE LockRun(o) \/ AbandonReplay(o)
    <2>1. /\ run' = run /\ task' = task /\ reviews' = reviews /\ overlap' = overlap
        BY <1>2 DEF LockRun, AbandonReplay
    <2>2. ASSUME NEW q \in Runs PROVE Replaying(q)' \subseteq Replaying(q)
        <3>1. \A p \in Operators \ {o} : replay'[p] = replay[p]
            BY <1>0, <1>2 DEF LockRun, AbandonReplay
        <3>2. CASE LockRun(o)
            <4>1. replay[o] \in [at : ReplayPhases, run : Runs]
                BY <1>0, <3>2 DEF LockRun, ReplayType, NoReplay
            <4>2. replay'[o].run = replay[o].run /\ replay[o].at # "idle"
                BY <1>0, <3>2, <4>1 DEF LockRun
            <4>3. QED BY <3>1, <4>2 DEF Replaying
        <3>3. CASE AbandonReplay(o)
            <4>1. replay'[o].at = "idle"
                BY <1>0, <3>3 DEF AbandonReplay, NoReplay
            <4>2. QED BY <3>1, <4>1 DEF Replaying
        <3>4. QED BY <1>2, <3>2, <3>3
    <2>3. QED BY <1>1, <2>1, <2>2, RunLeftAlone DEF ReviewInv
<1>3. ASSUME NEW r \in Replayable, ReadRun(o, r) PROVE ReviewInv'
    <2>1. r \in Runs /\ RunOK(r) /\ reviews[r] \in Nat
        BY <1>0, RunAssumption DEF ReviewInv
    <2>2. /\ run' = run /\ task' = task /\ reviews' = reviews /\ run[r] = "queued"
          /\ replay' = [replay EXCEPT ![o] = [at |-> "read", run |-> r]]
          /\ overlap' = IF Dispatching(r) \/ Replaying(r) # {} THEN overlap \union {r} ELSE overlap
        BY <1>3 DEF ReadRun, MayReplay, Meets, Dispatching
    <2>3. \A q \in Runs : Replaying(q)' \subseteq IF q = r THEN Replaying(q) \union {o}
                                                        ELSE Replaying(q)
        BY <1>0, <2>2 DEF Replaying
    <2>4. ASSUME NEW q \in Runs, q # r PROVE RunOK(q)'
        BY <1>0, <1>1, <2>2, <2>3, <2>4, RunLeftAlone DEF ReviewInv
    <2>5. LifeOK(r)'
        BY <1>1, <2>1, <2>2 DEF RunOK, LifeOK
    <2>6. ASSUME r \notin overlap' PROVE AloneOK(r)'
        <3>1. Replaying(r)' \subseteq {o} /\ ~Dispatching(r)' /\ AloneOK(r)
            BY <1>1, <2>1, <2>2, <2>3, <2>6 DEF RunOK, Dispatching
        <3>2. reviews[r] = 0
            BY <2>1, <2>2 DEF RunOK
        <3>3. QED BY <2>2, <3>1, <3>2 DEF AloneOK
    <2>7. RunOK(r)'
        BY <2>1, <2>2, <2>5, <2>6 DEF RunOK
    <2>8. QED BY <2>4, <2>7 DEF ReviewInv
<1>4. CASE CommitReplay(o)
    <2>0. PICK r \in Runs : r = replay[o].run
        BY <1>0, <1>4, NoReplayIsIdle DEF CommitReplay
    <2>1. replay[o].at = "locked" /\ o \in Replaying(r)
        BY <1>4, <2>0 DEF CommitReplay, Replaying
    <2>2. RunOK(r) /\ reviews[r] \in Nat
        BY <1>0, <2>1 DEF ReviewInv
    <2>3. /\ \A p \in Operators \ {o} : replay'[p] = replay[p]
          /\ replay'[o].at = "idle" /\ overlap' = overlap
        BY <1>0, <1>4 DEF CommitReplay, NoReplay
    <2>4. \A q \in Runs : Replaying(q)' \subseteq Replaying(q) \ {o}
        BY <2>3 DEF Replaying
    <2>5. /\ run'[r] = "completed" /\ task'[r] = "completed" /\ reviews'[r] = reviews[r] + 1
        BY <1>0, <1>4, <2>0 DEF CommitReplay, ReplayedTask, Review
    <2>6. ASSUME NEW q \in Runs, q # r PROVE RunOK(q)'
        <3>1. run'[q] = run[q] /\ task'[q] = task[q] /\ reviews'[q] = reviews[q]
            BY <1>0, <1>4, <2>0, <2>6 DEF CommitReplay, ReplayedTask, Review
        <3>2. QED BY <1>1, <2>3, <2>4, <3>1, RunLeftAlone DEF ReviewInv
    <2>7. LifeOK(r)'
        BY <2>1, <2>2, <2>5 DEF RunOK, LifeOK
    <2>8. ASSUME r \notin overlap' PROVE AloneOK(r)'
        <3>1. AloneOK(r) /\ reviews[r] = 0
            BY <2>1, <2>2, <2>3, <2>8 DEF RunOK, AloneOK
        <3>2. Replaying(r)' = {} /\ ~Dispatching(r)'
            BY <1>1, <2>1, <2>4, <3>1 DEF AloneOK, Dispatching
        <3>3. QED BY <2>5, <3>1, <3>2 DEF AloneOK
    <2>9. RunOK(r)'
        BY <2>2, <2>5, <2>7, <2>8 DEF RunOK
    <2>10. QED BY <2>6, <2>9 DEF ReviewInv
<1>5. QED BY <1>2, <1>3, <1>4 DEF ReplayStep


(* The requests' steps: only Store touches a run.                          *)
LEMMA RequestKeepsReviews ==
    ASSUME TypeOK, ReviewInv, NEW r \in Requests, ReadConnection(r) \/ SyncStep(r)
    PROVE  ReviewInv'
<1>0. /\ r \in Runs /\ req \in [Requests -> ReqType] /\ Requests = Runs /\ RunOK(r)
      /\ reviews[r] \in Nat /\ overlap' = overlap /\ replay' = replay /\ reviews' = reviews
    BY DEF TypeOK, ReqType, Requests, ReviewInv, taskVars, SyncStep, ReadConnection,
           ReadCheckpoint, Flush, Answered, Refused, Store, Raise, Schedule, CreateRun,
           ScheduleTask
<1>1. \A q \in Runs : Replaying(q)' = Replaying(q)
    BY <1>0, ReplayingSame
<1>2. ASSUME NEW q \in Runs \ {r} PROVE RunOK(q)'
    <2>1. /\ run'[q] = run[q] /\ task'[q] = task[q] /\ exec'[q] = exec[q] /\ req'[q] = req[q]
        BY DEF TypeOK, taskVars, Requests, SyncStep, ReadConnection, ReadCheckpoint, Flush,
               Answered, Refused, Store, Raise, Schedule, CreateRun, ScheduleTask, Goes, Leaves
    <2>2. QED BY <1>0, <1>1, <2>1, RunLeftAlone DEF ReviewInv
<1>3. CASE Store(r)
    <2>1. /\ run'[r] = "queued" /\ task'[r] = "queued" /\ req[r].at = "answered" /\ exec' = exec
          /\ req'[r] = Spent("stored")
        BY <1>0, <1>3 DEF Store, CreateRun, Leaves, TypeOK
    <2>2. run[r] = "absent" /\ reviews[r] = 0
        BY <1>0, <2>1 DEF RunOK, LifeOK
    <2>3. req'[r].at = "stored"
        BY <2>1 DEF Spent, Fresh
    <2>4. LifeOK(r)'
        BY <2>1, <2>3 DEF LifeOK
    <2>5. ASSUME r \notin overlap' PROVE AloneOK(r)'
        BY <1>0, <1>1, <2>1, <2>2, <2>5 DEF RunOK, AloneOK, Dispatching
    <2>6. QED BY <1>0, <1>2, <2>1, <2>2, <2>4, <2>5 DEF RunOK, ReviewInv
<1>4. CASE Schedule(r)
    <2>1. /\ run' = run /\ task' = task /\ req[r].at = "stored" /\ exec'[r] = "scheduled"
          /\ req'[r].at = "ended"
        BY <1>0, <1>4 DEF Schedule, ScheduleTask, Goes, TypeOK, ReqType
    <2>2. LifeOK(r)'
        BY <1>0, <2>1 DEF RunOK, LifeOK
    <2>3. ASSUME r \notin overlap' PROVE AloneOK(r)'
        BY <1>0, <1>1, <2>1, <2>3 DEF RunOK, AloneOK, Dispatching
    <2>4. QED BY <1>0, <1>2, <2>1, <2>2, <2>3 DEF RunOK, ReviewInv
<1>5. CASE ReadConnection(r) \/ ReadCheckpoint(r) \/ Flush(r) \/ Answered(r) \/ Refused(r)
           \/ Raise(r)
    <2>1. UNCHANGED taskVars
        BY <1>5 DEF ReadConnection, ReadCheckpoint, Flush, Answered, Refused, Raise
    <2>2. \/ req'[r].at = "ended"
          \/ req[r].at \notin {"stored", "ended"} /\ req'[r].at \notin {"stored", "ended"}
        <3>1. req[r] \in ReqType
            BY <1>0
        <3>2. CASE ReadConnection(r) \/ Flush(r)
            BY <1>0, <3>1, <3>2 DEF ReadConnection, Flush, Goes, ReqType
        <3>3. CASE ReadCheckpoint(r) \/ Refused(r)
            BY <1>0, <3>1, <3>3 DEF ReadCheckpoint, Refused, ReqType
        <3>4. CASE Answered(r)
            BY <1>0, <3>1, <3>4 DEF Answered, ReqType
        <3>5. CASE Raise(r)
            BY <1>0, <3>5 DEF Raise, Leaves, Spent, Fresh
        <3>6. QED BY <1>5, <3>2, <3>3, <3>4, <3>5
    <2>3. RunOK(r)'
        BY <1>0, <1>1, <2>1, <2>2, RunLeftAlone DEF taskVars
    <2>4. QED BY <1>2, <2>3 DEF ReviewInv
<1>6. QED BY <1>3, <1>4, <1>5 DEF SyncStep

LEMMA ReviewStep == TypeOK /\ ReviewInv /\ [Next]_vars => ReviewInv'
<1> SUFFICES ASSUME TypeOK, ReviewInv, [Next]_vars PROVE ReviewInv'
    OBVIOUS
<1>1. ASSUME NEW r \in Requests, ReadConnection(r) \/ SyncStep(r) PROVE ReviewInv'
    BY <1>1, RequestKeepsReviews
<1>2. ASSUME NEW r \in Requests, Execute(r) PROVE ReviewInv'
    BY <1>2, ExecKeepsReviews DEF Execute, syncVars, Requests
<1>3. ASSUME NEW o \in Operators, Replay(o) PROVE ReviewInv'
    BY <1>3, ReplayKeepsReviews DEF Replay, syncVars
<1>4. CASE MailArrives \/ Callback \/ UNCHANGED vars
    <2>1. UNCHANGED taskVars /\ req' = req
        BY <1>4 DEF MailArrives, Callback, vars, syncVars
    <2>2. QED BY <2>1, RunLeftAlone, ReplayingSame DEF ReviewInv, taskVars
<1>5. ASSUME NEW w \in Workers, Crash(w) PROVE ReviewInv'
    <2>1. ASSUME NEW r \in Runs PROVE RunOK(r)'
        <3>1. exec'[r] \in {exec[r], "idle"}
            BY <1>5 DEF Crash
        <3>2. req'[r].at \in {req[r].at, "ended"}
            BY <1>5 DEF Crash, Spent, Fresh, Requests
        <3>3. QED BY <1>5, <3>1, <3>2, RunLeftAlone, ReplayingSame DEF ReviewInv, Crash
    <2>2. QED BY <2>1 DEF ReviewInv
<1>6. QED BY <1>1, <1>2, <1>3, <1>4, <1>5 DEF Next

LEMMA ReviewInit == Init => ReviewInv
<1> SUFFICES ASSUME Init, NEW r \in Runs PROVE RunOK(r)
    BY DEF ReviewInv
<1>1. /\ run[r] = "absent" /\ task[r] = "absent" /\ reviews[r] = 0 /\ exec[r] = "idle"
      /\ Replaying(r) = {} /\ req[r].at = "idle"
    BY DEF Init, TaskInit, Replaying, NoReplay, Fresh, Requests
<1>2. QED BY <1>1 DEF RunOK, LifeOK, AloneOK, Dispatching

(* A completed run has its review, and a second one exists only where two  *)
(* workers of the run were at work at once.                                *)
THEOREM RunsAreReviewedOnce == Spec => []ReviewedOnce
<1>1. ReviewInv => ReviewedOnce
    BY DEF ReviewInv, RunOK, AloneOK, ReviewedOnce
<1>2. QED BY <1>1, TypesInit, TypesStep, ReviewInit, ReviewStep, PTL DEF Spec
=============================================================================
