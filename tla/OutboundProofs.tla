--------------------------- MODULE OutboundProofs ---------------------------
(* Proofs about Outbound, for any set of approvals, request threads and    *)
(* dispatcher runs.                                                        *)
EXTENDS Outbound, TLAPS

(* A session that is open has exactly one of these shapes.                 *)
LEMMA ClosedType == Closed \in Session
BY DEF Closed, Session, NoRows, MaybeStatus, Statuses, Ops

(* The audit actions the handlers write are those of the audit table.        *)
LEMMA EventType ==
    /\ \A a \in Approvals, e \in AuditActions : <<e, a>> \in AuditPairs
    /\ AuditActions = {"approved", "rejected", "queued", "executed", "failed", "pulled_back"}
BY DEF AuditPairs, AuditActions, Statuses

(* An empty database and idle sessions are well typed.                      *)
LEMMA InitTypeOK == Init => TypeOK
BY ClosedType, ConstantsAssumption DEF Init, TypeOK, NoRows, Kinds, Decisions, MaybeStatus, Statuses

(* Opening a well-formed transaction keeps the session table well formed.  *)
LEMMA OpenType ==
    ASSUME TypeOK, NEW s \in Sessions, NEW x \in Session, Open(s, x)
    PROVE  sess' \in [Sessions -> Session] /\ overlapped' \subseteq Approvals
BY DEF Open, TypeOK, Contended, Session

(* So does writing down the outcome of one execution.                      *)
LEMMA RecordType ==
    ASSUME TypeOK, NEW s \in Sessions, NEW a \in Approvals,
           NEW st \in {"executed", "failed"}, NEW ev \in {"executed", "failed"},
           Record(s, a, st, ev)
    PROVE  sess' \in [Sessions -> Session]
<1> DEFINE x == [sess[s] EXCEPT
                !.row = [@ EXCEPT ![a] = st],
                !.log = @ \cup {<<ev, a>>},
                !.todo = @ \ {a},
                !.pc = IF sess[s].todo = {a} THEN "commit" ELSE "run"]
<1>1. x \in Session
  <2>1. sess[s] \in Session
    BY DEF TypeOK
  <2>2. [sess[s].row EXCEPT ![a] = st] \in [Approvals -> MaybeStatus]
    BY <2>1 DEF Session, MaybeStatus, Statuses
  <2>3. sess[s].log \cup {<<ev, a>>} \subseteq AuditPairs
    BY <2>1, EventType DEF Session
  <2> QED BY <2>1, <2>2, <2>3 DEF Session
<1>2. sess' = [sess EXCEPT ![s] = x]
  BY DEF Record
<1> HIDE DEF x
<1> QED BY <1>1, <1>2 DEF TypeOK

(* So does deciding whether the new row is executed inline.                 *)
LEMMA AfterEnqueueType ==
    ASSUME NEW x \in Session, NEW a \in Approvals
    PROVE  AfterEnqueue(x, a) \in Session
BY DEF AfterEnqueue, Session

(* Every request, dispatcher step, commit and crash keeps the types.         *)
THEOREM TypeStep == TypeOK /\ [Next]_vars => TypeOK'
<1> SUFFICES ASSUME TypeOK, [Next]_vars PROVE TypeOK'
    OBVIOUS
<1> USE DEF tables, history
<1>1. ASSUME NEW a \in Approvals, CreateApproval(a) PROVE TypeOK'
  BY <1>1 DEF CreateApproval, TypeOK, Decisions
<1>2. ASSUME NEW a \in Approvals, BecomesDue(a) PROVE TypeOK'
  BY <1>2 DEF BecomesDue, TypeOK
<1>3. ASSUME NEW s \in Sessions, NEW a \in Approvals, OpenApprove(s, a) PROVE TypeOK'
  <2> DEFINE x == [Closed EXCEPT !.op = "approve", !.rows = {a},
                              !.pc = IF request[a].kind \in Governed THEN "enqueue" ELSE "commit",
                              !.log = {<<"approved", a>>}]
  <2>1. x \in Session
    BY ClosedType, EventType DEF Session, Closed, Ops
  <2>2. Open(s, x)
    BY <1>3 DEF OpenApprove
  <2> HIDE DEF x
  <2> QED BY <1>3, <2>1, <2>2, OpenType DEF OpenApprove, TypeOK
<1>4. ASSUME NEW s \in Sessions, NEW a \in Approvals, OpenReject(s, a) PROVE TypeOK'
  <2> DEFINE x == [Closed EXCEPT !.op = "reject", !.rows = {a}, !.pc = "commit",
                              !.log = {<<"rejected", a>>}]
  <2>1. x \in Session
    BY ClosedType, EventType DEF Session, Closed, Ops
  <2>2. Open(s, x)
    BY <1>4 DEF OpenReject
  <2> HIDE DEF x
  <2> QED BY <1>4, <2>1, <2>2, OpenType DEF OpenReject, TypeOK
<1>5. ASSUME NEW s \in Sessions, NEW a \in Approvals, OpenPullBack(s, a) PROVE TypeOK'
  <2> DEFINE x == [Closed EXCEPT !.op = "pull_back", !.rows = {a}, !.pc = "commit",
                              !.loaded = Held({a}, "queued"), !.row = Held({a}, "pulled_back"),
                              !.log = {<<"pulled_back", a>>}]
  <2>1. x \in Session
    BY ClosedType, EventType DEF Session, Closed, Ops, Statuses, MaybeStatus, Held
  <2>2. Open(s, x)
    BY <1>5 DEF OpenPullBack
  <2> HIDE DEF x
  <2> QED BY <1>5, <2>1, <2>2, OpenType DEF OpenPullBack, TypeOK
<1>6. ASSUME NEW s \in Sessions, NEW a \in Approvals, OpenExecute(s, a) PROVE TypeOK'
  <2> DEFINE x == [Closed EXCEPT !.op = "execute", !.rows = {a}, !.pc = "run", !.todo = {a},
                              !.loaded = Held({a}, outbound[a]), !.row = Held({a}, "queued")]
  <2>1. x \in Session
    BY <1>6, ClosedType DEF OpenExecute, Session, Closed, Ops, Statuses, MaybeStatus, Held
  <2>2. Open(s, x)
    BY <1>6 DEF OpenExecute
  <2> HIDE DEF x
  <2> QED BY <1>6, <2>1, <2>2, OpenType DEF OpenExecute, TypeOK
<1>7. ASSUME NEW s \in Sessions, OpenDispatch(s) PROVE TypeOK'
  <2>1. PICK R \in SUBSET DueRows :
          Open(s, [Closed EXCEPT !.op = "dispatch", !.rows = R, !.pc = "run", !.todo = R,
                                    !.loaded = Held(R, "queued"), !.row = Held(R, "queued")])
    BY <1>7 DEF OpenDispatch
  <2> DEFINE x == [Closed EXCEPT !.op = "dispatch", !.rows = R, !.pc = "run", !.todo = R,
                                    !.loaded = Held(R, "queued"), !.row = Held(R, "queued")]
  <2>2. R \subseteq Approvals
    BY DEF DueRows, TypeOK
  <2>3. x \in Session
    BY <2>2, ClosedType, EventType DEF Session, Closed, Ops, Statuses, MaybeStatus, Held
  <2>4. Open(s, x)
    BY <2>1
  <2> HIDE DEF x
  <2> QED BY <1>7, <2>3, <2>4, OpenType DEF OpenDispatch, TypeOK
<1>8. ASSUME NEW s \in Sessions, NEW a \in Approvals, Enqueue(s, a) PROVE TypeOK'
  <2>1. CASE EnqueueExisting(s, a)
    <3> DEFINE x == [sess[s] EXCEPT !.loaded = Held({a}, outbound[a]),
                                     !.row = Held({a}, outbound[a])]
    <3>1. x \in Session
      BY DEF TypeOK, Session, Held, MaybeStatus
    <3>2. sess' = [sess EXCEPT ![s] = AfterEnqueue(x, a)]
      BY <2>1 DEF EnqueueExisting
    <3> HIDE DEF x
    <3>3. sess' \in [Sessions -> Session]
      BY <3>1, <3>2, AfterEnqueueType DEF TypeOK
    <3> QED BY <2>1, <3>3 DEF EnqueueExisting, TypeOK
  <2>2. CASE EnqueueRefused(s, a)
    BY <2>2, ClosedType DEF EnqueueRefused, Close, TypeOK
  <2>3. CASE EnqueueInsert(s, a)
    <3> DEFINE x == [sess[s] EXCEPT !.row = Held({a}, "queued"), !.log = @ \cup {<<"queued", a>>}]
    <3>1. x \in Session
      BY EventType DEF TypeOK, Session, MaybeStatus, Statuses, Held
    <3>2. sess' = [sess EXCEPT ![s] = AfterEnqueue(x, a)]
      BY <2>3 DEF EnqueueInsert
    <3> HIDE DEF x
    <3>3. sess' \in [Sessions -> Session]
      BY <3>1, <3>2, AfterEnqueueType DEF TypeOK
    <3> QED BY <2>3, <3>3 DEF EnqueueInsert, TypeOK
  <2>4. CASE EnqueueConflict(s, a)
    BY <2>4, ClosedType DEF EnqueueConflict, Close, TypeOK
  <2> QED BY <1>8, <2>1, <2>2, <2>3, <2>4 DEF Enqueue
<1>9. ASSUME NEW s \in Sessions, NEW a \in Approvals, Run(s, a) PROVE TypeOK'
  <2>1. CASE RunLive(s, a)
    <3>1. sess' \in [Sessions -> Session]
      BY <2>1, RecordType DEF RunLive
    <3>2. sent' \in [Approvals -> 0 .. 2]
      BY <2>1 DEF RunLive, TypeOK, Saturating
    <3> QED BY <2>1, <3>1, <3>2 DEF RunLive, TypeOK
  <2>2. CASE RunStub(s, a)
    BY <2>2, RecordType DEF RunStub, TypeOK
  <2>3. CASE RunCalendar(s, a)
    BY <2>3, RecordType DEF RunCalendar, TypeOK
  <2> QED BY <1>9, <2>1, <2>2, <2>3 DEF Run
<1>10. ASSUME NEW s \in Sessions, Commit(s) PROVE TypeOK'
  BY <1>10, ClosedType DEF Commit, TypeOK, Close, Session, DecisionOf, Decisions
<1>11. ASSUME NEW s \in Sessions, Crash(s) PROVE TypeOK'
  BY <1>11, ClosedType, ConstantsAssumption DEF Crash, TypeOK, Close, Session, Ran
<1>12. CASE UNCHANGED vars
  BY <1>12 DEF vars, TypeOK
<1>13. Workers \subseteq Sessions /\ Crons \subseteq Sessions
  BY DEF Sessions
<1> QED
  BY <1>1, <1>2, <1>3, <1>4, <1>5, <1>6, <1>7, <1>8, <1>9, <1>10, <1>11, <1>12, <1>13
     DEF Next, OpenRequest, Advance

(* Every variable keeps its type: in particular the rows and audit events  *)
(* a session holds stay within those of the database.                      *)
THEOREM TypeCorrect == Spec => []TypeOK
BY InitTypeOK, TypeStep, PTL DEF Spec

-----------------------------------------------------------------------------
(* The inductive invariant.                                                *)

(* What an open transaction x says of the row of a, by itself.             *)
Coherent(x, a) ==
    /\ a \notin x.rows => x.loaded[a] = "none" /\ x.row[a] = "none"
    /\ a \in x.todo => a \in x.rows /\ x.row[a] = "queued"
    /\ x.row[a] = "none" => x.loaded[a] = "none"
    /\ a \in x.rows /\ x.op \in {"pull_back", "execute", "dispatch"} => x.loaded[a] # "none"
    /\ x.op = "reject" => x.row[a] = "none"
    /\ x.op = "approve" /\ a \in x.rows => x.rows = {a} /\ <<"approved", a>> \in x.log
    /\ x.row[a] # x.loaded[a] =>
          CASE x.row[a] = "queued" -> a \in x.todo \/ x.loaded[a] = "none"
            [] x.row[a] = "failed" -> TRUE
            [] OTHER -> <<x.row[a], a>> \in x.log
    /\ x.row[a] # "none" /\ x.loaded[a] = "none" => x.op = "approve" /\ <<"queued", a>> \in x.log
    /\ a \in x.todo => x.pc = "run"
    /\ x.pc = "enqueue" => x.op = "approve" /\ x.row[a] = "none"
    /\ x.op = "idle" => a \notin x.rows
    /\ <<"executed", a>> \in x.log \/ <<"failed", a>> \in x.log => x.row[a] \in {"executed", "failed"}

(* ... and how it relates to the tables.                                   *)
Grounded(x, a) ==
    /\ a \in x.rows => approval[a] # "none"
    /\ x.loaded[a] # "none" => outbound[a] # "none"
    /\ x.op = "approve" /\ a \in x.rows /\ x.pc = "commit" /\ request[a].kind \in Governed =>
          x.row[a] # "none"
    /\ x.op = "approve" /\ a \in x.rows /\ x.pc = "run" /\ request[a].kind = "comms" => env.inline

SessionsCoherent == \A s \in Sessions, a \in Approvals : Coherent(sess[s], a)
SessionsGrounded == \A s \in Sessions, a \in Approvals : Grounded(sess[s], a)

RowDecided ==
    \A a \in Approvals :
        outbound[a] # "none" => /\ approval[a] \in {"approved", "rejected"}
                                /\ <<"approved", a>> \in audit
                                /\ <<"queued", a>> \in audit

DeliveryTraced ==
    \A a \in Approvals :
        sent[a] > 0 /\ <<"approved", a>> \notin audit =>
            /\ env.inline
            /\ \/ a \in uncertain
               \/ \E w \in Workers : Inserting(w, a) /\ a \in Ran(w)

(* One holder at most, and what it loaded is still what the table says.    *)
HeldAlone ==
    \A a \in Approvals \ overlapped : \A s \in Sessions :
        a \in sess[s].rows =>
            /\ \A t \in Sessions : a \in sess[t].rows => s = t
            /\ sess[s].loaded[a] = outbound[a]
            /\ sess[s].op \in {"approve", "reject"} => approval[a] = "pending"
            /\ outbound[a] \in {"none", "queued", "failed"}

SentOnce ==
    \A a \in Approvals \ (overlapped \cup uncertain) :
        /\ sent[a] \in {0, 1}
        /\ sent[a] = 1 =>
              \/ outbound[a] = "executed"
              \/ \E s \in Sessions : a \in sess[s].rows /\ sess[s].row[a] = "executed"

RejectedHasNoRow ==
    \A a \in Approvals \ overlapped : approval[a] = "rejected" => outbound[a] = "none"

(* One session at most is in the middle of creating a row, none once the   *)
(* row exists.                                                             *)
OneInserter ==
    \A a \in Approvals :
        /\ \A s, t \in Sessions : Inserting(s, a) /\ Inserting(t, a) => s = t
        /\ outbound[a] # "none" => \A s \in Sessions : ~Inserting(s, a)

IInv ==
    /\ TypeOK
    /\ SessionsCoherent
    /\ SessionsGrounded
    /\ OneInserter
    /\ RowDecided
    /\ ApprovedHasRow
    /\ StatusAudited
    /\ DeliveryTraced
    /\ HeldAlone
    /\ SentOnce
    /\ RejectedHasNoRow

(* An idle session satisfies the session invariants.                        *)
LEMMA ClosedFacts ==
    \A a \in Approvals : /\ Coherent(Closed, a)
                         /\ Grounded(Closed, a)
BY DEF Coherent, Grounded, Closed, NoRows

(* Every session is well typed.                                             *)
LEMMA SessionType == ASSUME TypeOK, NEW s \in Sessions PROVE sess[s] \in Session
BY DEF TypeOK

(* The invariant holds of an empty database.                                *)
LEMMA InitIInv == Init => IInv
<1> SUFFICES ASSUME Init PROVE IInv
    OBVIOUS
<1>1. TypeOK
  BY InitTypeOK
<1>2. SessionsCoherent /\ SessionsGrounded
  BY ClosedFacts DEF Init, SessionsCoherent, SessionsGrounded, Grounded
<1>3. RowDecided /\ ApprovedHasRow /\ StatusAudited /\ RejectedHasNoRow
  BY DEF Init, NoRows, RowDecided, ApprovedHasRow, StatusAudited, RejectedHasNoRow
<1>4. OneInserter /\ DeliveryTraced /\ HeldAlone /\ SentOnce
  BY DEF Init, NoRows, Closed, OneInserter, Inserting, DeliveryTraced, HeldAlone, SentOnce
<1> QED BY <1>1, <1>2, <1>3, <1>4 DEF IInv

-----------------------------------------------------------------------------
(* Opening a session.                                                      *)

Opened(s, x) ==
    /\ x \in Session
    /\ Idle(s)
    /\ sess' = [sess EXCEPT ![s] = x]
    /\ overlapped' = overlapped \cup Contended(s, x.rows)
    /\ UNCHANGED <<env, request, tables, due, sent, crashes, uncertain>>
    /\ \A a \in Approvals :
          /\ Coherent(x, a) /\ Grounded(x, a)
          /\ x.op = "approve" => x.row[a] = "none"
          /\ x.row[a] # "executed"
          /\ a \in x.rows => /\ x.loaded[a] = outbound[a]
                             /\ x.op \in {"approve", "reject"} => approval[a] = "pending"
                             /\ outbound[a] \in {"none", "queued", "failed"}

(* The read of decide (approved) opens a session of that kind.              *)
LEMMA OpenApproveIsOpened ==
    ASSUME IInv, NEW s \in Sessions, NEW a \in Approvals, OpenApprove(s, a)
    PROVE  \E x : Opened(s, x)
<1> DEFINE x == [Closed EXCEPT !.op = "approve", !.rows = {a},
                              !.pc = IF request[a].kind \in Governed THEN "enqueue" ELSE "commit",
                              !.log = {<<"approved", a>>}]
<1>1. x \in Session
  BY ClosedType, EventType DEF Session, Closed, Ops
<1>2. Open(s, x) /\ approval[a] = "pending" /\ outbound[a] = "none"
  BY DEF OpenApprove, IInv, RowDecided
<1>3. /\ x.op = "approve" /\ x.rows = {a} /\ x.todo = {} /\ x.log = {<<"approved", a>>}
      /\ x.loaded = NoRows /\ x.row = NoRows
      /\ x.pc = IF request[a].kind \in Governed THEN "enqueue" ELSE "commit"
  BY DEF Closed
<1> HIDE DEF x
<1>4. \A b \in Approvals : Coherent(x, b) /\ Grounded(x, b)
  BY <1>2, <1>3 DEF Coherent, Grounded, NoRows
<1>5. Opened(s, x)
  BY <1>1, <1>2, <1>3, <1>4 DEF Opened, Open, OpenApprove, NoRows
<1> QED BY <1>5

(* The read of decide (rejected) opens a session of that kind.              *)
LEMMA OpenRejectIsOpened ==
    ASSUME IInv, NEW s \in Sessions, NEW a \in Approvals, OpenReject(s, a)
    PROVE  \E x : Opened(s, x)
<1> DEFINE x == [Closed EXCEPT !.op = "reject", !.rows = {a}, !.pc = "commit",
                              !.log = {<<"rejected", a>>}]
<1>1. x \in Session
  BY ClosedType, EventType DEF Session, Closed, Ops
<1>2. Open(s, x) /\ approval[a] = "pending" /\ outbound[a] = "none"
  BY DEF OpenReject, IInv, RowDecided
<1>3. /\ x.op = "reject" /\ x.rows = {a} /\ x.todo = {} /\ x.log = {<<"rejected", a>>}
      /\ x.loaded = NoRows /\ x.row = NoRows /\ x.pc = "commit"
  BY DEF Closed
<1> HIDE DEF x
<1>4. \A b \in Approvals : Coherent(x, b) /\ Grounded(x, b)
  BY <1>2, <1>3 DEF Coherent, Grounded, NoRows
<1>5. Opened(s, x)
  BY <1>1, <1>2, <1>3, <1>4 DEF Opened, Open, OpenReject, NoRows
<1> QED BY <1>5

(* The read of pull-back opens a session of that kind.                      *)
LEMMA OpenPullBackIsOpened ==
    ASSUME IInv, NEW s \in Sessions, NEW a \in Approvals, OpenPullBack(s, a)
    PROVE  \E x : Opened(s, x)
<1> DEFINE x == [Closed EXCEPT !.op = "pull_back", !.rows = {a}, !.pc = "commit",
                              !.loaded = Held({a}, "queued"), !.row = Held({a}, "pulled_back"),
                              !.log = {<<"pulled_back", a>>}]
<1>1. x \in Session
  BY ClosedType, EventType DEF Session, Closed, Ops, Statuses, MaybeStatus, Held
<1>2. Open(s, x) /\ outbound[a] = "queued" /\ approval[a] # "none"
  BY DEF OpenPullBack, IInv, RowDecided
<1>3. /\ x.op = "pull_back" /\ x.rows = {a} /\ x.todo = {} /\ x.log = {<<"pulled_back", a>>}
      /\ x.loaded = Held({a}, "queued") /\ x.row = Held({a}, "pulled_back") /\ x.pc = "commit"
  BY DEF Closed
<1> HIDE DEF x
<1>4. \A b \in Approvals : Coherent(x, b) /\ Grounded(x, b)
  BY <1>2, <1>3 DEF Coherent, Grounded, Held
<1>5. Opened(s, x)
  BY <1>1, <1>2, <1>3, <1>4 DEF Opened, Open, OpenPullBack, Held
<1> QED BY <1>5

(* The read of execute opens a session of that kind.                        *)
LEMMA OpenExecuteIsOpened ==
    ASSUME IInv, NEW s \in Sessions, NEW a \in Approvals, OpenExecute(s, a)
    PROVE  \E x : Opened(s, x)
<1> DEFINE x == [Closed EXCEPT !.op = "execute", !.rows = {a}, !.pc = "run", !.todo = {a},
                              !.loaded = Held({a}, outbound[a]), !.row = Held({a}, "queued")]
<1>1. x \in Session
  BY ClosedType DEF Session, Closed, Ops, Statuses, MaybeStatus, Held, OpenExecute
<1>2. Open(s, x) /\ outbound[a] \in {"queued", "failed"} /\ approval[a] # "none"
  BY DEF OpenExecute, IInv, RowDecided
<1>3. /\ x.op = "execute" /\ x.rows = {a} /\ x.todo = {a} /\ x.log = {}
      /\ x.loaded = Held({a}, outbound[a]) /\ x.row = Held({a}, "queued") /\ x.pc = "run"
  BY DEF Closed
<1> HIDE DEF x
<1>4. \A b \in Approvals : Coherent(x, b) /\ Grounded(x, b)
  BY <1>2, <1>3 DEF Coherent, Grounded, Held
<1>5. Opened(s, x)
  BY <1>1, <1>2, <1>3, <1>4 DEF Opened, Open, OpenExecute, Held
<1> QED BY <1>5

(* The query of the dispatcher opens a session of that kind.                *)
LEMMA OpenDispatchIsOpened ==
    ASSUME IInv, NEW s \in Sessions, OpenDispatch(s)
    PROVE  \E x : Opened(s, x)
<1>1. PICK R \in SUBSET DueRows :
          Open(s, [Closed EXCEPT !.op = "dispatch", !.rows = R, !.pc = "run", !.todo = R,
                                    !.loaded = Held(R, "queued"), !.row = Held(R, "queued")])
          /\ R # {}
  BY DEF OpenDispatch
<1> DEFINE x == [Closed EXCEPT !.op = "dispatch", !.rows = R, !.pc = "run", !.todo = R,
                                    !.loaded = Held(R, "queued"), !.row = Held(R, "queued")]
<1>2. R \subseteq Approvals /\ \A a \in R : outbound[a] = "queued" /\ approval[a] # "none"
  BY DEF DueRows, IInv, TypeOK, RowDecided
<1>3. x \in Session
  BY <1>2, ClosedType DEF Session, Closed, Ops, Statuses, MaybeStatus, Held
<1>4. Open(s, x)
  BY <1>1
<1>5. /\ x.op = "dispatch" /\ x.rows = R /\ x.todo = R /\ x.log = {}
      /\ x.loaded = Held(R, "queued") /\ x.row = Held(R, "queued") /\ x.pc = "run"
  BY DEF Closed
<1> HIDE DEF x
<1>6. \A b \in Approvals : Coherent(x, b) /\ Grounded(x, b)
  BY <1>2, <1>5 DEF Coherent, Grounded, Held
<1>7. Opened(s, x)
  BY <1>2, <1>3, <1>4, <1>5, <1>6 DEF Opened, Open, OpenDispatch, Held
<1> QED BY <1>7

(* Opening a session on rows in the state the handler checked for keeps     *)
(* the invariant.                                                          *)
LEMMA OpenedKeepsIInv ==
    ASSUME IInv, TypeOK', NEW s \in Sessions, NEW x, Opened(s, x)
    PROVE  IInv'
<1>1. /\ \A t \in Sessions : sess'[t] = IF t = s THEN x ELSE sess[t]
      /\ sess[s].op = "idle"
      /\ UNCHANGED <<env, request, approval, outbound, due, audit, sent, crashes, uncertain>>
  BY DEF Opened, IInv, TypeOK, Idle, tables
<1>2. \A a \in Approvals : a \notin sess[s].rows /\ ~Inserting(s, a)
  BY <1>1 DEF IInv, SessionsCoherent, Coherent, Inserting
<1>3. \A t \in Sessions, a \in Approvals : Inserting(t, a)' <=> Inserting(t, a)
  BY <1>1, <1>2 DEF Inserting, Opened
<1>4. SessionsCoherent'
  BY <1>1 DEF Opened, IInv, SessionsCoherent
<1>5. SessionsGrounded'
  BY <1>1 DEF Opened, IInv, SessionsGrounded, Grounded
<1>6. OneInserter'
  BY <1>1, <1>3 DEF IInv, OneInserter
<1>7. RowDecided' /\ ApprovedHasRow' /\ StatusAudited'
  BY <1>1 DEF IInv, RowDecided, ApprovedHasRow, StatusAudited
<1>8. RejectedHasNoRow'
  BY <1>1 DEF IInv, RejectedHasNoRow, Opened
<1>9. DeliveryTraced'
  <2>1. \A w \in Workers, a \in Approvals :
           Inserting(w, a) /\ a \in Ran(w) => Inserting(w, a)' /\ a \in Ran(w)'
    BY <1>1, <1>2, <1>3 DEF Ran, Sessions
  <2> QED BY <1>1, <2>1 DEF IInv, DeliveryTraced
<1>10. HeldAlone'
  <2> SUFFICES ASSUME NEW a \in Approvals, a \notin overlapped', NEW r \in Sessions,
                      a \in sess'[r].rows
               PROVE  /\ \A t \in Sessions : a \in sess'[t].rows => r = t
                      /\ sess'[r].loaded[a] = outbound'[a]
                      /\ sess'[r].op \in {"approve", "reject"} => approval'[a] = "pending"
                      /\ outbound'[a] \in {"none", "queued", "failed"}
    BY DEF HeldAlone
  <2>1. a \notin overlapped /\ a \notin Contended(s, x.rows)
    BY DEF Opened
  <2>2. CASE r = s
    BY <1>1, <2>1, <2>2 DEF Opened, Contended
  <2>3. CASE r # s
    <3>1. a \notin x.rows
      BY <1>1, <2>1, <2>3 DEF Contended
    <3> QED BY <1>1, <2>1, <2>3, <3>1 DEF IInv, HeldAlone
  <2> QED BY <2>2, <2>3
<1>11. SentOnce'
  <2> SUFFICES ASSUME NEW a \in Approvals, a \notin overlapped', a \notin uncertain'
               PROVE  /\ sent'[a] \in {0, 1}
                      /\ sent'[a] = 1 =>
                            \/ outbound'[a] = "executed"
                            \/ \E r \in Sessions : a \in sess'[r].rows /\ sess'[r].row[a] = "executed"
    BY DEF SentOnce
  <2>1. a \notin overlapped /\ a \notin uncertain
    BY <1>1 DEF Opened
  <2>2. ASSUME NEW r \in Sessions, a \in sess[r].rows, sess[r].row[a] = "executed"
        PROVE  a \in sess'[r].rows /\ sess'[r].row[a] = "executed"
    BY <1>1, <1>2, <2>2
  <2> QED BY <1>1, <2>1, <2>2 DEF IInv, SentOnce
<1> QED BY <1>4, <1>5, <1>6, <1>7, <1>8, <1>9, <1>10, <1>11 DEF IInv

-----------------------------------------------------------------------------
(* A session that ends without a commit, and the reading and inserting of  *)
(* an approve: the tables, the sends and the histories do not change.      *)

(* The session of s becomes x, and everything else stays.                  *)
Replaced(s, x) ==
    /\ x \in Session
    /\ sess' = [sess EXCEPT ![s] = x]
    /\ UNCHANGED <<env, request, approval, outbound, due, audit, sent, crashes, overlapped, uncertain>>

(* A step that changes one session only leaves the committed tables as good *)
(* as they were.                                                           *)
LEMMA ReplacedTables ==
    ASSUME IInv, NEW s \in Sessions, NEW x, Replaced(s, x)
    PROVE  /\ \A t \in Sessions : sess'[t] = IF t = s THEN x ELSE sess[t]
           /\ RowDecided' /\ ApprovedHasRow' /\ StatusAudited' /\ RejectedHasNoRow'
<1>1. \A t \in Sessions : sess'[t] = IF t = s THEN x ELSE sess[t]
  BY DEF Replaced, IInv, TypeOK
<1>2. RowDecided' /\ ApprovedHasRow' /\ StatusAudited' /\ RejectedHasNoRow'
  BY DEF Replaced, IInv, RowDecided, ApprovedHasRow, StatusAudited, RejectedHasNoRow
<1> QED BY <1>1, <1>2

(* A session that has executed nothing rolls back.                         *)
LEMMA RollbackKeepsIInv ==
    ASSUME IInv, TypeOK', NEW s \in Sessions, sess[s].pc = "enqueue", Replaced(s, Closed)
    PROVE  IInv'
<1>1. /\ \A t \in Sessions : sess'[t] = IF t = s THEN Closed ELSE sess[t]
      /\ RowDecided' /\ ApprovedHasRow' /\ StatusAudited' /\ RejectedHasNoRow'
  BY ReplacedTables
<1>2. \A a \in Approvals : ~Inserting(s, a) /\ sess[s].row[a] = "none"
  BY DEF IInv, SessionsCoherent, Coherent, Inserting
<1>3. \A t \in Sessions, a \in Approvals : Inserting(t, a)' <=> Inserting(t, a)
  BY <1>1, <1>2 DEF Inserting, Closed, NoRows
<1>4. SessionsCoherent' /\ SessionsGrounded'
  BY <1>1, ClosedFacts DEF Replaced, IInv, SessionsCoherent, SessionsGrounded, Grounded
<1>5. OneInserter'
  BY <1>3 DEF Replaced, IInv, OneInserter
<1>6. DeliveryTraced'
  <2>1. \A w \in Workers, a \in Approvals :
           Inserting(w, a) /\ a \in Ran(w) => Inserting(w, a)' /\ a \in Ran(w)'
    BY <1>1, <1>2, <1>3 DEF Ran, Sessions
  <2> QED BY <2>1 DEF Replaced, IInv, DeliveryTraced
<1>7. HeldAlone'
  BY <1>1 DEF Replaced, IInv, HeldAlone, Closed
<1>8. SentOnce'
  <2>1. \A r \in Sessions, a \in Approvals :
           a \in sess[r].rows /\ sess[r].row[a] = "executed" =>
              a \in sess'[r].rows /\ sess'[r].row[a] = "executed"
    BY <1>1, <1>2
  <2> QED BY <2>1 DEF Replaced, IInv, SentOnce
<1> QED BY <1>1, <1>4, <1>5, <1>6, <1>7, <1>8 DEF IInv

(* enqueue_for_approval that finds a row keeps the invariant.              *)
LEMMA EnqueueExistingKeepsIInv ==
    ASSUME IInv, TypeOK', NEW s \in Sessions, NEW a \in Approvals, EnqueueExisting(s, a)
    PROVE  IInv'
<1> DEFINE f == [sess[s] EXCEPT !.loaded = Held({a}, outbound[a]), !.row = Held({a}, outbound[a])]
           x == AfterEnqueue(f, a)
<1>0. f \in Session /\ sess[s] \in Session
  <2>1. sess[s] \in Session /\ Held({a}, outbound[a]) \in [Approvals -> MaybeStatus]
    BY DEF IInv, TypeOK, Held, MaybeStatus
  <2> QED BY <2>1 DEF Session
<1>1. Replaced(s, x)
  BY <1>0, AfterEnqueueType DEF EnqueueExisting, Replaced, tables, history
<1>2. /\ \A t \in Sessions : sess'[t] = IF t = s THEN x ELSE sess[t]
      /\ RowDecided' /\ ApprovedHasRow' /\ StatusAudited' /\ RejectedHasNoRow'
  BY <1>1, ReplacedTables
<1>3. /\ sess[s].op = "approve" /\ sess[s].rows = {a} /\ sess[s].todo = {}
      /\ <<"approved", a>> \in sess[s].log
      /\ <<"executed", a>> \notin sess[s].log /\ <<"failed", a>> \notin sess[s].log
      /\ sess[s].row[a] = "none"
      /\ outbound[a] # "none" /\ approval[a] # "none"
  <2>1. sess[s].pc = "enqueue" /\ a \in sess[s].rows /\ outbound[a] # "none"
    BY DEF EnqueueExisting
  <2>2. Coherent(sess[s], a) /\ Grounded(sess[s], a)
    BY DEF IInv, SessionsCoherent, SessionsGrounded
  <2>3. \A b \in Approvals : b \notin sess[s].todo
    BY <2>1 DEF IInv, SessionsCoherent, Coherent
  <2> QED BY <1>0, <2>1, <2>2, <2>3 DEF Coherent, Grounded, Session
<1>4. /\ x.op = "approve" /\ x.rows = {a} /\ x.log = sess[s].log
      /\ x.loaded = Held({a}, outbound[a]) /\ x.row = Held({a}, outbound[a])
      /\ \/ x.pc = "run" /\ x.todo = {a} /\ InlineOnApprove(a) /\ outbound[a] = "queued"
         \/ x.pc = "commit" /\ x.todo = {}
  BY <1>0, <1>3 DEF AfterEnqueue, Session, Held
<1> HIDE DEF x, f
<1>5. \A b \in Approvals : Coherent(x, b)
  <2>1. \A b \in Approvals : Coherent(sess[s], b)
    BY DEF IInv, SessionsCoherent
  <2> QED BY <1>3, <1>4, <2>1 DEF Coherent, Held
<1>6. \A b \in Approvals : Grounded(x, b)
  BY <1>3, <1>4 DEF Grounded, Held, InlineOnApprove, UseBatchSchedule
<1>7. SessionsCoherent' /\ SessionsGrounded'
  BY <1>1, <1>2, <1>5, <1>6 DEF Replaced, IInv, SessionsCoherent, SessionsGrounded, Grounded
<1>8. \A t \in Sessions, b \in Approvals : Inserting(t, b)' <=> Inserting(t, b)
  <2>1. \A b \in Approvals : sess[s].row[b] = "none" /\ x.row[b] = x.loaded[b]
    BY <1>3, <1>4 DEF EnqueueExisting, Held, IInv, SessionsCoherent, Coherent
  <2> QED BY <1>2, <2>1 DEF Inserting
<1>9. OneInserter'
  BY <1>1, <1>8 DEF Replaced, IInv, OneInserter
<1>10. DeliveryTraced'
  <2>1. \A w \in Workers, b \in Approvals : b \in Ran(w) => b \in Ran(w)'
    BY <1>2, <1>3, <1>4 DEF Ran, Sessions
  <2> QED BY <1>1, <1>8, <2>1 DEF Replaced, IInv, DeliveryTraced, Sessions
<1>11. a \in overlapped
  BY <1>3 DEF IInv, HeldAlone, RowDecided
<1>12. HeldAlone'
  BY <1>1, <1>2, <1>3, <1>4, <1>11 DEF Replaced, IInv, HeldAlone
<1>13. SentOnce'
  <2>1. \A r \in Sessions, b \in Approvals :
           b # a /\ b \in sess[r].rows /\ sess[r].row[b] = "executed" =>
              b \in sess'[r].rows /\ sess'[r].row[b] = "executed"
    BY <1>2, <1>3
  <2> QED BY <1>1, <1>11, <2>1 DEF Replaced, IInv, SentOnce
<1> QED BY <1>2, <1>7, <1>9, <1>10, <1>12, <1>13 DEF IInv

(* enqueue_for_approval that inserts the row, under the lock of the         *)
(* approval, keeps the invariant.                                          *)
LEMMA EnqueueInsertKeepsIInv ==
    ASSUME IInv, TypeOK', NEW s \in Sessions, NEW a \in Approvals, EnqueueInsert(s, a)
    PROVE  IInv'
<1> DEFINE f == [sess[s] EXCEPT !.row = Held({a}, "queued"), !.log = @ \cup {<<"queued", a>>}]
           x == AfterEnqueue(f, a)
<1>0. f \in Session /\ sess[s] \in Session
  <2>1. sess[s] \in Session /\ Held({a}, "queued") \in [Approvals -> MaybeStatus]
    BY DEF IInv, TypeOK, Held, MaybeStatus, Statuses
  <2> QED BY <2>1, EventType DEF Session
<1>1. Replaced(s, x)
  BY <1>0, AfterEnqueueType DEF EnqueueInsert, Replaced, tables, history
<1>2. /\ \A t \in Sessions : sess'[t] = IF t = s THEN x ELSE sess[t]
      /\ RowDecided' /\ ApprovedHasRow' /\ StatusAudited' /\ RejectedHasNoRow'
  BY <1>1, ReplacedTables
<1>3. /\ sess[s].op = "approve" /\ sess[s].rows = {a} /\ sess[s].todo = {}
      /\ <<"approved", a>> \in sess[s].log
      /\ <<"executed", a>> \notin sess[s].log /\ <<"failed", a>> \notin sess[s].log
      /\ \A b \in Approvals : sess[s].row[b] = "none" /\ sess[s].loaded[b] = "none"
      /\ outbound[a] = "none" /\ approval[a] # "none"
  <2>1. sess[s].pc = "enqueue" /\ a \in sess[s].rows /\ outbound[a] = "none"
    BY DEF EnqueueInsert
  <2>2. Coherent(sess[s], a) /\ Grounded(sess[s], a)
    BY DEF IInv, SessionsCoherent, SessionsGrounded
  <2>3. \A b \in Approvals : b \notin sess[s].todo /\ sess[s].row[b] = "none" /\ sess[s].loaded[b] = "none"
    BY <2>1 DEF IInv, SessionsCoherent, Coherent
  <2> QED BY <1>0, <2>1, <2>2, <2>3 DEF Coherent, Grounded, Session
<1>4. /\ x.op = "approve" /\ x.rows = {a} /\ x.log = sess[s].log \cup {<<"queued", a>>}
      /\ x.loaded = sess[s].loaded /\ x.row = Held({a}, "queued")
      /\ \/ x.pc = "run" /\ x.todo = {a} /\ InlineOnApprove(a)
         \/ x.pc = "commit" /\ x.todo = {}
  BY <1>0, <1>3 DEF AfterEnqueue, Session, Held
<1> HIDE DEF x, f
<1>5. \A b \in Approvals : Coherent(x, b)
  <2>1. \A b \in Approvals : Coherent(sess[s], b)
    BY DEF IInv, SessionsCoherent
  <2> QED BY <1>3, <1>4, <2>1 DEF Coherent, Held
<1>6. \A b \in Approvals : Grounded(x, b)
  BY <1>3, <1>4 DEF Grounded, Held, InlineOnApprove, UseBatchSchedule
<1>7. SessionsCoherent' /\ SessionsGrounded'
  BY <1>1, <1>2, <1>5, <1>6 DEF Replaced, IInv, SessionsCoherent, SessionsGrounded, Grounded
<1>8. /\ \A t \in Sessions, b \in Approvals :
           Inserting(t, b)' <=> (Inserting(t, b) \/ (t = s /\ b = a))
      /\ \A t \in Sessions : ~Inserting(t, a)
  <2>1. \A b \in Approvals : x.loaded[b] = "none" /\ (x.row[b] # "none" <=> b = a)
    BY <1>3, <1>4 DEF Held
  <2>2. \A t \in Sessions, b \in Approvals :
           Inserting(t, b)' <=> (Inserting(t, b) \/ (t = s /\ b = a))
    BY <1>2, <1>3, <1>4, <2>1 DEF Inserting
  <2>3. \A t \in Sessions : ~Inserting(t, a)
    BY <1>3 DEF Inserting, EnqueueInsert, Unlocked
  <2> QED BY <2>2, <2>3
<1>9. OneInserter'
  BY <1>1, <1>3, <1>8 DEF Replaced, IInv, OneInserter
<1>10. DeliveryTraced'
  <2>1. \A w \in Workers, b \in Approvals : b \in Ran(w) => b \in Ran(w)'
    BY <1>2, <1>3, <1>4 DEF Ran, Sessions
  <2> QED BY <1>1, <1>8, <2>1 DEF Replaced, IInv, DeliveryTraced, Sessions
<1>11. HeldAlone'
  BY <1>1, <1>2, <1>3, <1>4 DEF Replaced, IInv, HeldAlone
<1>12. SentOnce'
  <2>1. \A r \in Sessions, b \in Approvals :
           b \in sess[r].rows /\ sess[r].row[b] = "executed" =>
              b \in sess'[r].rows /\ sess'[r].row[b] = "executed"
    BY <1>2, <1>3
  <2> QED BY <1>1, <2>1 DEF Replaced, IInv, SentOnce
<1> QED BY <1>2, <1>7, <1>9, <1>10, <1>11, <1>12 DEF IInv

-----------------------------------------------------------------------------
(* Executing one row.                                                      *)

(* What may have happened at the provider.                                 *)
Delivery(s, a, st) ==
    \/ UNCHANGED <<sent, uncertain>>
    \/ UNCHANGED sent /\ uncertain' = uncertain \cup {a}
    \/ /\ request[a].kind = "comms" /\ s \in Workers
       /\ sent' = [sent EXCEPT ![a] = Saturating(@)]
       /\ \/ uncertain' = uncertain \cup {a}
          \/ uncertain' = uncertain /\ st = "executed"

(* Executing one row, with whatever outcome, keeps the invariant.          *)
LEMMA RecordKeepsIInv ==
    ASSUME IInv, TypeOK', NEW s \in Sessions, NEW a \in Approvals, Executing(s, a),
           NEW st \in {"executed", "failed"}, NEW ev \in {"executed", "failed"},
           st = "executed" => ev = "executed",
           Record(s, a, st, ev), Delivery(s, a, st),
           UNCHANGED <<env, request, approval, outbound, due, audit, crashes, overlapped>>
    PROVE  IInv'
<1> DEFINE x == sess'[s]
<1>0. /\ sess[s] \in Session
      /\ Coherent(sess[s], a) /\ Grounded(sess[s], a)
  BY DEF IInv, TypeOK, SessionsCoherent, SessionsGrounded
<1>1. \A t \in Sessions : sess'[t] = IF t = s THEN x ELSE sess[t]
  BY DEF IInv, TypeOK, Record
<1>2. /\ x.op = sess[s].op /\ x.rows = sess[s].rows /\ x.loaded = sess[s].loaded
      /\ x.row = [sess[s].row EXCEPT ![a] = st]
      /\ x.log = sess[s].log \cup {<<ev, a>>}
      /\ x.todo = sess[s].todo \ {a}
      /\ x.pc = IF sess[s].todo = {a} THEN "commit" ELSE "run"
  BY <1>0 DEF IInv, TypeOK, Record, Session
<1>3. /\ a \in sess[s].todo /\ a \in sess[s].rows /\ sess[s].pc = "run"
      /\ sess[s].row[a] = "queued"
  BY <1>0 DEF Executing, Coherent
<1>4. \A b \in Approvals : x.row[b] = IF b = a THEN st ELSE sess[s].row[b]
  BY <1>0, <1>2 DEF Session
<1> HIDE DEF x
<1>5. \A b \in Approvals : Coherent(x, b)
  <2> SUFFICES ASSUME NEW b \in Approvals PROVE Coherent(x, b)
      OBVIOUS
  <2>1. Coherent(sess[s], b)
    BY DEF IInv, SessionsCoherent
  <2>2. CASE b = a
    BY <1>0, <1>2, <1>3, <1>4, <2>2 DEF Coherent
  <2>3. CASE b # a
    BY <1>2, <1>3, <1>4, <2>1, <2>3 DEF Coherent
  <2> QED BY <2>2, <2>3
<1>6. \A b \in Approvals : Grounded(x, b)
  <2> SUFFICES ASSUME NEW b \in Approvals PROVE Grounded(x, b)
      OBVIOUS
  <2>1. Grounded(sess[s], b) /\ Coherent(sess[s], b)
    BY DEF IInv, SessionsGrounded, SessionsCoherent
  <2> QED BY <1>0, <1>2, <1>3, <1>4, <2>1 DEF Grounded, Coherent
<1>7. SessionsCoherent' /\ SessionsGrounded'
  BY <1>1, <1>5, <1>6 DEF IInv, SessionsCoherent, SessionsGrounded, Grounded
<1>8. \A t \in Sessions, b \in Approvals : Inserting(t, b)' <=> Inserting(t, b)
  BY <1>1, <1>2, <1>3, <1>4 DEF Inserting
<1>9. OneInserter'
  BY <1>8 DEF IInv, OneInserter
<1>10. RowDecided' /\ ApprovedHasRow' /\ StatusAudited' /\ RejectedHasNoRow'
  BY DEF IInv, RowDecided, ApprovedHasRow, StatusAudited, RejectedHasNoRow
<1>11. DeliveryTraced'
  <2>1. /\ \A t \in Sessions, b \in Approvals : b \in Ran(t) => b \in Ran(t)'
        /\ a \in Ran(s)'
    BY <1>1, <1>2, <1>3 DEF Ran
  <2> SUFFICES ASSUME NEW b \in Approvals, sent'[b] > 0, <<"approved", b>> \notin audit
               PROVE  env.inline /\ (b \in uncertain' \/ \E w \in Workers : Inserting(w, b)' /\ b \in Ran(w)')
    BY DEF DeliveryTraced
  <2>2. CASE sent'[b] = sent[b]
    BY <1>8, <2>1, <2>2 DEF IInv, DeliveryTraced, Delivery, Sessions
  <2>3. CASE sent'[b] # sent[b]
    <3>1. b = a /\ s \in Workers /\ request[a].kind = "comms"
      BY <2>3 DEF Delivery, IInv, TypeOK
    <3>2. sess[s].loaded[a] = "none" /\ sess[s].op = "approve"
      BY <1>0, <1>3, <3>1 DEF Grounded, Coherent, IInv, RowDecided
    <3>3. env.inline /\ Inserting(s, a)
      BY <1>0, <1>3, <3>1, <3>2 DEF Grounded, Inserting
    <3> QED BY <1>8, <2>1, <3>1, <3>3
  <2> QED BY <2>2, <2>3
<1>12. HeldAlone'
  BY <1>1, <1>2 DEF IInv, HeldAlone
<1>13. SentOnce'
  <2> SUFFICES ASSUME NEW b \in Approvals, b \notin overlapped, b \notin uncertain'
               PROVE  /\ sent'[b] \in {0, 1}
                      /\ sent'[b] = 1 =>
                            \/ outbound[b] = "executed"
                            \/ \E r \in Sessions : b \in sess'[r].rows /\ sess'[r].row[b] = "executed"
    BY DEF SentOnce
  <2>1. b \notin uncertain
    BY DEF Delivery
  <2>2. CASE b # a
    <3>1. sent'[b] = sent[b]
      BY <2>2 DEF Delivery, IInv, TypeOK
    <3>2. ASSUME NEW r \in Sessions, b \in sess[r].rows, sess[r].row[b] = "executed"
          PROVE  b \in sess'[r].rows /\ sess'[r].row[b] = "executed"
      BY <1>1, <1>2, <1>4, <2>2, <3>2
    <3> QED BY <2>1, <3>1, <3>2 DEF IInv, SentOnce
  <2>3. CASE b = a
    <3>1. sent[a] = 0
      BY <1>3, <2>1, <2>3 DEF IInv, SentOnce, HeldAlone
    <3>2. sent'[a] = 0 \/ (sent'[a] = 1 /\ st = "executed")
      BY <2>3, <3>1 DEF Delivery, IInv, TypeOK, Saturating
    <3> QED BY <1>1, <1>2, <1>3, <1>4, <2>3, <3>2
  <2> QED BY <2>2, <2>3
<1> QED BY <1>7, <1>9, <1>10, <1>11, <1>12, <1>13 DEF IInv

(* The live adapter, the stub and the calendar path are such executions.   *)
LEMMA RunKeepsIInv ==
    ASSUME IInv, TypeOK', NEW s \in Sessions, NEW a \in Approvals, Run(s, a)
    PROVE  IInv'
<1>1. CASE RunLive(s, a)
  <2>1. PICK delivered \in BOOLEAN, reported \in BOOLEAN :
           /\ Record(s, a, IF reported THEN "executed" ELSE "failed", "executed")
           /\ sent' = [sent EXCEPT ![a] = IF delivered THEN Saturating(@) ELSE @]
           /\ uncertain' = IF delivered # reported THEN uncertain \cup {a} ELSE uncertain
    BY <1>1 DEF RunLive
  <2> DEFINE st == IF reported THEN "executed" ELSE "failed"
  <2>2. Executing(s, a) /\ UNCHANGED <<env, request, approval, outbound, due, audit, crashes, overlapped>>
    BY <1>1 DEF RunLive, tables
  <2>3. Delivery(s, a, st)
    BY <1>1, <2>1 DEF RunLive, Delivery, LiveAdapter, IInv, TypeOK
  <2>4. Record(s, a, st, "executed") /\ st \in {"executed", "failed"}
    BY <2>1
  <2> HIDE DEF st
  <2> QED BY <2>2, <2>3, <2>4, RecordKeepsIInv
<1>2. CASE RunStub(s, a)
  <2>1. /\ Executing(s, a) /\ Delivery(s, a, "executed") /\ Delivery(s, a, "failed")
        /\ UNCHANGED <<env, request, approval, outbound, due, audit, crashes, overlapped>>
        /\ Record(s, a, "failed", "failed") \/ Record(s, a, "executed", "executed")
    BY <1>2 DEF RunStub, Delivery, tables, history
  <2> QED BY <2>1, RecordKeepsIInv
<1>3. CASE RunCalendar(s, a)
  <2>1. /\ Executing(s, a) /\ Delivery(s, a, "executed") /\ Delivery(s, a, "failed")
        /\ UNCHANGED <<env, request, approval, outbound, due, audit, crashes, overlapped>>
        /\ Record(s, a, "failed", "failed") \/ Record(s, a, "executed", "executed")
    BY <1>3 DEF RunCalendar, Delivery, tables, history
  <2> QED BY <2>1, RecordKeepsIInv
<1> QED BY <1>1, <1>2, <1>3 DEF Run

-----------------------------------------------------------------------------
(* Commit and crash.                                                       *)

(* What a commit of s does to the row of one approval.                     *)
LEMMA CommitEffect ==
    ASSUME IInv, NEW s \in Sessions, Commit(s), NEW a \in Approvals
    PROVE  /\ outbound'[a] = IF Changed(s, a) THEN sess[s].row[a] ELSE outbound[a]
           /\ approval'[a] = IF Decides(s, a) THEN DecisionOf(s) ELSE approval[a]
           /\ audit \subseteq audit' /\ sess[s].log \subseteq audit'
           /\ Changed(s, a) => /\ a \in sess[s].rows
                               /\ sess[s].row[a] # "none"
                               /\ sess[s].row[a] = "queued" => Inserting(s, a)
                               /\ Inserting(s, a) <=> sess[s].loaded[a] = "none"
           /\ Inserting(s, a) => outbound[a] = "none" /\ Changed(s, a) /\ Decides(s, a)
           /\ outbound[a] # "none" => outbound'[a] # "none"
           /\ approval[a] # "none" => approval'[a] # "none"
           /\ Decides(s, a) => approval'[a] \in {"approved", "rejected"}
<1>1. Coherent(sess[s], a) /\ Grounded(sess[s], a) /\ sess[s].pc = "commit"
  BY DEF IInv, SessionsCoherent, SessionsGrounded, Commit
<1>2. a \notin sess[s].todo
  BY <1>1 DEF Coherent
<1>3. Changed(s, a) => /\ a \in sess[s].rows
                       /\ sess[s].row[a] # "none"
                       /\ sess[s].row[a] = "queued" => Inserting(s, a)
                       /\ Inserting(s, a) <=> sess[s].loaded[a] = "none"
  BY <1>1, <1>2 DEF Coherent, Changed, Inserting
<1>4. Inserting(s, a) => outbound[a] = "none" /\ Changed(s, a) /\ Decides(s, a)
  BY <1>1 DEF IInv, OneInserter, Inserting, Changed, Decides, Coherent
<1>5. /\ outbound'[a] = IF Changed(s, a) THEN sess[s].row[a] ELSE outbound[a]
      /\ approval'[a] = IF Decides(s, a) THEN DecisionOf(s) ELSE approval[a]
      /\ audit \subseteq audit' /\ sess[s].log \subseteq audit'
  BY DEF Commit
<1> QED BY <1>3, <1>4, <1>5 DEF DecisionOf

(* A commit writes what the session checked and logged: the tables stay     *)
(* consistent with the audit log and with each other.                      *)
LEMMA CommitKeepsIInv ==
    ASSUME IInv, TypeOK', NEW s \in Sessions, Commit(s)
    PROVE  IInv'
<1>1. /\ \A t \in Sessions : sess'[t] = IF t = s THEN Closed ELSE sess[t]
      /\ UNCHANGED <<env, request, due, sent, crashes, overlapped, uncertain>>
      /\ sess[s].pc = "commit"
  BY DEF Commit, Close, IInv, TypeOK, history
<1>2. \A a \in Approvals : Coherent(sess[s], a) /\ Grounded(sess[s], a)
  BY DEF IInv, SessionsCoherent, SessionsGrounded
<1>3. \A t \in Sessions, a \in Approvals : Inserting(t, a)' <=> (t # s /\ Inserting(t, a))
  BY <1>1 DEF Inserting, Closed, NoRows
<1>4. SessionsCoherent'
  BY <1>1, ClosedFacts DEF IInv, SessionsCoherent
<1>5. SessionsGrounded'
  <2>1. \A t \in Sessions, a \in Approvals : Grounded(Closed, a)'
    BY DEF Grounded, Closed, NoRows
  <2>2. ASSUME NEW t \in Sessions, NEW a \in Approvals, t # s
        PROVE  Grounded(sess[t], a)'
    BY <1>1, <2>2, CommitEffect DEF IInv, SessionsGrounded, Grounded
  <2> QED BY <1>1, <2>1, <2>2 DEF SessionsGrounded, Grounded
<1>6. OneInserter'
  <2> SUFFICES ASSUME NEW a \in Approvals
               PROVE  /\ \A t, u \in Sessions : Inserting(t, a)' /\ Inserting(u, a)' => t = u
                      /\ outbound'[a] # "none" => \A t \in Sessions : ~Inserting(t, a)'
    BY DEF OneInserter
  <2>1. \A t, u \in Sessions : Inserting(t, a) /\ Inserting(u, a) => t = u
    BY DEF IInv, OneInserter
  <2>2. ASSUME NEW t \in Sessions, Inserting(t, a), t # s PROVE outbound'[a] = "none"
    <3>1. outbound[a] = "none" /\ sess[t].rows = {a} /\ ~Inserting(s, a)
      BY <2>1, <2>2 DEF IInv, OneInserter, SessionsCoherent, Coherent, Inserting
    <3>2. sess[s].loaded[a] = "none"
      BY <1>2, <3>1 DEF Grounded
    <3> QED BY <3>1, <3>2, CommitEffect
  <2> QED BY <1>3, <2>1, <2>2
<1>7. RowDecided'
  <2> SUFFICES ASSUME NEW a \in Approvals, outbound'[a] # "none"
               PROVE  /\ approval'[a] \in {"approved", "rejected"}
                      /\ <<"approved", a>> \in audit' /\ <<"queued", a>> \in audit'
    BY DEF RowDecided
  <2>1. CASE outbound[a] # "none"
    BY <2>1, CommitEffect DEF IInv, RowDecided
  <2>2. CASE outbound[a] = "none"
    <3>1. Inserting(s, a) /\ a \in sess[s].rows
      BY <1>2, <2>2, CommitEffect DEF Grounded
    <3>2. <<"approved", a>> \in sess[s].log /\ <<"queued", a>> \in sess[s].log
      BY <1>2, <3>1 DEF Inserting, Coherent
    <3> QED BY <3>1, <3>2, CommitEffect
  <2> QED BY <2>1, <2>2
<1>8. ApprovedHasRow'
  <2> SUFFICES ASSUME NEW a \in Approvals, approval'[a] = "approved", request[a].kind \in Governed
               PROVE  outbound'[a] # "none"
    BY <1>1 DEF ApprovedHasRow
  <2>1. CASE Decides(s, a)
    <3>1. sess[s].op = "approve" /\ a \in sess[s].rows
      BY <2>1, CommitEffect DEF Decides, DecisionOf
    <3>2. sess[s].row[a] # "none"
      BY <1>1, <1>2, <3>1 DEF Grounded
    <3> QED BY <1>2, <3>2, CommitEffect DEF Grounded, Changed
  <2>2. CASE ~Decides(s, a)
    BY <2>2, CommitEffect DEF IInv, ApprovedHasRow
  <2> QED BY <2>1, <2>2
<1>9. StatusAudited'
  <2> SUFFICES ASSUME NEW a \in Approvals
               PROVE  /\ outbound'[a] = "executed" => <<"executed", a>> \in audit'
                      /\ outbound'[a] = "pulled_back" => <<"pulled_back", a>> \in audit'
    BY DEF StatusAudited
  <2>1. CASE Changed(s, a)
    <3>1. sess[s].row[a] \in {"executed", "pulled_back"} => <<sess[s].row[a], a>> \in sess[s].log
      BY <1>2, <2>1 DEF Coherent, Changed
    <3>2. outbound'[a] = sess[s].row[a] /\ sess[s].log \subseteq audit'
      BY <2>1, CommitEffect
    <3> QED BY <3>1, <3>2
  <2>2. CASE ~Changed(s, a)
    <3>1. outbound'[a] = outbound[a] /\ audit \subseteq audit'
      BY <2>2, CommitEffect
    <3> QED BY <3>1 DEF IInv, StatusAudited
  <2> QED BY <2>1, <2>2
<1>10. DeliveryTraced'
  <2> SUFFICES ASSUME NEW a \in Approvals, sent[a] > 0, <<"approved", a>> \notin audit'
               PROVE  /\ env.inline
                      /\ a \in uncertain \/ \E w \in Workers : Inserting(w, a)' /\ a \in Ran(w)'
    BY <1>1 DEF DeliveryTraced
  <2>1. <<"approved", a>> \notin audit /\ <<"approved", a>> \notin sess[s].log
    BY CommitEffect
  <2> SUFFICES ASSUME a \notin uncertain
               PROVE  env.inline /\ \E w \in Workers : Inserting(w, a)' /\ a \in Ran(w)'
    BY <2>1 DEF IInv, DeliveryTraced
  <2>2. PICK w \in Workers : env.inline /\ Inserting(w, a) /\ a \in Ran(w)
    BY <2>1 DEF IInv, DeliveryTraced
  <2>3. w # s
    BY <1>2, <2>1, <2>2 DEF Inserting, Coherent
  <2>4. Inserting(w, a)' /\ a \in Ran(w)'
    BY <1>1, <1>3, <2>2, <2>3 DEF Ran, Sessions
  <2> QED BY <2>2, <2>4
<1>11. HeldAlone'
  <2> SUFFICES ASSUME NEW a \in Approvals, a \notin overlapped, NEW r \in Sessions, a \in sess'[r].rows
               PROVE  /\ \A t \in Sessions : a \in sess'[t].rows => r = t
                      /\ sess'[r].loaded[a] = outbound'[a]
                      /\ sess'[r].op \in {"approve", "reject"} => approval'[a] = "pending"
                      /\ outbound'[a] \in {"none", "queued", "failed"}
    BY <1>1 DEF HeldAlone
  <2>1. r # s /\ a \in sess[r].rows
    BY <1>1 DEF Closed
  <2>2. a \notin sess[s].rows
    BY <2>1 DEF IInv, HeldAlone
  <2>3. ~Changed(s, a) /\ ~Decides(s, a)
    BY <2>2, CommitEffect DEF Decides
  <2>4. outbound'[a] = outbound[a] /\ approval'[a] = approval[a]
    BY <2>3, CommitEffect
  <2>5. /\ \A t \in Sessions : a \in sess[t].rows => r = t
        /\ sess[r].loaded[a] = outbound[a]
        /\ sess[r].op \in {"approve", "reject"} => approval[a] = "pending"
        /\ outbound[a] \in {"none", "queued", "failed"}
    BY <2>1 DEF IInv, HeldAlone
  <2> QED BY <1>1, <2>1, <2>2, <2>4, <2>5 DEF Closed
<1>12. SentOnce'
  <2> SUFFICES ASSUME NEW a \in Approvals, a \notin overlapped, a \notin uncertain
               PROVE  /\ sent[a] \in {0, 1}
                      /\ sent[a] = 1 =>
                            \/ outbound'[a] = "executed"
                            \/ \E r \in Sessions : a \in sess'[r].rows /\ sess'[r].row[a] = "executed"
    BY <1>1 DEF SentOnce
  <2>1. sent[a] \in {0, 1}
    BY DEF IInv, SentOnce
  <2>2. CASE sent[a] = 1 /\ outbound[a] = "executed"
    <3>1. a \notin sess[s].rows
      BY <2>2 DEF IInv, HeldAlone
    <3> QED BY <2>1, <2>2, <3>1, CommitEffect
  <2>3. CASE sent[a] = 1 /\ \E r \in Sessions : a \in sess[r].rows /\ sess[r].row[a] = "executed"
    <3>1. PICK r \in Sessions : a \in sess[r].rows /\ sess[r].row[a] = "executed"
      BY <2>3
    <3>2. CASE r = s
      <4>1. sess[s].loaded[a] \in {"none", "queued", "failed"}
        BY <3>1, <3>2 DEF IInv, HeldAlone
      <4>2. Changed(s, a)
        BY <3>1, <3>2, <4>1 DEF Changed
      <4> QED BY <2>1, <3>1, <3>2, <4>2, CommitEffect
    <3>3. CASE r # s
      BY <1>1, <2>1, <3>1, <3>3
    <3> QED BY <3>2, <3>3
  <2> QED BY <2>1, <2>2, <2>3 DEF IInv, SentOnce
<1>13. RejectedHasNoRow'
  <2> SUFFICES ASSUME NEW a \in Approvals, a \notin overlapped, approval'[a] = "rejected"
               PROVE  outbound'[a] = "none"
    BY <1>1 DEF RejectedHasNoRow
  <2>1. CASE Decides(s, a)
    <3>1. sess[s].op = "reject" /\ a \in sess[s].rows
      BY <2>1, CommitEffect DEF Decides, DecisionOf
    <3>2. outbound[a] = "none"
      BY <3>1 DEF IInv, HeldAlone, RowDecided
    <3>3. ~Changed(s, a)
      BY <1>2, <3>1, CommitEffect DEF Coherent
    <3> QED BY <3>2, <3>3, CommitEffect
  <2>2. CASE ~Decides(s, a)
    <3>1. approval[a] = "rejected" /\ outbound[a] = "none"
      BY <2>2, CommitEffect DEF IInv, RejectedHasNoRow
    <3>2. ~Changed(s, a)
      BY <1>2, <2>2, <3>1, CommitEffect DEF Grounded
    <3> QED BY <3>1, <3>2, CommitEffect
  <2> QED BY <2>1, <2>2
<1> QED BY <1>4, <1>5, <1>6, <1>7, <1>8, <1>9, <1>10, <1>11, <1>12, <1>13 DEF IInv

(* A lost session takes its writes with it, not the message it sent.       *)
LEMMA CrashKeepsIInv ==
    ASSUME IInv, TypeOK', NEW s \in Sessions, Crash(s)
    PROVE  IInv'
<1>1. /\ \A t \in Sessions : sess'[t] = IF t = s THEN Closed ELSE sess[t]
      /\ UNCHANGED <<env, request, approval, outbound, audit, due, sent, overlapped>>
      /\ uncertain' = uncertain \cup Ran(s)
  BY DEF Crash, Close, IInv, TypeOK, tables
<1>2. \A t \in Sessions, a \in Approvals : Inserting(t, a)' <=> (t # s /\ Inserting(t, a))
  BY <1>1 DEF Inserting, Closed, NoRows
<1>3. SessionsCoherent' /\ SessionsGrounded'
  BY <1>1, ClosedFacts DEF IInv, SessionsCoherent, SessionsGrounded, Grounded
<1>4. OneInserter'
  BY <1>1, <1>2 DEF IInv, OneInserter
<1>5. RowDecided' /\ ApprovedHasRow' /\ StatusAudited' /\ RejectedHasNoRow'
  BY <1>1 DEF IInv, RowDecided, ApprovedHasRow, StatusAudited, RejectedHasNoRow
<1>6. DeliveryTraced'
  <2>1. \A w \in Workers, a \in Approvals :
           Inserting(w, a) /\ a \in Ran(w) /\ a \notin uncertain' => Inserting(w, a)' /\ a \in Ran(w)'
    BY <1>1, <1>2 DEF Ran, Sessions
  <2> QED BY <1>1, <2>1 DEF IInv, DeliveryTraced
<1>7. HeldAlone'
  BY <1>1 DEF IInv, HeldAlone, Closed
<1>8. SentOnce'
  <2>1. \A r \in Sessions, a \in Approvals :
           a \in sess[r].rows /\ sess[r].row[a] = "executed" /\ a \notin uncertain' /\ a \notin overlapped =>
              r # s \/ sess[s].loaded[a] = "executed"
    <3>1. \A a \in Approvals :
             a \in sess[s].rows /\ sess[s].row[a] = "executed" /\ a \notin Ran(s) =>
                sess[s].loaded[a] = "executed"
      BY DEF IInv, SessionsCoherent, Coherent, Ran
    <3> QED BY <1>1, <3>1
  <2>2. \A r \in Sessions, a \in Approvals :
           a \in sess[r].rows /\ sess[r].row[a] = "executed" /\ a \notin uncertain' /\ a \notin overlapped =>
              r # s \/ outbound[a] = "executed"
    BY <2>1 DEF IInv, HeldAlone
  <2> QED BY <1>1, <2>2 DEF IInv, SentOnce
<1> QED BY <1>3, <1>4, <1>5, <1>6, <1>7, <1>8 DEF IInv

(* Filing an approval keeps the invariant.                                 *)
LEMMA CreateKeepsIInv ==
    ASSUME IInv, TypeOK', NEW c \in Approvals, CreateApproval(c)
    PROVE  IInv'
<1>1. /\ approval[c] = "none"
      /\ \A a \in Approvals : approval'[a] = IF a = c THEN "pending" ELSE approval[a]
      /\ \A a \in Approvals : a # c => request'[a] = request[a]
      /\ UNCHANGED <<env, outbound, audit, sess, sent, overlapped, uncertain>>
  BY DEF CreateApproval, IInv, TypeOK, history
<1>2. outbound[c] = "none" /\ \A s \in Sessions : c \notin sess[s].rows
  BY <1>1 DEF IInv, RowDecided, SessionsGrounded, Grounded
<1>3. SessionsCoherent' /\ OneInserter'
  BY <1>1 DEF IInv, SessionsCoherent, OneInserter, Inserting
<1>4. SessionsGrounded'
  BY <1>1, <1>2 DEF IInv, SessionsGrounded, Grounded
<1>5. RowDecided' /\ ApprovedHasRow' /\ StatusAudited' /\ RejectedHasNoRow'
  BY <1>1, <1>2 DEF IInv, RowDecided, ApprovedHasRow, StatusAudited, RejectedHasNoRow
<1>6. DeliveryTraced'
  BY <1>1 DEF IInv, DeliveryTraced, Inserting, Ran
<1>7. HeldAlone' /\ SentOnce'
  BY <1>1, <1>2 DEF IInv, HeldAlone, SentOnce
<1> QED BY <1>3, <1>4, <1>5, <1>6, <1>7 DEF IInv

(* A step that leaves what the invariant speaks of alone keeps it.         *)
LEMMA SameKeepsIInv ==
    ASSUME IInv, TypeOK',
           UNCHANGED <<env, request, approval, outbound, audit, sess, sent, overlapped, uncertain>>
    PROVE  IInv'
BY DEF IInv, SessionsCoherent, SessionsGrounded, Grounded, OneInserter, Inserting, RowDecided,
       ApprovedHasRow, StatusAudited, RejectedHasNoRow, DeliveryTraced, Ran, HeldAlone, SentOnce

(* Every step of the API and of the dispatcher keeps the invariant.        *)
THEOREM StepIInv == IInv /\ [Next]_vars => IInv'
<1> SUFFICES ASSUME IInv, [Next]_vars PROVE IInv'
    OBVIOUS
<1>0. TypeOK'
  BY TypeStep DEF IInv
<1>1. ASSUME NEW a \in Approvals, CreateApproval(a) PROVE IInv'
  BY <1>0, <1>1, CreateKeepsIInv
<1>2. ASSUME NEW a \in Approvals, BecomesDue(a) PROVE IInv'
  BY <1>0, <1>2, SameKeepsIInv DEF BecomesDue, tables, history
<1>3. ASSUME NEW s \in Workers, NEW a \in Approvals, OpenRequest(s, a) PROVE IInv'
  <2>1. s \in Sessions
    BY DEF Sessions
  <2>2. \E x : Opened(s, x)
    BY <1>3, <2>1, OpenApproveIsOpened, OpenRejectIsOpened, OpenPullBackIsOpened,
       OpenExecuteIsOpened DEF OpenRequest
  <2> QED BY <1>0, <2>1, <2>2, OpenedKeepsIInv
<1>4. ASSUME NEW s \in Crons, OpenDispatch(s) PROVE IInv'
  <2>1. s \in Sessions
    BY DEF Sessions
  <2> QED BY <1>0, <1>4, <2>1, OpenDispatchIsOpened, OpenedKeepsIInv
<1>5. ASSUME NEW s \in Sessions, NEW a \in Approvals, Enqueue(s, a) PROVE IInv'
  <2>1. CASE EnqueueRefused(s, a) \/ EnqueueConflict(s, a)
    <3>1. sess[s].pc = "enqueue" /\ Replaced(s, Closed)
      BY <2>1, ClosedType DEF EnqueueRefused, EnqueueConflict, Close, Replaced, tables, history
    <3> QED BY <1>0, <3>1, RollbackKeepsIInv
  <2> QED BY <1>0, <1>5, <2>1, EnqueueExistingKeepsIInv, EnqueueInsertKeepsIInv DEF Enqueue
<1>6. ASSUME NEW s \in Sessions, NEW a \in Approvals, Run(s, a) PROVE IInv'
  BY <1>0, <1>6, RunKeepsIInv
<1>7. ASSUME NEW s \in Sessions, Commit(s) PROVE IInv'
  BY <1>0, <1>7, CommitKeepsIInv
<1>8. ASSUME NEW s \in Sessions, Crash(s) PROVE IInv'
  BY <1>0, <1>8, CrashKeepsIInv
<1>9. CASE UNCHANGED vars
  BY <1>0, <1>9, SameKeepsIInv DEF vars
<1> QED BY <1>1, <1>2, <1>3, <1>4, <1>5, <1>6, <1>7, <1>8, <1>9 DEF Next, Advance

(* The invariant holds in every reachable state: any number of requests,   *)
(* dispatcher runs and crashes.                                            *)
THEOREM Invariance == Spec => []IInv
BY InitIInv, StepIInv, PTL DEF Spec

-----------------------------------------------------------------------------
(* What the invariant gives.                                               *)

(* An approval of a governed send never stands approved without its row,   *)
(* in any interleaving of requests, dispatcher runs and crashes.           *)
THEOREM ApprovedRowExists == Spec => []ApprovedHasRow
<1>1. IInv => ApprovedHasRow
  BY DEF IInv
<1> QED BY <1>1, Invariance, PTL

(* A row or a delivered message traces back to a committed approval.       *)
THEOREM GovernedSend == Spec => []NothingLeavesUnapproved
<1>1. IInv => NothingLeavesUnapproved
  BY DEF IInv, RowDecided, DeliveryTraced, NothingLeavesUnapproved
<1> QED BY <1>1, Invariance, PTL

(* An executed row has its outbound.executed event and a withdrawn row its *)
(* outbound.pulled_back event (a failed row need not have one of its own). *)
THEOREM Audited == Spec => []StatusAudited
<1>1. IInv => StatusAudited
  BY DEF IInv
<1> QED BY <1>1, Invariance, PTL

(* Without overlap and without a lost outcome the message goes out at most *)
(* once, and its row is then executed.                                     *)
THEOREM ExactSend == Spec => []UndisturbedSendIsExact
<1>1. IInv => UndisturbedSendIsExact
  BY DEF IInv, SentOnce, UndisturbedSendIsExact
<1> QED BY <1>1, Invariance, PTL

(* Without overlap and without a lost outcome nothing rejected is sent.    *)
THEOREM RejectionHolds == Spec => []RejectedIsNotSent
<1>1. ASSUME IInv PROVE RejectedIsNotSent
  <2> SUFFICES ASSUME NEW a \in Approvals, a \notin overlapped, a \notin uncertain,
                      approval[a] = "rejected"
               PROVE  outbound[a] = "none" /\ sent[a] = 0
    BY DEF RejectedIsNotSent
  <2>1. outbound[a] = "none" /\ sent[a] \in {0, 1}
    BY <1>1 DEF IInv, RejectedHasNoRow, SentOnce
  <2>2. ASSUME NEW s \in Sessions, a \in sess[s].rows, sess[s].row[a] = "executed" PROVE FALSE
    <3>1. sess[s].loaded[a] = "none" /\ sess[s].op \notin {"approve", "reject"}
      BY <1>1, <2>1, <2>2 DEF IInv, HeldAlone
    <3> QED BY <1>1, <2>2, <3>1 DEF IInv, SessionsCoherent, Coherent
  <2> QED BY <1>1, <2>1, <2>2 DEF IInv, SentOnce
<1> QED BY <1>1, Invariance, PTL

(* The status of a row never returns to queued.                            *)
THEOREM Requeue == Spec => NeverRequeued
<1>1. ASSUME IInv, [Next]_vars, NEW a \in Approvals, outbound[a] \in Statuses \ {"queued"}
      PROVE  outbound'[a] \in Statuses \ {"queued"}
  <2>1. CASE UNCHANGED outbound
    BY <1>1, <2>1
  <2>2. ASSUME NEW s \in Sessions, Commit(s) PROVE outbound'[a] \in Statuses \ {"queued"}
    <3>1. outbound'[a] \in MaybeStatus
      BY <1>1, TypeStep DEF IInv, TypeOK
    <3> QED BY <1>1, <2>2, <3>1, CommitEffect DEF Statuses, MaybeStatus
  <2>3. UNCHANGED outbound \/ \E s \in Sessions : Commit(s)
    BY <1>1 DEF Next, vars, tables, OpenRequest, Advance, Enqueue, Run, CreateApproval, BecomesDue,
       OpenApprove, OpenReject, OpenPullBack, OpenExecute, OpenDispatch, EnqueueExisting,
       EnqueueRefused, EnqueueInsert, EnqueueConflict, RunLive, RunStub, RunCalendar, Crash
  <2> QED BY <2>1, <2>2, <2>3
<1>2. IInv /\ [Next]_vars =>
         [\A a \in Approvals :
             outbound[a] \in Statuses \ {"queued"} => outbound'[a] \in Statuses \ {"queued"}]_vars
  BY <1>1
<1> QED BY <1>2, Invariance, PTL DEF Spec, NeverRequeued

(* A decision stands, unless two sessions decided the approval at once.    *)
THEOREM FinalDecision == Spec => DecisionIsFinal
<1>1. ASSUME IInv, [Next]_vars, NEW a \in Approvals \ overlapped, approval[a] \in {"approved", "rejected"}
      PROVE  approval'[a] = approval[a]
  <2>1. CASE UNCHANGED approval
    BY <2>1
  <2>2. ASSUME NEW s \in Sessions, Commit(s) PROVE approval'[a] = approval[a]
    <3>1. ~Decides(s, a)
      BY <1>1 DEF IInv, HeldAlone, Decides
    <3> QED BY <1>1, <2>2, <3>1, CommitEffect
  <2>3. ASSUME NEW c \in Approvals, CreateApproval(c) PROVE approval'[a] = approval[a]
    BY <1>1, <2>3 DEF CreateApproval, IInv, TypeOK
  <2>4. \/ UNCHANGED approval
        \/ \E s \in Sessions : Commit(s)
        \/ \E c \in Approvals : CreateApproval(c)
    BY <1>1 DEF Next, vars, tables, OpenRequest, Advance, Enqueue, Run, BecomesDue,
       OpenApprove, OpenReject, OpenPullBack, OpenExecute, OpenDispatch, EnqueueExisting,
       EnqueueRefused, EnqueueInsert, EnqueueConflict, RunLive, RunStub, RunCalendar, Crash
  <2> QED BY <2>1, <2>2, <2>3, <2>4
<1>2. IInv /\ [Next]_vars =>
         [\A a \in Approvals \ overlapped :
             approval[a] \in {"approved", "rejected"} => approval'[a] = approval[a]]_vars
  BY <1>1
<1> QED BY <1>2, Invariance, PTL DEF Spec, DecisionIsFinal

-----------------------------------------------------------------------------
(* The promise of WriteBack.                                               *)

(* Only a queued row is withdrawn.                                         *)
WithdrawnWasQueued ==
    \A s \in Sessions, a \in Approvals :
        sess[s].row[a] = "pulled_back" => sess[s].loaded[a] \in {"queued", "pulled_back"}

(* No request, dispatcher step or crash withdraws a row in another way.    *)
LEMMA WithdrawnStep ==
    ASSUME TypeOK, WithdrawnWasQueued, [Next]_vars
    PROVE  WithdrawnWasQueued'
<1> DEFINE Fine(x) == \A a \in Approvals :
              x.row[a] = "pulled_back" => x.loaded[a] \in {"queued", "pulled_back"}
<1>1. ASSUME NEW s \in Sessions, NEW x, Fine(x), sess' = [sess EXCEPT ![s] = x]
      PROVE  WithdrawnWasQueued'
  BY <1>1 DEF WithdrawnWasQueued, TypeOK
<1>2. CASE UNCHANGED sess
  BY <1>2 DEF WithdrawnWasQueued
<1>3. Fine(Closed)
  BY DEF Closed, NoRows
<1>4. ASSUME NEW s \in Sessions, NEW a \in Approvals, OpenRequest(s, a)
      PROVE  \E x : Fine(x) /\ sess' = [sess EXCEPT ![s] = x]
  BY <1>4 DEF OpenRequest, OpenApprove, OpenReject, OpenPullBack, OpenExecute, Open, Closed, NoRows, Held
<1>5. ASSUME NEW s \in Sessions, OpenDispatch(s)
      PROVE  \E x : Fine(x) /\ sess' = [sess EXCEPT ![s] = x]
  <2>1. PICK R \in SUBSET DueRows :
          Open(s, [Closed EXCEPT !.op = "dispatch", !.rows = R, !.pc = "run", !.todo = R,
                                    !.loaded = Held(R, "queued"), !.row = Held(R, "queued")])
    BY <1>5 DEF OpenDispatch
  <2> QED BY <2>1 DEF Open, Closed, Held
<1>6. ASSUME NEW s \in Sessions, NEW a \in Approvals, Enqueue(s, a)
      PROVE  \E x : Fine(x) /\ sess' = [sess EXCEPT ![s] = x]
  <2>1. sess[s] \in Session
    BY SessionType
  <2>2. CASE EnqueueExisting(s, a)
    <3> DEFINE found == [sess[s] EXCEPT !.loaded = Held({a}, outbound[a]),
                                        !.row = Held({a}, outbound[a])]
    <3>1. sess' = [sess EXCEPT ![s] = AfterEnqueue(found, a)]
      BY <2>2 DEF EnqueueExisting
    <3>2. Fine(AfterEnqueue(found, a))
      BY <2>1 DEF AfterEnqueue, Held, Session
    <3> QED BY <3>1, <3>2
  <2>3. CASE EnqueueInsert(s, a)
    <3> DEFINE inserted == [sess[s] EXCEPT !.row = Held({a}, "queued"), !.log = @ \cup {<<"queued", a>>}]
    <3>1. sess' = [sess EXCEPT ![s] = AfterEnqueue(inserted, a)]
      BY <2>3 DEF EnqueueInsert
    <3>2. Fine(AfterEnqueue(inserted, a))
      BY <2>1 DEF AfterEnqueue, Held, Session
    <3> QED BY <3>1, <3>2
  <2>4. CASE EnqueueRefused(s, a) \/ EnqueueConflict(s, a)
    BY <1>3, <2>4 DEF EnqueueRefused, EnqueueConflict, Close
  <2> QED BY <1>6, <2>2, <2>3, <2>4 DEF Enqueue
<1>7. ASSUME NEW s \in Sessions, NEW a \in Approvals, Run(s, a)
      PROVE  \E x : Fine(x) /\ sess' = [sess EXCEPT ![s] = x]
  <2>1. sess[s] \in Session /\ Fine(sess[s])
    BY SessionType DEF WithdrawnWasQueued
  <2>2. ASSUME NEW st \in {"executed", "failed"}, NEW ev, Record(s, a, st, ev)
        PROVE  \E x : Fine(x) /\ sess' = [sess EXCEPT ![s] = x]
    <3> DEFINE x == [sess[s] EXCEPT
                !.row = [@ EXCEPT ![a] = st],
                !.log = @ \cup {<<ev, a>>},
                !.todo = @ \ {a},
                !.pc = IF sess[s].todo = {a} THEN "commit" ELSE "run"]
    <3>1. sess' = [sess EXCEPT ![s] = x]
      BY <2>2 DEF Record
    <3>2. Fine(x)
      BY <2>1 DEF Session
    <3> QED BY <3>1, <3>2
  <2>3. \E st, ev \in {"executed", "failed"} : Record(s, a, st, ev)
    BY <1>7 DEF Run, RunLive, RunStub, RunCalendar
  <2> QED BY <2>2, <2>3
<1>8. ASSUME NEW s \in Sessions, Commit(s) \/ Crash(s)
      PROVE  \E x : Fine(x) /\ sess' = [sess EXCEPT ![s] = x]
  BY <1>3, <1>8 DEF Commit, Crash, Close
<1>9. ASSUME NEW a \in Approvals, CreateApproval(a) \/ BecomesDue(a) PROVE UNCHANGED sess
  BY <1>9 DEF CreateApproval, BecomesDue
<1>10. \/ UNCHANGED sess
       \/ \E s \in Sessions : \E x : Fine(x) /\ sess' = [sess EXCEPT ![s] = x]
  <2>1. Workers \subseteq Sessions /\ Crons \subseteq Sessions
    BY DEF Sessions
  <2>2. CASE UNCHANGED vars
    BY <2>2 DEF vars
  <2>3. CASE Next
    <3> HIDE DEF Fine
    <3> QED BY <1>4, <1>5, <1>6, <1>7, <1>8, <1>9, <2>1, <2>3 DEF Next, Advance
  <2> QED BY <2>2, <2>3
<1> QED BY <1>1, <1>2, <1>10

(* What an undisturbed approval's holder knows when it writes.             *)
LEMMA HolderFacts ==
    ASSUME IInv, NEW a \in Approvals \ (overlapped \cup uncertain), NEW s \in Sessions,
           a \in sess[s].rows
    PROVE  /\ sess[s].loaded[a] = outbound[a]
           /\ outbound[a] \in {"none", "queued", "failed"}
           /\ outbound[a] # "none" => approval[a] = "approved"
           /\ sess[s].op \in {"approve", "reject"} => approval[a] = "pending" /\ outbound[a] = "none"
           /\ sess[s].row[a] # "none" /\ outbound[a] = "none" => approval[a] = "pending"
           /\ sent[a] \in {0, 1}
           /\ sent[a] = 1 => sess[s].row[a] = "executed"
           /\ sess[s].op = "reject" => sess[s].row[a] = "none"
<1>1. /\ sess[s].loaded[a] = outbound[a]
      /\ outbound[a] \in {"none", "queued", "failed"}
      /\ \A t \in Sessions : a \in sess[t].rows => s = t
      /\ sess[s].op \in {"approve", "reject"} => approval[a] = "pending"
  BY DEF IInv, HeldAlone
<1>2. outbound[a] # "none" => approval[a] = "approved"
  BY DEF IInv, RowDecided, RejectedHasNoRow
<1>3. sent[a] \in {0, 1} /\ (sent[a] = 1 => sess[s].row[a] = "executed")
  BY <1>1 DEF IInv, SentOnce
<1>4. Coherent(sess[s], a)
  BY DEF IInv, SessionsCoherent
<1> QED BY <1>1, <1>2, <1>3, <1>4 DEF Coherent

(* One approval in a step of the promise.                                  *)
Promised(a) ==
    \/ Promise!Same(a) \/ Promise!File(a) \/ Promise!Approve(a) \/ Promise!Reject(a)
    \/ Promise!Deliver(a) \/ Promise!Settle(a) \/ Promise!PullBack(a)

(* A commit decides, settles or withdraws the sends it changes.            *)
LEMMA CommitIsPromised ==
    ASSUME IInv, WithdrawnWasQueued, NEW s \in Sessions, Commit(s),
           NEW a \in Approvals \ (overlapped \cup uncertain)
    PROVE  Promised(a)
<1>1. /\ outbound'[a] = IF Changed(s, a) THEN sess[s].row[a] ELSE outbound[a]
      /\ approval'[a] = IF Decides(s, a) THEN DecisionOf(s) ELSE approval[a]
      /\ Changed(s, a) => /\ a \in sess[s].rows
                          /\ sess[s].row[a] # "none"
                          /\ sess[s].row[a] = "queued" => Inserting(s, a)
                          /\ Inserting(s, a) <=> sess[s].loaded[a] = "none"
      /\ sent'[a] = sent[a]
  BY CommitEffect DEF Commit
<1>2. sess[s].row[a] \in MaybeStatus
  BY SessionType DEF IInv, Session
<1>3. sess[s].row[a] = "pulled_back" => sess[s].loaded[a] \in {"queued", "pulled_back"}
  BY DEF WithdrawnWasQueued
<1>4. CASE a \notin sess[s].rows
  BY <1>1, <1>4 DEF Decides, Promised, Promise!Same
<1>5. CASE a \in sess[s].rows /\ sess[s].op = "approve"
  <2>1. Promise!Approve(a)
    BY <1>1, <1>2, <1>3, <1>5, HolderFacts
       DEF Promise!Approve, Decides, DecisionOf, Changed, MaybeStatus, Statuses
  <2> QED BY <2>1 DEF Promised
<1>6. CASE a \in sess[s].rows /\ sess[s].op = "reject"
  <2>1. Promise!Reject(a)
    BY <1>1, <1>6, HolderFacts DEF Promise!Reject, Decides, DecisionOf, Changed
  <2> QED BY <2>1 DEF Promised
<1>7. CASE a \in sess[s].rows /\ sess[s].op \notin {"approve", "reject"}
  <2>1. approval'[a] = approval[a] /\ ~Inserting(s, a)
    BY <1>1, <1>7 DEF Decides, Inserting
  <2>2. CASE ~Changed(s, a)
    BY <1>1, <2>1, <2>2 DEF Promised, Promise!Same
  <2>3. CASE Changed(s, a) /\ sess[s].row[a] = "pulled_back"
    <3>1. Promise!PullBack(a)
      BY <1>1, <1>3, <1>7, <2>1, <2>3, HolderFacts DEF Promise!PullBack, Changed
    <3> QED BY <3>1 DEF Promised
  <2>4. CASE Changed(s, a) /\ sess[s].row[a] # "pulled_back"
    <3>1. sess[s].row[a] \in {"executed", "failed"} /\ outbound[a] \in {"queued", "failed"}
      BY <1>1, <1>2, <1>7, <2>1, <2>4, HolderFacts DEF MaybeStatus, Statuses
    <3>2. Promise!Settle(a)
      BY <1>1, <1>7, <2>1, <2>4, <3>1, HolderFacts DEF Promise!Settle
    <3> QED BY <3>2 DEF Promised
  <2> QED BY <2>2, <2>3, <2>4
<1> QED BY <1>4, <1>5, <1>6, <1>7

(* An execution delivers the message, or sends nothing.                    *)
LEMMA RunIsPromised ==
    ASSUME IInv, NEW s \in Sessions, NEW c \in Approvals, RunLive(s, c),
           NEW a \in Approvals \ (overlapped \cup uncertain'), uncertain \subseteq uncertain'
    PROVE  Promised(a)
<1>1. PICK delivered \in BOOLEAN, reported \in BOOLEAN :
         /\ sent' = [sent EXCEPT ![c] = IF delivered THEN Saturating(@) ELSE @]
         /\ uncertain' = IF delivered # reported THEN uncertain \cup {c} ELSE uncertain
  BY DEF RunLive
<1>2. approval'[a] = approval[a] /\ outbound'[a] = outbound[a]
  BY DEF RunLive, tables
<1>3. sent \in [Approvals -> 0 .. 2]
  BY DEF IInv, TypeOK
<1>4. CASE a # c \/ ~delivered
  BY <1>1, <1>2, <1>3, <1>4 DEF Promised, Promise!Same
<1>5. CASE a = c /\ delivered
  <2>1. c \in sess[s].todo /\ Coherent(sess[s], c)
    BY DEF RunLive, Executing, IInv, SessionsCoherent
  <2>2. c \in sess[s].rows /\ sess[s].row[c] = "queued"
    BY <2>1 DEF Coherent
  <2>3. sent[a] = 0
    BY <1>5, <2>2, HolderFacts
  <2>4. sent'[a] = 1
    BY <1>1, <1>3, <1>5, <2>3 DEF Saturating
  <2>5. \/ approval[a] = "pending" /\ outbound[a] = "none"
        \/ approval[a] = "approved" /\ outbound[a] \in {"queued", "failed"}
    BY <1>5, <2>2, HolderFacts
  <2> QED BY <1>2, <2>3, <2>4, <2>5 DEF Promised, Promise!Deliver
<1> QED BY <1>4, <1>5

(* Filing an approval opens its decision.                                  *)
LEMMA CreateIsPromised ==
    ASSUME IInv, NEW c \in Approvals, CreateApproval(c), NEW a \in Approvals
    PROVE  Promised(a)
BY DEF CreateApproval, IInv, TypeOK, Promised, Promise!Same, Promise!File

(* Every step of the API is a step of the promise, or none.                *)
LEMMA StepIsPromised ==
    ASSUME IInv, WithdrawnWasQueued, [Next]_vars
    PROVE  Promise!Next
<1> DEFINE Kept == \A a \in Approvals \ (overlapped \cup uncertain)' : Promised(a)
<1> DEFINE Grows == overlapped \subseteq overlapped' /\ uncertain \subseteq uncertain'
<1>1. SUFFICES Grows /\ Kept
  BY DEF Promise!Next, Promised
<1>2. ASSUME UNCHANGED <<approval, outbound, sent>> PROVE Kept
  BY <1>2 DEF Promised, Promise!Same
<1>3. ASSUME NEW s \in Sessions, NEW x, Open(s, x) PROVE overlapped \subseteq overlapped'
  BY <1>3 DEF Open
<1>4. Grows
  <2>1. ASSUME NEW s \in Sessions, NEW a \in Approvals, OpenRequest(s, a) PROVE Grows
    BY <1>3, <2>1 DEF OpenRequest, OpenApprove, OpenReject, OpenPullBack, OpenExecute
  <2>2. ASSUME NEW s \in Sessions, OpenDispatch(s) PROVE Grows
    BY <1>3, <2>2 DEF OpenDispatch
  <2>3. ASSUME NEW s \in Sessions, NEW a \in Approvals, Enqueue(s, a) PROVE Grows
    BY <2>3 DEF Enqueue, EnqueueExisting, EnqueueRefused, EnqueueInsert, EnqueueConflict, history
  <2>4. ASSUME NEW s \in Sessions, NEW a \in Approvals, Run(s, a) PROVE Grows
    BY <2>4 DEF Run, RunLive, RunStub, RunCalendar, history
  <2>5. ASSUME NEW s \in Sessions, Commit(s) \/ Crash(s) PROVE Grows
    BY <2>5 DEF Commit, Crash, history
  <2>6. ASSUME NEW a \in Approvals, CreateApproval(a) \/ BecomesDue(a) PROVE Grows
    BY <2>6 DEF CreateApproval, BecomesDue, history
  <2>7. CASE UNCHANGED vars
    BY <2>7 DEF vars
  <2>8. Workers \subseteq Sessions /\ Crons \subseteq Sessions
    BY DEF Sessions
  <2> HIDE DEF Grows
  <2> QED BY <2>1, <2>2, <2>3, <2>4, <2>5, <2>6, <2>7, <2>8 DEF Next, Advance
<1>5. ASSUME NEW s \in Sessions, Commit(s) PROVE Kept
  BY <1>4, <1>5, CommitIsPromised
<1>6. ASSUME NEW s \in Sessions, NEW c \in Approvals, RunLive(s, c) PROVE Kept
  BY <1>4, <1>6, RunIsPromised DEF RunLive
<1>7. ASSUME NEW c \in Approvals, CreateApproval(c) PROVE Kept
  BY <1>7, CreateIsPromised
<1>8. ASSUME NEW s \in Sessions, NEW a \in Approvals, OpenRequest(s, a) PROVE Kept
  BY <1>2, <1>8 DEF OpenRequest, OpenApprove, OpenReject, OpenPullBack, OpenExecute, tables
<1>9. ASSUME NEW s \in Sessions, OpenDispatch(s) \/ Crash(s) PROVE Kept
  BY <1>2, <1>9 DEF OpenDispatch, Crash, tables
<1>10. ASSUME NEW s \in Sessions, NEW a \in Approvals, Enqueue(s, a) PROVE Kept
  BY <1>2, <1>10 DEF Enqueue, EnqueueExisting, EnqueueRefused, EnqueueInsert, EnqueueConflict, tables
<1>11. ASSUME NEW s \in Sessions, NEW a \in Approvals, Run(s, a) PROVE Kept
  BY <1>2, <1>6, <1>11 DEF Run, RunStub, RunCalendar, tables
<1>12. ASSUME NEW a \in Approvals, BecomesDue(a) PROVE Kept
  BY <1>2, <1>12 DEF BecomesDue, tables
<1>13. CASE UNCHANGED vars
  BY <1>2, <1>13 DEF vars
<1>14. Workers \subseteq Sessions /\ Crons \subseteq Sessions
  BY DEF Sessions
<1>15. Kept
  <2> HIDE DEF Kept
  <2> QED BY <1>5, <1>7, <1>8, <1>9, <1>10, <1>11, <1>12, <1>13, <1>14 DEF Next, Advance
<1> QED BY <1>4, <1>15

(* The requests and the dispatcher, which lock nothing, keep the promise   *)
(* of WriteBack for every approval that no two of them held at once and    *)
(* whose deliveries were all heard of.                                     *)
THEOREM OutboundKeepsThePromise == Spec => KeepsThePromise
<1>1. Init => Promise!Init /\ WithdrawnWasQueued
  BY DEF Init, Promise!Init, WithdrawnWasQueued, Closed, NoRows
<1>2. IInv /\ WithdrawnWasQueued /\ [Next]_vars => WithdrawnWasQueued'
  BY WithdrawnStep DEF IInv
<1>3. IInv /\ WithdrawnWasQueued /\ [Next]_vars => [Promise!Next]_(Promise!vars)
  BY StepIsPromised
<1> QED BY <1>1, <1>2, <1>3, Invariance, PTL DEF Spec, KeepsThePromise, Promise!Spec

=============================================================================
