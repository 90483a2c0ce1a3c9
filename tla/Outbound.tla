------------------------------ MODULE Outbound ------------------------------
(***************************************************************************)
(* The governed write-back of the FlavorOS API (services/api): a person    *)
(* decides an approval, an approved send becomes one outbound_actions row, *)
(* and a request or the cron dispatcher executes, or the person pulls      *)
(* back, that row.                                                         *)
(*                                                                         *)
(* Every request and every dispatcher run is a database session: it READS  *)
(* committed rows, works on its own copy, and its writes reach the tables  *)
(* at COMMIT (READ COMMITTED, no SELECT ... FOR UPDATE, no version         *)
(* column).  Between the two steps every other session may act, and the    *)
(* provider may already have sent the message.                             *)
(***************************************************************************)
EXTENDS Naturals, FiniteSets

CONSTANTS
    Approvals,      \* ids of the approvals (an outbound row is keyed by its approval)
    Workers,        \* request threads of the two uvicorn processes
    Crons,          \* overlapping runs of scripts/dispatch_outbound_due.py
    DispatchLimit,  \* rows one dispatcher run takes (100 or 200 in the scripts)
    MaxCrashes      \* bound on the sessions lost before their commit

ASSUME ConstantsAssumption ==
    /\ Workers \cap Crons = {}
    /\ DispatchLimit \in Nat \ {0}
    /\ MaxCrashes \in Nat

Sessions == Workers \cup Crons

VARIABLES
    env,        \* process environment, fixed at start: the OUTBOUND_* switches, COMPOSIO_API_KEY
    request,    \* per approval: its governed action and whether the artifact has the failure hook
    approval,   \* approvals.decision ("none": no such row)
    outbound,   \* outbound_actions.status of the row for the approval ("none": no such row)
    due,        \* approvals whose row has scheduled_send_at in the past
    audit,      \* audit_events: pairs <<action, approval>>
    sess,       \* per session: the transaction it has open
    sent,       \* messages the provider delivered (saturates at 2: "more than once")
    crashes,    \* sessions lost so far
    overlapped, \* history: approvals that two open sessions held at the same time
    uncertain   \* history: approvals whose delivery the code did not learn about, or took for granted

tables == <<approval, outbound, audit>>
history == <<overlapped, uncertain>>
vars == <<env, request, approval, outbound, due, audit, sess, sent, crashes,
          overlapped, uncertain>>

-----------------------------------------------------------------------------
Kinds == {"comms", "calendar", "other"}
Governed == {"comms", "calendar"}
Decisions == {"none", "pending", "approved", "rejected"}
Statuses == {"queued", "executed", "failed", "pulled_back"}
MaybeStatus == Statuses \cup {"none"}
AuditActions == {"approved", "rejected"} \cup Statuses
AuditPairs == AuditActions \X Approvals
Ops == {"idle", "approve", "reject", "pull_back", "execute", "dispatch"}

Environments == [inline : BOOLEAN, defer : {"unset", "on", "off"}, live : BOOLEAN]

(* A session's transaction: the rows it read, those it still has to        *)
(* execute, their status as loaded and as changed in memory, and the audit *)
(* events it will insert.                                                  *)
Session == [op : Ops, pc : {"idle", "enqueue", "run", "commit"},
            rows : SUBSET Approvals, todo : SUBSET Approvals,
            loaded : [Approvals -> MaybeStatus], row : [Approvals -> MaybeStatus],
            log : SUBSET AuditPairs]

NoRows == [a \in Approvals |-> "none"]
Closed == [op |-> "idle", pc |-> "idle", rows |-> {}, todo |-> {},
           loaded |-> NoRows, row |-> NoRows, log |-> {}]

-----------------------------------------------------------------------------
(* Configuration.                                                          *)

UseBatchSchedule == ~env.inline

ShouldInlineExecute ==
    CASE env.defer = "on"    -> FALSE
      [] env.inline          -> TRUE
      [] env.defer = "off"   -> TRUE
      [] OTHER               -> FALSE

(* Whether approving executes the new row inside the decide transaction.   *)
InlineOnApprove(a) ==
    /\ ShouldInlineExecute
    /\ request[a].kind = "comms" => ~UseBatchSchedule

(* The Composio adapter is installed by the API's lifespan hook only; the  *)
(* dispatcher scripts run with the module default, the stub.               *)
LiveAdapter(s) == env.live /\ s \in Workers

-----------------------------------------------------------------------------
Idle(s) == sess[s].op = "idle"

(* The approvals whose promises a session opening on R may disturb.        *)
Contended(s, R) == {a \in R : \E t \in Sessions \ {s} : a \in sess[t].rows}

Open(s, transaction) ==
    /\ Idle(s)
    /\ sess' = [sess EXCEPT ![s] = transaction]
    /\ overlapped' = overlapped \cup Contended(s, transaction.rows)

(* s has inserted, but not committed, the outbound row of a: it holds the  *)
(* lock on the approval row it updated in the same flush.                  *)
Inserting(s, a) ==
    /\ sess[s].op = "approve"
    /\ sess[s].loaded[a] = "none"
    /\ sess[s].row[a] # "none"

Unlocked(s, a) == \A t \in Sessions \ {s} : ~Inserting(t, a)

Close(s) == sess' = [sess EXCEPT ![s] = Closed]

(* In-memory status of the rows a session holds.                           *)
Held(R, status) == [a \in Approvals |-> IF a \in R THEN status ELSE "none"]

-----------------------------------------------------------------------------
(* POST /approvals, and the skills that file an approval for review.       *)
CreateApproval(a) ==
    /\ approval[a] = "none"
    /\ \E k \in Kinds, h \in BOOLEAN :
          request' = [request EXCEPT ![a] = [kind |-> k, hook |-> h]]
    /\ approval' = [approval EXCEPT ![a] = "pending"]
    /\ UNCHANGED <<env, outbound, due, audit, sess, sent, crashes, history>>

(* Mutant: decide does not refuse an approval that was rejected before.    *)
OpenApproveDecided(s, a) ==
    /\ approval[a] \in {"pending", "rejected"}
    /\ Open(s, [Closed EXCEPT !.op = "approve", !.rows = {a},
                              !.pc = IF request[a].kind \in Governed THEN "enqueue" ELSE "commit",
                              !.log = {<<"approved", a>>}])
    /\ UNCHANGED <<env, request, tables, due, sent, crashes, uncertain>>

(* Mutant: any filed approval can be rejected.                             *)
OpenRejectDecided(s, a) ==
    /\ approval[a] # "none"
    /\ Open(s, [Closed EXCEPT !.op = "reject", !.rows = {a}, !.pc = "commit",
                              !.log = {<<"rejected", a>>}])
    /\ UNCHANGED <<env, request, tables, due, sent, crashes, uncertain>>

(* POST /approvals/{id}/decide, up to the first flush: read the approval,  *)
(* 409 unless it is pending, note the decision and its audit event.        *)
OpenApprove(s, a) ==
    /\ approval[a] = "pending"
    /\ Open(s, [Closed EXCEPT !.op = "approve", !.rows = {a},
                              !.pc = IF request[a].kind \in Governed THEN "enqueue" ELSE "commit",
                              !.log = {<<"approved", a>>}])
    /\ UNCHANGED <<env, request, tables, due, sent, crashes, uncertain>>

OpenReject(s, a) ==
    /\ approval[a] = "pending"
    /\ Open(s, [Closed EXCEPT !.op = "reject", !.rows = {a}, !.pc = "commit",
                              !.log = {<<"rejected", a>>}])
    /\ UNCHANGED <<env, request, tables, due, sent, crashes, uncertain>>

(* What follows enqueue_for_approval: execute now, or leave it queued.     *)
AfterEnqueue(transaction, a) ==
    IF InlineOnApprove(a) /\ transaction.row[a] = "queued"
    THEN [transaction EXCEPT !.pc = "run", !.todo = {a}]
    ELSE [transaction EXCEPT !.pc = "commit"]

(* enqueue_for_approval: the approval already has a row.                   *)
EnqueueExisting(s, a) ==
    /\ sess[s].pc = "enqueue" /\ a \in sess[s].rows
    /\ outbound[a] # "none"
    /\ LET found == [sess[s] EXCEPT !.loaded = Held({a}, outbound[a]),
                                     !.row = Held({a}, outbound[a])]
       IN  sess' = [sess EXCEPT ![s] = AfterEnqueue(found, a)]
    /\ UNCHANGED <<env, request, tables, due, sent, crashes, history>>

(* Mutant: the ValueError is swallowed and the decision is committed.      *)
EnqueueSwallowed(s, a) ==
    /\ sess[s].pc = "enqueue" /\ a \in sess[s].rows
    /\ outbound[a] = "none"
    /\ sess' = [sess EXCEPT ![s].pc = "commit"]
    /\ UNCHANGED <<env, request, tables, due, sent, crashes, history>>

(* ValueError: no artifact, not a draft, or no connected provider.  The    *)
(* session ends without a commit.                                          *)
EnqueueRefused(s, a) ==
    /\ sess[s].pc = "enqueue" /\ a \in sess[s].rows
    /\ outbound[a] = "none"
    /\ Close(s)
    /\ UNCHANGED <<env, request, tables, due, sent, crashes, history>>

(* Mutant: the row is committed by itself, before the decision.            *)
EnqueueCommitted(s, a) ==
    /\ sess[s].pc = "enqueue" /\ a \in sess[s].rows
    /\ outbound[a] = "none"
    /\ outbound' = [outbound EXCEPT ![a] = "queued"]
    /\ sess' = [sess EXCEPT ![s].pc = "commit", ![s].log = @ \cup {<<"queued", a>>}]
    /\ UNCHANGED <<env, request, approval, audit, due, sent, crashes, history>>

(* create_outbound_for_approval and its flush: UPDATE approvals takes the  *)
(* row lock, INSERT outbound_actions meets the unique approval_id.         *)
EnqueueInsert(s, a) ==
    /\ sess[s].pc = "enqueue" /\ a \in sess[s].rows
    /\ Unlocked(s, a)
    /\ outbound[a] = "none"
    /\ LET inserted == [sess[s] EXCEPT !.row = Held({a}, "queued"), !.log = @ \cup {<<"queued", a>>}]
       IN  sess' = [sess EXCEPT ![s] = AfterEnqueue(inserted, a)]
    /\ UNCHANGED <<env, request, tables, due, sent, crashes, history>>

(* The row was committed after s had looked for it: IntegrityError, 500.   *)
EnqueueConflict(s, a) ==
    /\ sess[s].pc = "enqueue" /\ a \in sess[s].rows
    /\ Unlocked(s, a)
    /\ outbound[a] # "none"
    /\ Close(s)
    /\ UNCHANGED <<env, request, tables, due, sent, crashes, history>>

(* Mutants: pull-back leaves no audit event; it writes a status that is    *)
(* not in the enum; it takes back a row that has been executed or failed.  *)
OpenPullBackSilent(s, a) ==
    /\ outbound[a] = "queued"
    /\ Open(s, [Closed EXCEPT !.op = "pull_back", !.rows = {a}, !.pc = "commit",
                              !.loaded = Held({a}, "queued"), !.row = Held({a}, "pulled_back")])
    /\ UNCHANGED <<env, request, tables, due, sent, crashes, uncertain>>

OpenPullBackCancelled(s, a) ==
    /\ outbound[a] = "queued"
    /\ Open(s, [Closed EXCEPT !.op = "pull_back", !.rows = {a}, !.pc = "commit",
                              !.loaded = Held({a}, "queued"), !.row = Held({a}, "cancelled"),
                              !.log = {<<"pulled_back", a>>}])
    /\ UNCHANGED <<env, request, tables, due, sent, crashes, uncertain>>

OpenPullBackAny(s, a) ==
    /\ outbound[a] \in Statuses \ {"pulled_back"}
    /\ Open(s, [Closed EXCEPT !.op = "pull_back", !.rows = {a}, !.pc = "commit",
                              !.loaded = Held({a}, outbound[a]), !.row = Held({a}, "pulled_back"),
                              !.log = {<<"pulled_back", a>>}])
    /\ UNCHANGED <<env, request, tables, due, sent, crashes, uncertain>>

(* POST /outbound-actions/{id}/pull-back: 409 unless queued.               *)
OpenPullBack(s, a) ==
    /\ outbound[a] = "queued"
    /\ Open(s, [Closed EXCEPT !.op = "pull_back", !.rows = {a}, !.pc = "commit",
                              !.loaded = Held({a}, "queued"), !.row = Held({a}, "pulled_back"),
                              !.log = {<<"pulled_back", a>>}])
    /\ UNCHANGED <<env, request, tables, due, sent, crashes, uncertain>>

(* Mutants: execute does not refuse an executed row; it commits the reset  *)
(* of a failed row and leaves the sending to the dispatcher.               *)
OpenExecuteAgain(s, a) ==
    /\ outbound[a] \in {"queued", "failed", "executed"}
    /\ Open(s, [Closed EXCEPT !.op = "execute", !.rows = {a}, !.pc = "run", !.todo = {a},
                              !.loaded = Held({a}, outbound[a]), !.row = Held({a}, "queued")])
    /\ UNCHANGED <<env, request, tables, due, sent, crashes, uncertain>>

OpenExecuteLater(s, a) ==
    /\ outbound[a] \in {"queued", "failed"}
    /\ Open(s, [Closed EXCEPT !.op = "execute", !.rows = {a}, !.pc = "commit",
                              !.loaded = Held({a}, outbound[a]), !.row = Held({a}, "queued")])
    /\ UNCHANGED <<env, request, tables, due, sent, crashes, uncertain>>

(* POST /outbound-actions/{id}/execute: a failed row is queued again, in   *)
(* memory; any other status is a 409.                                      *)
OpenExecute(s, a) ==
    /\ outbound[a] \in {"queued", "failed"}
    /\ Open(s, [Closed EXCEPT !.op = "execute", !.rows = {a}, !.pc = "run", !.todo = {a},
                              !.loaded = Held({a}, outbound[a]), !.row = Held({a}, "queued")])
    /\ UNCHANGED <<env, request, tables, due, sent, crashes, uncertain>>

(* Mutant: the dispatcher selects the other provider's rows.               *)
DueCalendarRows == {a \in due : outbound[a] = "queued" /\ request[a].kind = "calendar"}

(* dispatch_due_outbound_actions: the due queued mail rows, up to a limit. *)
DueRows == {a \in due : outbound[a] = "queued" /\ request[a].kind = "comms"}

OpenDispatch(s) ==
    /\ DueRows # {}
    /\ \E R \in SUBSET DueRows :
          /\ R # {} /\ Cardinality(R) <= DispatchLimit
          /\ Cardinality(R) = DispatchLimit \/ R = DueRows
          /\ Open(s, [Closed EXCEPT !.op = "dispatch", !.rows = R, !.pc = "run", !.todo = R,
                                    !.loaded = Held(R, "queued"), !.row = Held(R, "queued")])
    /\ UNCHANGED <<env, request, tables, due, sent, crashes, uncertain>>

(* A session writes down the outcome of one row it executed.               *)
Record(s, a, status, event) ==
    sess' = [sess EXCEPT ![s] = [sess[s] EXCEPT
                !.row = [@ EXCEPT ![a] = status],
                !.log = @ \cup {<<event, a>>},
                !.todo = @ \ {a},
                !.pc = IF sess[s].todo = {a} THEN "commit" ELSE "run"]]

Executing(s, a) == sess[s].pc = "run" /\ a \in sess[s].todo

Saturating(n) == IF n < 2 THEN n + 1 ELSE n

(* execute_outbound through the Composio adapter.  "delivered" and         *)
(* "reported" may differ either way: the call may time out after the       *)
(* provider accepted the message, and an answer that lacks `successful`    *)
(* counts as success.  send_draft returns a failure, it never raises: the  *)
(* audit event is outbound.executed whatever the result says.              *)
RunLive(s, a) ==
    /\ Executing(s, a)
    /\ request[a].kind = "comms" /\ LiveAdapter(s)
    /\ \E delivered, reported \in BOOLEAN :
          /\ Record(s, a, IF reported THEN "executed" ELSE "failed", "executed")
          /\ sent' = [sent EXCEPT ![a] = IF delivered THEN Saturating(@) ELSE @]
          /\ uncertain' = IF delivered # reported THEN uncertain \cup {a} ELSE uncertain
    /\ UNCHANGED <<env, request, tables, due, crashes, overlapped>>

(* The stub raises under the test hook, otherwise reports success.         *)
RunStub(s, a) ==
    /\ Executing(s, a)
    /\ request[a].kind = "comms" /\ ~LiveAdapter(s)
    /\ IF request[a].hook
       THEN Record(s, a, "failed", "failed")
       ELSE Record(s, a, "executed", "executed")
    /\ UNCHANGED <<env, request, tables, due, sent, crashes, history>>

(* execute_calendar_outbound is a stub too.                                *)
RunCalendar(s, a) ==
    /\ Executing(s, a)
    /\ request[a].kind = "calendar"
    /\ IF request[a].hook
       THEN Record(s, a, "failed", "failed")
       ELSE Record(s, a, "executed", "executed")
    /\ UNCHANGED <<env, request, tables, due, sent, crashes, history>>

(* db.commit(): flush what changed, then end the transaction.  The unit of *)
(* work writes a status column only when it differs from what was loaded,  *)
(* and an UPDATE does not look at the value it overwrites.                 *)
DecisionOf(s) == IF sess[s].op = "approve" THEN "approved" ELSE "rejected"

Decides(s, a) == sess[s].op \in {"approve", "reject"} /\ a \in sess[s].rows

Changed(s, a) == sess[s].row[a] # sess[s].loaded[a]

Commit(s) ==
    /\ sess[s].pc = "commit"
    /\ \A a \in sess[s].rows : Decides(s, a) => Unlocked(s, a)
    /\ approval' = [a \in Approvals |-> IF Decides(s, a) THEN DecisionOf(s) ELSE approval[a]]
    /\ outbound' = [a \in Approvals |-> IF Changed(s, a) THEN sess[s].row[a] ELSE outbound[a]]
    /\ audit' = audit \cup sess[s].log
    /\ Close(s)
    /\ UNCHANGED <<env, request, due, sent, crashes, history>>

(* The process dies, or the commit fails: nothing is written, and what the *)
(* provider already did stays done.                                        *)
Ran(s) == {a \in sess[s].rows : \E e \in {"executed", "failed"} : <<e, a>> \in sess[s].log}

Crash(s) ==
    /\ ~Idle(s)
    /\ crashes < MaxCrashes
    /\ crashes' = crashes + 1
    /\ uncertain' = uncertain \cup Ran(s)
    /\ Close(s)
    /\ UNCHANGED <<env, request, tables, due, sent, overlapped>>

(* The send window of a queued mail row is reached.                        *)
BecomesDue(a) ==
    /\ a \notin due
    /\ outbound[a] = "queued" /\ request[a].kind = "comms"
    /\ due' = due \cup {a}
    /\ UNCHANGED <<env, request, tables, sess, sent, crashes, history>>

-----------------------------------------------------------------------------
Init ==
    /\ env \in Environments
    /\ request = [a \in Approvals |-> [kind |-> "other", hook |-> FALSE]]
    /\ approval = NoRows
    /\ outbound = NoRows
    /\ due = {}
    /\ audit = {}
    /\ sess = [s \in Sessions |-> Closed]
    /\ sent = [a \in Approvals |-> 0]
    /\ crashes = 0
    /\ overlapped = {}
    /\ uncertain = {}

Enqueue(s, a) ==
    \/ EnqueueExisting(s, a)
    \/ EnqueueRefused(s, a)
    \/ EnqueueInsert(s, a)
    \/ EnqueueConflict(s, a)

Run(s, a) ==
    \/ RunLive(s, a)
    \/ RunStub(s, a)
    \/ RunCalendar(s, a)

Advance(s) ==
    \/ \E a \in Approvals : Enqueue(s, a) \/ Run(s, a)
    \/ Commit(s)

OpenRequest(w, a) ==
    \/ OpenApprove(w, a)
    \/ OpenReject(w, a)
    \/ OpenPullBack(w, a)
    \/ OpenExecute(w, a)

Next ==
    \/ \E a \in Approvals : CreateApproval(a) \/ BecomesDue(a)
    \/ \E w \in Workers, a \in Approvals : OpenRequest(w, a)
    \/ \E c \in Crons : OpenDispatch(c)
    \/ \E s \in Sessions : Advance(s) \/ Crash(s)

(* cron starts a dispatcher every minute, and an open transaction goes on  *)
(* to its end unless it is lost.  Nobody is obliged to file, decide,       *)
(* execute or pull back anything.                                          *)
Fairness ==
    /\ \A c \in Crons : WF_vars(OpenDispatch(c))
    /\ \A s \in Sessions : WF_vars(Advance(s))

Spec == Init /\ [][Next]_vars /\ Fairness

-----------------------------------------------------------------------------
TypeOK ==
    /\ env \in Environments
    /\ request \in [Approvals -> [kind : Kinds, hook : BOOLEAN]]
    /\ approval \in [Approvals -> Decisions]
    /\ outbound \in [Approvals -> MaybeStatus]
    /\ due \subseteq Approvals
    /\ audit \subseteq AuditPairs
    /\ sess \in [Sessions -> Session]
    /\ sent \in [Approvals -> 0 .. 2]
    /\ crashes \in 0 .. MaxCrashes
    /\ overlapped \subseteq Approvals
    /\ uncertain \subseteq Approvals

(* decide_approval writes the decision and the row in one transaction, so  *)
(* an approval of a governed send never stands approved without its row.   *)
ApprovedHasRow ==
    \A a \in Approvals :
        approval[a] = "approved" /\ request[a].kind \in Governed => outbound[a] # "none"

(* Write-back is approval-gated and audit-safe: a row, and a delivered     *)
(* message, trace back to a committed "approved" decision, whatever the    *)
(* interleaving.  Inline execution sends before its own commit, so there   *)
(* the decision may still be in flight, or lost in a crash.                *)
NothingLeavesUnapproved ==
    \A a \in Approvals :
        /\ outbound[a] # "none" => {<<"approved", a>>, <<"queued", a>>} \subseteq audit
        /\ sent[a] > 0 /\ <<"approved", a>> \notin audit =>
              env.inline /\ (a \in uncertain \/ \E w \in Workers : Inserting(w, a))

(* A row that was executed or pulled back has the audit event of that      *)
(* ending, whatever sessions overlapped and crashed on the way.            *)
StatusAudited ==
    \A a \in Approvals :
        /\ outbound[a] = "executed" => <<"executed", a>> \in audit
        /\ outbound[a] = "pulled_back" => <<"pulled_back", a>> \in audit

(* What the status checks of pull-back, execute and dispatch are for: as   *)
(* long as no two sessions held the row at once and no outcome was lost,   *)
(* the message goes out at most once, a row whose message is out ends      *)
(* executed, and so a pulled back or failed row was not sent.              *)
UndisturbedSendIsExact ==
    \A a \in Approvals \ (overlapped \cup uncertain) :
        /\ sent[a] <= 1
        /\ sent[a] = 1 /\ (\A s \in Sessions : a \notin sess[s].rows) => outbound[a] = "executed"

(* The pending check of decide: an approval that was never decided by two  *)
(* sessions at once, nor lost its session after an inline send, is not     *)
(* rejected and sent.                                                      *)
RejectedIsNotSent ==
    \A a \in Approvals \ (overlapped \cup uncertain) :
        approval[a] = "rejected" => outbound[a] = "none" /\ sent[a] = 0

-----------------------------------------------------------------------------
(* A row that left "queued" never returns to it in the table: the reset in *)
(* execute lives in memory only.  The dispatcher therefore never picks up  *)
(* a failed, executed or pulled back row by itself.                        *)
NeverRequeued ==
    [][\A a \in Approvals :
          outbound[a] \in Statuses \ {"queued"} => outbound'[a] \in Statuses \ {"queued"}]_vars

(* A decision is final unless two sessions decided the approval at once.   *)
DecisionIsFinal ==
    [][\A a \in Approvals \ overlapped :
          approval[a] \in {"approved", "rejected"} => approval'[a] = approval[a]]_vars

(* Read committed rows, check, commit: that is enough for the promise of   *)
(* WriteBack as long as no two sessions hold an approval at once and every *)
(* delivery is heard of.                                                   *)
Promise == INSTANCE WriteBack WITH
    decision <- approval, action <- outbound, mail <- sent, excused <- overlapped \cup uncertain

KeepsThePromise == Promise!Spec

(* The dispatcher leaves no due row queued forever.                        *)
DueIsDispatched ==
    \A a \in Approvals : (a \in due /\ outbound[a] = "queued") ~> (outbound[a] # "queued")

-----------------------------------------------------------------------------
(* What the documents say, and the code does not do.                       *)

(* docs/FLAVOROS_TAXONOMY.md: pulled_back means cancelled before           *)
(* execution.                                                              *)
PulledBackWasNotSent ==
    \A a \in Approvals : outbound[a] = "pulled_back" => sent[a] = 0

(* app/main.py wires the real Gmail adapter when the Composio key is       *)
(* present: a mail row executed on an answer that was heard was then       *)
(* delivered.                                                              *)
ExecutedWasDelivered ==
    \A a \in Approvals \ uncertain :
        outbound[a] = "executed" /\ request[a].kind = "comms" /\ env.live => sent[a] > 0

=============================================================================
