------------------------------- MODULE Subagent -------------------------------
(***************************************************************************)
(* The subagent handler of gbrain                                          *)
(* (subsystems/gbrain/src/core/minions/handlers/subagent.ts): one          *)
(* conversation with the provider, with tool calls, run by a handler of    *)
(* the job Job.  Every message and every tool execution is stored as it    *)
(* happens, and a handler that claims the job later loads what is stored   *)
(* and goes on from there.                                                 *)
(*                                                                         *)
(* The job is a row of MinionQueue, claimed, renewed, swept and ended by   *)
(* the actions of that module; the calls to the provider hold leases of    *)
(* RateLease, for which handlers compete.  Nothing but the outcome of      *)
(* the handler is fenced by the token: a handler that lost its lock goes   *)
(* on writing until its abort signal is looked at.                         *)
(***************************************************************************)
EXTENDS MinionQueue, RateLease, Sequences

CONSTANTS
    Job,         \* the subagent job
    Tools,       \* tool names the model may ask for
    Registry,    \* those the job was given
    Idempotent,  \* those marked idempotent
    Replies,     \* the tool uses a reply may hold, in order (<<>>: a final answer)
    MaxTurns,    \* max_turns
    Fallible,    \* those whose execution may fail
    MaxClaims,   \* bound on the claims of the job
    MaxAstray,   \* bound on the writes of handlers that lost the lock
    MaxCrashes   \* bound on crashes of its handlers and shutdowns of their workers together

Claims == 1 .. MaxClaims

ASSUME SubagentAssumption ==
    /\ Job \in Jobs
    /\ Registry \subseteq Tools /\ Idempotent \subseteq Registry /\ Fallible \subseteq Registry
    /\ Replies \subseteq Seq(Tools)
    /\ MaxTurns \in Nat /\ MaxClaims \in Nat
    /\ MaxAstray \in Nat /\ MaxCrashes \in Nat

VARIABLES
    agent,     \* per claim: the state of its handler
    stored,    \* subagent_messages, by message_idx
    tools,     \* subagent_tool_executions: status by tool_use_id
    charged,   \* replies whose tokens were added to the job row
    ran,       \* tool uses that were executed
    reran,     \* tool uses that were executed more than once
    astray,    \* history: what handlers stored or executed without having the lock
    crashes    \* crashes and shutdowns so far

convVars == <<stored, tools, charged, ran, reran, astray>>
vars == <<queueVars, leaseVars, agent, convVars, crashes>>

-----------------------------------------------------------------------------
(* Messages.  An assistant message is a reply that claim `by` received;    *)
(* a user message answers the uses of the assistant message before it.     *)
Reply(c, uses) == [role |-> "assistant", by |-> c, uses |-> uses, answers |-> <<>>]
Answers(a) == [role |-> "user", by |-> 0, uses |-> <<>>, answers |-> a]
Prompt == Answers(<<>>)

TurnsOf(conv) == Cardinality({i \in DOMAIN conv : conv[i].role = "assistant"})

(* tool_use_id: the provider's, unique per reply and position.             *)
UseId(conv, i, k) == <<conv[i].by, i, k>>

(* INSERT ... ON CONFLICT (job_id, message_idx) DO NOTHING.  A handler     *)
(* moves past an index only once it is stored, and no row is deleted.      *)
Stored(conv, message) ==
    IF Len(conv) < Len(stored) THEN stored ELSE Append(stored, message)

WithStatus(rowsOf, use, s) ==
    [u \in DOMAIN rowsOf \cup {use} |-> IF u = use THEN s ELSE rowsOf[u]]

Pcs == {"absent", "load", "tools", "turn", "calling", "charge", "store",
        "tool", "running", "ran", "returned", "threw", "fatal"}

(* conv: anthroMessages; prior: priorToolByUseId; reply: the uses of the   *)
(* reply that came in; use: the next of them to dispatch; replay: whether  *)
(* this is the reconciliation of a loaded message; attempts:               *)
(* job.attempts_made as the claim returned it.                             *)
Handler(attempts) ==
    [pc |-> "load", conv |-> <<>>, prior |-> <<>>, reply |-> <<>>, use |-> 1,
     answers |-> <<>>, outcome |-> "none", replay |-> FALSE, aborted |-> FALSE,
     attempts |-> attempts]

NoHandler == [Handler(0) EXCEPT !.pc = "absent"]

At(c, pc) == agent[c].pc = pc
Goto(c, pc) == agent' = [agent EXCEPT ![c].pc = pc]

(* A handler writes, whether or not it still has the lock.                 *)
Touches(c) ==
    \/ Fenced(Job, c) /\ UNCHANGED astray
    \/ ~Fenced(Job, c) /\ astray < MaxAstray /\ astray' = astray + 1

LeaseOf(c) == <<c, Len(agent[c].conv)>>

-----------------------------------------------------------------------------
(* Loading what is stored.                                                 *)

Launch ==
    /\ started[Job] < MaxClaims
    /\ ClaimRow(Job)
    /\ agent' = [agent EXCEPT ![started[Job] + 1] = Handler(made[Job])]
    /\ UNCHANGED <<leaseVars, convVars, crashes>>

LoadMessages(c) ==
    /\ At(c, "load")
    /\ agent' = [agent EXCEPT ![c].conv = stored, ![c].pc = "tools"]
    /\ UNCHANGED <<queueVars, leaseVars, convVars, crashes>>

(* The uses of the last message, if it is a reply.                         *)
OpenUses(conv) == IF conv = <<>> THEN <<>> ELSE conv[Len(conv)].uses

(* Mutant: the next turn begins whatever the last message asked for.       *)
ResumesNever(conv) == FALSE

Resumes(conv) == OpenUses(conv) # <<>>

(* A conversation with nothing stored gets its prompt; one that ends with  *)
(* tool uses has them dispatched first.                                    *)
LoadTools(c) ==
    LET conv == agent[c].conv
    IN  /\ At(c, "tools")
        /\ agent' = [agent EXCEPT
              ![c].prior = tools,
              ![c].conv = IF conv = <<>> THEN <<Prompt>> ELSE conv,
              ![c].replay = Resumes(conv),
              ![c].pc = IF Resumes(conv) THEN "tool" ELSE "turn"]
        /\ IF conv = <<>>
           THEN stored' = Stored(conv, Prompt) /\ Touches(c)
           ELSE UNCHANGED <<stored, astray>>
        /\ UNCHANGED <<queueVars, leaseVars, tools, charged, ran, reran, crashes>>

-----------------------------------------------------------------------------
(* One turn: lease, call, charge, store.                                   *)

(* Mutant: the turns that earlier claims stored do not count.              *)
MayTurnAgain(c) ==
    Cardinality({i \in DOMAIN agent[c].conv : agent[c].conv[i].by = c}) < MaxTurns

MayTurn(c) == TurnsOf(agent[c].conv) < MaxTurns

OutOfTurns(c) ==
    /\ At(c, "turn")
    /\ ~MayTurn(c)
    /\ Goto(c, "returned")
    /\ UNCHANGED <<queueVars, leaseVars, convVars, crashes>>

AbortTurn(c) ==
    /\ At(c, "turn")
    /\ MayTurn(c)
    /\ agent[c].aborted
    /\ Goto(c, "threw")
    /\ UNCHANGED <<queueVars, leaseVars, convVars, crashes>>

(* No slot: RateLeaseUnavailableError, an error like any other.            *)
Call(c) ==
    /\ At(c, "turn")
    /\ MayTurn(c)
    /\ ~agent[c].aborted
    /\ \/ AcquireLease(LeaseOf(c)) /\ Goto(c, "calling")
       \/ RejectLease /\ Goto(c, "threw")
    /\ UNCHANGED <<queueVars, convVars, crashes>>

CallReturns(c) ==
    /\ At(c, "calling")
    /\ ReleaseLease(LeaseOf(c))
    /\ \E uses \in Replies :
          agent' = [agent EXCEPT ![c].reply = uses, ![c].pc = "charge"]
    /\ UNCHANGED <<queueVars, convVars, crashes>>

(* The call is aborted or fails; a prompt that is too long is fatal.       *)
CallThrows(c) ==
    /\ At(c, "calling")
    /\ ReleaseLease(LeaseOf(c))
    /\ Goto(c, "threw") \/ Goto(c, "fatal")
    /\ UNCHANGED <<queueVars, convVars, crashes>>

(* Mutant: no accounting once the abort signal is up.                      *)
ChargeUnlessAborted(c) ==
    /\ At(c, "charge")
    /\ charged' = IF Fenced(Job, c) /\ ~agent[c].aborted
                  THEN charged \cup {LeaseOf(c)} ELSE charged
    /\ Goto(c, "store")
    /\ UNCHANGED <<queueVars, leaseVars, stored, tools, ran, reran, astray, crashes>>

(* ctx.updateTokens matches no row once the lock is lost, and the worker   *)
(* drops its answer.                                                       *)
Charge(c) ==
    /\ At(c, "charge")
    /\ charged' = IF Fenced(Job, c) THEN charged \cup {LeaseOf(c)} ELSE charged
    /\ Goto(c, "store")
    /\ UNCHANGED <<queueVars, leaseVars, stored, tools, ran, reran, astray, crashes>>

(* The reply is stored before its tools are dispatched.                    *)
StoreReply(c) ==
    LET reply == Reply(c, agent[c].reply)
    IN  /\ At(c, "store")
        /\ stored' = Stored(agent[c].conv, reply)
        /\ Touches(c)
        /\ agent' = [agent EXCEPT
              ![c].conv = Append(@, reply), ![c].reply = <<>>,
              ![c].pc = IF agent[c].reply = <<>> THEN "returned" ELSE "tool"]
        /\ UNCHANGED <<queueVars, leaseVars, tools, charged, ran, reran, crashes>>

-----------------------------------------------------------------------------
(* Dispatching the tool uses of the last message.                          *)

Uses(c) == agent[c].conv[Len(agent[c].conv)].uses
Tool(c) == Uses(c)[agent[c].use]
Use(c) == UseId(agent[c].conv, Len(agent[c].conv), agent[c].use)
Dispatching(c) == At(c, "tool") /\ agent[c].use <= Len(Uses(c))

(* What the load found out about the use.                                  *)
Known(c) == IF Use(c) \in DOMAIN agent[c].prior THEN agent[c].prior[Use(c)] ELSE "none"

Aborting(c) == agent[c].aborted /\ ~agent[c].replay

NextUse(c, s) ==
    agent' = [agent EXCEPT ![c].answers = Append(@, <<Use(c), s>>),
                           ![c].outcome = "none",
                           ![c].use = @ + 1, ![c].pc = "tool"]

AbortTools(c) ==
    /\ Dispatching(c)
    /\ Aborting(c)
    /\ Goto(c, "threw")
    /\ UNCHANGED <<queueVars, leaseVars, convVars, crashes>>

(* Mutant: any row of an earlier claim is taken for an answer.             *)
TrustPrior(c) ==
    /\ Dispatching(c) /\ ~Aborting(c)
    /\ Known(c) # "none"
    /\ NextUse(c, Known(c))
    /\ UNCHANGED <<queueVars, leaseVars, convVars, crashes>>

(* A use that an earlier claim settled is not executed again.              *)
TrustSettled(c) ==
    /\ Dispatching(c) /\ ~Aborting(c)
    /\ Known(c) \in {"complete", "failed"}
    /\ NextUse(c, Known(c))
    /\ UNCHANGED <<queueVars, leaseVars, convVars, crashes>>

RefuseUnknown(c) ==
    /\ Dispatching(c) /\ ~Aborting(c)
    /\ Known(c) \notin {"complete", "failed"}
    /\ Tool(c) \notin Registry
    /\ tools' = WithStatus(tools, Use(c), "failed")
    /\ Touches(c)
    /\ NextUse(c, "failed")
    /\ UNCHANGED <<queueVars, leaseVars, stored, charged, ran, reran, crashes>>

(* Mutant: a pending use is dispatched again, whatever the tool.           *)
UnsafeNever(c) == FALSE

(* A use that was begun, of a tool that must not run twice.                *)
Unsafe(c) == Known(c) = "pending" /\ Tool(c) \notin Idempotent

RefuseUnsafe(c) ==
    /\ Dispatching(c) /\ ~Aborting(c)
    /\ Tool(c) \in Registry
    /\ Unsafe(c)
    /\ Goto(c, "threw")
    /\ UNCHANGED <<queueVars, leaseVars, convVars, crashes>>

(* persistToolExecPending: ON CONFLICT DO NOTHING.                         *)
BeginTool(c) ==
    /\ Dispatching(c) /\ ~Aborting(c)
    /\ Known(c) \notin {"complete", "failed"}
    /\ Tool(c) \in Registry
    /\ ~Unsafe(c)
    /\ tools' = IF Use(c) \in DOMAIN tools THEN tools ELSE WithStatus(tools, Use(c), "pending")
    /\ Touches(c)
    /\ Goto(c, "running")
    /\ UNCHANGED <<queueVars, leaseVars, stored, charged, ran, reran, crashes>>

RunTool(c) ==
    /\ At(c, "running")
    /\ ran' = ran \cup {Use(c)}
    /\ reran' = IF Use(c) \in ran THEN reran \cup {Use(c)} ELSE reran
    /\ Touches(c)
    /\ \E o \in {"complete"} \cup (IF Tool(c) \in Fallible THEN {"failed"} ELSE {}) :
          agent' = [agent EXCEPT ![c].outcome = o, ![c].pc = "ran"]
    /\ UNCHANGED <<queueVars, leaseVars, stored, tools, charged, crashes>>

(* persistToolExecComplete and persistToolExecFailed overwrite.            *)
RecordTool(c) ==
    /\ At(c, "ran")
    /\ tools' = WithStatus(tools, Use(c), agent[c].outcome)
    /\ Touches(c)
    /\ NextUse(c, agent[c].outcome)
    /\ UNCHANGED <<queueVars, leaseVars, stored, charged, ran, reran, crashes>>

(* The synthesized user turn.                                              *)
StoreAnswers(c) ==
    LET message == Answers(agent[c].answers)
    IN  /\ At(c, "tool")
        /\ agent[c].use > Len(Uses(c))
        /\ stored' = Stored(agent[c].conv, message)
        /\ Touches(c)
        /\ agent' = [agent EXCEPT
              ![c].conv = Append(@, message), ![c].use = 1, ![c].answers = <<>>,
              ![c].replay = FALSE, ![c].pc = "turn"]
        /\ UNCHANGED <<queueVars, leaseVars, tools, charged, ran, reran, crashes>>

-----------------------------------------------------------------------------
(* The end of a handler, and what happens around it.                       *)

(* executeJob: completeJob, or failJob with a retry or the end.            *)
Settle(c) ==
    /\ agent[c].pc \in {"returned", "threw", "fatal"}
    /\ agent' = [agent EXCEPT ![c] = NoHandler]
    /\ IF Fenced(Job, c)
       THEN \/ At(c, "returned") /\ CompleteRow(Job, c)
            \/ At(c, "threw") /\ agent[c].attempts + 1 < MaxAttempts /\ DelayRow(Job, c)
            \/ At(c, "threw") /\ agent[c].attempts + 1 >= MaxAttempts /\ KillRow(Job, c)
            \/ At(c, "fatal") /\ KillRow(Job, c)
       ELSE UNCHANGED queueVars
    /\ UNCHANGED <<leaseVars, convVars, crashes>>

(* The process dies: its lock and its lease stay until their time is up.   *)
Crash(c) ==
    /\ ~At(c, "absent")
    /\ crashes < MaxCrashes
    /\ crashes' = crashes + 1
    /\ agent' = [agent EXCEPT ![c] = NoHandler]
    /\ IF At(c, "calling") THEN AbandonLease(LeaseOf(c)) ELSE UNCHANGED leaseVars
    /\ UNCHANGED <<queueVars, convVars>>

(* The renewal finds the lock gone, or the worker shuts down.              *)
Abort(c) ==
    /\ ~At(c, "absent") /\ ~agent[c].aborted
    /\ \/ ~Fenced(Job, c) /\ UNCHANGED crashes
       \/ crashes < MaxCrashes /\ crashes' = crashes + 1
    /\ agent' = [agent EXCEPT ![c].aborted = TRUE]
    /\ UNCHANGED <<queueVars, leaseVars, convVars>>

Renew(c) ==
    /\ ~At(c, "absent")
    /\ RenewRow(Job, c)
    /\ UNCHANGED <<leaseVars, agent, convVars, crashes>>

Queue ==
    /\ \/ \E o \in Options : Add(Job, NoJob, o, "waiting")
       \/ \E deadline \in {"lock", "delay"} : Passes(Job, deadline)
       \/ PromoteDelayed
       \/ HandleStalled
    /\ UNCHANGED <<leaseVars, agent, convVars, crashes>>

LeaseExpires ==
    /\ \E id \in LeaseIds : ExpireLease(id)
    /\ UNCHANGED <<queueVars, agent, convVars, crashes>>

Init ==
    /\ QueueInit
    /\ LeaseInit
    /\ agent = [c \in Claims |-> NoHandler]
    /\ stored = <<>> /\ tools = <<>> /\ charged = {}
    /\ ran = {} /\ reran = {}
    /\ astray = 0
    /\ crashes = 0

Turn(c) ==
    \/ OutOfTurns(c) \/ AbortTurn(c) \/ Call(c) \/ CallReturns(c)
    \/ CallThrows(c) \/ Charge(c) \/ StoreReply(c)

Dispatch(c) ==
    \/ AbortTools(c) \/ TrustSettled(c) \/ RefuseUnknown(c) \/ RefuseUnsafe(c)
    \/ BeginTool(c) \/ RunTool(c) \/ RecordTool(c) \/ StoreAnswers(c)

Next ==
    \/ Launch \/ Queue \/ LeaseExpires
    \/ \E c \in Claims :
          \/ LoadMessages(c) \/ LoadTools(c)
          \/ Turn(c) \/ Dispatch(c)
          \/ Settle(c) \/ Crash(c) \/ Abort(c) \/ Renew(c)

(* Time goes on for the leases, whoever holds them.                        *)
Spec == Init /\ [][Next]_vars /\ WF_vars(LeaseExpires)

-----------------------------------------------------------------------------
Use3 == Claims \X (Nat \ {0}) \X (Nat \ {0})
Settled == {"complete", "failed"}
Message == [role : {"assistant", "user"}, by : Claims \cup {0},
            uses : Seq(Tools), answers : Seq(Use3 \X Settled)]

TypeOK ==
    /\ QueueTypeOK
    /\ LeaseTypeOK
    /\ \A c \in Claims :
          /\ agent[c].pc \in Pcs
          /\ agent[c].conv \in Seq(Message)
          /\ agent[c].answers \in Seq(Use3 \X Settled)
          /\ agent[c].use \in Nat \ {0}
    /\ stored \in Seq(Message)
    /\ DOMAIN tools \subseteq Use3 /\ \A u \in DOMAIN tools : tools[u] \in Settled \cup {"pending"}
    /\ charged \subseteq Claims \X Nat
    /\ ran \subseteq Use3 /\ reran \subseteq ran
    /\ astray \in 0 .. MaxAstray
    /\ crashes \in 0 .. MaxCrashes

(* The answers at i + 1 are those of the uses at i, in order, with the     *)
(* outcome that subagent_tool_executions records.                          *)
Answered(i) ==
    LET a == stored[i + 1].answers
    IN  /\ stored[i + 1].role = "user"
        /\ Len(a) = Len(stored[i].uses)
        /\ \A k \in DOMAIN a :
              /\ a[k][1] = UseId(stored, i, k)
              /\ a[k][1] \in DOMAIN tools /\ a[k][2] = tools[a[k][1]]

(* Crash-resumable, as the header of subagent.ts says: wherever handlers   *)
(* died and resumed, the stored conversation is one the provider would     *)
(* accept: it starts with the prompt and every reply that asked for tools  *)
(* is followed by the answers to exactly these, as executed; a completed   *)
(* job has its final answer stored, or ran out of turns.  It holds as long *)
(* as no handler wrote after it had lost the lock.                         *)
ConversationSound ==
    astray = 0 =>
        /\ \A i \in DOMAIN stored :
              /\ i = 1 => stored[i] = Prompt
              /\ i > 1 /\ stored[i].role = "user" => stored[i - 1].uses # <<>>
              /\ stored[i].uses # <<>> /\ i < Len(stored) => Answered(i)
        /\ status[Job] = "completed" =>
              \/ stored[Len(stored)].role = "assistant" /\ OpenUses(stored) = <<>>
              \/ TurnsOf(stored) >= MaxTurns

(* A tool that is not idempotent is executed at most once per use, over    *)
(* every crash between its pending row, its effect and its completion.     *)
ToolsRunOnce ==
    astray = 0 => \A u \in reran : stored[u[2]].uses[u[3]] \in Idempotent

(* max_turns counts the turns of earlier claims, and no resume adds one.   *)
TurnsBounded == astray = 0 => TurnsOf(stored) <= MaxTurns

(* Every stored reply was charged to the job before it was stored, so no   *)
(* crash leaves a conversation longer than its bill.                       *)
TurnsCharged ==
    astray = 0 => \A i \in DOMAIN stored :
        stored[i].role = "assistant" => <<stored[i].by, i - 1>> \in charged

(* Crash recovery is free, as the header of rate-leases.ts says: a key is  *)
(* never full for good, even if every owner died or hangs in its call.     *)
KeyIsFreedAgain == []<>(Cardinality(Kept) < MaxConcurrent)

=============================================================================
