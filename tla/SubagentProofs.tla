---------------------------- MODULE SubagentProofs ----------------------------
(***************************************************************************)
(* Proofs about the subagent handler (Subagent): its types, and that as    *)
(* long as no handler writes after it lost the lock the stored             *)
(* conversation is sound, bounded and paid for, and no tool that must not  *)
(* run twice does, for any tools, replies and limits and any number of     *)
(* claims, stalls, aborts and crashes.                                     *)
(*                                                                         *)
(* The argument: the token of the last claim fences the job, a handler     *)
(* without it never gets it again, and the one that has it holds in its    *)
(* memory exactly what is stored.                                          *)
(***************************************************************************)
EXTENDS LeaseProofs, QueueProofs, SequenceTheorems

(* A reply has its claim, and only replies ask for tools.                  *)
Messages == {m \in Message : /\ m.role = "assistant" => m.by \in Claims
                             /\ m.uses # <<>> => m.role = "assistant"}

(* The rows of subagent_tool_executions.                                   *)
ToolRows == UNION {[D -> Settled \cup {"pending"}] : D \in SUBSET Use3}

HandlerStates ==
    [pc : Pcs, conv : Seq(Messages), prior : ToolRows, reply : Seq(Tools),
     use : Nat \ {0}, answers : Seq(Use3 \X Settled), outcome : Settled \cup {"none"},
     replay : BOOLEAN, aborted : BOOLEAN, attempts : Nat]

(* What dispatching rests on, in the handler alone.                        *)
Dispatchable(h) ==
    /\ h.pc \in {"tool", "running", "ran"} => h.conv # <<>>
    /\ h.pc \in {"running", "ran"} => h.use <= Len(OpenUses(h.conv))
    /\ h.pc = "ran" => h.outcome \in Settled

Types ==
    /\ QueueTypeOK
    /\ agent \in [Claims -> HandlerStates]
    /\ \A c \in Claims : Dispatchable(agent[c])
    /\ stored \in Seq(Messages)
    /\ tools \in ToolRows
    /\ charged \subseteq Claims \X Nat
    /\ ran \subseteq Use3 /\ reran \subseteq ran
    /\ astray \in 0 .. MaxAstray
    /\ crashes \in 0 .. MaxCrashes

-----------------------------------------------------------------------------
(* The claims of the job: the last one has the token, if any, and none is  *)
(* launched before its time.                                               *)
Fencing ==
    /\ status[Job] = "active" => token[Job] = started[Job]
    /\ \A c \in Claims : ~At(c, "absent") => c <= started[Job]

-----------------------------------------------------------------------------
(* What is stored: the messages s, the tool executions t, the replies ch   *)
(* that were charged, and the uses r that ran and rr that ran again.       *)

AnsweredIn(i, s, t) ==
    LET a == s[i + 1].answers
    IN  /\ s[i + 1].role = "user"
        /\ Len(a) = Len(s[i].uses)
        /\ \A k \in 1 .. Len(a) :
              UseId(s, i, k) \in DOMAIN t /\ a[k] = <<UseId(s, i, k), t[UseId(s, i, k)]>>

Conversation(s, t) ==
    /\ s # <<>> => s[1] = Prompt
    /\ \A i \in 1 .. Len(s) : i > 1 /\ s[i].role = "user" => s[i - 1].uses # <<>>
    /\ \A i \in 1 .. Len(s) : s[i].uses # <<>> /\ i < Len(s) => AnsweredIn(i, s, t)

Executions(s, t, r, rr) ==
    /\ \A u \in DOMAIN t : u[2] \in 1 .. Len(s)
    /\ rr \subseteq r /\ r \subseteq DOMAIN t
    /\ \A u \in rr : s[u[2]].uses[u[3]] \in Idempotent

Replied(s, ch) ==
    /\ TurnsOf(s) <= MaxTurns
    /\ \A i \in 1 .. Len(s) : s[i].role = "assistant" => <<s[i].by, i - 1>> \in ch

(* The conversation is over.                                               *)
Finished(s) ==
    /\ s # <<>>
    /\ \/ s[Len(s)].role = "assistant" /\ OpenUses(s) = <<>>
       \/ TurnsOf(s) >= MaxTurns

-----------------------------------------------------------------------------
(* The handler h of claim c that has the lock, by where it is.             *)

(* The k-th use of the last message.                                       *)
OpenUse(s, k) == UseId(s, Len(s), k)

(* The uses before the current one are settled, and answered as recorded.  *)
AnsweredSoFar(h, s, t) ==
    /\ Len(h.answers) = h.use - 1 /\ h.use <= Len(OpenUses(s)) + 1
    /\ \A k \in 1 .. h.use - 1 :
          OpenUse(s, k) \in DOMAIN t /\ h.answers[k] = <<OpenUse(s, k), t[OpenUse(s, k)]>>

(* Of the uses that are still to come the load knew all there is to know.  *)
PriorCurrent(h, s, t) ==
    \A k \in h.use .. Len(OpenUses(s)) : k # h.use \/ h.pc = "tool" =>
        /\ OpenUse(s, k) \in DOMAIN h.prior <=> OpenUse(s, k) \in DOMAIN t
        /\ OpenUse(s, k) \in DOMAIN t => h.prior[OpenUse(s, k)] = t[OpenUse(s, k)]

(* The current use has its row, and may run even if it did before.         *)
BegunSafely(h, s, t, r) ==
    /\ OpenUse(s, h.use) \in DOMAIN t
    /\ h.pc = "running" /\ OpenUse(s, h.use) \in r => OpenUses(s)[h.use] \in Idempotent

Live(c, h, s, t, ch, r) ==
    /\ h.pc # "load" => h.conv = s
    /\ h.pc \notin {"load", "tools"} => DOMAIN h.prior \subseteq DOMAIN t
    /\ h.pc \in {"load", "tools", "turn", "calling", "charge", "store"}
          => h.use = 1 /\ h.answers = <<>>
    /\ h.pc \in {"turn", "calling", "charge", "store"} => s # <<>> /\ OpenUses(s) = <<>>
    /\ h.pc \in {"calling", "charge", "store"} => TurnsOf(s) < MaxTurns
    /\ h.pc = "store" => <<c, Len(s)>> \in ch
    /\ h.pc \in {"tool", "running", "ran"}
          => OpenUses(s) # <<>> /\ AnsweredSoFar(h, s, t) /\ PriorCurrent(h, s, t)
    /\ h.pc \in {"running", "ran"} => BegunSafely(h, s, t, r)
    /\ h.pc = "returned" => Finished(s)

(* What holds as long as nothing was written without the lock.             *)
Tables ==
    /\ Conversation(stored, tools)
    /\ Executions(stored, tools, ran, reran)
    /\ Replied(stored, charged)

HolderLive ==
    \A c \in Claims : Fenced(Job, c) /\ ~At(c, "absent")
        => Live(c, agent[c], stored, tools, charged, ran)

EndsFinished == status[Job] = "completed" => Finished(stored)

Kempt == Tables /\ HolderLive /\ EndsFinished

(* The inductive invariant.                                                *)
SubagentInv ==
    /\ Types
    /\ Fencing
    /\ astray = 0 => Kempt

-----------------------------------------------------------------------------
(* Messages, rows and turns.                                               *)

(* What a handler writes is a message.                                     *)
LEMMA MessageShapes ==
    /\ \A c \in Claims, uses \in Seq(Tools) : Reply(c, uses) \in Messages
    /\ \A a \in Seq(Use3 \X Settled) : Answers(a) \in Messages
    /\ Prompt \in Messages
<1>1. <<>> \in Seq(Tools) /\ <<>> \in Seq(Use3 \X Settled)
    BY EmptySeq
<1>2. \A c \in Claims, uses \in Seq(Tools) : Reply(c, uses) \in Messages
    BY <1>1 DEF Reply, Messages, Message
<1>3. \A a \in Seq(Use3 \X Settled) : Answers(a) \in Messages
    BY <1>1 DEF Answers, Messages, Message
<1>4. QED BY <1>1, <1>2, <1>3 DEF Prompt

(* The turns of a conversation are counted: there are finitely many.       *)
LEMMA TurnsType ==
    ASSUME NEW conv \in Seq(Messages)
    PROVE  TurnsOf(conv) \in Nat
<1>1. IsFiniteSet(1 .. Len(conv))
    BY FS_Interval, LenProperties
<1>2. {i \in DOMAIN conv : conv[i].role = "assistant"} \subseteq 1 .. Len(conv)
    BY LenProperties
<1>3. QED BY <1>1, <1>2, FS_Subset, FS_CardinalityType DEF TurnsOf

(* One more message: what was there stays, and a reply is one more turn.   *)
LEMMA Appended ==
    ASSUME NEW conv \in Seq(Messages), NEW m \in Messages
    PROVE  LET longer == Append(conv, m)
           IN  /\ longer \in Seq(Messages) /\ longer # <<>>
               /\ Len(conv) \in Nat /\ Len(longer) = Len(conv) + 1
               /\ DOMAIN conv = 1 .. Len(conv) /\ DOMAIN longer = 1 .. Len(conv) + 1
               /\ \A i \in 1 .. Len(conv) : longer[i] = conv[i]
               /\ longer[Len(conv) + 1] = m
               /\ OpenUses(longer) = m.uses
               /\ m.role = "assistant" => TurnsOf(longer) = TurnsOf(conv) + 1
               /\ m.role = "user" => TurnsOf(longer) = TurnsOf(conv)
<1> DEFINE longer == Append(conv, m)
           turns(s) == {i \in DOMAIN s : s[i].role = "assistant"}
<1>1. /\ longer \in Seq(Messages) /\ longer # <<>>
      /\ Len(conv) \in Nat /\ Len(longer) = Len(conv) + 1
      /\ DOMAIN conv = 1 .. Len(conv) /\ DOMAIN longer = 1 .. Len(conv) + 1
      /\ \A i \in 1 .. Len(conv) : longer[i] = conv[i]
      /\ longer[Len(conv) + 1] = m
    OBVIOUS
<1>2. OpenUses(longer) = m.uses
    BY <1>1 DEF OpenUses
<1>3. IsFiniteSet(turns(conv)) /\ Len(conv) + 1 \notin turns(conv)
    <2>1. IsFiniteSet(1 .. Len(conv))
        BY <1>1, FS_Interval
    <2>2. turns(conv) \in SUBSET (1 .. Len(conv)) /\ Len(conv) + 1 \notin 1 .. Len(conv)
        BY <1>1
    <2>3. QED BY <2>1, <2>2, FS_Subset
<1>4. m.role = "assistant" => TurnsOf(longer) = TurnsOf(conv) + 1
    <2>1. m.role = "assistant" => turns(longer) = turns(conv) \cup {Len(conv) + 1}
        BY <1>1
    <2>2. Cardinality(turns(conv) \cup {Len(conv) + 1}) = Cardinality(turns(conv)) + 1
        BY <1>3, FS_AddElement
    <2>3. QED BY <2>1, <2>2 DEF TurnsOf
<1>5. m.role = "user" => TurnsOf(longer) = TurnsOf(conv)
    <2>1. m.role = "user" => turns(longer) = turns(conv)
        BY <1>1
    <2>2. QED BY <2>1 DEF TurnsOf
<1>6. QED BY <1>1, <1>2, <1>4, <1>5

(* Where nothing was stored past it, a message lands behind what a handler *)
(* has, and elsewhere the table stays as it is.                            *)
LEMMA StoredType ==
    ASSUME stored \in Seq(Messages), NEW conv, NEW m \in Messages
    PROVE  /\ Stored(conv, m) \in Seq(Messages)
           /\ conv = stored => Stored(conv, m) = Append(stored, m)
BY LenProperties DEF Stored

(* No row at first.                                                        *)
LEMMA NoRows == <<>> \in ToolRows /\ DOMAIN <<>> = {}
<1>1. <<>> \in Seq(Settled \cup {"pending"}) /\ Len(<<>>) = 0
    BY EmptySeq
<1>2. <<>> \in [1 .. 0 -> Settled \cup {"pending"}]
    BY <1>1, LenProperties
<1>3. 1 .. 0 = {} /\ {} \in SUBSET Use3
    OBVIOUS
<1>4. QED BY <1>2, <1>3 DEF ToolRows

(* Rows are keyed by tool uses.                                            *)
LEMMA RowTypes ==
    ASSUME NEW f \in ToolRows
    PROVE  DOMAIN f \subseteq Use3 /\ \A u \in DOMAIN f : f[u] \in Settled \cup {"pending"}
BY DEF ToolRows

(* Writing the row of a use touches no other.                              *)
LEMMA WithStatusType ==
    ASSUME NEW f \in ToolRows, NEW u \in Use3, NEW s \in Settled \cup {"pending"}
    PROVE  /\ WithStatus(f, u, s) \in ToolRows
           /\ DOMAIN WithStatus(f, u, s) = DOMAIN f \cup {u}
           /\ WithStatus(f, u, s)[u] = s
           /\ \A v \in DOMAIN f : v # u => WithStatus(f, u, s)[v] = f[v]
<1>1. /\ DOMAIN WithStatus(f, u, s) = DOMAIN f \cup {u}
      /\ WithStatus(f, u, s)[u] = s
      /\ \A v \in DOMAIN f : v # u => WithStatus(f, u, s)[v] = f[v]
    BY DEF WithStatus
<1>2. DOMAIN f \cup {u} \in SUBSET Use3
    BY RowTypes
<1>3. WithStatus(f, u, s) \in [DOMAIN f \cup {u} -> Settled \cup {"pending"}]
    BY RowTypes DEF WithStatus
<1>4. QED BY <1>1, <1>2, <1>3 DEF ToolRows

-----------------------------------------------------------------------------
(* The handlers, their types.                                              *)

(* The fields of a handler.                                                *)
LEMMA HandlerFields ==
    ASSUME NEW h \in HandlerStates
    PROVE  /\ h.pc \in Pcs /\ h.conv \in Seq(Messages) /\ h.prior \in ToolRows
           /\ h.reply \in Seq(Tools) /\ h.use \in Nat \ {0}
           /\ h.answers \in Seq(Use3 \X Settled) /\ h.outcome \in Settled \cup {"none"}
BY DEF HandlerStates

(* The use a handler is about to settle, with the tool it names.           *)
LEMMA UseType ==
    ASSUME Types, NEW c \in Claims, agent[c].pc \in {"tool", "running", "ran"},
           agent[c].use <= Len(Uses(c))
    PROVE  /\ Use(c) \in Use3 /\ Tool(c) \in Tools
           /\ Uses(c) = OpenUses(agent[c].conv) /\ Len(Uses(c)) \in Nat
           /\ Uses(c) # <<>>
<1> DEFINE h == agent[c]
<1>1. h \in HandlerStates /\ h.conv # <<>>
    BY DEF Types, Dispatchable
<1>2. h.conv \in Seq(Messages) /\ h.use \in Nat \ {0} /\ Len(h.conv) \in Nat \ {0}
    BY <1>1, HandlerFields, EmptySeq
<1>3. h.conv[Len(h.conv)] \in Messages
    BY <1>2, ElementOfSeq
<1>4. Uses(c) \in Seq(Tools)
    BY <1>3 DEF Uses, Messages, Message
<1>5. Uses(c) # <<>> /\ Len(Uses(c)) \in Nat /\ Tool(c) \in Tools
    <2>1. Len(Uses(c)) \in Nat /\ Len(Uses(c)) # 0
        BY <1>2, <1>4, LenProperties
    <2>2. Uses(c)[h.use] \in Tools
        BY <1>2, <1>4, <2>1, ElementOfSeq
    <2>3. QED BY <2>1, <2>2, EmptySeq DEF Tool
<1>6. h.conv[Len(h.conv)].by \in Claims
    BY <1>3, <1>5 DEF Messages, Uses
<1>7. Use(c) \in Use3
    BY <1>2, <1>6 DEF Use, UseId, Use3
<1>8. Uses(c) = OpenUses(h.conv)
    BY <1>1 DEF Uses, OpenUses
<1>9. QED BY <1>4, <1>5, <1>7, <1>8

(* A handler starts, and ends, with nothing in its memory.                 *)
LEMMA HandlerType ==
    /\ \A n \in Nat : Handler(n) \in HandlerStates /\ Dispatchable(Handler(n))
    /\ NoHandler \in HandlerStates /\ Dispatchable(NoHandler) /\ NoHandler.pc = "absent"
<1>1. <<>> \in Seq(Messages) /\ <<>> \in Seq(Tools) /\ <<>> \in Seq(Use3 \X Settled)
    BY EmptySeq
<1>2. <<>> \in ToolRows
    BY NoRows
<1>3. \A n \in Nat : Handler(n) \in HandlerStates
    BY <1>1, <1>2 DEF Handler, HandlerStates, Pcs
<1>4. \A n \in Nat : Handler(n).pc = "load"
    BY DEF Handler
<1>5. NoHandler \in HandlerStates /\ NoHandler.pc = "absent"
    BY <1>3 DEF NoHandler, HandlerStates, Pcs
<1>6. QED BY <1>3, <1>4, <1>5 DEF Dispatchable

(* A step of one handler.                                                  *)
LEMMA AgentType ==
    ASSUME Types, NEW c \in Claims, NEW h \in HandlerStates, Dispatchable(h),
           agent' = [agent EXCEPT ![c] = h]
    PROVE  agent' \in [Claims -> HandlerStates] /\ \A d \in Claims : Dispatchable(agent'[d])
BY DEF Types

(* Going somewhere else with the same memory.                              *)
LEMMA GotoType ==
    ASSUME Types, NEW c \in Claims, NEW pc \in Pcs \ {"tool", "running", "ran"}, Goto(c, pc)
    PROVE  agent' \in [Claims -> HandlerStates] /\ \A d \in Claims : Dispatchable(agent'[d])
<1> DEFINE h == [agent[c] EXCEPT !.pc = pc]
<1>1. h \in HandlerStates /\ Dispatchable(h)
    BY DEF Types, HandlerStates, Dispatchable
<1>2. agent' = [agent EXCEPT ![c] = h]
    BY DEF Goto
<1>3. QED BY <1>1, <1>2, AgentType

(* Nothing happens to the job table.                                       *)
LEMMA QueueUnchanged == ASSUME QueueTypeOK, UNCHANGED queueVars PROVE QueueTypeOK'
BY DEF QueueTypeOK, queueVars, links, counters, history

(* What a handler writes counts as astray, or not.                         *)
LEMMA TouchesType ==
    ASSUME Types, NEW c \in Claims, Touches(c)
    PROVE  astray' \in 0 .. MaxAstray
BY SubagentAssumption DEF Types, Touches

(* Launch                                                                  *)
LEMMA LaunchTypes == ASSUME Types, Launch PROVE Types'
<1>1. QueueTypeOK'
    BY ClaimRowType, SubagentAssumption DEF Launch, Types
<1>2. started[Job] + 1 \in Claims /\ made[Job] \in Nat
    BY SubagentAssumption DEF Launch, Types, QueueTypeOK, Claims
<1>3. agent' \in [Claims -> HandlerStates] /\ \A d \in Claims : Dispatchable(agent'[d])
    BY <1>2, HandlerType, AgentType DEF Launch
<1>4. QED BY <1>1, <1>3 DEF Launch, Types, convVars

(* LoadMessages, LoadTools                                                 *)
LEMMA LoadTypes ==
    ASSUME Types, NEW c \in Claims, LoadMessages(c) \/ LoadTools(c) PROVE Types'
<1>1. agent[c] \in HandlerStates /\ QueueTypeOK'
    BY QueueUnchanged DEF Types, LoadMessages, LoadTools
<1>2. CASE LoadMessages(c)
    <2> DEFINE h == [agent[c] EXCEPT !.conv = stored, !.pc = "tools"]
    <2>1. h \in HandlerStates /\ Dispatchable(h)
        BY <1>1 DEF Types, HandlerStates, Dispatchable, Pcs
    <2>2. agent' = [agent EXCEPT ![c] = h]
        BY <1>2 DEF LoadMessages
    <2>3. agent' \in [Claims -> HandlerStates] /\ \A d \in Claims : Dispatchable(agent'[d])
        BY <2>1, <2>2, AgentType
    <2>4. QED BY <1>1, <1>2, <2>3 DEF LoadMessages, Types, convVars
<1>3. CASE LoadTools(c)
    <2> DEFINE conv == agent[c].conv
               longer == IF conv = <<>> THEN <<Prompt>> ELSE conv
               h == [agent[c] EXCEPT !.prior = tools, !.conv = longer, !.replay = Resumes(conv),
                                     !.pc = IF Resumes(conv) THEN "tool" ELSE "turn"]
    <2>1. longer \in Seq(Messages) /\ longer # <<>> /\ Resumes(conv) \in BOOLEAN
          /\ (Resumes(conv) => longer = conv)
        BY <1>1, MessageShapes, HandlerFields DEF Resumes, OpenUses
    <2>2. h \in HandlerStates /\ Dispatchable(h)
        <3> HIDE DEF longer
        <3>1. QED BY <1>1, <2>1 DEF Types, HandlerStates, Dispatchable, Pcs
    <2>3. agent' = [agent EXCEPT ![c] = h]
        BY <1>3 DEF LoadTools
    <2>4. agent' \in [Claims -> HandlerStates] /\ \A d \in Claims : Dispatchable(agent'[d])
        <3> HIDE DEF h
        <3>1. QED BY <2>2, <2>3, AgentType
    <2>5. stored' \in Seq(Messages) /\ astray' \in 0 .. MaxAstray
        BY <1>3, MessageShapes, StoredType, TouchesType DEF LoadTools, Types
    <2>6. QED BY <1>1, <1>3, <2>4, <2>5 DEF LoadTools, Types
<1>4. QED BY <1>2, <1>3

(* The steps of a turn                                                     *)
LEMMA TurnTypes ==
    ASSUME Types, NEW c \in Claims, Turn(c) PROVE Types'
<1>1. agent[c] \in HandlerStates /\ QueueTypeOK'
    BY QueueUnchanged DEF Types, Turn, OutOfTurns, AbortTurn, Call, CallReturns, CallThrows,
                          Charge, StoreReply
<1>2. CASE OutOfTurns(c) \/ AbortTurn(c) \/ Call(c) \/ CallThrows(c)
    <2>1. PICK pc \in {"returned", "threw", "calling", "fatal"} : Goto(c, pc)
        BY <1>2 DEF OutOfTurns, AbortTurn, Call, CallThrows
    <2>2. pc \in Pcs \ {"tool", "running", "ran"}
        BY DEF Pcs
    <2>3. agent' \in [Claims -> HandlerStates] /\ \A d \in Claims : Dispatchable(agent'[d])
        BY <2>1, <2>2, GotoType
    <2>4. QED BY <1>1, <1>2, <2>3
                 DEF OutOfTurns, AbortTurn, Call, CallThrows, Types, convVars
<1>3. CASE CallReturns(c)
    <2>1. PICK uses \in Replies :
              agent' = [agent EXCEPT ![c] = [agent[c] EXCEPT !.reply = uses, !.pc = "charge"]]
        BY <1>3 DEF CallReturns
    <2> DEFINE h == [agent[c] EXCEPT !.reply = uses, !.pc = "charge"]
    <2>2. h \in HandlerStates /\ Dispatchable(h)
        BY <1>1, SubagentAssumption DEF HandlerStates, Dispatchable, Pcs
    <2>3. agent' \in [Claims -> HandlerStates] /\ \A d \in Claims : Dispatchable(agent'[d])
        BY <2>1, <2>2, AgentType
    <2>4. QED BY <1>1, <1>3, <2>3 DEF CallReturns, Types, convVars
<1>4. CASE Charge(c)
    <2>1. agent' \in [Claims -> HandlerStates] /\ \A d \in Claims : Dispatchable(agent'[d])
        BY <1>4, GotoType DEF Charge, Pcs
    <2>2. LeaseOf(c) \in Claims \X Nat
        BY <1>1, HandlerFields, LenProperties DEF LeaseOf
    <2>3. charged' \subseteq Claims \X Nat
        BY <1>4, <2>2 DEF Charge, Types
    <2>4. QED BY <1>1, <1>4, <2>1, <2>3 DEF Charge, Types
<1>5. CASE StoreReply(c)
    <2> DEFINE reply == Reply(c, agent[c].reply)
               longer == Append(agent[c].conv, reply)
               h == [agent[c] EXCEPT !.conv = longer, !.reply = <<>>,
                         !.pc = IF agent[c].reply = <<>> THEN "returned" ELSE "tool"]
    <2>1. reply \in Messages
        BY <1>1, MessageShapes, HandlerFields
    <2>2. longer \in Seq(Messages) /\ longer # <<>>
        <3> HIDE DEF reply
        <3>1. QED BY <1>1, <2>1, HandlerFields, Appended
    <2>3. h \in HandlerStates /\ Dispatchable(h)
        <3> HIDE DEF longer
        <3>1. <<>> \in Seq(Tools)
            BY EmptySeq
        <3>2. QED BY <1>1, <2>2, <3>1 DEF HandlerStates, Dispatchable, Pcs
    <2>4. agent' = [agent EXCEPT ![c] = h]
        BY <1>5 DEF StoreReply
    <2>5. agent' \in [Claims -> HandlerStates] /\ \A d \in Claims : Dispatchable(agent'[d])
        <3> HIDE DEF h
        <3>1. QED BY <2>3, <2>4, AgentType
    <2>6. stored' \in Seq(Messages) /\ astray' \in 0 .. MaxAstray
        BY <1>5, <2>1, StoredType, TouchesType DEF StoreReply, Types
    <2>7. QED BY <1>1, <1>5, <2>5, <2>6 DEF StoreReply, Types
<1>6. QED BY <1>2, <1>3, <1>4, <1>5 DEF Turn

(* The next use, once one is settled.                                      *)
LEMMA NextUseType ==
    ASSUME Types, NEW c \in Claims, agent[c].pc \in {"tool", "running", "ran"},
           agent[c].use <= Len(Uses(c)), NEW s \in Settled, NextUse(c, s)
    PROVE  agent' \in [Claims -> HandlerStates] /\ \A d \in Claims : Dispatchable(agent'[d])
<1> DEFINE longer == Append(agent[c].answers, <<Use(c), s>>)
           h == [agent[c] EXCEPT !.answers = longer, !.outcome = "none",
                                 !.use = agent[c].use + 1, !.pc = "tool"]
<1>1. agent[c] \in HandlerStates /\ agent[c].conv # <<>>
    BY DEF Types, Dispatchable
<1>2. <<Use(c), s>> \in Use3 \X Settled
    BY UseType
<1>3. longer \in Seq(Use3 \X Settled)
    BY <1>1, <1>2, HandlerFields
<1>4. h \in HandlerStates /\ Dispatchable(h)
    <2>1. agent[c].use + 1 \in Nat \ {0} /\ "tool" \in Pcs
        BY <1>1, HandlerFields DEF Pcs
    <2> HIDE DEF longer
    <2>2. QED BY <1>1, <1>3, <2>1 DEF HandlerStates, Dispatchable
<1>5. agent' = [agent EXCEPT ![c] = h]
    BY DEF NextUse
<1>6. QED
    <2> HIDE DEF h
    <2>1. QED BY <1>4, <1>5, AgentType

(* The steps of dispatching                                                *)
LEMMA DispatchTypes ==
    ASSUME Types, NEW c \in Claims, Dispatch(c) PROVE Types'
<1>1. agent[c] \in HandlerStates /\ QueueTypeOK'
    BY QueueUnchanged DEF Types, Dispatch, AbortTools, TrustSettled, RefuseUnknown,
                          RefuseUnsafe, BeginTool, RunTool, RecordTool, StoreAnswers
<1>2. CASE AbortTools(c) \/ RefuseUnsafe(c)
    <2>1. agent' \in [Claims -> HandlerStates] /\ \A d \in Claims : Dispatchable(agent'[d])
        BY <1>2, GotoType DEF AbortTools, RefuseUnsafe, Pcs
    <2>2. QED BY <1>1, <1>2, <2>1 DEF AbortTools, RefuseUnsafe, Types, convVars
<1>3. CASE TrustSettled(c)
    <2>1. agent' \in [Claims -> HandlerStates] /\ \A d \in Claims : Dispatchable(agent'[d])
        BY <1>3, NextUseType DEF TrustSettled, Dispatching, At, Settled
    <2>2. QED BY <1>1, <1>3, <2>1 DEF TrustSettled, Types, convVars
<1>4. CASE RefuseUnknown(c)
    <2>1. agent' \in [Claims -> HandlerStates] /\ \A d \in Claims : Dispatchable(agent'[d])
        BY <1>4, NextUseType DEF RefuseUnknown, Dispatching, At, Settled
    <2>2. Use(c) \in Use3
        BY <1>4, UseType DEF RefuseUnknown, Dispatching, At
    <2>3. tools' \in ToolRows /\ astray' \in 0 .. MaxAstray
        BY <1>4, <2>2, WithStatusType, TouchesType DEF RefuseUnknown, Types, Settled
    <2>4. QED BY <1>1, <1>4, <2>1, <2>3 DEF RefuseUnknown, Types
<1>5. CASE BeginTool(c)
    <2> DEFINE h == [agent[c] EXCEPT !.pc = "running"]
    <2>1. agent[c].pc = "tool" /\ agent[c].use <= Len(Uses(c))
        BY <1>5 DEF BeginTool, Dispatching, At
    <2>2. agent[c].conv # <<>> /\ Use(c) \in Use3 /\ Uses(c) = OpenUses(agent[c].conv)
        BY <2>1, UseType DEF Types, Dispatchable
    <2>3. h \in HandlerStates /\ Dispatchable(h)
        BY <1>1, <2>1, <2>2 DEF HandlerStates, Dispatchable, Pcs
    <2>4. agent' = [agent EXCEPT ![c] = h]
        BY <1>5 DEF BeginTool, Goto
    <2>5. agent' \in [Claims -> HandlerStates] /\ \A d \in Claims : Dispatchable(agent'[d])
        BY <2>3, <2>4, AgentType
    <2>6. tools' \in ToolRows /\ astray' \in 0 .. MaxAstray
        BY <1>5, <2>2, WithStatusType, TouchesType DEF BeginTool, Types
    <2>7. QED BY <1>1, <1>5, <2>5, <2>6 DEF BeginTool, Types
<1>6. CASE RunTool(c)
    <2>1. PICK o \in Settled :
              agent' = [agent EXCEPT ![c] = [agent[c] EXCEPT !.outcome = o, !.pc = "ran"]]
        BY <1>6 DEF RunTool, Settled
    <2> DEFINE h == [agent[c] EXCEPT !.outcome = o, !.pc = "ran"]
    <2>2. /\ agent[c].pc = "running" /\ agent[c].conv # <<>>
          /\ agent[c].use <= Len(OpenUses(agent[c].conv))
        BY <1>6 DEF RunTool, At, Types, Dispatchable
    <2>3. h \in HandlerStates /\ Dispatchable(h)
        BY <1>1, <2>2 DEF HandlerStates, Dispatchable, Pcs
    <2>4. agent' \in [Claims -> HandlerStates] /\ \A d \in Claims : Dispatchable(agent'[d])
        BY <2>1, <2>3, AgentType
    <2>5. Use(c) \in Use3
        BY <2>2, UseType DEF Uses, OpenUses
    <2>6. ran' \subseteq Use3 /\ reran' \subseteq ran' /\ astray' \in 0 .. MaxAstray
        BY <1>6, <2>5, TouchesType DEF RunTool, Types
    <2>7. QED BY <1>1, <1>6, <2>4, <2>6 DEF RunTool, Types
<1>7. CASE RecordTool(c)
    <2>1. /\ agent[c].pc = "ran" /\ agent[c].use <= Len(Uses(c))
          /\ agent[c].outcome \in Settled
        BY <1>7 DEF RecordTool, At, Types, Dispatchable, Uses, OpenUses
    <2>2. agent' \in [Claims -> HandlerStates] /\ \A d \in Claims : Dispatchable(agent'[d])
        BY <1>7, <2>1, NextUseType DEF RecordTool
    <2>3. Use(c) \in Use3
        BY <2>1, UseType
    <2>4. tools' \in ToolRows /\ astray' \in 0 .. MaxAstray
        BY <1>7, <2>1, <2>3, WithStatusType, TouchesType DEF RecordTool, Types
    <2>5. QED BY <1>1, <1>7, <2>2, <2>4 DEF RecordTool, Types
<1>8. CASE StoreAnswers(c)
    <2> DEFINE message == Answers(agent[c].answers)
               longer == Append(agent[c].conv, message)
               h == [agent[c] EXCEPT !.conv = longer, !.use = 1, !.answers = <<>>,
                                     !.replay = FALSE, !.pc = "turn"]
    <2>1. message \in Messages
        BY <1>1, MessageShapes, HandlerFields
    <2>2. longer \in Seq(Messages)
        <3> HIDE DEF message
        <3>1. QED BY <1>1, <2>1, HandlerFields, Appended
    <2>3. h \in HandlerStates /\ Dispatchable(h)
        <3> HIDE DEF longer
        <3>1. <<>> \in Seq(Use3 \X Settled) /\ 1 \in Nat \ {0} /\ "turn" \in Pcs
            BY EmptySeq DEF Pcs
        <3>2. QED BY <1>1, <2>2, <3>1 DEF HandlerStates, Dispatchable
    <2>4. agent' = [agent EXCEPT ![c] = h]
        BY <1>8 DEF StoreAnswers
    <2>5. agent' \in [Claims -> HandlerStates] /\ \A d \in Claims : Dispatchable(agent'[d])
        <3> HIDE DEF h
        <3>1. QED BY <2>3, <2>4, AgentType
    <2>6. stored' \in Seq(Messages) /\ astray' \in 0 .. MaxAstray
        BY <1>8, <2>1, StoredType, TouchesType DEF StoreAnswers, Types
    <2>7. QED BY <1>1, <1>8, <2>5, <2>6 DEF StoreAnswers, Types
<1>9. QED BY <1>2, <1>3, <1>4, <1>5, <1>6, <1>7, <1>8 DEF Dispatch

(* The end of a handler, its crash, its abort signal and its lock timer    *)
LEMMA EndTypes ==
    ASSUME Types, NEW c \in Claims, Settle(c) \/ Crash(c) \/ Abort(c) \/ Renew(c)
    PROVE  Types'
<1>1. c \in Nat /\ Job \in Jobs /\ agent[c] \in HandlerStates
    BY SubagentAssumption DEF Claims, Types
<1>2. crashes' \in 0 .. MaxCrashes
    BY SubagentAssumption DEF Types, Settle, Crash, Abort, Renew
<1>3. QueueTypeOK'
    <2>1. CASE CompleteRow(Job, c) \/ DelayRow(Job, c) \/ KillRow(Job, c) \/ RenewRow(Job, c)
        BY <1>1, <2>1, CompleteRowType, DelayRowType, KillRowType, RenewRowType DEF Types
    <2>2. CASE UNCHANGED queueVars
        BY <2>2, QueueUnchanged DEF Types
    <2>3. QED BY <2>1, <2>2 DEF Settle, Crash, Abort, Renew
<1>4. agent' \in [Claims -> HandlerStates] /\ \A d \in Claims : Dispatchable(agent'[d])
    <2>1. CASE Settle(c) \/ Crash(c)
        BY <2>1, HandlerType, AgentType DEF Settle, Crash
    <2>2. CASE Abort(c)
        <3> DEFINE h == [agent[c] EXCEPT !.aborted = TRUE]
        <3>1. h \in HandlerStates /\ Dispatchable(h)
            BY <1>1 DEF HandlerStates, Dispatchable, Types
        <3>2. agent' = [agent EXCEPT ![c] = h]
            BY <2>2 DEF Abort
        <3>3. QED BY <3>1, <3>2, AgentType
    <2>3. CASE Renew(c)
        BY <2>3 DEF Renew, Types
    <2>4. QED BY <2>1, <2>2, <2>3
<1>5. UNCHANGED convVars
    BY DEF Settle, Crash, Abort, Renew
<1>6. QED BY <1>2, <1>3, <1>4, <1>5 DEF Types, convVars

(* The queue and the clock of the leases                                   *)
LEMMA QueueTypes == ASSUME Types, Queue \/ LeaseExpires PROVE Types'
<1>1. QueueTypeOK'
    <2>1. ASSUME NEW o \in Options, Add(Job, NoJob, o, "waiting") PROVE QueueTypeOK'
        BY <2>1, AddType, SubagentAssumption DEF Types
    <2>2. ASSUME NEW d \in {"lock", "delay"}, Passes(Job, d) PROVE QueueTypeOK'
        BY <2>2, PassesType, SubagentAssumption DEF Types, Deadlines
    <2>3. CASE PromoteDelayed \/ HandleStalled
        BY <2>3, PromoteDelayedType, HandleStalledType DEF Types
    <2>4. CASE UNCHANGED queueVars
        BY <2>4, QueueUnchanged DEF Types
    <2>5. QED BY <2>1, <2>2, <2>3, <2>4 DEF Queue, LeaseExpires
<1>2. QED BY <1>1 DEF Queue, LeaseExpires, Types, convVars

(* At first there is no handler and nothing is stored.                     *)
LEMMA TypesInit == Init => Types
<1> SUFFICES ASSUME Init PROVE Types
    OBVIOUS
<1>1. (CHOOSE o \in Options : TRUE) \in JobOptions
    BY QueueAssumption
<1>2. QueueTypeOK
    BY <1>1, StatusNames DEF Init, QueueInit, QueueTypeOK
<1>3. <<>> \in Seq(Messages) /\ <<>> \in ToolRows
    BY EmptySeq, NoRows
<1>4. QED BY <1>2, <1>3, HandlerType, SubagentAssumption DEF Init, Types

(* Every step of the job, its handlers and the queue keeps the types.      *)
LEMMA TypesStep == Types /\ [Next]_vars => Types'
<1> SUFFICES ASSUME Types, [Next]_vars PROVE Types'
    OBVIOUS
<1>1. CASE UNCHANGED vars
    <2>1. QueueTypeOK'
        BY <1>1, QueueUnchanged DEF vars, Types
    <2>2. QED BY <1>1, <2>1 DEF vars, Types, convVars
<1>2. QED BY <1>1, LaunchTypes, LoadTypes, TurnTypes, DispatchTypes, EndTypes, QueueTypes DEF Next

-----------------------------------------------------------------------------
(* The fence.                                                              *)

(* Between claims a step can only take the token away.                     *)
RowKept ==
    /\ started'[Job] = started[Job]
    /\ status'[Job] = "active" => status[Job] = "active" /\ token'[Job] = token[Job]
    /\ status'[Job] = "completed" => status[Job] = "completed"

(* What a handler does to the row of its job.                              *)
LEMMA HandlerRow ==
    ASSUME Types, NEW c \in Claims, Settle(c) \/ Crash(c) \/ Abort(c) \/ Renew(c)
    PROVE  RowKept \/ (Settle(c) /\ At(c, "returned") /\ CompleteRow(Job, c)
                       /\ started'[Job] = started[Job] /\ status'[Job] # "active")
<1> USE SubagentAssumption DEF links, counters, history
<1>0. QueueTypeOK /\ Job \in Jobs
    BY DEF Types
<1>1. CASE UNCHANGED queueVars
    BY <1>1 DEF queueVars, RowKept
<1>2. CASE Settle(c) /\ At(c, "returned") /\ CompleteRow(Job, c)
    <2> DEFINE ended == Override(status, {Job}, "completed")
               gone == IF opts[Job].remove = "on_complete" THEN {Job} ELSE {}
               settled == Resolved(ended, parent, ParentsOf({Job}))
    <2>1. ended \in [Jobs -> Statuses] /\ ended[Job] = "completed"
        <3>1. ended \in [Jobs -> Statuses]
            BY <1>0, StatusNames DEF Override, QueueTypeOK
        <3>2. ended[Job] = "completed"
            BY <1>0 DEF Override
        <3>3. QED BY <3>1, <3>2
    <2>2. settled[Job] = "completed"
        <3> HIDE DEF ended
        <3>1. QED BY <1>0, <2>1, ResolvedEffect
    <2>3. status' = Override(settled, gone, "removed") /\ started' = started
        BY <1>2 DEF CompleteRow
    <2>4. status'[Job] # "active"
        <3> HIDE DEF settled, gone
        <3>1. QED BY <1>0, <2>2, <2>3 DEF Override
    <2>5. QED BY <1>2, <2>3, <2>4
<1>3. CASE DelayRow(Job, c)
    BY <1>0, <1>3 DEF DelayRow, QueueTypeOK, RowKept
<1>4. CASE KillRow(Job, c)
    <2> DEFINE ended == Override(status, {Job}, "dead")
               newParent == IF opts[Job].policy = "remove_dep"
                            THEN [parent EXCEPT ![Job] = NoJob] ELSE parent
               settled == AfterChildFailed(ended, newParent, Job)
               gone == IF opts[Job].remove = "on_fail" THEN {Job} ELSE {}
    <2>1. ended \in [Jobs -> Statuses] /\ ended[Job] = "dead"
        <3>1. ended \in [Jobs -> Statuses]
            BY <1>0, StatusNames DEF Override, QueueTypeOK
        <3>2. ended[Job] = "dead"
            BY <1>0 DEF Override
        <3>3. QED BY <3>1, <3>2
    <2>2. settled[Job] = "dead"
        <3> HIDE DEF ended, newParent
        <3>1. QED BY <1>0, <2>1, AfterChildFailedEffect
    <2>3. status' = Override(settled, gone, "removed") /\ started' = started
        BY <1>4 DEF KillRow
    <2>4. status'[Job] \in {"dead", "removed"}
        <3> HIDE DEF settled, gone
        <3>1. QED BY <1>0, <2>2, <2>3 DEF Override
    <2>5. QED BY <2>3, <2>4 DEF RowKept
<1>5. CASE RenewRow(Job, c)
    BY <1>5 DEF RenewRow, RowKept
<1>6. QED BY <1>1, <1>2, <1>3, <1>4, <1>5 DEF Settle, Crash, Abort, Renew

(* The sweeps and a submission do not make the job active, or complete.    *)
LEMMA QueueRow == ASSUME Types, Queue PROVE RowKept
<1> USE SubagentAssumption DEF links, counters, history
<1>0. QueueTypeOK /\ Job \in Jobs /\ NoJob # Job
    BY QueueAssumption DEF Types
<1>1. ASSUME NEW o \in Options, Add(Job, NoJob, o, "waiting") PROVE RowKept
    BY <1>0, <1>1 DEF Add, RowKept
<1>2. ASSUME NEW d \in {"lock", "delay"}, Passes(Job, d) PROVE RowKept
    BY <1>2 DEF Passes, RowKept
<1>3. CASE PromoteDelayed
    BY <1>0, <1>3 DEF PromoteDelayed, Override, RowKept
<1>4. CASE HandleStalled
    BY <1>0, <1>4 DEF HandleStalled, Stalled, Override, Unlock, RowKept
<1>5. QED BY <1>1, <1>2, <1>3, <1>4 DEF Queue

(* Everything else a handler does leaves the job table alone.              *)
LEMMA WorkRow ==
    ASSUME NEW c \in Claims, LoadMessages(c) \/ LoadTools(c) \/ Turn(c) \/ Dispatch(c)
    PROVE  UNCHANGED queueVars
BY DEF LoadMessages, LoadTools, Turn, OutOfTurns, AbortTurn, Call, CallReturns, CallThrows,
       Charge, StoreReply, Dispatch, AbortTools, TrustSettled, RefuseUnknown, RefuseUnsafe,
       BeginTool, RunTool, RecordTool, StoreAnswers

(* Only Launch brings a handler in, where there was none.                  *)
LEMMA NoHandlerComesBack ==
    ASSUME Types, NEW c \in Claims,
           \/ LoadMessages(c) \/ LoadTools(c) \/ Turn(c) \/ Dispatch(c)
           \/ Settle(c) \/ Crash(c) \/ Abort(c) \/ Renew(c)
    PROVE  /\ agent[c].pc = "absent" => agent'[c].pc = "absent"
           /\ \A d \in Claims : d # c => agent'[d] = agent[d]
<1> USE DEF Types, At, Goto, NextUse
<1>1. CASE LoadMessages(c) \/ LoadTools(c)
    BY <1>1 DEF LoadMessages, LoadTools
<1>2. CASE Turn(c)
    BY <1>2 DEF Turn, OutOfTurns, AbortTurn, Call, CallReturns, CallThrows, Charge, StoreReply
<1>3. CASE Dispatch(c)
    BY <1>3 DEF Dispatch, Dispatching, AbortTools, TrustSettled, RefuseUnknown, RefuseUnsafe,
                BeginTool, RunTool, RecordTool, StoreAnswers
<1>4. CASE Settle(c) \/ Crash(c) \/ Abort(c) \/ Renew(c)
    BY <1>4 DEF Settle, Crash, Abort, Renew
<1>5. QED BY <1>1, <1>2, <1>3, <1>4

(* The last claim keeps the fence, if any claim does.                      *)
LEMMA FencingStep == ASSUME Types, Fencing, [Next]_vars PROVE Fencing'
<1> USE SubagentAssumption DEF links, counters, history, Fencing, At
<1>0. Job \in Jobs /\ QueueTypeOK /\ \A d \in Claims : d \in Nat
    BY DEF Types, Claims
<1>1. CASE Launch
    <2>1. /\ started'[Job] = started[Job] + 1 /\ token'[Job] = started[Job] + 1
          /\ started[Job] \in Nat
        BY <1>0, <1>1 DEF Launch, ClaimRow, QueueTypeOK
    <2>2. \A d \in Claims : d # started[Job] + 1 => agent'[d] = agent[d]
        BY <1>1, <2>1 DEF Launch, Types
    <2>3. \A d \in Claims : agent'[d].pc # "absent" => d <= started'[Job]
        BY <1>0, <2>1, <2>2
    <2>4. QED BY <2>1, <2>3
<1>2. CASE Queue \/ LeaseExpires \/ UNCHANGED vars
    <2>1. RowKept /\ agent' = agent
        BY <1>2, QueueRow DEF Queue, LeaseExpires, vars, queueVars, RowKept
    <2>2. QED BY <2>1 DEF RowKept
<1>3. ASSUME NEW c \in Claims,
             \/ LoadMessages(c) \/ LoadTools(c) \/ Turn(c) \/ Dispatch(c)
             \/ Settle(c) \/ Crash(c) \/ Abort(c) \/ Renew(c)
      PROVE  Fencing'
    <2>1. /\ started'[Job] = started[Job]
          /\ status'[Job] = "active" => status[Job] = "active" /\ token'[Job] = token[Job]
        BY <1>3, HandlerRow, WorkRow DEF RowKept, queueVars
    <2>2. \A d \in Claims : agent'[d].pc # "absent" => agent[d].pc # "absent"
        BY <1>3, NoHandlerComesBack
    <2>3. QED BY <2>1, <2>2
<1>4. QED BY <1>1, <1>2, <1>3 DEF Next

-----------------------------------------------------------------------------
(* The types, as the runs check them.                                      *)

(* The leases: ids are serial, so every call can have one.                 *)
LEMMA LeaseTypesStep ==
    ASSUME Claims \X Nat \subseteq LeaseIds, Types, [Next]_vars
    PROVE  [LeaseNext]_leaseVars
<1>1. \A c \in Claims : LeaseOf(c) \in LeaseIds
    <2>1. \A c \in Claims : agent[c].conv \in Seq(Messages)
        BY HandlerFields DEF Types
    <2>2. QED BY <2>1, LenProperties DEF LeaseOf
<1>2. CASE Launch \/ Queue \/ LeaseExpires \/ UNCHANGED vars
    BY <1>2 DEF Launch, Queue, LeaseExpires, vars, LeaseNext
<1>3. ASSUME NEW c \in Claims, LoadMessages(c) \/ LoadTools(c) \/ Dispatch(c)
                               \/ Settle(c) \/ Abort(c) \/ Renew(c)
      PROVE  UNCHANGED leaseVars
    BY <1>3 DEF LoadMessages, LoadTools, Settle, Abort, Renew,
                Dispatch, AbortTools, TrustSettled, RefuseUnknown, RefuseUnsafe,
                BeginTool, RunTool, RecordTool, StoreAnswers
<1>4. ASSUME NEW c \in Claims, Turn(c) PROVE [LeaseNext]_leaseVars
    BY <1>1, <1>4 DEF Turn, OutOfTurns, AbortTurn, Call, CallReturns, CallThrows,
                      Charge, StoreReply, LeaseNext
<1>5. ASSUME NEW c \in Claims, Crash(c) PROVE [LeaseNext]_leaseVars
    BY <1>1, <1>5 DEF Crash, LeaseNext
<1>6. QED BY <1>2, <1>3, <1>4, <1>5 DEF Next

(* What the proofs know of the types is more than the runs check.          *)
LEMMA TypesImplyTypeOK == Types /\ LeaseTypeOK => TypeOK
<1> SUFFICES ASSUME Types, LeaseTypeOK PROVE TypeOK
    OBVIOUS
<1>1. Messages \subseteq Message
    BY DEF Messages
<1>2. \A s \in Seq(Messages) : s \in Seq(Message)
    BY <1>1, SeqMonotonic
<1>3. ASSUME NEW c \in Claims
      PROVE  /\ agent[c].pc \in Pcs /\ agent[c].conv \in Seq(Message)
             /\ agent[c].answers \in Seq(Use3 \X Settled) /\ agent[c].use \in Nat \ {0}
    BY <1>2, HandlerFields DEF Types
<1>4. DOMAIN tools \subseteq Use3 /\ \A u \in DOMAIN tools : tools[u] \in Settled \cup {"pending"}
    BY RowTypes DEF Types
<1>5. QED BY <1>2, <1>3, <1>4 DEF Types, TypeOK

(* Rows, messages, handlers and leases keep their types: whatever a        *)
(* handler stores, with or without the lock, is a message or a tool        *)
(* execution that a later claim can load.                                  *)
THEOREM SubagentTypes ==
    ASSUME Claims \X Nat \subseteq LeaseIds
    PROVE  Spec => []TypeOK
<1>1. Init => Types /\ LeaseTypeOK
    BY TypesInit DEF Init, LeaseInit, LeaseTypeOK
<1>2. Types /\ LeaseTypeOK /\ [Next]_vars => (Types /\ LeaseTypeOK)'
    BY TypesStep, LeaseTypesStep, LeaseTypeStep
<1>3. QED BY <1>1, <1>2, TypesImplyTypeOK, PTL DEF Spec

(* The leases of the handlers implement the semaphore.                     *)
THEOREM HandlersRefineSemaphore ==
    ASSUME Claims \X Nat \subseteq LeaseIds
    PROVE  Spec => LeaseIsSemaphore
<1>1. Init => Types /\ LeaseTypeOK /\ LeasePlaces!Init
    BY TypesInit DEF Init, LeaseInit, LeaseTypeOK, LeasePlaces!Init, Kept
<1>2. Types /\ LeaseTypeOK /\ [Next]_vars => (Types /\ LeaseTypeOK)'
    BY TypesStep, LeaseTypesStep, LeaseTypeStep
<1>3. Types /\ LeaseTypeOK /\ [Next]_vars => [LeasePlaces!Next]_Kept
    BY LeaseTypesStep, LeaseStepIsPlaceStep
<1>4. QED BY <1>1, <1>2, <1>3, PTL DEF Spec, LeaseIsSemaphore, LeasePlaces!Spec

-----------------------------------------------------------------------------
(* What is stored stays sound.                                             *)

(* Messages of a conversation and their uses.                              *)
LEMMA MessageFields ==
    ASSUME NEW s \in Seq(Messages)
    PROVE  /\ Len(s) \in Nat /\ DOMAIN s = 1 .. Len(s)
           /\ \A i \in 1 .. Len(s) :
                 /\ s[i] \in Messages /\ s[i].uses \in Seq(Tools)
                 /\ s[i].uses # <<>> => s[i].role = "assistant" /\ s[i].by \in Claims
           /\ s # <<>> => Len(s) \in 1 .. Len(s) /\ OpenUses(s) = s[Len(s)].uses
           /\ OpenUses(s) \in Seq(Tools)
<1>1. Len(s) \in Nat /\ DOMAIN s = 1 .. Len(s) /\ (s # <<>> => Len(s) \in 1 .. Len(s))
    BY LenProperties, EmptySeq
<1>2. \A i \in 1 .. Len(s) : s[i] \in Messages
    BY ElementOfSeq
<1>3. \A i \in 1 .. Len(s) :
          /\ s[i].uses \in Seq(Tools)
          /\ s[i].uses # <<>> => s[i].role = "assistant" /\ s[i].by \in Claims
    BY <1>2 DEF Messages, Message
<1>4. s # <<>> => OpenUses(s) = s[Len(s)].uses
    BY DEF OpenUses
<1>5. s = <<>> => OpenUses(s) \in Seq(Tools)
    BY EmptySeq DEF OpenUses
<1>6. QED BY <1>1, <1>2, <1>3, <1>4, <1>5

(* A message that answers the open uses, or follows a message without any, *)
(* makes the conversation longer and keeps it sound.                       *)
LEMMA ConversationGrows ==
    ASSUME NEW s \in Seq(Messages), NEW t, NEW m \in Messages, Conversation(s, t),
           s = <<>> => m = Prompt,
           s # <<>> /\ m.role = "user" => OpenUses(s) # <<>>,
           s # <<>> /\ OpenUses(s) # <<>> =>
               /\ m.role = "user" /\ Len(m.answers) = Len(OpenUses(s))
               /\ \A k \in 1 .. Len(m.answers) :
                     /\ OpenUse(s, k) \in DOMAIN t
                     /\ m.answers[k] = <<OpenUse(s, k), t[OpenUse(s, k)]>>
    PROVE  Conversation(Append(s, m), t)
<1> DEFINE n == Len(s)
           longer == Append(s, m)
<1>1. /\ n \in Nat /\ Len(longer) = n + 1 /\ longer # <<>>
      /\ \A i \in 1 .. n : longer[i] = s[i]
      /\ longer[n + 1] = m
    BY Appended
<1>2. s # <<>> => n \in 1 .. n /\ OpenUses(s) = s[n].uses
    BY MessageFields
<1>3. s = <<>> => n = 0
    BY EmptySeq
<1> HIDE DEF longer
<1>4. longer[1] = Prompt
    BY <1>1, <1>2, <1>3 DEF Conversation
<1>5. ASSUME NEW i \in 1 .. Len(longer), i > 1, longer[i].role = "user"
      PROVE  longer[i - 1].uses # <<>>
    <2>1. CASE i = n + 1
        BY <1>1, <1>2, <1>3, <1>5, <2>1
    <2>2. CASE i \in 1 .. n
        <3>1. i - 1 \in 1 .. n
            BY <1>1, <1>5, <2>2
        <3>2. QED BY <1>1, <1>5, <2>2, <3>1 DEF Conversation
    <2>3. QED BY <1>1, <2>1, <2>2
<1>6. ASSUME NEW i \in 1 .. Len(longer), longer[i].uses # <<>>, i < Len(longer)
      PROVE  AnsweredIn(i, longer, t)
    <2>1. i \in 1 .. n /\ longer[i] = s[i]
        BY <1>1, <1>6
    <2>2. \A k : UseId(longer, i, k) = UseId(s, i, k)
        BY <2>1 DEF UseId
    <2>3. CASE i = n
        BY <1>1, <1>2, <1>3, <1>6, <2>1, <2>2, <2>3 DEF AnsweredIn, OpenUse
    <2>4. CASE i < n
        <3>1. i + 1 \in 1 .. n /\ longer[i + 1] = s[i + 1]
            BY <1>1, <2>1, <2>4
        <3>2. AnsweredIn(i, s, t)
            BY <1>6, <2>1, <2>4 DEF Conversation
        <3>3. QED BY <2>1, <2>2, <3>1, <3>2 DEF AnsweredIn
    <2>5. QED BY <1>1, <2>1, <2>3, <2>4
<1>7. QED BY <1>4, <1>5, <1>6 DEF Conversation, longer

(* Rows of uses that are not answered yet may change.                      *)
LEMMA RowsChange ==
    ASSUME NEW s \in Seq(Messages), NEW t \in ToolRows, NEW r, NEW rr,
           NEW u \in Use3, NEW x \in Settled \cup {"pending"},
           Conversation(s, t), Executions(s, t, r, rr), s # <<>>, u[2] = Len(s)
    PROVE  /\ Conversation(s, WithStatus(t, u, x))
           /\ Executions(s, WithStatus(t, u, x), r, rr)
<1> DEFINE t2 == WithStatus(t, u, x)
<1>1. /\ DOMAIN t2 = DOMAIN t \cup {u}
      /\ \A v \in DOMAIN t : v # u => t2[v] = t[v]
    BY WithStatusType
<1>2. Len(s) \in Nat /\ Len(s) \in 1 .. Len(s)
    BY MessageFields
<1> HIDE DEF t2
<1>3. ASSUME NEW i \in 1 .. Len(s), s[i].uses # <<>>, i < Len(s) PROVE AnsweredIn(i, s, t2)
    <2>1. AnsweredIn(i, s, t)
        BY <1>3 DEF Conversation
    <2>2. \A k : UseId(s, i, k) # u
        BY <1>2, <1>3 DEF UseId
    <2>3. QED BY <1>1, <2>1, <2>2 DEF AnsweredIn
<1>4. Conversation(s, t2)
    BY <1>3 DEF Conversation
<1>5. Executions(s, t2, r, rr)
    BY <1>1, <1>2 DEF Executions
<1>6. QED BY <1>4, <1>5 DEF t2

(* A longer conversation has the rows of the shorter one.                  *)
LEMMA ExecutionsGrow ==
    ASSUME NEW s \in Seq(Messages), NEW m \in Messages, NEW t, NEW r, NEW rr,
           Executions(s, t, r, rr)
    PROVE  Executions(Append(s, m), t, r, rr)
<1>1. /\ Len(s) \in Nat /\ Len(Append(s, m)) = Len(s) + 1
      /\ \A i \in 1 .. Len(s) : Append(s, m)[i] = s[i]
    BY Appended
<1>2. \A u \in DOMAIN t : u[2] \in 1 .. Len(s)
    BY DEF Executions
<1>3. \A u \in DOMAIN t : u[2] \in 1 .. Len(s) + 1 /\ Append(s, m)[u[2]] = s[u[2]]
    BY <1>1, <1>2
<1>4. QED BY <1>1, <1>3 DEF Executions

(* A use that has its row runs, and again only if it may.                  *)
LEMMA ExecutionsRun ==
    ASSUME NEW s, NEW t, NEW r, NEW rr, NEW u \in DOMAIN t, Executions(s, t, r, rr),
           u \in r => s[u[2]].uses[u[3]] \in Idempotent
    PROVE  Executions(s, t, r \cup {u}, IF u \in r THEN rr \cup {u} ELSE rr)
BY DEF Executions

(* A reply that was charged, and that there was a turn for.                *)
LEMMA RepliedGrows ==
    ASSUME NEW s \in Seq(Messages), NEW m \in Messages, NEW ch, Replied(s, ch),
           m.role = "assistant" => TurnsOf(s) < MaxTurns /\ <<m.by, Len(s)>> \in ch
    PROVE  Replied(Append(s, m), ch)
<1>1. /\ Len(s) \in Nat /\ Len(Append(s, m)) = Len(s) + 1
      /\ \A i \in 1 .. Len(s) : Append(s, m)[i] = s[i]
      /\ Append(s, m)[Len(s) + 1] = m
      /\ m.role = "assistant" => TurnsOf(Append(s, m)) = TurnsOf(s) + 1
      /\ m.role = "user" => TurnsOf(Append(s, m)) = TurnsOf(s)
    BY Appended
<1>2. TurnsOf(s) \in Nat /\ m.role \in {"assistant", "user"}
    BY TurnsType DEF Messages, Message
<1>3. TurnsOf(Append(s, m)) <= MaxTurns
    BY <1>1, <1>2, SubagentAssumption DEF Replied
<1>4. \A i \in 1 .. Len(s) + 1 : i = Len(s) + 1 \/ i \in 1 .. Len(s)
    BY <1>1
<1>5. QED BY <1>1, <1>3, <1>4 DEF Replied

-----------------------------------------------------------------------------
(* What the handler with the lock does, action by action.  No other is     *)
(* heard of in the meantime.                                               *)

(* Its memory afterwards, in what is stored afterwards.                    *)
LiveNext(c) == Live(c, agent'[c], stored', tools', charged', ran')

(* It writes to its own account, and everybody else in vain.               *)
LEMMA WritesWithLock ==
    ASSUME Types, NEW c \in Claims, Touches(c), astray' = 0
    PROVE  Fenced(Job, c) /\ astray' = astray
BY SubagentAssumption DEF Types, Touches

(* The memory of the handler that has the lock.                            *)
LEMMA HolderFields ==
    ASSUME Types, Tables, HolderLive, NEW c \in Claims, Fenced(Job, c), ~At(c, "absent")
    PROVE  /\ agent[c] \in HandlerStates
           /\ stored \in Seq(Messages) /\ tools \in ToolRows
           /\ Live(c, agent[c], stored, tools, charged, ran)
BY DEF Types, HolderLive

(* LoadMessages                                                            *)
LEMMA LoadMessagesKeeps ==
    ASSUME Types, Tables, HolderLive, NEW c \in Claims, Fenced(Job, c), LoadMessages(c)
    PROVE  Tables' /\ LiveNext(c)
<1>1. Live(c, agent[c], stored, tools, charged, ran) /\ agent[c].pc = "load"
    BY HolderFields DEF LoadMessages, At
<1>2. /\ agent'[c].pc = "tools" /\ agent'[c].conv = stored
      /\ agent'[c].use = agent[c].use /\ agent'[c].answers = agent[c].answers
      /\ UNCHANGED convVars
    BY DEF LoadMessages, Types, HandlerStates
<1>3. Tables'
    BY <1>2 DEF Tables, convVars
<1>4. QED BY <1>1, <1>2, <1>3 DEF LiveNext, Live, convVars

(* LoadTools                                                               *)
LEMMA LoadToolsKeeps ==
    ASSUME Types, Tables, HolderLive, NEW c \in Claims, Fenced(Job, c), LoadTools(c)
    PROVE  Tables' /\ LiveNext(c)
<1> DEFINE conv == agent[c].conv
<1>1. /\ Live(c, agent[c], stored, tools, charged, ran) /\ agent[c].pc = "tools"
      /\ stored \in Seq(Messages) /\ tools \in ToolRows
    BY HolderFields DEF LoadTools, At
<1>2. conv = stored /\ agent[c].use = 1 /\ agent[c].answers = <<>>
    BY <1>1 DEF Live
<1>3. /\ agent'[c].prior = tools /\ agent'[c].use = 1 /\ agent'[c].answers = <<>>
      /\ agent'[c].conv = IF conv = <<>> THEN <<Prompt>> ELSE conv
      /\ agent'[c].pc = IF Resumes(conv) THEN "tool" ELSE "turn"
      /\ tools' = tools /\ charged' = charged /\ ran' = ran /\ reran' = reran
    BY <1>2 DEF LoadTools, Types, HandlerStates
<1>4. CASE stored = <<>>
    <2>1. /\ ~Resumes(conv) /\ stored' = Append(stored, Prompt)
        BY <1>1, <1>2, <1>4, MessageShapes, StoredType DEF LoadTools, Resumes, OpenUses
    <2>2. <<Prompt>> = Append(stored, Prompt)
        BY <1>4
    <2>3. /\ stored' # <<>> /\ OpenUses(stored') = <<>> /\ Prompt.role = "user"
          /\ Prompt \in Messages
        BY <1>1, <2>1, Appended, MessageShapes DEF Prompt, Answers
    <2>4. Conversation(stored', tools)
        BY <1>1, <1>4, <2>1, <2>3, ConversationGrows DEF Tables
    <2>5. Executions(stored', tools, ran, reran)
        BY <1>1, <2>1, <2>3, ExecutionsGrow DEF Tables
    <2>6. Replied(stored', charged)
        BY <1>1, <2>1, <2>3, RepliedGrows DEF Tables
    <2>7. QED BY <1>2, <1>3, <1>4, <2>1, <2>2, <2>3, <2>4, <2>5, <2>6 DEF Tables, LiveNext, Live
<1>5. CASE stored # <<>>
    <2>1. stored' = stored /\ agent'[c].conv = stored
        BY <1>2, <1>3, <1>5 DEF LoadTools
    <2>2. Tables'
        BY <1>3, <2>1 DEF Tables
    <2>3. CASE Resumes(conv)
        <3>1. agent'[c].pc = "tool" /\ OpenUses(stored) # <<>>
            BY <1>2, <1>3, <2>3 DEF Resumes
        <3>2. AnsweredSoFar(agent'[c], stored, tools)
            BY <1>1, <1>3, EmptySeq, MessageFields, LenProperties DEF AnsweredSoFar
        <3>3. PriorCurrent(agent'[c], stored, tools)
            BY <1>3 DEF PriorCurrent
        <3>4. QED BY <1>3, <2>1, <2>2, <3>1, <3>2, <3>3 DEF LiveNext, Live
    <2>4. CASE ~Resumes(conv)
        BY <1>2, <1>3, <1>5, <2>1, <2>2, <2>4 DEF LiveNext, Live, Resumes
    <2>5. QED BY <2>3, <2>4
<1>6. QED BY <1>4, <1>5

(* The steps of a turn up to the charge                                    *)
LEMMA TurnKeeps ==
    ASSUME Types, Tables, HolderLive, NEW c \in Claims, Fenced(Job, c),
           OutOfTurns(c) \/ AbortTurn(c) \/ Call(c) \/ CallReturns(c) \/ CallThrows(c) \/ Charge(c)
    PROVE  Tables' /\ LiveNext(c)
<1>1. /\ Live(c, agent[c], stored, tools, charged, ran)
      /\ agent[c].pc \in {"turn", "calling", "charge"}
      /\ stored \in Seq(Messages)
    BY HolderFields DEF OutOfTurns, AbortTurn, Call, CallReturns, CallThrows, Charge, At
<1>2. /\ agent[c].conv = stored /\ agent[c].use = 1 /\ agent[c].answers = <<>>
      /\ stored # <<>> /\ OpenUses(stored) = <<>>
      /\ DOMAIN agent[c].prior \subseteq DOMAIN tools
      /\ agent[c].pc \in {"calling", "charge"} => TurnsOf(stored) < MaxTurns
    BY <1>1 DEF Live
<1>3. /\ agent'[c].conv = stored /\ agent'[c].use = 1 /\ agent'[c].answers = <<>>
      /\ agent'[c].prior = agent[c].prior
    <2>1. agent[c] \in HandlerStates /\ agent \in [Claims -> HandlerStates]
        BY DEF Types
    <2>2. CASE CallReturns(c)
        <3>1. PICK uses \in Replies :
                  agent' = [agent EXCEPT ![c] = [agent[c] EXCEPT !.reply = uses, !.pc = "charge"]]
            BY <2>2 DEF CallReturns
        <3>2. agent'[c] = [agent[c] EXCEPT !.reply = uses, !.pc = "charge"]
            BY <2>1, <3>1
        <3>3. QED BY <1>2, <2>1, <3>2 DEF HandlerStates
    <2>3. ASSUME NEW pc, Goto(c, pc)
          PROVE  /\ agent'[c].conv = stored /\ agent'[c].use = 1 /\ agent'[c].answers = <<>>
                 /\ agent'[c].prior = agent[c].prior
        BY <1>2, <2>1, <2>3 DEF Goto, HandlerStates
    <2>4. QED BY <2>2, <2>3 DEF OutOfTurns, AbortTurn, Call, CallThrows, Charge
<1>4. stored' = stored /\ tools' = tools /\ ran' = ran /\ reran' = reran
    BY DEF OutOfTurns, AbortTurn, Call, CallReturns, CallThrows, Charge, convVars
<1>5. charged \subseteq charged' /\ Tables'
    <2>1. charged \subseteq charged'
        BY DEF OutOfTurns, AbortTurn, Call, CallReturns, CallThrows, Charge, convVars
    <2>2. QED BY <1>4, <2>1 DEF Tables, Replied
<1>6. CASE OutOfTurns(c)
    <2>1. agent'[c].pc = "returned" /\ ~(TurnsOf(stored) < MaxTurns)
        BY <1>2, <1>6 DEF OutOfTurns, Goto, MayTurn, Types, HandlerStates
    <2>2. Finished(stored)
        BY <1>1, <1>2, <2>1, TurnsType, SubagentAssumption DEF Finished
    <2>3. QED BY <1>2, <1>3, <1>4, <1>5, <2>1, <2>2 DEF LiveNext, Live
<1>7. CASE AbortTurn(c) \/ CallThrows(c)
    <2>1. agent'[c].pc \in {"threw", "fatal"}
        BY <1>7 DEF AbortTurn, CallThrows, Goto, Types, HandlerStates
    <2>2. QED BY <1>2, <1>3, <1>4, <1>5, <2>1 DEF LiveNext, Live
<1>8. CASE Call(c)
    <2>1. agent'[c].pc \in {"calling", "threw"} /\ TurnsOf(stored) < MaxTurns
        BY <1>2, <1>8 DEF Call, Goto, MayTurn, Types, HandlerStates
    <2>2. QED BY <1>2, <1>3, <1>4, <1>5, <2>1 DEF LiveNext, Live
<1>9. CASE CallReturns(c)
    <2>1. agent[c].pc = "calling" /\ agent'[c].pc = "charge"
        BY <1>9 DEF CallReturns, At, Types, HandlerStates
    <2>2. QED BY <1>2, <1>3, <1>4, <1>5, <2>1 DEF LiveNext, Live
<1>10. CASE Charge(c)
    <2>1. agent[c].pc = "charge" /\ agent'[c].pc = "store"
        BY <1>10 DEF Charge, At, Goto, Types, HandlerStates
    <2>2. <<c, Len(stored)>> \in charged'
        BY <1>2, <1>10 DEF Charge, LeaseOf
    <2>3. QED BY <1>2, <1>3, <1>4, <1>5, <2>1, <2>2 DEF LiveNext, Live
<1>11. QED BY <1>6, <1>7, <1>8, <1>9, <1>10

(* StoreReply: a new message, whose uses nobody has rows for.              *)
LEMMA StoreReplyKeeps ==
    ASSUME Types, Tables, HolderLive, NEW c \in Claims, Fenced(Job, c), StoreReply(c)
    PROVE  Tables' /\ LiveNext(c)
<1> DEFINE uses == agent[c].reply
           m == Reply(c, uses)
           n == Len(stored)
<1>1. /\ Live(c, agent[c], stored, tools, charged, ran) /\ agent[c].pc = "store"
      /\ agent[c] \in HandlerStates /\ stored \in Seq(Messages) /\ tools \in ToolRows
    BY HolderFields DEF StoreReply, At
<1>2. /\ agent[c].conv = stored /\ agent[c].use = 1 /\ agent[c].answers = <<>>
      /\ stored # <<>> /\ OpenUses(stored) = <<>>
      /\ DOMAIN agent[c].prior \subseteq DOMAIN tools
      /\ TurnsOf(stored) < MaxTurns /\ <<c, n>> \in charged
    BY <1>1 DEF Live
<1>3. m \in Messages /\ m.role = "assistant" /\ m.by = c /\ m.uses = uses /\ uses \in Seq(Tools)
    <2>1. uses \in Seq(Tools)
        BY <1>1, HandlerFields
    <2>2. QED BY <2>1, MessageShapes DEF Reply
<1> HIDE DEF m
<1>4. stored' = Append(stored, m)
    BY <1>1, <1>2, <1>3, StoredType DEF StoreReply, m
<1>5. /\ agent'[c].conv = stored' /\ agent'[c].use = 1 /\ agent'[c].answers = <<>>
      /\ agent'[c].prior = agent[c].prior
      /\ agent'[c].pc = IF uses = <<>> THEN "returned" ELSE "tool"
      /\ tools' = tools /\ charged' = charged /\ ran' = ran /\ reran' = reran
    BY <1>2, <1>4 DEF StoreReply, Types, HandlerStates, m
<1>6. /\ stored' # <<>> /\ Len(stored') = n + 1 /\ n \in Nat
      /\ stored'[n + 1] = m /\ OpenUses(stored') = uses
    BY <1>1, <1>3, <1>4, Appended
<1>7. Tables'
    <2>1. Conversation(stored', tools)
        BY <1>1, <1>2, <1>3, <1>4, ConversationGrows DEF Tables
    <2>2. Executions(stored', tools, ran, reran)
        BY <1>1, <1>3, <1>4, ExecutionsGrow DEF Tables
    <2>3. Replied(stored', charged)
        BY <1>1, <1>2, <1>3, <1>4, RepliedGrows DEF Tables
    <2>4. QED BY <1>5, <2>1, <2>2, <2>3 DEF Tables
<1>8. CASE uses = <<>>
    <2>1. Finished(stored')
        BY <1>3, <1>6, <1>8 DEF Finished
    <2>2. QED BY <1>2, <1>5, <1>7, <1>8, <2>1 DEF LiveNext, Live
<1>9. CASE uses # <<>>
    <2>1. \A k : OpenUse(stored', k) \notin DOMAIN tools
        <3>1. \A u \in DOMAIN tools : u[2] \in 1 .. n
            BY DEF Tables, Executions
        <3>2. \A k : OpenUse(stored', k)[2] = n + 1
            BY <1>6 DEF OpenUse, UseId
        <3>3. QED BY <1>6, <3>1, <3>2
    <2>2. PriorCurrent(agent'[c], stored', tools)
        BY <1>2, <1>5, <2>1 DEF PriorCurrent
    <2>3. AnsweredSoFar(agent'[c], stored', tools)
        BY <1>3, <1>5, <1>6, EmptySeq, LenProperties DEF AnsweredSoFar
    <2>4. QED BY <1>2, <1>5, <1>6, <1>7, <1>9, <2>2, <2>3 DEF LiveNext, Live
<1>10. QED BY <1>8, <1>9

(* The use a handler with the lock is about to settle.                     *)
LEMMA HolderUse ==
    ASSUME Types, Tables, HolderLive, NEW c \in Claims, Fenced(Job, c),
           agent[c].pc \in {"tool", "running", "ran"}
    PROVE  LET k == agent[c].use
           IN  /\ Live(c, agent[c], stored, tools, charged, ran)
               /\ stored \in Seq(Messages) /\ tools \in ToolRows
               /\ agent[c].conv = stored /\ stored # <<>>
               /\ DOMAIN agent[c].prior \subseteq DOMAIN tools
               /\ Uses(c) = OpenUses(stored) /\ Len(OpenUses(stored)) \in Nat
               /\ OpenUses(stored) # <<>>
               /\ k \in Nat \ {0} /\ Use(c) = OpenUse(stored, k) /\ Tool(c) = OpenUses(stored)[k]
               /\ AnsweredSoFar(agent[c], stored, tools) /\ PriorCurrent(agent[c], stored, tools)
               /\ agent[c].answers \in Seq(Use3 \X Settled)
               /\ k <= Len(OpenUses(stored)) => Use(c) \in Use3
<1>1. /\ Live(c, agent[c], stored, tools, charged, ran)
      /\ agent[c] \in HandlerStates /\ stored \in Seq(Messages) /\ tools \in ToolRows
    BY HolderFields DEF At
<1>2. /\ agent[c].conv = stored /\ OpenUses(stored) # <<>>
      /\ DOMAIN agent[c].prior \subseteq DOMAIN tools
      /\ AnsweredSoFar(agent[c], stored, tools) /\ PriorCurrent(agent[c], stored, tools)
    BY <1>1 DEF Live
<1>3. stored # <<>>
    BY <1>2 DEF OpenUses
<1>4. /\ Uses(c) = OpenUses(stored) /\ Len(OpenUses(stored)) \in Nat
      /\ agent[c].use \in Nat \ {0} /\ agent[c].answers \in Seq(Use3 \X Settled)
    <2>1. Uses(c) = OpenUses(stored)
        BY <1>2, <1>3 DEF Uses, OpenUses
    <2>2. Len(OpenUses(stored)) \in Nat
        BY <1>1, MessageFields, LenProperties
    <2>3. QED BY <1>1, <2>1, <2>2, HandlerFields
<1>5. Use(c) = OpenUse(stored, agent[c].use) /\ Tool(c) = OpenUses(stored)[agent[c].use]
    BY <1>2, <1>4 DEF Use, OpenUse, Tool
<1>6. agent[c].use <= Len(OpenUses(stored)) => Use(c) \in Use3
    BY <1>4, UseType
<1>7. QED BY <1>1, <1>2, <1>3, <1>4, <1>5, <1>6

(* A use is answered as it is recorded, and the next one is looked at.     *)
LEMMA NextUseKeeps ==
    ASSUME Types, Tables, HolderLive, NEW c \in Claims, Fenced(Job, c),
           agent[c].pc \in {"tool", "running", "ran"}, agent[c].use <= Len(OpenUses(stored)),
           NEW x \in Settled, NextUse(c, x), stored' = stored, ran' = ran,
           DOMAIN tools' = DOMAIN tools \cup {Use(c)}, tools'[Use(c)] = x,
           \A v \in DOMAIN tools : v # Use(c) => tools'[v] = tools[v]
    PROVE  LiveNext(c)
<1> DEFINE h == agent[c]
           h2 == agent'[c]
           k == agent[c].use
           s == stored
<1>1. /\ h.conv = s /\ s # <<>> /\ DOMAIN h.prior \subseteq DOMAIN tools
      /\ Len(OpenUses(s)) \in Nat /\ OpenUses(s) # <<>>
      /\ k \in Nat \ {0} /\ Use(c) = OpenUse(s, k)
      /\ AnsweredSoFar(h, s, tools) /\ PriorCurrent(h, s, tools)
      /\ h.answers \in Seq(Use3 \X Settled) /\ Use(c) \in Use3
    BY HolderUse
<1>2. /\ h2.pc = "tool" /\ h2.conv = s /\ h2.use = k + 1 /\ h2.prior = h.prior
      /\ h2.answers = Append(h.answers, <<Use(c), x>>)
    BY <1>1 DEF NextUse, Types, HandlerStates
<1>3. \A i : i # k => OpenUse(s, i) # Use(c)
    BY <1>1 DEF OpenUse, UseId
<1>4. AnsweredSoFar(h2, s, tools')
    <2>1. Len(h.answers) = k - 1 /\ <<Use(c), x>> \in Use3 \X Settled
        BY <1>1 DEF AnsweredSoFar
    <2>2. /\ Len(h2.answers) = k /\ h2.answers[k] = <<Use(c), x>>
          /\ \A i \in 1 .. k - 1 : h2.answers[i] = h.answers[i]
        BY <1>1, <1>2, <2>1
    <2>3. \A i \in 1 .. k - 1 : i # k /\ OpenUse(s, i) \in DOMAIN tools
                                /\ h.answers[i] = <<OpenUse(s, i), tools[OpenUse(s, i)]>>
        BY <1>1 DEF AnsweredSoFar
    <2>4. \A i \in 1 .. k - 1 : OpenUse(s, i) \in DOMAIN tools'
                                /\ h2.answers[i] = <<OpenUse(s, i), tools'[OpenUse(s, i)]>>
        BY <1>3, <2>2, <2>3
    <2>5. OpenUse(s, k) \in DOMAIN tools' /\ h2.answers[k] = <<OpenUse(s, k), tools'[OpenUse(s, k)]>>
        BY <1>1, <2>2
    <2>6. \A i \in 1 .. h2.use - 1 : i = k \/ i \in 1 .. k - 1
        BY <1>1, <1>2
    <2>7. Len(h2.answers) = h2.use - 1 /\ h2.use <= Len(OpenUses(s)) + 1
        BY <1>1, <1>2, <2>2
    <2>8. QED BY <2>4, <2>5, <2>6, <2>7 DEF AnsweredSoFar
<1>5. PriorCurrent(h2, s, tools')
    <2>1. ASSUME NEW i \in h2.use .. Len(OpenUses(s))
          PROVE  /\ OpenUse(s, i) \in DOMAIN h2.prior <=> OpenUse(s, i) \in DOMAIN tools'
                 /\ OpenUse(s, i) \in DOMAIN tools' => h2.prior[OpenUse(s, i)] = tools'[OpenUse(s, i)]
        <3>1. i \in k .. Len(OpenUses(s)) /\ i # k
            BY <1>1, <1>2
        <3>2. /\ OpenUse(s, i) \in DOMAIN h.prior <=> OpenUse(s, i) \in DOMAIN tools
              /\ OpenUse(s, i) \in DOMAIN tools => h.prior[OpenUse(s, i)] = tools[OpenUse(s, i)]
            BY <1>1, <3>1 DEF PriorCurrent
        <3>3. QED BY <1>2, <1>3, <3>1, <3>2
    <2>2. QED BY <2>1 DEF PriorCurrent
<1>6. QED BY <1>1, <1>2, <1>4, <1>5 DEF LiveNext, Live

(* The use is settled: by an earlier claim, for want of such a tool, or    *)
(* because it ran.                                                         *)
LEMMA SettledKeeps ==
    ASSUME Types, Tables, HolderLive, NEW c \in Claims, Fenced(Job, c),
           TrustSettled(c) \/ RefuseUnknown(c) \/ RecordTool(c)
    PROVE  Tables' /\ LiveNext(c)
<1>1. /\ agent[c].pc \in {"tool", "running", "ran"}
      /\ stored' = stored /\ charged' = charged /\ ran' = ran /\ reran' = reran
    BY DEF TrustSettled, RefuseUnknown, RecordTool, Dispatching, At, convVars
<1>2. agent[c].use <= Len(OpenUses(stored))
    <2>1. CASE RecordTool(c)
        BY <1>1, <2>1, HolderUse DEF RecordTool, At, Types, Dispatchable
    <2>2. CASE TrustSettled(c) \/ RefuseUnknown(c)
        BY <1>1, <2>2, HolderUse DEF TrustSettled, RefuseUnknown, Dispatching
    <2>3. QED BY <2>1, <2>2
<1>3. /\ stored \in Seq(Messages) /\ tools \in ToolRows /\ stored # <<>>
      /\ Use(c) \in Use3 /\ Use(c) = OpenUse(stored, agent[c].use)
      /\ PriorCurrent(agent[c], stored, tools)
      /\ agent[c].use \in Nat \ {0} /\ Len(OpenUses(stored)) \in Nat
    BY <1>1, <1>2, HolderUse
<1>4. CASE TrustSettled(c)
    <2>1. /\ agent[c].pc = "tool" /\ Known(c) \in Settled /\ NextUse(c, Known(c))
          /\ tools' = tools
        BY <1>4 DEF TrustSettled, Dispatching, At, Settled, convVars
    <2>2. /\ Use(c) \in DOMAIN agent[c].prior /\ Known(c) = agent[c].prior[Use(c)]
        BY <2>1 DEF Known, Settled
    <2>3. Use(c) \in DOMAIN tools /\ tools[Use(c)] = Known(c)
        BY <1>2, <1>3, <2>1, <2>2 DEF PriorCurrent
    <2>4. LiveNext(c)
        BY <1>1, <1>2, <2>1, <2>3, NextUseKeeps
    <2>5. QED BY <1>1, <2>1, <2>4 DEF Tables
<1>5. ASSUME NEW x \in Settled, tools' = WithStatus(tools, Use(c), x), NextUse(c, x)
      PROVE  Tables' /\ LiveNext(c)
    <2>1. /\ DOMAIN tools' = DOMAIN tools \cup {Use(c)} /\ tools'[Use(c)] = x
          /\ \A v \in DOMAIN tools : v # Use(c) => tools'[v] = tools[v]
        BY <1>3, <1>5 DEF WithStatus
    <2>2. LiveNext(c)
        BY <1>1, <1>2, <1>5, <2>1, NextUseKeeps
    <2>3. Use(c)[2] = Len(stored)
        BY <1>3 DEF OpenUse, UseId
    <2>4. Conversation(stored, tools') /\ Executions(stored, tools', ran, reran)
        BY <1>3, <1>5, <2>3, RowsChange DEF Tables
    <2>5. QED BY <1>1, <2>2, <2>4 DEF Tables
<1>6. CASE RefuseUnknown(c)
    BY <1>5, <1>6 DEF RefuseUnknown, Settled
<1>7. CASE RecordTool(c)
    <2>1. agent[c].outcome \in Settled
        BY <1>7 DEF RecordTool, At, Types, Dispatchable
    <2>2. QED BY <1>5, <1>7, <2>1 DEF RecordTool
<1>8. QED BY <1>4, <1>6, <1>7

(* BeginTool: the pending row, before the execution.                       *)
LEMMA BeginToolKeeps ==
    ASSUME Types, Tables, HolderLive, NEW c \in Claims, Fenced(Job, c), BeginTool(c)
    PROVE  Tables' /\ LiveNext(c)
<1> DEFINE k == agent[c].use
<1>1. /\ agent[c].pc = "tool" /\ Uses(c) = OpenUses(stored) /\ k <= Len(OpenUses(stored))
      /\ stored' = stored /\ charged' = charged /\ ran' = ran /\ reran' = reran
    BY HolderUse DEF BeginTool, Dispatching, At
<1>2. /\ stored \in Seq(Messages) /\ tools \in ToolRows /\ stored # <<>>
      /\ agent[c].conv = stored /\ DOMAIN agent[c].prior \subseteq DOMAIN tools
      /\ Use(c) \in Use3 /\ Use(c) = OpenUse(stored, k) /\ Tool(c) = OpenUses(stored)[k]
      /\ AnsweredSoFar(agent[c], stored, tools) /\ PriorCurrent(agent[c], stored, tools)
      /\ k \in Nat \ {0} /\ Len(OpenUses(stored)) \in Nat /\ OpenUses(stored) # <<>>
    BY <1>1, HolderUse
<1>3. /\ agent'[c].pc = "running" /\ agent'[c].conv = stored /\ agent'[c].use = k
      /\ agent'[c].answers = agent[c].answers /\ agent'[c].prior = agent[c].prior
    BY <1>2 DEF BeginTool, Goto, Types, HandlerStates
<1>4. /\ DOMAIN tools' = DOMAIN tools \cup {Use(c)}
      /\ \A v \in DOMAIN tools : tools'[v] = tools[v]
    <2>1. CASE Use(c) \in DOMAIN tools
        BY <2>1 DEF BeginTool
    <2>2. CASE Use(c) \notin DOMAIN tools
        BY <1>2, <2>2 DEF BeginTool, WithStatus
    <2>3. QED BY <2>1, <2>2
<1>5. Conversation(stored, tools') /\ Executions(stored, tools', ran, reran)
    <2>1. Use(c)[2] = Len(stored)
        BY <1>2 DEF OpenUse, UseId
    <2>2. CASE Use(c) \in DOMAIN tools
        BY <2>2 DEF BeginTool, Tables
    <2>3. CASE Use(c) \notin DOMAIN tools
        BY <1>2, <2>1, <2>3, RowsChange DEF BeginTool, Tables
    <2>4. QED BY <2>2, <2>3
<1>6. AnsweredSoFar(agent'[c], stored, tools')
    BY <1>2, <1>3, <1>4 DEF AnsweredSoFar
<1>7. PriorCurrent(agent'[c], stored, tools')
    <2>1. \A i : i # k => OpenUse(stored, i) # Use(c)
        BY <1>2 DEF OpenUse, UseId
    <2>2. QED BY <1>1, <1>2, <1>3, <1>4, <2>1 DEF PriorCurrent
<1>8. BegunSafely(agent'[c], stored, tools', ran)
    <2>1. ASSUME Use(c) \in ran PROVE Tool(c) \in Idempotent
        <3>1. Use(c) \in DOMAIN tools
            BY <2>1 DEF Tables, Executions
        <3>2. Use(c) \in DOMAIN agent[c].prior /\ agent[c].prior[Use(c)] = tools[Use(c)]
            BY <1>1, <1>2, <3>1 DEF PriorCurrent
        <3>3. Known(c) = tools[Use(c)] /\ Known(c) \notin {"complete", "failed"}
            BY <3>2 DEF Known, BeginTool
        <3>4. Known(c) = "pending"
            BY <1>2, <3>1, <3>3, RowTypes DEF Settled
        <3>5. QED BY <3>4 DEF BeginTool, Unsafe
    <2>2. QED BY <1>2, <1>3, <1>4, <2>1 DEF BegunSafely
<1>9. Tables'
    BY <1>1, <1>5 DEF Tables
<1>10. DOMAIN agent'[c].prior \subseteq DOMAIN tools'
    BY <1>2, <1>3, <1>4
<1>11. QED BY <1>1, <1>2, <1>3, <1>6, <1>7, <1>8, <1>9, <1>10 DEF LiveNext, Live

(* RunTool: again only if the tool may run again.                          *)
LEMMA RunToolKeeps ==
    ASSUME Types, Tables, HolderLive, NEW c \in Claims, Fenced(Job, c), RunTool(c)
    PROVE  Tables' /\ LiveNext(c)
<1> DEFINE k == agent[c].use
<1>1. /\ agent[c].pc = "running" /\ stored' = stored /\ charged' = charged /\ tools' = tools
      /\ ran' = ran \cup {Use(c)}
      /\ reran' = IF Use(c) \in ran THEN reran \cup {Use(c)} ELSE reran
    BY DEF RunTool, At
<1>2. /\ Live(c, agent[c], stored, tools, charged, ran) /\ OpenUses(stored) # <<>>
      /\ agent[c].conv = stored /\ DOMAIN agent[c].prior \subseteq DOMAIN tools
      /\ Use(c) = OpenUse(stored, k) /\ stored # <<>>
      /\ AnsweredSoFar(agent[c], stored, tools) /\ PriorCurrent(agent[c], stored, tools)
    BY <1>1, HolderUse
<1>3. BegunSafely(agent[c], stored, tools, ran)
    BY <1>1, <1>2 DEF Live
<1>4. /\ agent'[c].pc = "ran" /\ agent'[c].conv = stored /\ agent'[c].use = k
      /\ agent'[c].answers = agent[c].answers /\ agent'[c].prior = agent[c].prior
    <2>1. PICK o \in Settled :
              agent' = [agent EXCEPT ![c] = [agent[c] EXCEPT !.outcome = o, !.pc = "ran"]]
        BY DEF RunTool, Settled
    <2>2. agent'[c] = [agent[c] EXCEPT !.outcome = o, !.pc = "ran"] /\ agent[c] \in HandlerStates
        BY <2>1 DEF Types
    <2>3. QED BY <1>2, <2>2 DEF HandlerStates
<1>5. Executions(stored, tools, ran', reran')
    <2>1. Use(c) \in DOMAIN tools /\ (Use(c) \in ran => OpenUses(stored)[k] \in Idempotent)
        BY <1>1, <1>2, <1>3 DEF BegunSafely
    <2>2. Use(c)[2] = Len(stored) /\ Use(c)[3] = k
        BY <1>2 DEF OpenUse, UseId
    <2>3. stored[Use(c)[2]].uses[Use(c)[3]] = OpenUses(stored)[k]
        BY <1>2, <2>2 DEF OpenUses
    <2>4. QED BY <1>1, <2>1, <2>3, ExecutionsRun DEF Tables
<1>6. Tables'
    BY <1>1, <1>5 DEF Tables
<1>7. AnsweredSoFar(agent'[c], stored, tools) /\ PriorCurrent(agent'[c], stored, tools)
    BY <1>1, <1>2, <1>4 DEF AnsweredSoFar, PriorCurrent
<1>8. BegunSafely(agent'[c], stored, tools, ran')
    BY <1>3, <1>4 DEF BegunSafely
<1>9. QED BY <1>1, <1>2, <1>4, <1>6, <1>7, <1>8 DEF LiveNext, Live

(* StoreAnswers: every open use has its answer.                            *)
LEMMA StoreAnswersKeeps ==
    ASSUME Types, Tables, HolderLive, NEW c \in Claims, Fenced(Job, c), StoreAnswers(c)
    PROVE  Tables' /\ LiveNext(c)
<1> DEFINE m == Answers(agent[c].answers)
           n == Len(stored)
<1>1. /\ agent[c].pc = "tool"
      /\ tools' = tools /\ charged' = charged /\ ran' = ran /\ reran' = reran
    BY DEF StoreAnswers, At
<1>2. /\ stored \in Seq(Messages) /\ stored # <<>> /\ agent[c].conv = stored
      /\ DOMAIN agent[c].prior \subseteq DOMAIN tools
      /\ Uses(c) = OpenUses(stored) /\ OpenUses(stored) # <<>> /\ Len(OpenUses(stored)) \in Nat
      /\ agent[c].use \in Nat \ {0} /\ agent[c].answers \in Seq(Use3 \X Settled)
      /\ AnsweredSoFar(agent[c], stored, tools)
    BY <1>1, HolderUse
<1>3. m \in Messages /\ m.role = "user" /\ m.answers = agent[c].answers /\ m.uses = <<>>
    BY <1>2, MessageShapes DEF Answers
<1>4. Len(m.answers) = Len(OpenUses(stored)) /\ agent[c].use = Len(OpenUses(stored)) + 1
    <2>1. agent[c].use > Len(OpenUses(stored))
        BY <1>2 DEF StoreAnswers
    <2>2. QED BY <1>2, <1>3, <2>1 DEF AnsweredSoFar
<1> HIDE DEF m
<1>5. stored' = Append(stored, m)
    BY <1>2, <1>3, StoredType DEF StoreAnswers, m
<1>6. /\ agent'[c].conv = stored' /\ agent'[c].use = 1 /\ agent'[c].answers = <<>>
      /\ agent'[c].prior = agent[c].prior /\ agent'[c].pc = "turn"
    BY <1>2, <1>5 DEF StoreAnswers, Types, HandlerStates, m
<1>7. stored' # <<>> /\ OpenUses(stored') = <<>>
    BY <1>2, <1>3, <1>5, Appended
<1>8. Conversation(stored', tools)
    <2>1. \A k \in 1 .. Len(m.answers) :
              OpenUse(stored, k) \in DOMAIN tools
              /\ m.answers[k] = <<OpenUse(stored, k), tools[OpenUse(stored, k)]>>
        BY <1>2, <1>3, <1>4 DEF AnsweredSoFar
    <2>2. QED BY <1>2, <1>3, <1>4, <1>5, <2>1, ConversationGrows DEF Tables
<1>9. Executions(stored', tools, ran, reran)
    BY <1>2, <1>3, <1>5, ExecutionsGrow DEF Tables
<1>10. Replied(stored', charged)
    BY <1>2, <1>3, <1>5, RepliedGrows DEF Tables
<1>11. QED BY <1>1, <1>2, <1>6, <1>7, <1>8, <1>9, <1>10 DEF Tables, LiveNext, Live

(* The tools are not dispatched any further; the abort signal comes.       *)
LEMMA StopKeeps ==
    ASSUME Types, Tables, HolderLive, NEW c \in Claims, Fenced(Job, c),
           AbortTools(c) \/ RefuseUnsafe(c) \/ (Abort(c) /\ astray' = astray)
    PROVE  Tables' /\ LiveNext(c)
<1>1. UNCHANGED convVars /\ ~At(c, "absent")
    BY DEF AbortTools, RefuseUnsafe, Abort, Dispatching, At, convVars
<1>2. Live(c, agent[c], stored, tools, charged, ran) /\ agent[c] \in HandlerStates
    BY <1>1, HolderFields
<1>3. Tables'
    BY <1>1 DEF Tables, convVars
<1>4. CASE AbortTools(c) \/ RefuseUnsafe(c)
    <2>1. /\ agent[c].pc = "tool" /\ agent'[c].pc = "threw" /\ agent'[c].conv = agent[c].conv
          /\ agent'[c].prior = agent[c].prior
        BY <1>2, <1>4 DEF AbortTools, RefuseUnsafe, Dispatching, At, Goto, Types, HandlerStates
    <2>2. QED BY <1>1, <1>2, <1>3, <2>1 DEF LiveNext, Live, convVars
<1>5. CASE Abort(c)
    <2>1. /\ agent'[c].pc = agent[c].pc /\ agent'[c].conv = agent[c].conv
          /\ agent'[c].prior = agent[c].prior /\ agent'[c].use = agent[c].use
          /\ agent'[c].answers = agent[c].answers
        BY <1>2, <1>5 DEF Abort, Types, HandlerStates
    <2>2. LiveNext(c)
        BY <1>1, <1>2, <2>1
           DEF LiveNext, Live, convVars, AnsweredSoFar, PriorCurrent, BegunSafely
    <2>3. QED BY <1>3, <2>2
<1>6. QED BY <1>4, <1>5

(* Every step of the conversation by the handler with the lock.            *)
LEMMA WorkKeeps ==
    ASSUME Types, Tables, HolderLive, NEW c \in Claims, Fenced(Job, c),
           LoadMessages(c) \/ LoadTools(c) \/ Turn(c) \/ Dispatch(c)
    PROVE  Tables' /\ LiveNext(c)
BY LoadMessagesKeeps, LoadToolsKeeps, TurnKeeps, StoreReplyKeeps, SettledKeeps,
   BeginToolKeeps, RunToolKeeps, StoreAnswersKeeps, StopKeeps DEF Turn, Dispatch

(* A handler without the lock stores nothing, unless it goes astray.       *)
LEMMA StaleWorkIsIdle ==
    ASSUME Types, NEW c \in Claims, ~Fenced(Job, c), astray' = 0,
           LoadMessages(c) \/ LoadTools(c) \/ Turn(c) \/ Dispatch(c)
    PROVE  UNCHANGED convVars
<1>1. ~Touches(c)
    BY WritesWithLock
<1>2. CASE LoadMessages(c) \/ LoadTools(c)
    BY <1>1, <1>2 DEF LoadMessages, LoadTools, convVars
<1>3. CASE Turn(c)
    BY <1>1, <1>3 DEF Turn, OutOfTurns, AbortTurn, Call, CallReturns, CallThrows, Charge,
                      StoreReply, convVars
<1>4. CASE Dispatch(c)
    BY <1>1, <1>4 DEF Dispatch, AbortTools, TrustSettled, RefuseUnknown, RefuseUnsafe,
                      BeginTool, RunTool, RecordTool, StoreAnswers, convVars
<1>5. QED BY <1>2, <1>3, <1>4

(* Writing astray is never forgotten.                                      *)
LEMMA AstrayGrows == ASSUME Types, [Next]_vars, astray' = 0 PROVE astray = 0
<1>1. astray \in Nat
    BY SubagentAssumption DEF Types
<1>2. \A c \in Claims : Touches(c) => astray' \in {astray, astray + 1}
    BY DEF Touches
<1>3. CASE Launch \/ Queue \/ LeaseExpires \/ UNCHANGED vars
    BY <1>3 DEF Launch, Queue, LeaseExpires, vars, convVars
<1>4. ASSUME NEW c \in Claims, LoadMessages(c) \/ LoadTools(c) \/ Turn(c)
      PROVE  astray' \in {astray, astray + 1}
    BY <1>2, <1>4 DEF LoadMessages, LoadTools, Turn, OutOfTurns, AbortTurn, Call, CallReturns,
                      CallThrows, Charge, StoreReply, convVars
<1>5. ASSUME NEW c \in Claims, Dispatch(c) PROVE astray' \in {astray, astray + 1}
    BY <1>2, <1>5 DEF Dispatch, AbortTools, TrustSettled, RefuseUnknown, RefuseUnsafe,
                      BeginTool, RunTool, RecordTool, StoreAnswers, convVars
<1>6. ASSUME NEW c \in Claims, Settle(c) \/ Crash(c) \/ Abort(c) \/ Renew(c)
      PROVE  astray' = astray
    BY <1>6 DEF Settle, Crash, Abort, Renew, convVars
<1>7. QED BY <1>1, <1>3, <1>4, <1>5, <1>6 DEF Next

-----------------------------------------------------------------------------
(* Every step keeps what is stored kempt.                                  *)

(* A step that stores nothing, gives nobody the lock, and touches no       *)
(* handler that has it.                                                    *)
LEMMA QuietKeeps ==
    ASSUME Types, Kempt, UNCHANGED convVars,
           status'[Job] = "active" => status[Job] = "active" /\ token'[Job] = token[Job],
           status'[Job] = "completed" => Finished(stored),
           \A d \in Claims : Fenced(Job, d) /\ agent'[d].pc # "absent"
               => agent'[d] = agent[d] \/ LiveNext(d)
    PROVE  Kempt'
<1>1. Tables' /\ EndsFinished'
    BY DEF Kempt, Tables, EndsFinished, convVars
<1>2. ASSUME NEW d \in Claims, Fenced(Job, d)', agent'[d].pc # "absent" PROVE LiveNext(d)
    <2>1. Fenced(Job, d)
        BY <1>2 DEF Fenced
    <2>2. CASE agent'[d] = agent[d]
        BY <1>2, <2>1, <2>2 DEF Kempt, HolderLive, At, LiveNext, convVars
    <2>3. QED BY <1>2, <2>1, <2>2
<1>3. HolderLive'
    BY <1>2 DEF HolderLive, LiveNext, At
<1>4. QED BY <1>1, <1>3 DEF Kempt

(* A new claim starts with an empty memory.                                *)
LEMMA LaunchKeeps == ASSUME Types, Fencing, Kempt, Launch PROVE Kempt'
<1> USE SubagentAssumption
<1>1. /\ status'[Job] = "active" /\ token'[Job] = started[Job] + 1 /\ UNCHANGED convVars
      /\ started[Job] + 1 \in Claims /\ Job \in Jobs
      /\ agent' = [agent EXCEPT ![started[Job] + 1] = Handler(made[Job])]
    BY DEF Launch, ClaimRow, Types, QueueTypeOK, Claims
<1>2. Tables' /\ EndsFinished'
    BY <1>1 DEF Kempt, Tables, EndsFinished, convVars
<1>3. ASSUME NEW d \in Claims, Fenced(Job, d)', agent'[d].pc # "absent" PROVE LiveNext(d)
    <2>1. d = started[Job] + 1
        BY <1>1, <1>3 DEF Fenced
    <2>2. agent'[d] = Handler(made[Job])
        BY <1>1, <2>1 DEF Types
    <2>3. agent'[d].pc = "load" /\ agent'[d].use = 1 /\ agent'[d].answers = <<>>
        BY <2>2 DEF Handler
    <2>4. QED BY <2>3 DEF LiveNext, Live
<1>4. HolderLive'
    BY <1>3 DEF HolderLive, LiveNext, At
<1>5. QED BY <1>2, <1>4 DEF Kempt

(* The steps of the conversation.                                          *)
LEMMA WorkStepKeeps ==
    ASSUME Types, Kempt, astray' = 0, NEW c \in Claims,
           LoadMessages(c) \/ LoadTools(c) \/ Turn(c) \/ Dispatch(c)
    PROVE  Kempt'
<1>1. UNCHANGED queueVars /\ \A d \in Claims : d # c => agent'[d] = agent[d]
    BY WorkRow, NoHandlerComesBack
<1>2. UNCHANGED <<status, token>>
    BY <1>1 DEF queueVars
<1>3. CASE Fenced(Job, c)
    <2>1. Tables' /\ LiveNext(c)
        BY <1>3, WorkKeeps DEF Kempt
    <2>2. ASSUME NEW d \in Claims, Fenced(Job, d)' PROVE d = c
        BY <1>2, <1>3, <2>2 DEF Fenced
    <2>3. HolderLive'
        BY <2>1, <2>2 DEF HolderLive, LiveNext
    <2>4. EndsFinished'
        BY <1>2, <1>3 DEF Fenced, EndsFinished
    <2>5. QED BY <2>1, <2>3, <2>4 DEF Kempt
<1>4. CASE ~Fenced(Job, c)
    <2>1. UNCHANGED convVars
        BY <1>4, StaleWorkIsIdle
    <2>2. \A d \in Claims : Fenced(Job, d) => agent'[d] = agent[d]
        BY <1>1, <1>4
    <2>3. QED BY <1>2, <2>1, <2>2, QuietKeeps DEF Kempt, EndsFinished
<1>5. QED BY <1>3, <1>4

(* The end of a handler, its crash, its abort signal and its lock timer.   *)
LEMMA EndStepKeeps ==
    ASSUME Types, Kempt, NEW c \in Claims, Settle(c) \/ Crash(c) \/ Abort(c) \/ Renew(c)
    PROVE  Kempt'
<1>1. UNCHANGED convVars /\ \A d \in Claims : d # c => agent'[d] = agent[d]
    BY NoHandlerComesBack DEF Settle, Crash, Abort, Renew
<1>2. status'[Job] = "active" => status[Job] = "active" /\ token'[Job] = token[Job]
    BY HandlerRow DEF RowKept
<1>3. status'[Job] = "completed" => Finished(stored)
    <2>1. CASE RowKept
        BY <2>1 DEF RowKept, Kempt, EndsFinished
    <2>2. CASE Settle(c) /\ At(c, "returned") /\ CompleteRow(Job, c)
        <3>1. Fenced(Job, c) /\ agent[c].pc = "returned"
            BY <2>2 DEF CompleteRow, Completable, At
        <3>2. Live(c, agent[c], stored, tools, charged, ran)
            BY <3>1 DEF Kempt, HolderLive, At
        <3>3. QED BY <3>1, <3>2 DEF Live
    <2>3. QED BY <2>1, <2>2, HandlerRow
<1>4. ASSUME Fenced(Job, c), agent'[c].pc # "absent" PROVE agent'[c] = agent[c] \/ LiveNext(c)
    <2>1. CASE Settle(c) \/ Crash(c)
        BY <1>4, <2>1, HandlerType DEF Settle, Crash, Types
    <2>2. CASE Abort(c)
        BY <1>1, <1>4, <2>2, StopKeeps DEF Kempt, convVars
    <2>3. CASE Renew(c)
        BY <2>3 DEF Renew
    <2>4. QED BY <2>1, <2>2, <2>3
<1>5. QED BY <1>1, <1>2, <1>3, <1>4, QuietKeeps

(* The invariant is inductive.                                             *)
LEMMA SubagentInvStep == SubagentInv /\ [Next]_vars => SubagentInv'
<1> SUFFICES ASSUME SubagentInv, [Next]_vars PROVE SubagentInv'
    OBVIOUS
<1>1. Types /\ Fencing /\ Types' /\ Fencing'
    BY TypesStep, FencingStep DEF SubagentInv
<1>2. ASSUME astray' = 0 PROVE Kempt'
    <2>1. Kempt
        BY <1>1, <1>2, AstrayGrows DEF SubagentInv
    <2>2. CASE Launch
        BY <1>1, <2>1, <2>2, LaunchKeeps
    <2>3. CASE Queue \/ LeaseExpires \/ UNCHANGED vars
        <3>1. RowKept /\ agent' = agent /\ UNCHANGED convVars
            BY <1>1, <2>3, QueueRow DEF Queue, LeaseExpires, vars, queueVars, links, counters,
                                             history, RowKept
        <3>2. status'[Job] = "completed" => Finished(stored)
            BY <2>1, <3>1 DEF RowKept, Kempt, EndsFinished
        <3>3. QED BY <1>1, <2>1, <3>1, <3>2, QuietKeeps DEF RowKept
    <2>4. ASSUME NEW c \in Claims, LoadMessages(c) \/ LoadTools(c) \/ Turn(c) \/ Dispatch(c)
          PROVE  Kempt'
        BY <1>1, <1>2, <2>1, <2>4, WorkStepKeeps
    <2>5. ASSUME NEW c \in Claims, Settle(c) \/ Crash(c) \/ Abort(c) \/ Renew(c) PROVE Kempt'
        BY <1>1, <2>1, <2>5, EndStepKeeps
    <2>6. QED BY <2>2, <2>3, <2>4, <2>5 DEF Next
<1>3. QED BY <1>1, <1>2 DEF SubagentInv

(* At first nothing is stored and nobody has the lock.                     *)
LEMMA SubagentInvInit == Init => SubagentInv
<1> SUFFICES ASSUME Init PROVE SubagentInv
    OBVIOUS
<1>1. /\ stored = <<>> /\ ran = {} /\ reran = {} /\ DOMAIN tools = {}
      /\ status[Job] = "absent" /\ \A c \in Claims : agent[c].pc = "absent"
    BY NoRows, HandlerType, SubagentAssumption DEF Init, QueueInit
<1>2. Len(stored) = 0 /\ TurnsOf(stored) = 0
    <2>1. {i \in DOMAIN stored : stored[i].role = "assistant"} = {}
        BY <1>1, NoRows
    <2>2. QED BY <1>1, <2>1, EmptySeq, FS_EmptySet DEF TurnsOf
<1>3. Tables
    BY <1>1, <1>2, SubagentAssumption DEF Tables, Conversation, Executions, Replied
<1>4. Fencing /\ HolderLive /\ EndsFinished
    BY <1>1 DEF Fencing, HolderLive, EndsFinished, At
<1>5. QED BY <1>3, <1>4, TypesInit DEF SubagentInv, Kempt

(* It holds in every reachable state.                                      *)
LEMMA SubagentInvariant == Spec => []SubagentInv
BY SubagentInvInit, SubagentInvStep, PTL DEF Spec

(* What the invariant says of the tables is what the runs check.           *)
LEMMA InvImpliesSound == SubagentInv => ConversationSound
<1> SUFFICES ASSUME SubagentInv, astray = 0
             PROVE  /\ \A i \in DOMAIN stored :
                          /\ i = 1 => stored[i] = Prompt
                          /\ i > 1 /\ stored[i].role = "user" => stored[i - 1].uses # <<>>
                          /\ stored[i].uses # <<>> /\ i < Len(stored) => Answered(i)
                    /\ status[Job] = "completed" =>
                          \/ stored[Len(stored)].role = "assistant" /\ OpenUses(stored) = <<>>
                          \/ TurnsOf(stored) >= MaxTurns
    BY DEF ConversationSound
<1>1. stored \in Seq(Messages) /\ Conversation(stored, tools) /\ EndsFinished
    BY DEF SubagentInv, Types, Kempt, Tables
<1>2. DOMAIN stored = 1 .. Len(stored) /\ Len(stored) \in Nat
    BY <1>1, MessageFields
<1>3. stored # <<>> => stored[1] = Prompt
    BY <1>1 DEF Conversation
<1>4. ASSUME NEW i \in DOMAIN stored, stored[i].uses # <<>>, i < Len(stored)
      PROVE  Answered(i)
    <2>1. AnsweredIn(i, stored, tools) /\ i + 1 \in 1 .. Len(stored)
        BY <1>1, <1>2, <1>4 DEF Conversation
    <2>2. stored[i + 1].answers \in Seq(Use3 \X Settled)
        BY <1>1, <2>1, ElementOfSeq DEF Messages, Message
    <2>3. DOMAIN stored[i + 1].answers = 1 .. Len(stored[i + 1].answers)
        BY <2>2, LenProperties
    <2>4. QED BY <2>1, <2>3 DEF AnsweredIn, Answered
<1>5. \A i \in DOMAIN stored : i = 1 => stored[i] = Prompt
    BY <1>2, <1>3, EmptySeq
<1>6. QED BY <1>1, <1>2, <1>4, <1>5 DEF Conversation, EndsFinished, Finished

(* Crash-resumable: for any tools, replies and limits, and wherever        *)
(* handlers died, stalled and resumed, the stored conversation is one the  *)
(* provider would accept, as long as nothing was written without the lock. *)
THEOREM ConversationsStaySound == Spec => []ConversationSound
BY SubagentInvariant, InvImpliesSound, PTL

(* A tool that is not idempotent runs once per use, over every crash       *)
(* between its pending row, its effect and its completion.                 *)
THEOREM NoToolRunsTwice == Spec => []ToolsRunOnce
<1>1. SubagentInv => ToolsRunOnce
    BY DEF SubagentInv, Kempt, Tables, Executions, ToolsRunOnce
<1>2. QED BY <1>1, SubagentInvariant, PTL

(* max_turns bounds the stored replies of all the claims together.         *)
THEOREM TurnsStayBounded == Spec => []TurnsBounded
<1>1. SubagentInv => TurnsBounded
    BY DEF SubagentInv, Kempt, Tables, Replied, TurnsBounded
<1>2. QED BY <1>1, SubagentInvariant, PTL

(* Every stored reply was charged to the job.                              *)
THEOREM RepliesAreCharged == Spec => []TurnsCharged
<1>1. SubagentInv => TurnsCharged
    <2> SUFFICES ASSUME SubagentInv, astray = 0
                 PROVE  \A i \in DOMAIN stored :
                            stored[i].role = "assistant" => <<stored[i].by, i - 1>> \in charged
        BY DEF TurnsCharged
    <2>1. stored \in Seq(Messages) /\ Replied(stored, charged)
        BY DEF SubagentInv, Types, Kempt, Tables
    <2>2. QED BY <2>1, MessageFields DEF Replied
<1>2. QED BY <1>1, SubagentInvariant, PTL
=============================================================================
