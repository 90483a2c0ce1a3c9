-------------------------- MODULE MinionTreeProofs ---------------------------
(***************************************************************************)
(* Parents and children, for any tree of jobs and any options, limits,     *)
(* clocks and commands: a parent runs after its children, hears of each of *)
(* their ends but the silent ones, has no more of them than its cap, and   *)
(* waits only while there is a child to wait for, or one that ended on a   *)
(* path that tells no parent; all but for what cancelJob and the timeout   *)
(* sweeps misread, which lock no parent.                                   *)
(*                                                                         *)
(* RowStep of MinionProofs says what a step does to one row; FamilyStep adds*)
(* what it does to a row and its parent.                                   *)
(***************************************************************************)
EXTENDS MinionProofs

USE DEF links, counters, history

(* The statuses from which a job may be claimed, or already is.            *)
Ready == {"waiting", "active", "delayed"}

ChildrenOf(p) == {c \in Jobs : parent[c] = p}

-----------------------------------------------------------------------------
(* What a step may do to a child and its parent.                           *)

(* Only add gives a job a parent: one that admits it, and no longer runs.  *)
Adopted(c) ==
    LET p == parent'[c]
    IN  /\ status[c] = "absent" /\ status'[c] # "absent"
        /\ p \in Jobs /\ p # c /\ Admitted(p) /\ status'[p] \notin Ready
        /\ \A i \in Jobs : i # c => parent'[i] = parent[i]

LinksStep == \A c \in Jobs : parent'[c] \in {parent[c], NoJob} \/ Adopted(c)

(* Unless moved by hand or misread, a job becomes claimable when it is new,*)
(* and from waiting-children when it has no open child.                    *)
ReadyStep ==
    \A p \in Jobs :
        status'[p] \in Ready /\ p \notin touched' =>
            \/ status[p] \in Ready \cup {"absent", "paused"}
            \/ \A c \in Jobs : parent'[c] = p => ~Open(c)'
            \/ p \in misread'

(* A child ends with a message to an open parent that nobody brought back, *)
(* or in silence.                                                          *)
EndStep ==
    \A c \in Jobs :
        LET p == parent'[c]
        IN  Open(c) /\ status'[c] \in Terminal /\ p \in Jobs /\ status'[p] \in OpenStatuses =>
                \/ \E o \in Outcomes : <<c, o>> \in inbox'[p]
                \/ <<p, c>> \in silent'
                \/ p \in touched'

(* Messages to open parents stay, and silence lasts until the child is     *)
(* open again.                                                             *)
MailStep ==
    /\ \A p \in Jobs : Open(p)' => inbox[p] \subseteq inbox'[p]
    /\ \A p, c \in Jobs : <<p, c>> \in silent => <<p, c>> \in silent' \/ Open(c)'

(* Only an operator pauses.                                                *)
PauseStep ==
    \A p \in Jobs : status'[p] = "paused" /\ p \notin touched' => status[p] = "paused"

FamilyStep ==
    LinksStep /\ ReadyStep /\ EndStep /\ MailStep /\ PauseStep /\ misread \subseteq misread'

-----------------------------------------------------------------------------
(* The inductive invariants.                                               *)

(* Links join ids that were handed out.                                    *)
LinksGrounded ==
    \A c \in Jobs : parent[c] # NoJob => status[c] # "absent" /\ status[parent[c]] # "absent"

PausedByHand == \A p \in Jobs : status[p] = "paused" => p \in touched

(* No job that could be claimed has an open child, unless it was misread.  *)
ChildrenFirst ==
    \A c \in Jobs :
        LET p == parent[c]
        IN  p # NoJob /\ {c, p} \cap touched = {} /\ Open(c)
                => status[p] \notin Ready \/ p \in misread

(* The cap holds of the open children nobody brought back: a job that was  *)
(* brought back may end again, and must not leave more than the cap.       *)
CapKept ==
    \A p \in Jobs :
        /\ IsFiniteSet(ChildrenOf(p))
        /\ opts[p].cap # 0 => Cardinality(LiveChildren(p) \ touched) <= opts[p].cap

(* An open transaction wakes only parents of its rows, and tells all that  *)
(* are open but those that were brought back since, or that it ends.       *)
Informed(e) ==
    /\ e.asleep \subseteq {p \in Jobs : \E c \in e.rows : parent[c] = p}
    /\ \A c \in e.rows :
          parent[c] # NoJob /\ Open(parent[c]) /\ parent[c] \notin touched
              => parent[c] \in e.told \cup e.rows

EndingsInformed == \A e \in ending : Informed(e)

Family ==
    /\ LinksGrounded /\ PausedByHand /\ ChildrenFirst /\ CapKept /\ ChildDonePosted
    /\ EndingsInformed

-----------------------------------------------------------------------------
(* The invariants follow from RowStep and FamilyStep.                      *)

(* A job nobody touched is open because it was, or because it is new.      *)
LEMMA OpenSince ==
    ASSUME NEW i \in Jobs, RowStep(i), i \notin touched', Open(i)'
    PROVE  i \notin touched /\ (Open(i) \/ status[i] = "absent")
BY DEF RowStep, Stays, Moves, Ends, Claimed, Completes, Fails, Stalls, Added, Retried,
       Deferred, Skipped, Deleted, Open, OpenStatuses, Terminal

(* An ended job was open or had ended, and no id is taken back.            *)
LEMMA EndedSince ==
    ASSUME NEW i \in Jobs, RowStep(i)
    PROVE  /\ status'[i] \in Terminal => Open(i) \/ status[i] \in Terminal
           /\ status'[i] = "absent" => status[i] = "absent"
BY DEF RowStep, Stays, Moves, Ends, Claimed, Completes, Fails, Stalls, Added, Retried,
       Deferred, Skipped, Deleted, Open, OpenStatuses, Terminal

(* add only accepts a parent that exists, and ids are not taken back.      *)
LEMMA LinksGroundedStep ==
    ASSUME QueueTypeOK, LinksGrounded, LinksStep, \A i \in Jobs : RowStep(i)
    PROVE  LinksGrounded'
<1> SUFFICES ASSUME NEW c \in Jobs, parent'[c] # NoJob
             PROVE  status'[c] # "absent" /\ status'[parent'[c]] # "absent"
  BY DEF LinksGrounded
<1>1. CASE parent'[c] = parent[c]
  <2>1. parent[c] \in Jobs
    BY <1>1 DEF QueueTypeOK
  <2> QED BY <1>1, <2>1, EndedSince DEF LinksGrounded
<1>2. CASE Adopted(c)
  BY <1>2, EndedSince DEF Adopted, Admitted
<1> QED BY <1>1, <1>2 DEF LinksStep

(* A paused job was paused by an operator.                                 *)
LEMMA PausedByHandStep ==
    ASSUME PausedByHand, PauseStep, \A i \in Jobs : RowStep(i)
    PROVE  PausedByHand'
BY DEF PausedByHand, PauseStep, RowStep

(* A child that was open before, or has just been added to its parent.     *)
LEMMA ChildSince ==
    ASSUME QueueTypeOK, LinksGrounded, LinksStep, \A i \in Jobs : RowStep(i),
           NEW c \in Jobs, parent'[c] # NoJob, c \notin touched', Open(c)'
    PROVE  \/ parent'[c] = parent[c] /\ parent[c] \in Jobs /\ Open(c) /\ c \notin touched
           \/ Adopted(c)
<1>1. c \notin touched /\ (Open(c) \/ status[c] = "absent")
  BY OpenSince
<1>2. CASE parent'[c] = parent[c]
  BY <1>1, <1>2 DEF LinksGrounded, QueueTypeOK
<1> QED BY <1>2 DEF LinksStep

(* A parent becomes claimable only without open children, and add takes a  *)
(* claimable parent off the queue.                                         *)
LEMMA ChildrenFirstStep ==
    ASSUME QueueTypeOK, Family, FamilyStep, \A i \in Jobs : RowStep(i)
    PROVE  ChildrenFirst'
<1> DEFINE p(c) == parent'[c]
<1> SUFFICES ASSUME NEW c \in Jobs, p(c) # NoJob, c \notin touched', p(c) \notin touched',
                    Open(c)', p(c) \notin misread'
             PROVE  status'[p(c)] \notin Ready
  BY DEF ChildrenFirst
<1>1. CASE Adopted(c)
  BY <1>1 DEF Adopted
<1>2. CASE parent'[c] = parent[c] /\ parent[c] \in Jobs /\ Open(c) /\ c \notin touched
  <2>1. p(c) \in Jobs /\ p(c) \notin touched
    BY <1>2 DEF RowStep
  <2>2. status[p(c)] \notin Ready \cup {"absent", "paused"}
    BY <1>2, <2>1 DEF Family, FamilyStep, ChildrenFirst, LinksGrounded, PausedByHand
  <2> QED BY <2>1, <2>2 DEF FamilyStep, ReadyStep
<1> QED BY <1>1, <1>2, ChildSince DEF Family, FamilyStep


(* A message is posted when the child ends, and stays while the parent is  *)
(* open.                                                                   *)
LEMMA ChildDonePostedStep ==
    ASSUME QueueTypeOK, Family, FamilyStep, \A i \in Jobs : RowStep(i)
    PROVE  ChildDonePosted'
<1> SUFFICES ASSUME NEW c \in Jobs, NEW p, p = parent'[c], p # NoJob, Open(p)', p \notin touched',
                    status'[c] \in Terminal, <<p, c>> \notin silent'
             PROVE  \E o \in Outcomes : <<c, o>> \in inbox'[p]
  BY DEF ChildDonePosted
<1>1. ~Open(c)' /\ (Open(c) \/ status[c] \in Terminal)
  BY EndedSince DEF Open, OpenStatuses, Terminal
<1>2. ~Adopted(c)
  BY <1>1 DEF Adopted, Open, OpenStatuses, Terminal
<1>3. parent[c] = p /\ p \in Jobs
  BY <1>2 DEF FamilyStep, LinksStep, QueueTypeOK
<1>4. p \notin touched /\ Open(p)
  BY <1>3, OpenSince DEF Family, LinksGrounded
<1>5. CASE Open(c)
  BY <1>3, <1>5 DEF FamilyStep, EndStep, Open
<1>6. CASE status[c] \in Terminal
  <2>1. <<p, c>> \notin silent /\ inbox[p] \subseteq inbox'[p]
    BY <1>1, <1>3 DEF FamilyStep, MailStep
  <2>2. \E o \in Outcomes : <<c, o>> \in inbox[p]
    BY <1>3, <1>4, <1>6, <2>1 DEF Family, ChildDonePosted
  <2> QED BY <2>1, <2>2
<1> QED BY <1>1, <1>5, <1>6

(* A step without a new child of p.                                        *)
LEMMA CapStays ==
    ASSUME TypeOK, TypeOK', Family, FamilyStep, \A i \in Jobs : RowStep(i),
           NEW p \in Jobs, \A c \in Jobs : parent'[c] = p => parent[c] = p
    PROVE  /\ IsFiniteSet(ChildrenOf(p))'
           /\ opts'[p].cap # 0 => Cardinality((LiveChildren(p) \ touched)') <= opts'[p].cap
<1>0. QueueTypeOK /\ p # NoJob /\ opts[p].cap \in Nat
  BY QueueAssumption DEF TypeOK, QueueTypeOK, JobOptions
<1>1. ChildrenOf(p)' \subseteq ChildrenOf(p) /\ IsFiniteSet(ChildrenOf(p))
  BY DEF ChildrenOf, Family, CapKept
<1>2. IsFiniteSet(ChildrenOf(p))'
  BY <1>1, FS_Subset
<1>3. ASSUME opts'[p].cap # 0
      PROVE  Cardinality((LiveChildren(p) \ touched)') <= opts'[p].cap
  <2>1. (LiveChildren(p) \ touched)' \subseteq LiveChildren(p) \ touched
    <3> SUFFICES ASSUME NEW c \in Jobs, parent'[c] = p, Open(c)', c \notin touched'
                 PROVE  parent[c] = p /\ Open(c) /\ c \notin touched
      BY DEF LiveChildren
    <3>1. parent[c] = p
      OBVIOUS
    <3> QED BY <1>0, <3>1, OpenSince DEF Family, LinksGrounded
  <2>2. IsFiniteSet(LiveChildren(p) \ touched)
    <3>1. LiveChildren(p) \ touched \subseteq ChildrenOf(p)
      BY DEF LiveChildren, ChildrenOf
    <3> QED BY <1>1, <3>1, FS_Subset
  <2> DEFINE old == LiveChildren(p) \ touched
             new == (LiveChildren(p) \ touched)'
  <2>3. /\ Cardinality(new) <= Cardinality(old)
        /\ Cardinality(new) \in Nat /\ Cardinality(old) \in Nat
    <3>0. new \subseteq old /\ IsFiniteSet(old)
      BY <2>1, <2>2
    <3> HIDE DEF new, old
    <3>1. IsFiniteSet(new) /\ Cardinality(new) <= Cardinality(old)
      BY <3>0, FS_Subset
    <3> QED BY <3>0, <3>1, FS_CardinalityType
  <2>4. CASE status[p] = "absent"
    <3>1. LiveChildren(p)' = {}
      BY <1>0, <2>4 DEF LiveChildren, Family, LinksGrounded
    <3>2. (LiveChildren(p) \ touched)' = {}
      BY <3>1
    <3>3. Cardinality((LiveChildren(p) \ touched)') = 0
      BY <3>2, FS_EmptySet
    <3>4. opts'[p] \in JobOptions
      BY DEF TypeOK, QueueTypeOK
    <3> QED BY <3>3, <3>4 DEF JobOptions
  <2>5. CASE status[p] # "absent"
    <3>1. opts'[p] = opts[p]
      BY <2>5 DEF RowStep
    <3>2. Cardinality(old) <= opts[p].cap
      BY <1>3, <3>1 DEF Family, CapKept
    <3> HIDE DEF old, new
    <3>3. Cardinality(new) <= opts'[p].cap
      BY <1>0, <2>3, <3>1, <3>2
    <3> QED BY <3>3 DEF new
  <2> QED BY <2>4, <2>5
<1> QED BY <1>2, <1>3

(* add gives p a child: there was room for one more.                       *)
LEMMA CapGrows ==
    ASSUME TypeOK, Family, FamilyStep, \A i \in Jobs : RowStep(i),
           NEW c \in Jobs, Adopted(c), NEW p \in Jobs, p = parent'[c]
    PROVE  /\ IsFiniteSet(ChildrenOf(p))'
           /\ opts'[p].cap # 0 => Cardinality((LiveChildren(p) \ touched)') <= opts'[p].cap
<1>0. /\ QueueTypeOK /\ opts[p].cap \in Nat /\ opts'[p] = opts[p]
      /\ Admitted(p) /\ IsFiniteSet(ChildrenOf(p))
      /\ \A i \in Jobs : i # c => parent'[i] = parent[i]
  BY DEF TypeOK, QueueTypeOK, JobOptions, Adopted, Admitted, RowStep, Family, CapKept
<1>1. ChildrenOf(p)' \subseteq ChildrenOf(p) \cup {c}
  BY <1>0 DEF ChildrenOf
<1>2. IsFiniteSet(ChildrenOf(p) \cup {c})
  BY <1>0, FS_AddElement
<1>3. IsFiniteSet(ChildrenOf(p)')
  BY <1>1, <1>2, FS_Subset
<1>4. ASSUME opts'[p].cap # 0
      PROVE  Cardinality((LiveChildren(p) \ touched)') <= opts'[p].cap
  <2> DEFINE old == LiveChildren(p)
             new == (LiveChildren(p) \ touched)'
  <2>1. new \subseteq old \cup {c}
    <3> SUFFICES ASSUME NEW i \in Jobs, i # c, parent'[i] = p, Open(i)', i \notin touched'
                 PROVE  parent[i] = p /\ Open(i)
      BY DEF LiveChildren
    <3>1. parent[i] = p
      BY <1>0
    <3> QED BY <1>0, <3>1, OpenSince, QueueAssumption DEF Family, LinksGrounded
  <2>2. IsFiniteSet(old)
    <3>1. old \subseteq ChildrenOf(p)
      BY DEF LiveChildren, ChildrenOf
    <3> QED BY <1>0, <3>1, FS_Subset
  <2>3. Cardinality(old) < opts[p].cap
    BY <1>0, <1>4 DEF Admitted
  <2> HIDE DEF old, new
  <2>4. /\ IsFiniteSet(old \cup {c}) /\ Cardinality(old) \in Nat
        /\ Cardinality(old \cup {c}) \in {Cardinality(old), Cardinality(old) + 1}
    BY <2>2, FS_AddElement, FS_CardinalityType
  <2>5. /\ Cardinality(new) <= Cardinality(old \cup {c})
        /\ Cardinality(new) \in Nat
    BY <2>1, <2>4, FS_Subset, FS_CardinalityType
  <2>6. Cardinality(new) <= opts[p].cap
    BY <1>0, <2>3, <2>4, <2>5
  <2> QED BY <1>0, <2>6 DEF new
<1> QED BY <1>3, <1>4

(* Only add brings a parent a new open child, and only below its cap.      *)
LEMMA CapKeptStep ==
    ASSUME TypeOK, TypeOK', Family, FamilyStep, \A i \in Jobs : RowStep(i)
    PROVE  CapKept'
<1> SUFFICES ASSUME NEW p \in Jobs
             PROVE  /\ IsFiniteSet(ChildrenOf(p))'
                    /\ opts'[p].cap # 0 =>
                           Cardinality((LiveChildren(p) \ touched)') <= opts'[p].cap
  BY DEF CapKept
<1>1. CASE \E c \in Jobs : Adopted(c) /\ parent'[c] = p
  BY <1>1, CapGrows
<1>2. CASE ~ \E c \in Jobs : Adopted(c) /\ parent'[c] = p
  <2>1. p # NoJob
    BY QueueAssumption
  <2>2. \A c \in Jobs : parent'[c] = p => parent[c] = p
    BY <1>2, <2>1 DEF FamilyStep, LinksStep
  <2> QED BY <2>2, CapStays
<1> QED BY <1>1, <1>2


-----------------------------------------------------------------------------
(* FamilyStep, method by method.                                           *)

(* Steps that move rows one by one and send no message: each row stays,    *)
(* goes on (by hand, or without its links), or ends in silence.            *)
LEMMA RowsFamily ==
    ASSUME QueueTypeOK, parent' = parent, inbox' = inbox, misread \subseteq misread',
           \A i \in Jobs :
               \/ status'[i] = status[i]
               \/ /\ status'[i] \in OpenStatuses
                  /\ \/ i \in touched'
                     \/ status[i] \in Ready \cup {"paused"} /\ status'[i] # "paused"
               \/ /\ status'[i] \in Terminal
                  /\ parent[i] # NoJob => <<parent[i], i>> \in silent',
           \A p, c \in Jobs : <<p, c>> \in silent => <<p, c>> \in silent' \/ Open(c)'
    PROVE  FamilyStep
<1>1. LinksStep /\ MailStep
  BY DEF LinksStep, MailStep
<1>2. ReadyStep /\ PauseStep
  BY DEF ReadyStep, PauseStep, Ready, Terminal
<1>3. EndStep
  <2> SUFFICES ASSUME NEW c \in Jobs, Open(c), status'[c] \in Terminal, parent'[c] \in Jobs
               PROVE  <<parent'[c], c>> \in silent'
    BY DEF EndStep
  <2>1. status'[c] # status[c] /\ status'[c] \notin OpenStatuses /\ parent[c] # NoJob
    BY QueueAssumption DEF Open, OpenStatuses, Terminal
  <2> QED BY <2>1
<1> QED BY <1>1, <1>2, <1>3 DEF FamilyStep

(* Steps that touch neither statuses, links nor messages.                  *)
LEMMA IdleFamily ==
    ASSUME QueueTypeOK, UNCHANGED <<status, parent, inbox, silent, misread>>
    PROVE  FamilyStep
BY RowsFamily

(* add                                                                     *)
LEMMA AddFamily ==
    ASSUME QueueTypeOK, LinksGrounded, NEW j \in Jobs, NEW p \in Jobs \cup {NoJob},
           NEW o \in Options, NEW first \in {"waiting", "delayed"}, Add(j, p, o, first)
    PROVE  FamilyStep
<1>1. /\ status[j] = "absent" /\ status'[j] = first /\ parent[j] = NoJob
      /\ p # NoJob => Admitted(p)
      /\ parent' = [parent EXCEPT ![j] = p] /\ inbox' = inbox /\ silent' = silent
      /\ misread' = misread
  BY DEF Add, LinksGrounded
<1>2. ASSUME NEW i \in Jobs, i # j
      PROVE  /\ parent'[i] = parent[i]
             /\ \/ i # p /\ status'[i] = status[i]
                \/ i = p /\ status[i] \in Ready /\ status'[i] = "waiting-children"
                \/ i = p /\ status[i] \notin Ready /\ status'[i] = status[i]
  BY <1>2 DEF Add, QueueTypeOK, Ready
<1>3. parent'[j] = p
  BY <1>1 DEF QueueTypeOK
<1>4. p # NoJob => p # j
  BY <1>1 DEF Admitted
<1>5. LinksStep
  <2>1. p # NoJob => Adopted(j)
    BY <1>1, <1>2, <1>3, <1>4 DEF Adopted, Ready
  <2> QED BY <1>2, <1>3, <2>1 DEF LinksStep
<1>6. ReadyStep /\ PauseStep
  BY <1>1, <1>2 DEF ReadyStep, PauseStep, Ready
<1>7. EndStep
  BY <1>1, <1>2 DEF EndStep, Open, OpenStatuses, Terminal
<1>8. MailStep
  BY <1>1 DEF MailStep
<1> QED BY <1>1, <1>5, <1>6, <1>7, <1>8 DEF FamilyStep

(* A parent that resolveParent made claimable has no open child.           *)
LEMMA ResolvedReady ==
    ASSUME NEW f \in [Jobs -> Statuses], NEW g, NEW P, NEW p \in Jobs,
           Resolved(f, g, P)[p] # f[p]
    PROVE  \A c \in Jobs : g[c] = p => f[c] \notin OpenStatuses
BY DEF Resolved

(* An open parent gets the message.                                        *)
LEMMA NotifiedTells ==
    ASSUME QueueTypeOK, NEW f, NEW S \in SUBSET Jobs, NEW o, NEW p \in Jobs
    PROVE  /\ inbox[p] \subseteq Notified(f, S, o)[p]
           /\ f[p] \in OpenStatuses =>
                  \A c \in S : parent[c] = p => <<c, o>> \in Notified(f, S, o)[p]
BY DEF Notified

(* cancelJob and the two timeout sweeps begin                              *)
LEMMA EndingsFamily ==
    ASSUME QueueTypeOK,
           \/ HandleTimeouts \/ HandleWallClockTimeouts
           \/ \E j \in Jobs : CancelJob(j)
    PROVE  FamilyStep
BY IdleFamily DEF HandleTimeouts, HandleWallClockTimeouts, CancelJob, EndBegin

(* A parent the commit wakes has no other open child, or was misread.      *)
LEMMA WokenReady ==
    ASSUME QueueTypeOK, LocksHeld, NEW e \in ending, NEW p \in Woken(e),
           Informed(e), p \notin Misread(e),
           NEW c \in Jobs, parent[c] = p, c \notin e.rows
    PROVE  ~Open(c)
<1>1. /\ p \in ParentsOf(e.rows) \ e.rows /\ p \in e.asleep
      /\ status[p] = "waiting-children" /\ p \in Jobs
      /\ {link \in e.seen : link[1] = p} = {}
  BY DEF Woken, LocksHeld, ParentsOf, Informed
<1>2. OpenLinks({p}, e.rows) = {}
  BY <1>1 DEF Misread
<1>3. Open(c) => <<p, c>> \in OpenLinks({p}, e.rows)
  BY <1>1 DEF OpenLinks
<1> QED BY <1>2, <1>3

(* cancelJob and the two timeout sweeps commit                             *)
LEMMA CommitFamily ==
    ASSUME QueueTypeOK, LocksHeld, EndingsInformed, NEW e \in ending, EndCommit(e)
    PROVE  FamilyStep
<1>1. /\ \A i \in Jobs : status'[i] = IF i \in Woken(e) THEN "waiting"
                                      ELSE IF i \in e.rows THEN EndOf(e.why) ELSE status[i]
      /\ \A i \in Woken(e) : status[i] = "waiting-children"
      /\ EndOf(e.why) \in {"dead", "cancelled"} /\ e.why \in Outcomes
      /\ e.rows \in SUBSET Jobs
  BY EndCommitEffect, EndingFields
<1>2. /\ parent' = parent /\ silent' = silent /\ touched' = touched
      /\ misread' = misread \cup Misread(e) /\ inbox' = Posted(e)
  BY DEF EndCommit
<1>3. \A i \in Woken(e) : i \notin e.rows
  BY DEF LocksHeld, Woken
<1>4. LinksStep
  BY <1>2 DEF LinksStep
<1>5. ReadyStep
  <2> SUFFICES ASSUME NEW p \in Jobs, status'[p] \in Ready, status[p] \notin Ready,
                      p \notin misread', NEW c \in Jobs, parent[c] = p
               PROVE  status'[c] \notin OpenStatuses
    BY <1>2 DEF ReadyStep, Open
  <2>1. p \in Woken(e) /\ p \notin Misread(e)
    BY <1>1, <1>2 DEF Ready
  <2>2. CASE c \in e.rows
    BY <1>1, <1>3, <2>2 DEF OpenStatuses
  <2>3. CASE c \notin e.rows
    <3>1. ~Open(c)
      BY <2>1, <2>3, WokenReady DEF EndingsInformed
    <3>2. c \notin Woken(e)
      BY <1>1, <3>1 DEF Open, OpenStatuses
    <3> QED BY <1>1, <2>3, <3>1, <3>2 DEF Open
  <2> QED BY <2>2, <2>3
<1>6. EndStep
  <2> SUFFICES ASSUME NEW c \in Jobs, Open(c), status'[c] \in Terminal,
                      NEW p \in Jobs, p = parent[c], status'[p] \in OpenStatuses, p \notin touched
               PROVE  <<c, e.why>> \in inbox'[p]
    BY <1>1, <1>2 DEF EndStep
  <2>1. c \in e.rows
    BY <1>1 DEF Open, OpenStatuses, Terminal
  <2>2. p \notin e.rows /\ Open(p)
    BY <1>1, <1>3 DEF Open, OpenStatuses
  <2>3. p \in e.told
    BY <2>1, <2>2, QueueAssumption DEF EndingsInformed, Informed
  <2> QED BY <1>2, <2>1, <2>3 DEF Posted
<1>7. MailStep
  BY <1>2 DEF MailStep, Posted
<1>8. PauseStep
  BY <1>1 DEF PauseStep
<1> QED BY <1>2, <1>4, <1>5, <1>6, <1>7, <1>8 DEF FamilyStep

(* Deleting rows only takes links away.                                    *)
LEMMA OrphanedEffect ==
    ASSUME NEW f \in [Jobs -> Jobs \cup {NoJob}], NEW gone, NEW c \in Jobs
    PROVE  Orphaned(f, gone)[c] \in {f[c], NoJob}
BY DEF Orphaned

(* completeJob                                                             *)
LEMMA CompleteFamily ==
    ASSUME QueueTypeOK, NEW j \in Jobs, NEW t, CompleteRow(j, t)
    PROVE  FamilyStep
<1> DEFINE ended == Override(status, {j}, "completed")
           P == ParentsOf({j})
           settled == Resolved(ended, parent, P)
           gone == IF opts[j].remove = "on_complete" THEN {j} ELSE {}
           told == Notified(ended, {j}, "complete")
<1>0. status[j] = "active" /\ gone \subseteq {j} /\ "complete" \in Outcomes
  BY DEF CompleteRow, Completable, Fenced, Outcomes
<1>1. /\ ended \in [Jobs -> Statuses]
      /\ \A i \in Jobs : ended[i] = IF i = j THEN "completed" ELSE status[i]
  BY OverrideType, StatusNames DEF QueueTypeOK
<1>2. /\ status' = Override(settled, gone, "removed") /\ inbox' = Override(told, gone, {})
      /\ parent' = Orphaned(parent, gone) /\ silent' = silent /\ misread' = misread
  BY DEF CompleteRow
<1>3. /\ settled \in [Jobs -> Statuses]
      /\ \A i \in Jobs : \/ settled[i] = ended[i]
                         \/ ended[i] = "waiting-children" /\ settled[i] = "waiting"
  <2> HIDE DEF ended, P
  <2>1. /\ Resolved(ended, parent, P) \in [Jobs -> Statuses]
        /\ \A k \in Jobs :
              \/ Resolved(ended, parent, P)[k] = ended[k]
              \/ ended[k] = "waiting-children" /\ Resolved(ended, parent, P)[k] = "waiting"
    BY <1>1, ResolvedEffect
  <2> QED BY <2>1
<1>4. /\ \A i \in Jobs : settled[i] # ended[i] =>
             \A c \in Jobs : parent[c] = i => ended[c] \notin OpenStatuses
      /\ \A p \in Jobs : /\ inbox[p] \subseteq told[p]
                         /\ ended[p] \in OpenStatuses /\ parent[j] = p =>
                                <<j, "complete">> \in told[p]
  <2> HIDE DEF ended, P
  <2> QED BY <1>1, ResolvedReady, NotifiedTells
<1> HIDE DEF ended, P, settled, gone, told
<1>5. \A i \in Jobs : /\ status'[i] = IF i \in gone THEN "removed" ELSE settled[i]
                      /\ inbox'[i] = IF i \in gone THEN {} ELSE told[i]
  BY <1>2 DEF Override
<1>6. \A c \in Jobs : parent'[c] \in {parent[c], NoJob}
  BY <1>2, OrphanedEffect DEF QueueTypeOK
<1>7. LinksStep
  BY <1>6 DEF LinksStep
<1>8. ReadyStep
  <2> SUFFICES ASSUME NEW p \in Jobs, status'[p] \in Ready, status[p] \notin Ready,
                      NEW c \in Jobs, parent'[c] = p
               PROVE  status'[c] \notin OpenStatuses
    BY DEF ReadyStep, Open
  <2>1. settled[p] # ended[p]
    BY <1>0, <1>1, <1>5 DEF Ready
  <2>2. parent[c] = p
    BY <1>6, QueueAssumption
  <2>3. ended[c] \notin OpenStatuses
    BY <1>4, <2>1, <2>2
  <2> QED BY <1>3, <1>5, <2>3 DEF OpenStatuses
<1>9. EndStep
  <2> SUFFICES ASSUME NEW c \in Jobs, Open(c), status'[c] \in Terminal,
                      NEW p \in Jobs, p = parent'[c], status'[p] \in OpenStatuses
               PROVE  <<c, "complete">> \in inbox'[p]
    BY <1>0 DEF EndStep
  <2>1. c = j
    BY <1>1, <1>3, <1>5 DEF Open, OpenStatuses, Terminal
  <2>2. ended[p] \in OpenStatuses /\ p \notin gone
    BY <1>3, <1>5 DEF OpenStatuses
  <2>3. parent[j] = p
    BY <1>6, <2>1, QueueAssumption
  <2> QED BY <1>4, <1>5, <2>1, <2>2, <2>3
<1>10. MailStep
  BY <1>2, <1>4, <1>5 DEF MailStep, Open, OpenStatuses
<1>11. PauseStep
  BY <1>1, <1>3, <1>5 DEF PauseStep
<1> QED BY <1>2, <1>7, <1>8, <1>9, <1>10, <1>11 DEF FamilyStep

(* A parent that the policy of a dead child moved was failed by it, or has *)
(* no open child left.                                                     *)
LEMMA AfterChildFailedReady ==
    ASSUME NEW f \in [Jobs -> Statuses], NEW g, NEW j \in Jobs, NEW p \in Jobs,
           AfterChildFailed(f, g, j)[p] # f[p], AfterChildFailed(f, g, j)[p] # "failed"
    PROVE  \A c \in Jobs : g[c] = p => f[c] \notin OpenStatuses
BY ResolvedReady DEF AfterChildFailed

(* failJob, the end                                                        *)
LEMMA KillFamily ==
    ASSUME QueueTypeOK, NEW j \in Jobs, NEW t, KillRow(j, t)
    PROVE  FamilyStep
<1> DEFINE ended == Override(status, {j}, "dead")
           newParent == IF opts[j].policy = "remove_dep" THEN [parent EXCEPT ![j] = NoJob]
                                                         ELSE parent
           settled == AfterChildFailed(ended, newParent, j)
           gone == IF opts[j].remove = "on_fail" THEN {j} ELSE {}
           told == Notified(ended, {j}, "dead")
           failed == {p \in Jobs : settled[p] = "failed" /\ status[p] # "failed"}
<1>0. status[j] = "active" /\ gone \subseteq {j} /\ "dead" \in Outcomes
  BY DEF KillRow, Fenced, Outcomes
<1>1. /\ ended \in [Jobs -> Statuses]
      /\ \A i \in Jobs : ended[i] = IF i = j THEN "dead" ELSE status[i]
  BY OverrideType, StatusNames DEF QueueTypeOK
<1>2. /\ status' = Override(settled, gone, "removed") /\ inbox' = Override(told, gone, {})
      /\ parent' = Orphaned(newParent, gone) /\ silent' = silent \cup LinksOf(failed)
      /\ misread' = misread
  BY DEF KillRow
<1>3. \A i \in Jobs : \/ settled[i] = ended[i]
                      \/ /\ ended[i] = "waiting-children"
                         /\ settled[i] \in {"waiting", "failed"}
  <2> HIDE DEF ended, newParent
  <2>1. \A k \in Jobs :
           \/ AfterChildFailed(ended, newParent, j)[k] = ended[k]
           \/ /\ ended[k] = "waiting-children"
              /\ AfterChildFailed(ended, newParent, j)[k] \in {"waiting", "failed"}
    BY <1>1, AfterChildFailedEffect
  <2> QED BY <2>1
<1>4. /\ \A i \in Jobs : settled[i] # ended[i] /\ settled[i] # "failed" =>
             \A c \in Jobs : newParent[c] = i => ended[c] \notin OpenStatuses
      /\ \A p \in Jobs : /\ inbox[p] \subseteq told[p]
                         /\ ended[p] \in OpenStatuses /\ parent[j] = p =>
                                <<j, "dead">> \in told[p]
  <2>1. \A i \in Jobs : settled[i] # ended[i] /\ settled[i] # "failed" =>
           \A c \in Jobs : newParent[c] = i => ended[c] \notin OpenStatuses
    <3> HIDE DEF ended, newParent
    <3> QED BY <1>1, AfterChildFailedReady
  <2>2. \A p \in Jobs : /\ inbox[p] \subseteq told[p]
                        /\ ended[p] \in OpenStatuses /\ parent[j] = p =>
                               <<j, "dead">> \in told[p]
    <3> HIDE DEF ended
    <3> QED BY NotifiedTells
  <2> QED BY <2>1, <2>2
<1>5. /\ newParent \in [Jobs -> Jobs \cup {NoJob}]
      /\ \A c \in Jobs : newParent[c] \in {parent[c], NoJob}
  BY DEF QueueTypeOK
<1> HIDE DEF ended, newParent, settled, gone, told
<1>6. \A i \in Jobs : /\ status'[i] = IF i \in gone THEN "removed" ELSE settled[i]
                      /\ inbox'[i] = IF i \in gone THEN {} ELSE told[i]
  BY <1>2 DEF Override
<1>7. \A c \in Jobs : parent'[c] \in {newParent[c], NoJob}
  BY <1>2, <1>5, OrphanedEffect
<1>8. \A c \in Jobs : parent'[c] # NoJob => parent'[c] = newParent[c] /\ parent'[c] = parent[c]
  BY <1>5, <1>7
<1>9. LinksStep
  BY <1>5, <1>7 DEF LinksStep
<1>10. ReadyStep
  <2> SUFFICES ASSUME NEW p \in Jobs, status'[p] \in Ready, status[p] \notin Ready,
                      NEW c \in Jobs, parent'[c] = p
               PROVE  status'[c] \notin OpenStatuses
    BY DEF ReadyStep, Open
  <2>1. settled[p] # ended[p] /\ settled[p] # "failed"
    BY <1>0, <1>1, <1>6 DEF Ready
  <2>2. newParent[c] = p
    BY <1>8, QueueAssumption
  <2>3. ended[c] \notin OpenStatuses
    BY <1>4, <2>1, <2>2
  <2> QED BY <1>3, <1>6, <2>3 DEF OpenStatuses
<1>11. EndStep
  <2> SUFFICES ASSUME NEW c \in Jobs, Open(c), status'[c] \in Terminal,
                      NEW p \in Jobs, p = parent'[c], status'[p] \in OpenStatuses
               PROVE  <<c, "dead">> \in inbox'[p] \/ <<p, c>> \in silent'
    BY <1>0 DEF EndStep
  <2>1. parent[c] = p /\ p # NoJob
    BY <1>8, QueueAssumption
  <2>2. ended[p] \in OpenStatuses /\ p \notin gone
    BY <1>3, <1>6 DEF OpenStatuses
  <2>3. CASE c = j
    BY <1>4, <1>6, <2>1, <2>2, <2>3
  <2>4. CASE c # j
    <3>1. c \in failed
      BY <1>1, <1>3, <1>6, <2>4 DEF Open, OpenStatuses, Terminal
    <3> HIDE DEF failed
    <3> QED BY <1>2, <2>1, <3>1 DEF LinksOf
  <2> QED BY <2>3, <2>4
<1>12. MailStep
  BY <1>2, <1>4, <1>6 DEF MailStep, Open, OpenStatuses
<1>13. PauseStep
  BY <1>1, <1>3, <1>6 DEF PauseStep
<1> QED BY <1>2, <1>9, <1>10, <1>11, <1>12, <1>13 DEF FamilyStep

(* removeJob                                                               *)
LEMMA RemoveFamily ==
    ASSUME QueueTypeOK, NEW j \in Jobs, RemoveJob(j)
    PROVE  FamilyStep
<1>1. /\ \A i \in Jobs : status'[i] = IF i = j THEN "removed" ELSE status[i]
      /\ \A i \in Jobs : i # j => inbox'[i] = inbox[i]
      /\ parent' = Orphaned(parent, {j}) /\ silent' = silent /\ misread' = misread
  BY DEF RemoveJob, QueueTypeOK
<1>2. LinksStep
  BY <1>1, OrphanedEffect DEF LinksStep, QueueTypeOK
<1>3. ReadyStep /\ EndStep /\ PauseStep
  BY <1>1 DEF ReadyStep, EndStep, PauseStep, Ready, Open, OpenStatuses, Terminal
<1>4. MailStep
  BY <1>1 DEF MailStep, Open, OpenStatuses
<1> QED BY <1>1, <1>2, <1>3, <1>4 DEF FamilyStep


(* claim, failJob with a retry, pauseJob, resumeJob, retryJob and          *)
(* promoteDelayed                                                          *)
LEMMA MovesFamily ==
    ASSUME QueueTypeOK,
           \/ PromoteDelayed
           \/ \E j \in Jobs : \/ ClaimRow(j) \/ RetryJob(j) \/ PauseJob(j) \/ ResumeJob(j)
                              \/ \E t \in Nat : DelayRow(j, t)
    PROVE  FamilyStep
<1>1. CASE PromoteDelayed
  <2>1. /\ parent' = parent /\ silent' = silent /\ inbox' = inbox /\ misread' = misread
        /\ \A i \in Jobs : \/ status'[i] = status[i]
                           \/ status[i] = "delayed" /\ status'[i] = "waiting"
    BY <1>1 DEF PromoteDelayed, Override
  <2> QED BY <2>1, RowsFamily DEF OpenStatuses, Ready
<1>2. ASSUME NEW j \in Jobs,
             \/ ClaimRow(j) \/ PauseJob(j) \/ ResumeJob(j) \/ \E t \in Nat : DelayRow(j, t)
      PROVE  FamilyStep
  <2>1. /\ parent' = parent /\ silent' = silent /\ inbox' = inbox /\ misread' = misread
        /\ \A i \in Jobs : \/ status'[i] = status[i]
                           \/ /\ status'[i] \in OpenStatuses
                              /\ \/ i \in touched'
                                 \/ status[i] \in Ready \cup {"paused"} /\ status'[i] # "paused"
    <3>1. CASE ClaimRow(j)
      BY <3>1 DEF ClaimRow, QueueTypeOK, OpenStatuses, Ready
    <3>2. CASE PauseJob(j)
      BY <3>2 DEF PauseJob, QueueTypeOK, OpenStatuses
    <3>3. CASE ResumeJob(j)
      BY <3>3 DEF ResumeJob, QueueTypeOK, OpenStatuses
    <3>4. CASE \E t \in Nat : DelayRow(j, t)
      BY <3>4 DEF DelayRow, Fenced, QueueTypeOK, OpenStatuses, Ready
    <3> QED BY <1>2, <3>1, <3>2, <3>3, <3>4
  <2> QED BY <2>1, RowsFamily
<1>3. ASSUME NEW j \in Jobs, RetryJob(j) PROVE FamilyStep
  <2>1. /\ parent' = parent /\ inbox' = inbox /\ silent' = {link \in silent : link[2] # j}
        /\ misread' = misread
        /\ status'[j] = "waiting" /\ j \in touched'
        /\ \A i \in Jobs : i # j => status'[i] = status[i]
    BY <1>3 DEF RetryJob, QueueTypeOK
  <2>2. \A p, c \in Jobs : <<p, c>> \in silent => <<p, c>> \in silent' \/ Open(c)'
    BY <2>1 DEF Open, OpenStatuses
  <2> QED BY <2>1, <2>2, RowsFamily DEF OpenStatuses
<1> QED BY <1>1, <1>2, <1>3

(* handleStalled                                                           *)
LEMMA StalledFamily ==
    ASSUME QueueTypeOK, HandleStalled
    PROVE  FamilyStep
<1>1. PICK S \in SUBSET Stalled :
        /\ status' = Override(Override(status, S, "waiting"), {j \in S : OutOfStalls(j)}, "dead")
        /\ silent' = silent \cup LinksOf({j \in S : OutOfStalls(j)})
        /\ parent' = parent /\ inbox' = inbox /\ misread' = misread
  BY DEF HandleStalled
<1> DEFINE dead == {j \in S : OutOfStalls(j)}
<1>2. \A i \in Jobs : i \in dead /\ parent[i] # NoJob => <<parent[i], i>> \in silent'
  <2>1. silent' = silent \cup LinksOf(dead)
    BY <1>1
  <2> HIDE DEF dead
  <2> QED BY <2>1 DEF LinksOf
<1>3. \A i \in Jobs : status'[i] = IF i \in dead THEN "dead"
                                   ELSE IF i \in S THEN "waiting" ELSE status[i]
  BY <1>1 DEF Override
<1>4. \A i \in S : status[i] = "active"
  BY DEF Stalled
<1> HIDE DEF dead
<1>5. \A i \in Jobs :
          \/ status'[i] = status[i]
          \/ status[i] \in Ready /\ status'[i] = "waiting"
          \/ /\ status'[i] \in Terminal
             /\ parent[i] # NoJob => <<parent[i], i>> \in silent'
  BY <1>2, <1>3, <1>4 DEF Terminal, Ready
<1>6. silent \subseteq silent'
  BY <1>1
<1> QED BY <1>1, <1>5, <1>6, RowsFamily DEF OpenStatuses

(* handleQuietHoursDefer: a deferral is by hand, a skip that falls back is *)
(* silent.                                                                 *)
LEMMA GiveBackFamily ==
    ASSUME TypeOK, NEW w \in Workers, GiveBack(w)
    PROVE  FamilyStep
<1>0. QueueTypeOK
  BY DEF TypeOK
<1>1. gate[w] # NoClaim
  BY DEF GiveBack, GateDefer, GateRelease, GateCancel, GateCancelFallback, GateError, NoClaim
<1> DEFINE j == gate[w].job
<1>2. j \in Jobs
  BY <1>1, GateType DEF Claims
<1>3. CASE GateDefer(w)
  <2>1. /\ parent' = parent /\ silent' = silent /\ inbox' = inbox /\ misread' = misread
        /\ \A i \in Jobs : \/ status'[i] = status[i]
                           \/ i \in touched' /\ status'[i] \in OpenStatuses
    BY <1>0, <1>2, <1>3 DEF GateDefer, QueueTypeOK, OpenStatuses
  <2> HIDE DEF j
  <2> QED BY <1>0, <2>1, RowsFamily
<1>4. CASE GateRelease(w) \/ GateError(w)
  BY <1>0, <1>4, IdleFamily DEF GateRelease, GateError, queueVars
<1>5. CASE GateCancel(w)
  BY <1>0, <1>2, <1>5, IdleFamily, EndingsFamily DEF GateCancel, queueVars
<1>6. CASE GateCancelFallback(w)
  <2>1. /\ parent' = parent /\ inbox' = inbox /\ silent \subseteq silent' /\ misread' = misread
        /\ \/ status' = status
           \/ /\ status' = [status EXCEPT ![j] = "cancelled"]
              /\ silent' = silent \cup LinksOf({j})
    BY <1>6 DEF GateCancelFallback
  <2>2. parent[j] # NoJob => <<parent[j], j>> \in LinksOf({j})
    BY DEF LinksOf
  <2> HIDE DEF j
  <2>3. \A i \in Jobs :
            \/ status'[i] = status[i]
            \/ /\ status'[i] \in Terminal
               /\ parent[i] # NoJob => <<parent[i], i>> \in silent'
    BY <1>0, <1>2, <2>1, <2>2 DEF QueueTypeOK, Terminal
  <2> QED BY <1>0, <2>1, <2>3, RowsFamily
<1> QED BY <1>3, <1>4, <1>5, <1>6 DEF GiveBack

(* The outcomes of a handler, its lock timer and its force-evict           *)
LEMMA HandlerFamily ==
    ASSUME TypeOK, NEW r \in runs, Finish(r) \/ Renew(r) \/ ForceEvict(r)
    PROVE  FamilyStep
<1>1. QueueTypeOK /\ r.job \in Jobs /\ r.token \in Nat
  BY RunType DEF TypeOK
<1>2. CASE CompleteRow(r.job, r.token)
  BY <1>1, <1>2, CompleteFamily
<1>3. CASE DelayRow(r.job, r.token)
  BY <1>1, <1>3, MovesFamily
<1>4. CASE KillRow(r.job, r.token)
  BY <1>1, <1>4, KillFamily
<1>5. CASE RenewRow(r.job, r.token) \/ UNCHANGED queueVars
  BY <1>1, <1>5, IdleFamily DEF RenewRow, queueVars
<1> QED BY <1>2, <1>3, <1>4, <1>5 DEF Finish, Complete, Retry, Die, Drop, Renew, ForceEvict

(* Every step of the system is one of these to every parent and child.     *)
LEMMA EveryFamilySteps ==
    ASSUME TypeOK, LocksHeld, LinksGrounded, EndingsInformed, [Next]_vars
    PROVE  FamilyStep
<1>0. QueueTypeOK
  BY DEF TypeOK
<1>1. CASE UNCHANGED vars
  BY <1>0, <1>1, IdleFamily DEF vars, queueVars
<1>2. ASSUME NEW j \in Jobs, Submit(j) PROVE FamilyStep
  BY <1>0, <1>2, AddFamily DEF Submit
<1>3. ASSUME NEW j \in Jobs, Command(j) PROVE FamilyStep
  BY <1>0, <1>3, EndingsFamily, MovesFamily, RemoveFamily DEF Command
<1>4. ASSUME NEW j \in Jobs, NEW d \in Deadlines, Elapse(j, d) PROVE FamilyStep
  BY <1>0, <1>4, IdleFamily DEF Elapse, Passes
<1>5. ASSUME NEW w \in Workers, Claim(w) PROVE FamilyStep
  BY <1>0, <1>5, MovesFamily DEF Claim, ClaimAndLaunch, ClaimAndGate
<1>6. ASSUME NEW w \in Workers, Crash(w) PROVE FamilyStep
  BY <1>0, <1>6, IdleFamily DEF Crash, queueVars
<1>7. CASE Sweep
  BY <1>0, <1>7, EndingsFamily, MovesFamily, StalledFamily DEF Sweep
<1>8. ASSUME NEW e \in ending, Commits(e) PROVE FamilyStep
  BY <1>0, <1>8, CommitFamily DEF Commits
<1> QED BY <1>1, <1>2, <1>3, <1>4, <1>5, <1>6, <1>7, <1>8, GiveBackFamily, HandlerFamily DEF Next

(* What a new transaction knows about its parents stays true while its rows*)
(* are locked: a parent that opens again was brought back.                 *)
LEMMA InformedStep ==
    ASSUME TypeOK, LocksHeld, LinksGrounded, EndingsInformed, [Next]_vars,
           \A i \in Jobs : RowStep(i)
    PROVE  EndingsInformed'
<1>0. QueueTypeOK
  BY DEF TypeOK
<1>1. ASSUME NEW e \in ending, \A c \in e.rows : parent'[c] = parent[c]
      PROVE  Informed(e)'
  <2>0. Informed(e) /\ e.rows \in SUBSET Jobs
    BY <1>0, EndingFields DEF EndingsInformed
  <2>1. e.asleep \subseteq {p \in Jobs : \E c \in e.rows : parent'[c] = p}
    BY <1>1, <2>0 DEF Informed
  <2>2. ASSUME NEW c \in e.rows, parent'[c] # NoJob, status'[parent'[c]] \in OpenStatuses,
               parent'[c] \notin touched'
        PROVE  parent'[c] \in e.told \cup e.rows
    <3>1. parent'[c] = parent[c]
      BY <1>1
    <3>2. parent[c] \in Jobs /\ status[parent[c]] # "absent"
      BY <1>0, <2>0, <2>2, <3>1 DEF QueueTypeOK, LinksGrounded
    <3>3. Open(parent[c]) /\ parent[c] \notin touched
      BY <2>2, <3>1, <3>2, OpenSince DEF Open
    <3> QED BY <2>0, <2>2, <3>1, <3>3 DEF Informed
  <2> QED BY <2>1, <2>2 DEF Informed, Open
<1>2. CASE \E e \in ending : Commits(e)
  <2>1. PICK e \in ending : EndCommit(e)
    BY <1>2 DEF Commits
  <2>2. ending' \subseteq ending /\ parent' = parent
    BY <2>1 DEF EndCommit
  <2> QED BY <1>1, <2>2 DEF EndingsInformed
<1>3. CASE ~ \E e \in ending : Commits(e)
  <2>1. \A e \in ending : \A c \in e.rows : parent'[c] = parent[c]
    BY <1>3, LocksKept DEF Untouched, Locked
  <2>2. CASE ending' = ending
    BY <1>1, <2>1, <2>2 DEF EndingsInformed
  <2>3. ASSUME NEW S \in SUBSET Jobs, NEW why \in {"timeout", "cancelled"}, EndBegin(S, why)
        PROVE  EndingsInformed'
    <3> DEFINE P == ParentsOf(S) \ S
               waiting == {p \in P : status[p] = "waiting-children"}
               told == {p \in P : Open(p)}
               begun == [rows |-> S, why |-> why, told |-> told,
                         asleep |-> waiting, seen |-> OpenLinks(waiting, S)]
    <3>1. ending' = ending \cup {begun} /\ UNCHANGED <<status, parent, touched>>
      BY <2>3 DEF EndBegin
    <3>2. begun.rows = S /\ begun.asleep = waiting /\ begun.told = told
      OBVIOUS
    <3>3. waiting \subseteq {p \in Jobs : \E c \in S : parent[c] = p}
      BY DEF ParentsOf
    <3>4. ASSUME NEW c \in S, parent[c] # NoJob, Open(parent[c])
          PROVE  parent[c] \in told \cup S
      <4>1. parent[c] \in ParentsOf(S)
        BY <1>0, <3>4 DEF ParentsOf, QueueTypeOK
      <4> QED BY <3>4, <4>1
    <3>5. PICK d : d = begun
      OBVIOUS
    <3> HIDE DEF begun, waiting, told
    <3>6. Informed(d)
      BY <3>2, <3>3, <3>4, <3>5 DEF Informed
    <3>7. Informed(d)'
      BY <3>1, <3>6 DEF Informed, Open
    <3> QED BY <1>1, <2>1, <3>1, <3>5, <3>7 DEF EndingsInformed
  <2> QED BY <1>3, <2>2, <2>3, LocksKept
<1> QED BY <1>2, <1>3

-----------------------------------------------------------------------------
(* The theorems.                                                           *)

(* The empty table has no families.                                        *)
LEMMA FamilyInit == Init => Family
<1> SUFFICES ASSUME Init PROVE Family
  OBVIOUS
<1>1. /\ \A j \in Jobs : status[j] = "absent" /\ parent[j] = NoJob
      /\ opts \in [Jobs -> {CHOOSE o \in Options : TRUE}]
  BY DEF Init, QueueInit
<1>2. LinksGrounded /\ PausedByHand /\ ChildrenFirst /\ ChildDonePosted /\ EndingsInformed
  BY <1>1 DEF Init, QueueInit, LinksGrounded, PausedByHand, ChildrenFirst, ChildDonePosted,
              EndingsInformed
<1>3. ASSUME NEW p \in Jobs
      PROVE  /\ IsFiniteSet(ChildrenOf(p))
             /\ opts[p].cap # 0 => Cardinality(LiveChildren(p) \ touched) <= opts[p].cap
  <2>1. p # NoJob /\ opts[p] \in JobOptions
    BY <1>1, QueueAssumption
  <2>2. ChildrenOf(p) = {} /\ LiveChildren(p) \ touched = {}
    BY <1>1, <2>1 DEF ChildrenOf, LiveChildren
  <2>3. IsFiniteSet({}) /\ Cardinality({}) = 0
    BY FS_EmptySet
  <2> QED BY <2>1, <2>2, <2>3 DEF JobOptions
<1> QED BY <1>2, <1>3 DEF Family, CapKept

(* Every step keeps the six invariants together.                           *)
LEMMA FamilyKept ==
    TypeOK /\ TypeOK' /\ Fencing /\ Family /\ [Next]_vars => Family'
<1> SUFFICES ASSUME TypeOK, TypeOK', Fencing, Family, [Next]_vars PROVE Family'
  OBVIOUS
<1>1. QueueTypeOK /\ LinksGrounded /\ PausedByHand /\ EndingsInformed /\ LocksHeld
  BY DEF TypeOK, Family, Fencing
<1>2. \A i \in Jobs : RowStep(i)
  BY EveryRowSteps DEF Fencing
<1>3. FamilyStep /\ LinksStep /\ PauseStep
  BY <1>1, EveryFamilySteps DEF FamilyStep
<1>4. LinksGrounded' /\ PausedByHand'
  BY <1>1, <1>2, <1>3, LinksGroundedStep, PausedByHandStep
<1>5. ChildrenFirst' /\ ChildDonePosted' /\ CapKept'
  BY <1>1, <1>2, <1>3, ChildrenFirstStep, ChildDonePostedStep, CapKeptStep
<1>6. EndingsInformed'
  BY <1>1, <1>2, InformedStep
<1> QED BY <1>4, <1>5, <1>6 DEF Family

(* The inductive invariant, from the types and the token fence.            *)
LEMMA FamilyHolds == Spec => []Family
<1> QED BY TypeCorrect, FencingHolds, FamilyInit, FamilyKept, PTL DEF Spec

(* A parent runs only when its children have ended, unless an operator or  *)
(* a deferral moved one of them, or a cancelJob or a timeout sweep woke it *)
(* on a snapshot out of date: whatever is claimed, promoted, completed or  *)
(* failed in between, add and the locked endings keep it.                  *)
THEOREM ParentsRunLast == Spec => []ParentRunsLast
<1>1. Family => ParentRunsLast
  BY DEF Family, ChildrenFirst, ParentRunsLast, Ready
<1> QED BY <1>1, FamilyHolds, PTL

(* An open parent has a child_done message from every child that ended,    *)
(* but those that ended in silence.                                        *)
THEOREM EndsArePosted == Spec => []ChildDonePosted
<1>1. Family => ChildDonePosted
  BY DEF Family
<1> QED BY <1>1, FamilyHolds, PTL

(* max_children holds of the open children, however many submissions,      *)
(* endings and deletions come between, unless one of them was brought back.*)
THEOREM CapsHold == Spec => []LiveChildrenCapped
<1>1. Family => LiveChildrenCapped
  <2> SUFFICES ASSUME Family, NEW p \in Jobs, opts[p].cap # 0, LiveChildren(p) \cap touched = {}
               PROVE  Cardinality(LiveChildren(p)) <= opts[p].cap
    BY DEF LiveChildrenCapped
  <2>1. LiveChildren(p) \ touched = LiveChildren(p)
    OBVIOUS
  <2>2. Cardinality(LiveChildren(p) \ touched) <= opts[p].cap
    BY DEF Family, CapKept
  <2> QED BY <2>1, <2>2
<1> QED BY <1>1, FamilyHolds, PTL

-----------------------------------------------------------------------------
(* Waiting parents.                                                        *)

(* A waiting parent and what it waits for: an open child, or one that      *)
(* ended in silence and is still its child, or whose row is gone.          *)
WaitsFor(p, c) ==
    \/ parent[c] = p /\ Open(c)
    \/ <<p, c>> \in silent /\ (parent[c] = p \/ status[c] = "removed")

Expected ==
    /\ \A j \in Jobs : status[j] = "absent" => parent[j] = NoJob
    /\ \A p \in Jobs : status[p] = "waiting-children" /\ p \notin misread =>
                          \E c \in Jobs : WaitsFor(p, c)

-----------------------------------------------------------------------------
(* A parent that resolveParent was asked about, and left waiting, has an   *)
(* open child.                                                             *)
LEMMA ResolvedWaits ==
    ASSUME NEW f \in [Jobs -> Statuses], NEW g, NEW P, NEW p \in Jobs, p \in P,
           Resolved(f, g, P)[p] = "waiting-children"
    PROVE  \E c \in Jobs : g[c] = p /\ Resolved(f, g, P)[c] \in OpenStatuses
BY DEF Resolved, OpenStatuses

(* Deleting a row that is neither c nor its parent leaves c its parent.    *)
LEMMA OrphanedKeeps ==
    ASSUME NEW f \in [Jobs -> Jobs \cup {NoJob}], NEW gone, NEW c \in Jobs
    PROVE  /\ c \notin gone /\ f[c] \notin gone => Orphaned(f, gone)[c] = f[c]
           /\ f[c] = NoJob => Orphaned(f, gone)[c] = NoJob
BY DEF Orphaned

(* Steps that move rows one by one: each row stays, goes to an open status *)
(* other than waiting-children, or ends in silence.                        *)
LEMMA RowsWait ==
    ASSUME QueueTypeOK, Expected, parent' = parent, misread' = misread,
           \A i \in Jobs :
               \/ status'[i] = status[i]
               \/ /\ status[i] # "removed"
                  /\ status'[i] \in OpenStatuses \ {"waiting-children"}
               \/ /\ status[i] # "removed" /\ status'[i] \in Terminal
                  /\ parent[i] # NoJob => <<parent[i], i>> \in silent',
           \A p, c \in Jobs :
               <<p, c>> \in silent => <<p, c>> \in silent' \/ status'[c] \in OpenStatuses
    PROVE  Expected'
<1>1. ASSUME NEW i \in Jobs, status'[i] = "absent" PROVE parent'[i] = NoJob
  BY <1>1 DEF Expected, OpenStatuses, Terminal
<1>2. ASSUME NEW p \in Jobs, status'[p] = "waiting-children", p \notin misread'
      PROVE  \E c \in Jobs : WaitsFor(p, c)'
  <2>1. status[p] = "waiting-children" /\ p \notin misread
    BY <1>2 DEF Terminal
  <2>2. PICK c \in Jobs : WaitsFor(p, c)
    BY <2>1 DEF Expected
  <2>3. p # NoJob
    BY QueueAssumption
  <2>4. WaitsFor(p, c)'
    BY <2>2, <2>3 DEF WaitsFor, Open, OpenStatuses
  <2> QED BY <2>4
<1> QED BY <1>1, <1>2 DEF Expected

(* Steps that touch neither statuses nor the tree.                         *)
LEMMA StillWait ==
    ASSUME Expected, UNCHANGED <<status, parent, silent, misread>>
    PROVE  Expected'
BY DEF Expected, WaitsFor, Open

(* add                                                                     *)
LEMMA AddWaits ==
    ASSUME QueueTypeOK, Expected, NEW j \in Jobs, NEW p \in Jobs \cup {NoJob}, NEW o \in Options,
           NEW first \in {"waiting", "delayed"}, Add(j, p, o, first)
    PROVE  Expected'
<1>1. /\ status[j] = "absent" /\ status'[j] = first
      /\ parent[j] = NoJob /\ parent' = [parent EXCEPT ![j] = p] /\ silent' = silent
      /\ misread' = misread
  BY DEF Add, Expected
<1>2. ASSUME NEW i \in Jobs, i # j
      PROVE  /\ parent'[i] = parent[i]
             /\ \/ status'[i] = status[i]
                \/ i = p /\ status[i] \in OpenStatuses /\ status'[i] = "waiting-children"
  BY <1>2 DEF Add, QueueTypeOK, OpenStatuses
<1>3. parent'[j] = p
  BY <1>1 DEF QueueTypeOK
<1>4. ASSUME NEW i \in Jobs, status'[i] = "absent" PROVE parent'[i] = NoJob
  BY <1>1, <1>2, <1>4 DEF Expected
<1>5. ASSUME NEW q \in Jobs, status'[q] = "waiting-children", q \notin misread'
      PROVE  \E c \in Jobs : WaitsFor(q, c)'
  <2>0. q # j
    BY <1>1, <1>5
  <2>1. CASE q = p
    <3>1. WaitsFor(q, j)'
      BY <1>1, <1>3, <2>1 DEF WaitsFor, Open, OpenStatuses
    <3> QED BY <3>1
  <2>2. CASE q # p
    <3>1. status[q] = "waiting-children" /\ q \notin misread
      BY <1>1, <1>2, <1>5, <2>0, <2>2
    <3>2. PICK c \in Jobs : WaitsFor(q, c)
      BY <3>1 DEF Expected
    <3>3. q # NoJob
      BY QueueAssumption
    <3>4. c # j
      BY <1>1, <3>2, <3>3 DEF WaitsFor
    <3>5. parent'[c] = parent[c] /\ (Open(c) => Open(c)') /\ (status[c] = "removed" => status'[c] = "removed")
      BY <1>2, <3>4 DEF Open, OpenStatuses
    <3>6. WaitsFor(q, c)'
      BY <1>1, <3>2, <3>5 DEF WaitsFor
    <3> QED BY <3>6
  <2> QED BY <2>1, <2>2
<1> QED BY <1>4, <1>5 DEF Expected

(* cancelJob and the two timeout sweeps commit: a parent they leave waiting*)
(* has another open child, or they misread it.                             *)
LEMMA CommitWaits ==
    ASSUME QueueTypeOK, LocksHeld, Expected, NEW e \in ending, EndCommit(e)
    PROVE  Expected'
<1>1. /\ \A i \in Jobs : status'[i] = IF i \in Woken(e) THEN "waiting"
                                      ELSE IF i \in e.rows THEN EndOf(e.why) ELSE status[i]
      /\ \A i \in Woken(e) : status[i] = "waiting-children"
      /\ EndOf(e.why) \in {"dead", "cancelled"}
  BY EndCommitEffect, EndingFields
<1>2. /\ parent' = parent /\ silent' = silent /\ misread' = misread \cup Misread(e)
  BY DEF EndCommit
<1>3. ASSUME NEW i \in Jobs, status'[i] = "absent" PROVE parent'[i] = NoJob
  BY <1>1, <1>2, <1>3 DEF Expected
<1>4. ASSUME NEW c \in Jobs, Open(c), c \notin e.rows PROVE Open(c)'
  BY <1>1, <1>4 DEF Open, OpenStatuses
<1>5. ASSUME NEW p \in Jobs, status'[p] = "waiting-children", p \notin misread'
      PROVE  \E c \in Jobs : WaitsFor(p, c)'
  <2>0. /\ status[p] = "waiting-children" /\ p \notin e.rows
        /\ p \notin Woken(e) /\ p \notin Misread(e) /\ p \notin misread
    BY <1>1, <1>2, <1>5
  <2>1. CASE p \in ParentsOf(e.rows)
    <3>1. p \in e.asleep /\ {link \in e.seen : link[1] = p} = OpenLinks({p}, e.rows)
      BY <2>0, <2>1 DEF Misread
    <3>2. PICK link \in e.seen : link[1] = p
      BY <2>0, <3>1 DEF Woken
    <3>3. link \in OpenLinks({p}, e.rows)
      BY <3>1, <3>2
    <3>4. link[2] \in Jobs \ e.rows /\ parent[link[2]] = p /\ Open(link[2])
      BY <3>3 DEF OpenLinks
    <3>5. WaitsFor(p, link[2])'
      BY <1>2, <1>4, <3>4 DEF WaitsFor
    <3> QED BY <3>4, <3>5
  <2>2. CASE p \notin ParentsOf(e.rows)
    <3>1. PICK c \in Jobs : WaitsFor(p, c)
      BY <2>0 DEF Expected
    <3>2. c \notin e.rows
      BY <2>2, <3>1 DEF WaitsFor, ParentsOf, LocksHeld, Open, OpenStatuses
    <3>3. status[c] = "removed" => status'[c] = "removed"
      BY <1>1, <3>2
    <3>4. WaitsFor(p, c)'
      BY <1>2, <1>4, <3>1, <3>2, <3>3 DEF WaitsFor
    <3> QED BY <3>4
  <2> QED BY <2>1, <2>2
<1> QED BY <1>3, <1>5 DEF Expected

(* completeJob                                                             *)
LEMMA CompleteWaits ==
    ASSUME QueueTypeOK, Expected, NEW j \in Jobs, NEW t, CompleteRow(j, t)
    PROVE  Expected'
<1> DEFINE ended == Override(status, {j}, "completed")
           P == ParentsOf({j})
           settled == Resolved(ended, parent, P)
           gone == IF opts[j].remove = "on_complete" THEN {j} ELSE {}
<1>1. /\ ended \in [Jobs -> Statuses]
      /\ \A i \in Jobs : ended[i] = IF i = j THEN "completed" ELSE status[i]
  BY OverrideType, StatusNames DEF QueueTypeOK
<1>2. /\ settled \in [Jobs -> Statuses]
      /\ \A i \in Jobs : \/ settled[i] = ended[i]
                         \/ ended[i] = "waiting-children" /\ settled[i] = "waiting"
  <2> HIDE DEF ended, P
  <2>1. /\ Resolved(ended, parent, P) \in [Jobs -> Statuses]
        /\ \A k \in Jobs :
              \/ Resolved(ended, parent, P)[k] = ended[k]
              \/ ended[k] = "waiting-children" /\ Resolved(ended, parent, P)[k] = "waiting"
    BY <1>1, ResolvedEffect
  <2> QED BY <2>1
<1>3. /\ status' = Override(settled, gone, "removed")
      /\ parent' = Orphaned(parent, gone) /\ silent' = silent /\ misread' = misread
  BY DEF CompleteRow
<1>4. \A i \in Jobs : status'[i] = IF i \in gone THEN "removed" ELSE settled[i]
  <2> HIDE DEF settled, gone
  <2> QED BY <1>2, <1>3, OverrideType, StatusNames
<1>5. status[j] = "active" /\ gone \subseteq {j}
  BY DEF CompleteRow, Completable, Fenced
<1>6. \A c \in Jobs : /\ c \notin gone /\ parent[c] \notin gone => parent'[c] = parent[c]
                      /\ parent[c] = NoJob => parent'[c] = NoJob
  <2>1. parent \in [Jobs -> Jobs \cup {NoJob}]
    BY DEF QueueTypeOK
  <2> HIDE DEF gone
  <2> QED BY <1>3, <2>1, OrphanedKeeps
<1>7. ASSUME NEW i \in Jobs, status'[i] = "absent" PROVE parent'[i] = NoJob
  <2>1. settled[i] = "absent"
    BY <1>4, <1>7
  <2>2. status[i] = "absent"
    BY <1>1, <1>2, <2>1
  <2> QED BY <1>6, <2>2 DEF Expected
<1>8. ASSUME NEW p \in Jobs, status'[p] = "waiting-children", p \notin misread'
      PROVE  \E c \in Jobs : WaitsFor(p, c)'
  <2>0. settled[p] = "waiting-children" /\ p # j /\ p \notin misread
    BY <1>1, <1>2, <1>3, <1>4, <1>5, <1>8
  <2>1. CASE p \in P
    <3>1. PICK c \in Jobs : parent[c] = p /\ settled[c] \in OpenStatuses
      <4> HIDE DEF ended, P
      <4> QED BY <1>1, <2>0, <2>1, ResolvedWaits
    <3>2. c # j
      BY <1>1, <1>2, <3>1 DEF OpenStatuses
    <3>3. parent'[c] = p /\ status'[c] \in OpenStatuses
      BY <1>4, <1>5, <1>6, <2>0, <3>1, <3>2
    <3> QED BY <3>3 DEF WaitsFor, Open
  <2>2. CASE p \notin P
    <3>1. status[p] = "waiting-children"
      BY <1>1, <1>2, <2>0
    <3>2. PICK c \in Jobs : WaitsFor(p, c)
      BY <2>0, <3>1 DEF Expected
    <3>3. c # j
      BY <1>5, <2>2, <3>2 DEF WaitsFor, ParentsOf
    <3>4. \/ status'[c] = status[c]
          \/ status[c] = "waiting-children" /\ status'[c] = "waiting"
      BY <1>1, <1>2, <1>4, <1>5, <3>3
    <3>5. parent[c] = p => parent'[c] = p
      BY <1>5, <1>6, <2>0, <3>3
    <3>6. WaitsFor(p, c)'
      BY <1>3, <3>2, <3>4, <3>5 DEF WaitsFor, Open, OpenStatuses
    <3> QED BY <3>6
  <2> QED BY <2>1, <2>2
<1> QED BY <1>7, <1>8 DEF Expected

(* failJob, the end: each policy either gives the parent another child to  *)
(* wait for, or moves it on.                                               *)
LEMMA KillWaits ==
    ASSUME QueueTypeOK, Expected, NEW j \in Jobs, NEW t, KillRow(j, t)
    PROVE  Expected'
<1> DEFINE ended == Override(status, {j}, "dead")
           newParent == IF opts[j].policy = "remove_dep" THEN [parent EXCEPT ![j] = NoJob]
                                                         ELSE parent
           P == ParentsOf({j})
           settled == AfterChildFailed(ended, newParent, j)
           gone == IF opts[j].remove = "on_fail" THEN {j} ELSE {}
           failed == {p \in Jobs : settled[p] = "failed" /\ status[p] # "failed"}
<1>1. /\ ended \in [Jobs -> Statuses]
      /\ \A i \in Jobs : ended[i] = IF i = j THEN "dead" ELSE status[i]
  BY OverrideType, StatusNames DEF QueueTypeOK
<1>2. /\ settled \in [Jobs -> Statuses]
      /\ \A i \in Jobs : \/ settled[i] = ended[i]
                         \/ /\ ended[i] = "waiting-children"
                            /\ settled[i] \in {"waiting", "failed"}
  <2> HIDE DEF ended, newParent
  <2>1. /\ AfterChildFailed(ended, newParent, j) \in [Jobs -> Statuses]
        /\ \A k \in Jobs :
              \/ AfterChildFailed(ended, newParent, j)[k] = ended[k]
              \/ /\ ended[k] = "waiting-children"
                 /\ AfterChildFailed(ended, newParent, j)[k] \in {"waiting", "failed"}
    BY <1>1, AfterChildFailedEffect
  <2> QED BY <2>1
<1>3. /\ status' = Override(settled, gone, "removed")
      /\ parent' = Orphaned(newParent, gone) /\ silent' = silent \cup LinksOf(failed)
      /\ misread' = misread
  BY DEF KillRow
<1>4. \A i \in Jobs : status'[i] = IF i \in gone THEN "removed" ELSE settled[i]
  <2> HIDE DEF settled, gone
  <2> QED BY <1>2, <1>3, OverrideType, StatusNames
<1>5. status[j] = "active" /\ gone \subseteq {j}
  BY DEF KillRow, Fenced
<1>6. /\ newParent \in [Jobs -> Jobs \cup {NoJob}]
      /\ \A c \in Jobs : c # j => newParent[c] = parent[c]
      /\ newParent[j] \in {parent[j], NoJob}
  BY DEF QueueTypeOK
<1>7. \A c \in Jobs : /\ c \notin gone /\ newParent[c] \notin gone => parent'[c] = newParent[c]
                      /\ newParent[c] = NoJob => parent'[c] = NoJob
  <2> HIDE DEF gone, newParent
  <2> QED BY <1>3, <1>6, OrphanedKeeps
<1>8. \A c \in Jobs : c \in failed /\ parent[c] # NoJob => <<parent[c], c>> \in silent'
  <2> HIDE DEF failed
  <2> QED BY <1>3 DEF LinksOf
<1>9. ASSUME NEW i \in Jobs, status'[i] = "absent" PROVE parent'[i] = NoJob
  <2>1. settled[i] = "absent"
    BY <1>4, <1>9
  <2>2. status[i] = "absent" /\ i # j
    BY <1>1, <1>2, <1>5, <2>1
  <2>3. newParent[i] = NoJob
    BY <1>6, <2>2 DEF Expected
  <2> QED BY <1>7, <2>3
<1>10. ASSUME NEW p \in Jobs, status'[p] = "waiting-children", p \notin misread'
       PROVE  \E c \in Jobs : WaitsFor(p, c)'
  <2>0. settled[p] = "waiting-children" /\ p # j /\ p \notin misread
    BY <1>1, <1>2, <1>3, <1>4, <1>5, <1>10
  <2>1. CASE p \in P
    <3>1. opts[j].policy # "fail_parent"
      BY <2>0, <2>1 DEF AfterChildFailed
    <3>2. settled = Resolved(ended, newParent, P)
      BY <3>1 DEF AfterChildFailed
    <3>3. PICK c \in Jobs : newParent[c] = p /\ settled[c] \in OpenStatuses
      <4> HIDE DEF ended, newParent, P, settled
      <4> QED BY <1>1, <2>0, <2>1, <3>2, ResolvedWaits
    <3>4. c # j
      BY <1>1, <1>2, <3>3 DEF OpenStatuses
    <3>5. parent'[c] = p /\ status'[c] \in OpenStatuses
      BY <1>4, <1>5, <1>7, <2>0, <3>3, <3>4
    <3> QED BY <3>5 DEF WaitsFor, Open
  <2>2. CASE p \notin P
    <3>1. status[p] = "waiting-children"
      BY <1>1, <1>2, <2>0
    <3>2. PICK c \in Jobs : WaitsFor(p, c)
      BY <2>0, <3>1 DEF Expected
    <3>3. c # j
      BY <1>5, <2>2, <3>2 DEF WaitsFor, ParentsOf
    <3>4. \/ status'[c] = status[c]
          \/ status[c] = "waiting-children" /\ status'[c] = "waiting"
          \/ status[c] = "waiting-children" /\ c \in failed
      BY <1>1, <1>2, <1>4, <1>5, <3>3
    <3>5. parent[c] = p => parent'[c] = p
      BY <1>5, <1>6, <1>7, <2>0, <3>3
    <3>6. p # NoJob /\ silent \subseteq silent'
      BY <1>3, QueueAssumption
    <3> HIDE DEF failed
    <3>7. WaitsFor(p, c)'
      BY <1>8, <3>2, <3>4, <3>5, <3>6 DEF WaitsFor, Open, OpenStatuses
    <3> QED BY <3>7
  <2> QED BY <2>1, <2>2
<1> QED BY <1>9, <1>10 DEF Expected

(* removeJob                                                               *)
LEMMA RemoveWaits ==
    ASSUME QueueTypeOK, Expected, NEW j \in Jobs, RemoveJob(j)
    PROVE  Expected'
<1>1. /\ status[j] \in Terminal /\ status' = [status EXCEPT ![j] = "removed"]
      /\ parent' = Orphaned(parent, {j}) /\ silent' = silent /\ misread' = misread
  BY DEF RemoveJob
<1>2. \A c \in Jobs : /\ c # j /\ parent[c] # j => parent'[c] = parent[c]
                      /\ parent[c] = NoJob => parent'[c] = NoJob
  BY <1>1, OrphanedKeeps DEF QueueTypeOK
<1>3. \A i \in Jobs : status'[i] = IF i = j THEN "removed" ELSE status[i]
  BY <1>1 DEF QueueTypeOK
<1>4. ASSUME NEW i \in Jobs, status'[i] = "absent" PROVE parent'[i] = NoJob
  BY <1>2, <1>3, <1>4 DEF Expected
<1>5. ASSUME NEW p \in Jobs, status'[p] = "waiting-children", p \notin misread'
      PROVE  \E c \in Jobs : WaitsFor(p, c)'
  <2>1. status[p] = "waiting-children" /\ p # j /\ p \notin misread
    BY <1>1, <1>3, <1>5
  <2>2. PICK c \in Jobs : WaitsFor(p, c)
    BY <2>1 DEF Expected
  <2>3. Open(c) => c # j
    BY <1>1 DEF Open, OpenStatuses, Terminal
  <2>4. WaitsFor(p, c)'
    BY <1>1, <1>2, <1>3, <2>1, <2>2, <2>3 DEF WaitsFor, Open
  <2> QED BY <2>4
<1> QED BY <1>4, <1>5 DEF Expected

(* claim, failJob with a retry, pauseJob, resumeJob, retryJob and          *)
(* promoteDelayed: the rows they move are open ones, or become open.       *)
LEMMA MovesWait ==
    ASSUME QueueTypeOK, Expected,
           \/ PromoteDelayed
           \/ \E j \in Jobs : \/ ClaimRow(j) \/ RetryJob(j) \/ PauseJob(j) \/ ResumeJob(j)
                              \/ \E t \in Nat : DelayRow(j, t)
    PROVE  Expected'
<1>1. CASE PromoteDelayed
  <2>1. /\ parent' = parent /\ silent' = silent /\ misread' = misread
        /\ \A i \in Jobs : \/ status'[i] = status[i]
                           \/ status[i] = "delayed" /\ status'[i] = "waiting"
    BY <1>1 DEF PromoteDelayed, Override
  <2> QED BY <2>1, RowsWait DEF OpenStatuses
<1>2. ASSUME NEW j \in Jobs,
             \/ ClaimRow(j) \/ PauseJob(j) \/ ResumeJob(j) \/ \E t \in Nat : DelayRow(j, t)
      PROVE  Expected'
  <2>1. /\ parent' = parent /\ silent' = silent /\ misread' = misread
        /\ \A i \in Jobs : \/ status'[i] = status[i]
                           \/ /\ status[i] # "removed"
                              /\ status'[i] \in OpenStatuses \ {"waiting-children"}
    BY <1>2 DEF ClaimRow, PauseJob, ResumeJob, DelayRow, Fenced, QueueTypeOK, OpenStatuses
  <2> QED BY <2>1, RowsWait
<1>3. ASSUME NEW j \in Jobs, RetryJob(j) PROVE Expected'
  <2>1. /\ parent' = parent /\ silent' = {link \in silent : link[2] # j} /\ misread' = misread
        /\ status[j] # "removed" /\ status'[j] = "waiting"
        /\ \A i \in Jobs : i # j => status'[i] = status[i]
    BY <1>3 DEF RetryJob, QueueTypeOK
  <2>2. \A p, c \in Jobs : <<p, c>> \in silent => <<p, c>> \in silent' \/ status'[c] \in OpenStatuses
    BY <2>1 DEF OpenStatuses
  <2>3. \A i \in Jobs : \/ status'[i] = status[i]
                        \/ /\ status[i] # "removed"
                           /\ status'[i] \in OpenStatuses \ {"waiting-children"}
    BY <2>1 DEF OpenStatuses
  <2> QED BY <2>1, <2>2, <2>3, RowsWait
<1> QED BY <1>1, <1>2, <1>3

(* handleStalled                                                           *)
LEMMA StalledWaits ==
    ASSUME QueueTypeOK, Expected, HandleStalled
    PROVE  Expected'
<1>1. PICK S \in SUBSET Stalled :
        /\ status' = Override(Override(status, S, "waiting"), {j \in S : OutOfStalls(j)}, "dead")
        /\ silent' = silent \cup LinksOf({j \in S : OutOfStalls(j)})
        /\ parent' = parent /\ misread' = misread
  BY DEF HandleStalled
<1> DEFINE dead == {j \in S : OutOfStalls(j)}
<1>2. \A i \in Jobs : i \in dead /\ parent[i] # NoJob => <<parent[i], i>> \in silent'
  <2>1. silent' = silent \cup LinksOf(dead)
    BY <1>1
  <2> HIDE DEF dead
  <2> QED BY <2>1 DEF LinksOf
<1>3. \A i \in Jobs : status'[i] = IF i \in dead THEN "dead"
                                   ELSE IF i \in S THEN "waiting" ELSE status[i]
  BY <1>1 DEF Override
<1>4. \A i \in S : status[i] = "active"
  BY DEF Stalled
<1>5. \A i \in Jobs :
          \/ status'[i] = status[i]
          \/ /\ status[i] # "removed"
             /\ status'[i] \in OpenStatuses \ {"waiting-children"}
          \/ /\ status[i] # "removed" /\ status'[i] \in Terminal
             /\ parent[i] # NoJob => <<parent[i], i>> \in silent'
  <2> TAKE i \in Jobs
  <2>1. CASE i \in dead
    <3>1. status[i] = "active" /\ status'[i] = "dead"
      BY <1>3, <1>4, <2>1
    <3> HIDE DEF dead
    <3> QED BY <1>2, <2>1, <3>1 DEF Terminal
  <2>2. CASE i \notin dead
    <3> HIDE DEF dead
    <3> QED BY <1>3, <1>4, <2>2 DEF OpenStatuses
  <2> QED BY <2>1, <2>2
<1>6. parent' = parent /\ silent \subseteq silent' /\ misread' = misread
  BY <1>1
<1> QED BY <1>5, <1>6, RowsWait

(* handleTimeouts, handleWallClockTimeouts and cancelJob begin             *)
LEMMA EndingsWait ==
    ASSUME Expected,
           \/ HandleTimeouts \/ HandleWallClockTimeouts
           \/ \E j \in Jobs : CancelJob(j)
    PROVE  Expected'
BY StillWait DEF HandleTimeouts, HandleWallClockTimeouts, CancelJob, EndBegin

(* handleQuietHoursDefer.  A deferral needs no care for the parent: the    *)
(* job is open again.                                                      *)
LEMMA GiveBackWaits ==
    ASSUME TypeOK, Expected, NEW w \in Workers, GiveBack(w)
    PROVE  Expected'
<1>0. QueueTypeOK
  BY DEF TypeOK
<1>1. gate[w] # NoClaim
  BY DEF GiveBack, GateDefer, GateRelease, GateCancel, GateCancelFallback, GateError, NoClaim
<1>2. gate[w].job \in Jobs
  BY <1>1, GateType DEF Claims
<1> DEFINE j == gate[w].job
<1>3. CASE GateDefer(w)
  <2>1. /\ parent' = parent /\ silent' = silent /\ misread' = misread
        /\ \A i \in Jobs : \/ status'[i] = status[i]
                           \/ /\ status[i] # "removed"
                              /\ status'[i] \in OpenStatuses \ {"waiting-children"}
    BY <1>0, <1>2, <1>3 DEF GateDefer, Holds, QueueTypeOK, OpenStatuses
  <2> QED BY <1>0, <2>1, RowsWait
<1>4. CASE GateRelease(w) \/ GateError(w)
  BY <1>4, StillWait DEF GateRelease, GateError, queueVars
<1>5. CASE GateCancel(w)
  BY <1>0, <1>2, <1>5, StillWait, EndingsWait DEF GateCancel, queueVars
<1>6. CASE GateCancelFallback(w)
  <2>1. /\ parent' = parent /\ silent \subseteq silent' /\ misread' = misread
        /\ \/ status' = status
           \/ /\ status[j] # "removed" /\ status' = [status EXCEPT ![j] = "cancelled"]
              /\ silent' = silent \cup LinksOf({j})
    BY <1>6 DEF GateCancelFallback
  <2>2. parent[j] # NoJob => <<parent[j], j>> \in LinksOf({j})
    BY DEF LinksOf
  <2> HIDE DEF j
  <2>3. j \in Jobs
    BY <1>2 DEF j
  <2>4. \A i \in Jobs :
            \/ status'[i] = status[i]
            \/ /\ status[i] # "removed" /\ status'[i] \in Terminal
               /\ parent[i] # NoJob => <<parent[i], i>> \in silent'
    BY <1>0, <2>1, <2>2, <2>3 DEF QueueTypeOK, Terminal
  <2> QED BY <1>0, <2>1, <2>4, RowsWait
<1> QED BY <1>3, <1>4, <1>5, <1>6 DEF GiveBack

(* The outcomes of a handler, its lock timer and its force-evict           *)
LEMMA HandlerWaits ==
    ASSUME TypeOK, Expected, NEW r \in runs, Finish(r) \/ Renew(r) \/ ForceEvict(r)
    PROVE  Expected'
<1>1. QueueTypeOK /\ r.job \in Jobs /\ r.token \in Nat
  BY RunType DEF TypeOK
<1>2. CASE CompleteRow(r.job, r.token)
  BY <1>1, <1>2, CompleteWaits
<1>3. CASE DelayRow(r.job, r.token)
  BY <1>1, <1>3, MovesWait
<1>4. CASE KillRow(r.job, r.token)
  BY <1>1, <1>4, KillWaits
<1>5. CASE RenewRow(r.job, r.token) \/ UNCHANGED queueVars
  BY <1>5, StillWait DEF RenewRow, queueVars
<1> QED BY <1>2, <1>3, <1>4, <1>5 DEF Finish, Complete, Retry, Die, Drop, Renew, ForceEvict

(* Every step leaves every waiting parent something to wait for.           *)
LEMMA ExpectedStep ==
    ASSUME TypeOK, LocksHeld, Expected, [Next]_vars
    PROVE  Expected'
<1>0. QueueTypeOK
  BY DEF TypeOK
<1>1. CASE UNCHANGED vars
  BY <1>1, StillWait DEF vars, queueVars
<1>2. ASSUME NEW j \in Jobs, Submit(j) PROVE Expected'
  BY <1>0, <1>2, AddWaits DEF Submit
<1>3. ASSUME NEW j \in Jobs, Command(j) PROVE Expected'
  BY <1>0, <1>3, EndingsWait, MovesWait, RemoveWaits DEF Command
<1>4. ASSUME NEW j \in Jobs, NEW d \in Deadlines, Elapse(j, d) PROVE Expected'
  BY <1>4, StillWait DEF Elapse, Passes
<1>5. ASSUME NEW w \in Workers, Claim(w) PROVE Expected'
  BY <1>0, <1>5, MovesWait DEF Claim, ClaimAndLaunch, ClaimAndGate
<1>6. ASSUME NEW w \in Workers, Crash(w) PROVE Expected'
  BY <1>6, StillWait DEF Crash, queueVars
<1>7. CASE Sweep
  BY <1>0, <1>7, EndingsWait, MovesWait, StalledWaits DEF Sweep
<1>8. ASSUME NEW e \in ending, Commits(e) PROVE Expected'
  BY <1>0, <1>8, CommitWaits DEF Commits
<1> QED BY <1>1, <1>2, <1>3, <1>4, <1>5, <1>6, <1>7, <1>8, GiveBackWaits, HandlerWaits DEF Next

(* A parent in waiting-children has an open child, or one that ended in    *)
(* silence, or was left waiting by a cancelJob or a timeout sweep that did *)
(* not see what others committed meanwhile: nothing else strands it.       *)
THEOREM NoParentStranded == Spec => []ParentNotStranded
<1>1. Init => Expected
  BY DEF Init, QueueInit, Expected
<1>2. TypeOK /\ Fencing /\ Expected /\ [Next]_vars => Expected'
  BY ExpectedStep DEF Fencing
<1>3. Expected => ParentNotStranded
  BY DEF Expected, WaitsFor, ParentNotStranded
<1> QED BY <1>1, <1>2, <1>3, TypeCorrect, FencingHolds, PTL DEF Spec

=============================================================================
