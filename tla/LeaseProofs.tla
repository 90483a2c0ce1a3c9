------------------------------ MODULE LeaseProofs ------------------------------
(***************************************************************************)
(* Proofs about the rate leases (RateLease) and about the handlers that    *)
(* take them (Subagent): the cap on calls in flight, and that the table of *)
(* leases, seen through the rows in force, is a semaphore.                 *)
(***************************************************************************)
EXTENDS Subagent, FiniteSetTheorems, TLAPS

(* The invariant: the rows in force never exceed the cap, and every call   *)
(* that is in time has one.                                                *)
LeaseInv ==
    /\ IsFiniteSet(rows) /\ IsFiniteSet(calls)
    /\ lapsed \subseteq rows /\ overrun \subseteq calls
    /\ CallsCovered
    /\ Cardinality(Kept) <= MaxConcurrent

(* Whoever acts, whatever its id: the steps of the table.                  *)
LeaseStep ==
    \/ RejectLease
    \/ \E id : AcquireLease(id) \/ ReleaseLease(id) \/ AbandonLease(id) \/ ExpireLease(id)

(* The table starts empty.                                                 *)
LEMMA LeaseInvInit == LeaseInit => LeaseInv
<1> SUFFICES ASSUME LeaseInit PROVE LeaseInv
    OBVIOUS
<1>1. rows = {} /\ calls = {} /\ lapsed = {} /\ overrun = {} /\ Kept = {}
    BY DEF LeaseInit, Kept
<1>2. Cardinality({}) = 0 /\ IsFiniteSet({})
    BY FS_EmptySet
<1>3. QED BY <1>1, <1>2, LeaseAssumption DEF LeaseInv, CallsCovered

(* An acquire adds its row to those in force, and there was room for it.   *)
LEMMA AcquireKeepsInv ==
    ASSUME LeaseInv, NEW id, AcquireLease(id) PROVE LeaseInv'
<1>1. /\ Kept' = Kept \union {id} /\ id \notin rows \union calls
      /\ rows' = Kept \union {id} /\ lapsed' = {}
      /\ calls' = calls \union {id} /\ overrun' = overrun
    BY DEF AcquireLease, Kept
<1>2. IsFiniteSet(Kept) /\ id \notin Kept
    BY <1>1, FS_Subset DEF LeaseInv, Kept
<1>3. IsFiniteSet(Kept \union {id}) /\ Cardinality(Kept \union {id}) = Cardinality(Kept) + 1
    BY <1>2, FS_AddElement
<1>4. IsFiniteSet(calls \union {id})
    BY FS_AddElement DEF LeaseInv
<1>5. Cardinality(Kept) \in Nat /\ Cardinality(Kept) < MaxConcurrent
    BY <1>2, FS_CardinalityType DEF AcquireLease
<1>6. Cardinality(Kept') <= MaxConcurrent
    BY <1>1, <1>3, <1>5, LeaseAssumption
<1>7. CallsCovered'
    BY <1>1 DEF LeaseInv, CallsCovered
<1>8. QED BY <1>1, <1>3, <1>4, <1>6, <1>7 DEF LeaseInv

(* A step that takes rows out of force, or none, and leaves calls in time  *)
(* only where their row is in force.                                       *)
LEMMA FewerKeepInv ==
    ASSUME LeaseInv,
           rows' \subseteq rows, calls' \subseteq calls, Kept' \subseteq Kept,
           lapsed' \subseteq rows', overrun' \subseteq calls',
           CallsCovered'
    PROVE  LeaseInv'
<1>1. IsFiniteSet(Kept)
    BY FS_Subset DEF LeaseInv, Kept
<1>2. IsFiniteSet(rows') /\ IsFiniteSet(calls')
    BY FS_Subset DEF LeaseInv
<1>3. IsFiniteSet(Kept') /\ Cardinality(Kept') <= Cardinality(Kept)
    BY <1>1, FS_Subset
<1>4. Cardinality(Kept') \in Nat /\ Cardinality(Kept) \in Nat
    BY <1>1, <1>3, FS_CardinalityType
<1>5. Cardinality(Kept) <= MaxConcurrent
    BY DEF LeaseInv
<1>6. Cardinality(Kept') <= MaxConcurrent
    BY <1>3, <1>4, <1>5, LeaseAssumption
<1>7. QED BY <1>2, <1>6 DEF LeaseInv

(* Every step of the table keeps the invariant.                            *)
LEMMA LeaseInvStep ==
    ASSUME LeaseInv, LeaseStep \/ UNCHANGED leaseVars PROVE LeaseInv'
<1>0. /\ lapsed \subseteq rows /\ overrun \subseteq calls
      /\ calls \ overrun \subseteq rows \ lapsed
    BY DEF LeaseInv, CallsCovered, Kept
<1>1. ASSUME NEW id, AcquireLease(id) PROVE LeaseInv'
    BY <1>1, AcquireKeepsInv
<1>2. CASE RejectLease
    <2>1. /\ rows' = rows \ lapsed /\ lapsed' = {} /\ calls' = calls /\ overrun' = overrun
        BY <1>2 DEF RejectLease, Kept
    <2>2. CallsCovered' /\ Kept' \subseteq Kept
        BY <2>1, <1>0 DEF CallsCovered, Kept
    <2>3. QED BY <2>1, <2>2, <1>0, FewerKeepInv
<1>3. ASSUME NEW id, ReleaseLease(id) PROVE LeaseInv'
    <2>1. /\ rows' = rows \ {id} /\ lapsed' = lapsed \ {id}
          /\ calls' = calls \ {id} /\ overrun' = overrun \ {id}
        BY <1>3 DEF ReleaseLease
    <2>2. CallsCovered' /\ Kept' \subseteq Kept
        BY <2>1, <1>0 DEF CallsCovered, Kept
    <2>3. QED BY <2>1, <2>2, <1>0, FewerKeepInv
<1>4. ASSUME NEW id, AbandonLease(id) PROVE LeaseInv'
    <2>1. /\ rows' = rows /\ lapsed' = lapsed
          /\ calls' = calls \ {id} /\ overrun' = overrun \ {id}
        BY <1>4 DEF AbandonLease
    <2>2. CallsCovered' /\ Kept' \subseteq Kept
        BY <2>1, <1>0 DEF CallsCovered, Kept
    <2>3. QED BY <2>1, <2>2, <1>0, FewerKeepInv
<1>5. ASSUME NEW id, ExpireLease(id) PROVE LeaseInv'
    <2>1. /\ id \in rows \ lapsed /\ rows' = rows /\ lapsed' = lapsed \union {id}
          /\ calls' = calls /\ overrun' = overrun \union ({id} \intersect calls)
        BY <1>5 DEF ExpireLease, Kept
    <2>2. CallsCovered' /\ Kept' \subseteq Kept
        BY <2>1, <1>0 DEF CallsCovered, Kept
    <2>3. QED BY <2>1, <2>2, <1>0, FewerKeepInv
<1>6. CASE UNCHANGED leaseVars
    BY <1>6 DEF leaseVars, LeaseInv, CallsCovered, Kept
<1>7. QED BY <1>1, <1>2, <1>3, <1>4, <1>5, <1>6 DEF LeaseStep

(* The cap follows: the calls in time are no more than the rows in force.  *)
LEMMA InvCapsCalls == LeaseInv => CallsCapped
<1> SUFFICES ASSUME LeaseInv PROVE CallsCapped
    OBVIOUS
<1>1. IsFiniteSet(Kept) /\ calls \ overrun \subseteq Kept
    BY FS_Subset DEF LeaseInv, CallsCovered, Kept
<1>2. /\ IsFiniteSet(calls \ overrun)
      /\ Cardinality(calls \ overrun) <= Cardinality(Kept)
    BY <1>1, FS_Subset
<1>3. Cardinality(calls \ overrun) \in Nat /\ Cardinality(Kept) \in Nat
    BY <1>1, <1>2, FS_CardinalityType
<1>4. QED BY <1>2, <1>3, LeaseAssumption DEF LeaseInv, CallsCapped

-----------------------------------------------------------------------------
(* The table by itself.                                                    *)

LEMMA NextIsStep == LeaseNext => LeaseStep
BY DEF LeaseNext, LeaseStep

(* Every step of the table keeps its types.                                *)
LEMMA LeaseTypeStep == LeaseTypeOK /\ [LeaseNext]_leaseVars => LeaseTypeOK'
<1> SUFFICES ASSUME LeaseTypeOK, [LeaseNext]_leaseVars PROVE LeaseTypeOK'
    OBVIOUS
<1> USE DEF LeaseTypeOK
<1>1. CASE RejectLease
    BY <1>1 DEF RejectLease, Kept
<1>2. ASSUME NEW id \in LeaseIds, AcquireLease(id) PROVE LeaseTypeOK'
    BY <1>2 DEF AcquireLease, Kept
<1>3. ASSUME NEW id \in LeaseIds, ReleaseLease(id) PROVE LeaseTypeOK'
    BY <1>3 DEF ReleaseLease
<1>4. ASSUME NEW id \in LeaseIds, AbandonLease(id) PROVE LeaseTypeOK'
    BY <1>4 DEF AbandonLease
<1>5. ASSUME NEW id \in LeaseIds, ExpireLease(id) PROVE LeaseTypeOK'
    BY <1>5 DEF ExpireLease, Kept
<1>6. CASE UNCHANGED leaseVars
    BY <1>6 DEF leaseVars
<1>7. QED BY <1>1, <1>2, <1>3, <1>4, <1>5, <1>6 DEF LeaseNext

(* Rows, expired rows, calls and overruns stay what they are.              *)
THEOREM LeaseTypes == LeaseSpec => []LeaseTypeOK
<1>1. LeaseInit => LeaseTypeOK
    BY DEF LeaseInit, LeaseTypeOK
<1>2. QED BY <1>1, LeaseTypeStep, PTL DEF LeaseSpec

(* A step of the table is a step of the semaphore, or none: an acquire     *)
(* enters, an expiry or the release of a row in force leaves.              *)
LEMMA LeaseStepIsPlaceStep ==
    ASSUME LeaseTypeOK, [LeaseNext]_leaseVars
    PROVE  [LeasePlaces!Next]_Kept
<1>0. rows \subseteq LeaseIds
    BY DEF LeaseTypeOK
<1>1. CASE RejectLease
    BY <1>1 DEF RejectLease, Kept
<1>2. ASSUME NEW id \in LeaseIds, AcquireLease(id) PROVE LeasePlaces!Next
    <2>1. LeasePlaces!Enter(id)
        BY <1>2 DEF AcquireLease, Kept, LeasePlaces!Enter, Cardinality, LeasePlaces!Cardinality
    <2>2. QED BY <2>1 DEF LeasePlaces!Next
<1>3. ASSUME NEW id \in LeaseIds, ReleaseLease(id) PROVE [LeasePlaces!Next]_Kept
    <2>1. Kept' = Kept \ {id}
        BY <1>3 DEF ReleaseLease, Kept
    <2>2. CASE id \in Kept
        BY <2>1, <2>2 DEF LeasePlaces!Next, LeasePlaces!Leave
    <2>3. CASE id \notin Kept
        BY <2>1, <2>3
    <2>4. QED BY <2>2, <2>3
<1>4. ASSUME NEW id \in LeaseIds, AbandonLease(id) PROVE Kept' = Kept
    BY <1>4 DEF AbandonLease, Kept
<1>5. ASSUME NEW id \in LeaseIds, ExpireLease(id) PROVE LeasePlaces!Next
    <2>1. LeasePlaces!Leave(id)
        BY <1>5 DEF ExpireLease, Kept, LeasePlaces!Leave
    <2>2. QED BY <2>1 DEF LeasePlaces!Next
<1>6. CASE UNCHANGED leaseVars
    BY <1>6 DEF leaseVars, Kept
<1>7. QED BY <1>1, <1>2, <1>3, <1>4, <1>5, <1>6 DEF LeaseNext

(* The lease table implements the semaphore, for any ids and any cap.      *)
THEOREM LeaseRefinesSemaphore == LeaseSpec => LeaseIsSemaphore
<1>1. LeaseInit => LeasePlaces!Init
    BY DEF LeaseInit, LeasePlaces!Init, Kept
<1>2. LeaseTypeOK /\ [LeaseNext]_leaseVars => [LeasePlaces!Next]_Kept
    BY LeaseStepIsPlaceStep
<1>3. QED BY <1>1, <1>2, LeaseTypes, PTL DEF LeaseSpec, LeaseIsSemaphore, LeasePlaces!Spec

(* Every call in time has its lease: no prune, no release of a pruned row  *)
(* and no crash of another owner takes it away.                            *)
THEOREM LeasesCoverCalls == LeaseSpec => []CallsCovered
<1>1. LeaseInit => LeaseInv
    BY LeaseInvInit
<1>2. LeaseInv /\ [LeaseNext]_leaseVars => LeaseInv'
    BY LeaseInvStep, NextIsStep
<1>3. LeaseInv => CallsCovered
    BY DEF LeaseInv
<1>4. QED BY <1>1, <1>2, <1>3, PTL DEF LeaseSpec

-----------------------------------------------------------------------------
(* The handlers: every step of a handler is a step of the table, or none.  *)

LEMMA HandlerStepIsLeaseStep ==
    ASSUME [Next]_vars PROVE LeaseStep \/ UNCHANGED leaseVars
<1> USE DEF LeaseStep
<1>1. CASE Launch
    BY <1>1 DEF Launch
<1>2. CASE Queue
    BY <1>2 DEF Queue
<1>3. CASE LeaseExpires
    BY <1>3 DEF LeaseExpires
<1>4. ASSUME NEW c \in Claims, LoadMessages(c) \/ LoadTools(c)
      PROVE  UNCHANGED leaseVars
    BY <1>4 DEF LoadMessages, LoadTools
<1>5. ASSUME NEW c \in Claims, Turn(c)
      PROVE  LeaseStep \/ UNCHANGED leaseVars
    <2>1. CASE OutOfTurns(c) \/ AbortTurn(c) \/ Charge(c) \/ StoreReply(c)
        BY <2>1 DEF OutOfTurns, AbortTurn, Charge, StoreReply
    <2>2. CASE Call(c)
        BY <2>2 DEF Call
    <2>3. CASE CallReturns(c) \/ CallThrows(c)
        BY <2>3 DEF CallReturns, CallThrows
    <2>4. QED BY <1>5, <2>1, <2>2, <2>3 DEF Turn
<1>6. ASSUME NEW c \in Claims, Dispatch(c)
      PROVE  UNCHANGED leaseVars
    BY <1>6 DEF Dispatch, AbortTools, TrustSettled, RefuseUnknown, RefuseUnsafe,
                BeginTool, RunTool, RecordTool, StoreAnswers
<1>7. ASSUME NEW c \in Claims, Settle(c) \/ Abort(c) \/ Renew(c)
      PROVE  UNCHANGED leaseVars
    BY <1>7 DEF Settle, Abort, Renew
<1>8. ASSUME NEW c \in Claims, Crash(c)
      PROVE  LeaseStep \/ UNCHANGED leaseVars
    BY <1>8 DEF Crash
<1>9. CASE UNCHANGED vars
    BY <1>9 DEF vars
<1>10. QED BY <1>1, <1>2, <1>3, <1>4, <1>5, <1>6, <1>7, <1>8, <1>9 DEF Next

(* max_concurrent is kept by the handlers of every job, through claims,    *)
(* stalls, aborts and crashes, for any number of them.                     *)
THEOREM HandlersAreCapped == Spec => []CallsCapped
<1>1. Init => LeaseInv
    BY LeaseInvInit DEF Init
<1>2. LeaseInv /\ [Next]_vars => LeaseInv'
    BY HandlerStepIsLeaseStep, LeaseInvStep
<1>3. QED BY <1>1, <1>2, InvCapsCalls, PTL DEF Spec
=============================================================================
