------------------------------- MODULE RateLease -------------------------------
(***************************************************************************)
(* The rate leases of gbrain's subagents                                   *)
(* (subsystems/gbrain/src/core/minions/rate-leases.ts): one row of         *)
(* subagent_rate_leases per call to the provider that is in flight, at     *)
(* most MaxConcurrent rows per key.  A row past expires_at counts until    *)
(* the next acquire of its key prunes it.                                  *)
(*                                                                         *)
(* acquireLease is one transaction under an advisory lock of the key, so   *)
(* it is one step.  One key is modelled: keys share nothing.  renewLease   *)
(* has no caller in the program: a call that outlives the TTL goes on      *)
(* without its lease.                                                      *)
(***************************************************************************)
EXTENDS Naturals, FiniteSets

CONSTANTS
    LeaseIds,       \* ids of rows, one for every call that asks for a lease
    MaxConcurrent   \* max_concurrent of the key

ASSUME LeaseAssumption == MaxConcurrent \in Nat \ {0}

VARIABLES
    rows,     \* the rows of subagent_rate_leases
    lapsed,   \* rows whose expires_at has passed
    calls,    \* ids whose owner is in its call to the provider
    overrun   \* history: calls in flight whose lease expired under them

leaseVars == <<rows, lapsed, calls, overrun>>

(* Mutant: nothing is pruned.                                              *)
KeptAll == rows

(* The rows that the pre-prune of an acquire leaves.                       *)
Kept == rows \ lapsed

(* Mutant: the row is counted after it was inserted.                       *)
AcquireLeaseLate(id) ==
    /\ id \notin rows \cup calls
    /\ Cardinality(Kept) <= MaxConcurrent
    /\ rows' = Kept \cup {id}
    /\ lapsed' = {}
    /\ calls' = calls \cup {id}
    /\ UNCHANGED overrun

(* acquireLease, acquired: prune, count, insert; then the call goes out.   *)
(* Ids are serial: no other row, and no other owner, ever has this one.    *)
AcquireLease(id) ==
    /\ id \notin rows \cup calls
    /\ Cardinality(Kept) < MaxConcurrent
    /\ rows' = Kept \cup {id}
    /\ lapsed' = {}
    /\ calls' = calls \cup {id}
    /\ UNCHANGED overrun

(* acquireLease, not acquired: the prune is committed all the same.        *)
RejectLease ==
    /\ Cardinality(Kept) >= MaxConcurrent
    /\ rows' = Kept
    /\ lapsed' = {}
    /\ UNCHANGED <<calls, overrun>>

(* The call returned or threw, and its row is deleted if it is still there.*)
ReleaseLease(id) ==
    /\ id \in calls
    /\ rows' = rows \ {id}
    /\ lapsed' = lapsed \ {id}
    /\ calls' = calls \ {id}
    /\ overrun' = overrun \ {id}

(* The owner's process died, or its DELETE failed: the row stays.          *)
AbandonLease(id) ==
    /\ id \in calls
    /\ calls' = calls \ {id}
    /\ overrun' = overrun \ {id}
    /\ UNCHANGED <<rows, lapsed>>

(* expires_at passes, whether or not the call is over.                     *)
ExpireLease(id) ==
    /\ id \in Kept
    /\ lapsed' = lapsed \cup {id}
    /\ overrun' = overrun \cup ({id} \cap calls)
    /\ UNCHANGED <<rows, calls>>

LeaseInit == rows = {} /\ lapsed = {} /\ calls = {} /\ overrun = {}

LeaseNext ==
    \/ RejectLease
    \/ \E id \in LeaseIds :
          \/ AcquireLease(id)
          \/ ReleaseLease(id)
          \/ AbandonLease(id)
          \/ ExpireLease(id)

LeaseSpec == LeaseInit /\ [][LeaseNext]_leaseVars

-----------------------------------------------------------------------------
LeaseTypeOK ==
    /\ rows \subseteq LeaseIds
    /\ lapsed \subseteq rows
    /\ calls \subseteq LeaseIds
    /\ overrun \subseteq calls

(* max_concurrent: the provider never sees more calls at a time than the   *)
(* key allows, whatever prunes, rejections, releases of pruned rows and    *)
(* crashes come in between, except for calls that outlived their lease.    *)
CallsCapped == Cardinality(calls \ overrun) <= MaxConcurrent

(* No step of another owner takes away the lease of a call in time.        *)
CallsCovered == calls \ overrun \subseteq Kept

(* Seen through the rows that are in force, the table is a semaphore.      *)
LeasePlaces == INSTANCE Semaphore WITH
    Holders <- LeaseIds, Capacity <- MaxConcurrent, held <- Kept

LeaseIsSemaphore == LeasePlaces!Spec

=============================================================================
