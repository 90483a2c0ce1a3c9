-------------------------------- MODULE DbLock --------------------------------
(***************************************************************************)
(* A named lock of gbrain (subsystems/gbrain/src/core/db-lock.ts): one row *)
(* of gbrain_cycle_locks, with the pid of its holder and a TTL.  It is     *)
(* acquired by one upsert and released by one DELETE, and both look at the *)
(* pid and never at the host.                                              *)
(*                                                                         *)
(* refresh is not modelled: nothing in the program calls it.  Work that    *)
(* outlasts the TTL goes on without the lock.                              *)
(***************************************************************************)
EXTENDS Naturals, FiniteSets

CONSTANTS
    Procs,   \* processes that take the lock
    PidOf,   \* process.pid of each; on two hosts it may be the same
    NoPid    \* no row

ASSUME LockAssumption == NoPid \notin {PidOf[p] : p \in Procs}

VARIABLES
    holder,    \* holder_pid of the row
    expired,   \* whether ttl_expires_at has passed
    inside,    \* processes that have a handle
    lost       \* history: those of them whose row is not theirs any more

lockVars == <<holder, expired, inside, lost>>

(* Mutant: an expired row is not told from a live one.                     *)
FreeAlways == TRUE

(* Mutant: a row is never superseded.                                      *)
FreeIfReleased == holder = NoPid

(* INSERT ... ON CONFLICT (id) DO UPDATE ... WHERE ttl_expires_at < NOW()  *)
Free == holder = NoPid \/ expired

(* Mutant: the caller goes on although the upsert returned no row.         *)
AcquireUnchecked(p) ==
    /\ p \notin inside
    /\ holder' = (IF Free THEN PidOf[p] ELSE holder)
    /\ expired' = (expired /\ ~Free)
    /\ inside' = inside \cup {p}
    /\ UNCHANGED lost

Acquire(p) ==
    /\ p \notin inside
    /\ Free
    /\ holder' = PidOf[p]
    /\ expired' = FALSE
    /\ inside' = inside \cup {p}
    /\ UNCHANGED lost

(* The row p would find as its own may be one that superseded it.          *)
Robbed(p) ==
    IF holder = PidOf[p] THEN {q \in inside \ {p} : PidOf[q] = PidOf[p]} ELSE {}

Release(p) ==
    /\ p \in inside
    /\ inside' = inside \ {p}
    /\ lost' = (lost \cup Robbed(p)) \ {p}
    /\ holder' = IF holder = PidOf[p] THEN NoPid ELSE holder
    /\ expired' = (expired /\ holder # PidOf[p])

(* The process died, or its DELETE failed: the row stays.                  *)
Abandon(p) ==
    /\ p \in inside
    /\ inside' = inside \ {p}
    /\ lost' = lost \ {p}
    /\ UNCHANGED <<holder, expired>>

(* The TTL passes, whether or not the work is done.                        *)
Expire ==
    /\ holder # NoPid /\ ~expired
    /\ expired' = TRUE
    /\ lost' = lost \cup {p \in inside : PidOf[p] = holder}
    /\ UNCHANGED <<holder, inside>>

LockInit == holder = NoPid /\ expired = FALSE /\ inside = {} /\ lost = {}

LockNext == Expire \/ \E p \in Procs : Acquire(p) \/ Release(p) \/ Abandon(p)

LockSpec == LockInit /\ [][LockNext]_lockVars

-----------------------------------------------------------------------------
LockTypeOK ==
    /\ holder \in {PidOf[p] : p \in Procs} \cup {NoPid}
    /\ expired \in BOOLEAN
    /\ inside \subseteq Procs
    /\ lost \subseteq inside

(* A process that is in time has a live row with its pid, and no other     *)
(* process is in time with it.                                             *)
HolderInTime ==
    /\ \A p \in inside \ lost : holder = PidOf[p] /\ ~expired
    /\ \A p, q \in inside \ lost : p = q

(* Seen through the processes that are in time, the row is a mutex.        *)
LockPlaces == INSTANCE Semaphore WITH
    Holders <- Procs, Capacity <- 1, held <- inside \ lost

LockIsMutex == LockPlaces!Spec

=============================================================================
