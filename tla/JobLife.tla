------------------------------- MODULE JobLife -------------------------------
(***************************************************************************)
(* What the queue promises the one who submits a job, whatever workers,    *)
(* handlers, sweeps and operators do: claims are counted, and nobody but   *)
(* the last claim owns the job; only its owner completes it or spends an   *)
(* attempt, and the outcome that is kept is the owner's; a failure on the  *)
(* last attempt ends it; and what has ended is over, unless a job that was *)
(* given up is revived by hand.                                            *)
(***************************************************************************)
EXTENDS Naturals

CONSTANTS Jobs, MaxAttempts

VARIABLES
    phase,      \* absent, open, completed, given_up, cancelled or gone
    claims,     \* how often the job was claimed
    owner,      \* the claim that owns it (0: none)
    spent,      \* failed attempts
    outcome,    \* the claim whose result is kept (0: none)
    revived     \* jobs brought back, or moved, by hand

vars == <<phase, claims, owner, spent, outcome, revived>>

Init ==
    /\ phase = [j \in Jobs |-> "absent"]
    /\ claims = [j \in Jobs |-> 0]
    /\ owner = [j \in Jobs |-> 0]
    /\ spent = [j \in Jobs |-> 0]
    /\ outcome = [j \in Jobs |-> 0]
    /\ revived = {}

Same(j) ==
    /\ claims'[j] = claims[j] /\ spent'[j] = spent[j] /\ outcome'[j] = outcome[j]

(* Nothing happens to j, or its owner loses it.                            *)
Rest(j) == phase'[j] = phase[j] /\ owner'[j] \in {owner[j], 0} /\ Same(j)

Submit(j) ==
    /\ phase[j] = "absent" /\ phase'[j] = "open"
    /\ owner'[j] = owner[j] /\ Same(j)

Claim(j) ==
    /\ phase[j] = "open" /\ phase'[j] = "open"
    /\ claims'[j] = claims[j] + 1 /\ owner'[j] = claims'[j]
    /\ spent'[j] = spent[j] /\ outcome'[j] = outcome[j]

Complete(j) ==
    /\ phase[j] = "open" /\ phase'[j] \in {"completed", "gone"}
    /\ owner[j] # 0 /\ owner[j] = claims[j]
    /\ owner'[j] = 0 /\ outcome'[j] = owner[j]
    /\ claims'[j] = claims[j] /\ spent'[j] = spent[j]

Fail(j) ==
    /\ phase[j] = "open" /\ owner[j] # 0 /\ owner[j] = claims[j] /\ owner'[j] = 0
    /\ spent'[j] = spent[j] + 1
    /\ \/ phase'[j] = "open" /\ spent'[j] < MaxAttempts
       \/ phase'[j] \in {"given_up", "gone"}
    /\ claims'[j] = claims[j] /\ outcome'[j] = outcome[j]

(* A sweep gives it up, or it is cancelled.                                *)
Stop(j) ==
    /\ phase[j] = "open" /\ phase'[j] \in {"given_up", "cancelled"}
    /\ owner'[j] = 0 /\ Same(j)

Revive(j) ==
    /\ phase[j] = "given_up" /\ phase'[j] = "open"
    /\ owner'[j] = 0 /\ Same(j) /\ j \in revived'

Delete(j) ==
    /\ phase[j] \in {"completed", "given_up", "cancelled"} /\ phase'[j] = "gone"
    /\ owner'[j] = owner[j] /\ Same(j)

(* One transaction may end a job and move others.                          *)
Next ==
    /\ revived \subseteq revived'
    /\ \A j \in Jobs :
          \/ Rest(j) \/ Submit(j) \/ Claim(j) \/ Complete(j) \/ Fail(j)
          \/ Stop(j) \/ Revive(j) \/ Delete(j)

Spec == Init /\ [][Next]_vars

=============================================================================
