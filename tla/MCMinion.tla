------------------------------- MODULE MCMinion -------------------------------
(***************************************************************************)
(* Submissions and symmetry for the instances of MinionWorker.             *)
(***************************************************************************)
EXTENDS MinionWorker, TLC

(* A plain submission: the parent fails with the job.                      *)
Plain == [policy |-> "fail_parent", cap |-> 0, timed |-> FALSE,
          remove |-> "never", quiet |-> "none"]

(* Trees: the policies, with a cap, a timeout and a row that deletes       *)
(* itself among them.                                                      *)
TreeOptions ==
    {[Plain EXCEPT !.cap = 1],
     [Plain EXCEPT !.policy = "continue", !.timed = TRUE, !.remove = "on_complete"],
     [Plain EXCEPT !.policy = "remove_dep", !.remove = "on_fail"]}

(* Operators: deferrals and skips among retries, pauses and removals.      *)
OperatorOptions ==
    {[Plain EXCEPT !.policy = "continue", !.quiet = "defer"],
     [Plain EXCEPT !.quiet = "skip"]}

(* Timed: a job that times out, and a parent that goes on without it.      *)
TimedOptions == {[Plain EXCEPT !.policy = "continue", !.timed = TRUE]}

(* Recovery: a job that quiet hours may skip.                              *)
RecoveryOptions == {[Plain EXCEPT !.policy = "continue", !.quiet = "skip"]}

PlainOptions == {Plain}

DeferOptions == {[Plain EXCEPT !.quiet = "defer"]}

JobSymmetry == Permutations(Jobs)

JobWorkerSymmetry == Permutations(Jobs) \cup Permutations(Workers)

=============================================================================
