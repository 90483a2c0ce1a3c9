------------------------------ MODULE MCSubagent ------------------------------
(***************************************************************************)
(* An instance of Subagent: one job whose successive handlers share a key  *)
(* with one place, and replies that end the conversation, ask for a tool   *)
(* that must not run twice, or for an idempotent one and one the job was   *)
(* not given.                                                              *)
(***************************************************************************)
EXTENDS Subagent

JobReplies == {<<>>, <<"write">>, <<"read", "gone">>}

SubagentOptions ==
    {[policy |-> "continue", cap |-> 0, timed |-> FALSE, remove |-> "never", quiet |-> "none"]}

(* One lease per claim and turn: a turn starts at an odd length.           *)
JobLeases == Claims \X (1 .. 2 * MaxTurns)

=============================================================================
