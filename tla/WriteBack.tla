------------------------------ MODULE WriteBack ------------------------------
(***************************************************************************)
(* What the governed write-back promises of an approval, whatever requests *)
(* and dispatcher runs handle it: it is decided once; nothing goes out but *)
(* once, under a decision in favour or one about to be written; and a send *)
(* that is withdrawn, failed or refused did not go out.  The promise is    *)
(* given up, for one approval, when two sessions hold it at once or the    *)
(* outcome of a delivery is lost.                                          *)
(***************************************************************************)
EXTENDS Naturals

CONSTANT Approvals

VARIABLES
    decision,   \* none, pending, approved or rejected
    action,     \* the send: none, queued, executed, failed or pulled_back
    mail,       \* how often it went out
    excused     \* approvals the promise is given up for

vars == <<decision, action, mail, excused>>

Init ==
    /\ decision = [a \in Approvals |-> "none"]
    /\ action = [a \in Approvals |-> "none"]
    /\ mail = [a \in Approvals |-> 0]
    /\ excused = {}

Same(a) == decision'[a] = decision[a] /\ action'[a] = action[a] /\ mail'[a] = mail[a]

File(a) ==
    /\ decision[a] = "none" /\ decision'[a] = "pending"
    /\ action'[a] = action[a] /\ mail'[a] = mail[a]

(* The send is queued, or was carried out while the decision was written,  *)
(* or there is nothing to send.                                            *)
Approve(a) ==
    /\ decision[a] = "pending" /\ decision'[a] = "approved"
    /\ action[a] = "none" /\ action'[a] \in {"none", "queued", "executed", "failed"}
    /\ mail[a] > 0 => action'[a] = "executed"
    /\ mail'[a] = mail[a]

Reject(a) ==
    /\ decision[a] = "pending" /\ decision'[a] = "rejected"
    /\ action[a] = "none" /\ action'[a] = "none"
    /\ mail[a] = 0 /\ mail'[a] = 0

Deliver(a) ==
    /\ \/ decision[a] = "pending" /\ action[a] = "none"
       \/ decision[a] = "approved" /\ action[a] \in {"queued", "failed"}
    /\ mail[a] = 0 /\ mail'[a] = 1
    /\ decision'[a] = decision[a] /\ action'[a] = action[a]

Settle(a) ==
    /\ action[a] \in {"queued", "failed"} /\ action'[a] \in {"executed", "failed"}
    /\ mail[a] > 0 => action'[a] = "executed"
    /\ decision'[a] = decision[a] /\ mail'[a] = mail[a]

PullBack(a) ==
    /\ action[a] = "queued" /\ action'[a] = "pulled_back"
    /\ mail[a] = 0 /\ mail'[a] = 0
    /\ decision'[a] = decision[a]

(* One transaction may settle many approvals.                              *)
Next ==
    /\ excused \subseteq excused'
    /\ \A a \in Approvals \ excused' :
          \/ Same(a) \/ File(a) \/ Approve(a) \/ Reject(a)
          \/ Deliver(a) \/ Settle(a) \/ PullBack(a)

Spec == Init /\ [][Next]_vars

=============================================================================
