--------------------------- MODULE AtomicTransactions --------------------------
(***************************************************************************)
(* What withTransaction promises: a transaction is decided once, a call    *)
(* that resolves has committed, and no call is answered before its         *)
(* transaction is decided, so an answer is never overtaken by a commit.    *)
(***************************************************************************)
CONSTANT Transactions

VARIABLES
  status,      \* "pending", "committed" or "aborted"
  reply        \* "none", "resolved" or "rejected"

vars == <<status, reply>>

TypeOK ==
  /\ status \in [Transactions -> {"pending", "committed", "aborted"}]
  /\ reply \in [Transactions -> {"none", "resolved", "rejected"}]

Init ==
  /\ status = [t \in Transactions |-> "pending"]
  /\ reply = [t \in Transactions |-> "none"]

Decide(t, how) ==
  /\ status[t] = "pending"
  /\ status' = [status EXCEPT ![t] = how]
  /\ UNCHANGED reply

Resolve(t) ==
  /\ status[t] = "committed" /\ reply[t] = "none"
  /\ reply' = [reply EXCEPT ![t] = "resolved"]
  /\ UNCHANGED status

\* A call that is rejected is decided at the latest by its answer.
Reject(t) ==
  /\ reply[t] = "none"
  /\ reply' = [reply EXCEPT ![t] = "rejected"]
  /\ status' = [status EXCEPT ![t] = IF @ = "pending" THEN "aborted" ELSE @]

Next ==
  \E t \in Transactions :
    Decide(t, "committed") \/ Decide(t, "aborted") \/ Resolve(t) \/ Reject(t)

Spec == Init /\ [][Next]_vars

================================================================================
