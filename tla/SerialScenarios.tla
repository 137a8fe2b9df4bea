---------------------------- MODULE SerialScenarios ----------------------------
(***************************************************************************)
(* What the shared strategy of TestkitProvider promises its callers: the   *)
(* scenarios sent to the one shared connection run one at a time, in the   *)
(* order in which they were requested, and each one that was accepted      *)
(* runs.  Nothing is said here about connections, promises or transactions.*)
(***************************************************************************)
EXTENDS Naturals, Sequences

CONSTANT Callers      \* the scenarios that may be requested

VARIABLES
  arrived,            \* accepted scenarios, in the order of their requests
  active,             \* the scenarios that are running now
  finished            \* the scenarios that have ended, well or badly

vars == <<arrived, active, finished>>

Requested == {arrived[i] : i \in 1..Len(arrived)}

TypeOK ==
  /\ arrived \in Seq(Callers)
  /\ active \subseteq Callers
  /\ finished \subseteq Callers

Init ==
  /\ arrived = <<>>
  /\ active = {}
  /\ finished = {}

\* A scenario is accepted and takes its place at the end of the line.
Arrive(c) ==
  /\ c \notin Requested
  /\ arrived' = Append(arrived, c)
  /\ UNCHANGED <<active, finished>>

\* The first scenario that has not run yet starts, and only when nothing runs.
Start(i) ==
  /\ active = {}
  /\ arrived[i] \notin finished
  /\ \A j \in 1..(i - 1) : arrived[j] \in finished
  /\ active' = {arrived[i]}
  /\ UNCHANGED <<arrived, finished>>

Finish(c) ==
  /\ active = {c}
  /\ active' = {}
  /\ finished' = finished \cup {c}
  /\ UNCHANGED arrived

Next ==
  \/ \E c \in Callers : Arrive(c)
  \/ \E i \in 1..Len(arrived) : Start(i)
  \/ \E c \in Callers : Finish(c)

Fairness ==
  /\ WF_vars(\E i \in 1..Len(arrived) : Start(i))
  /\ WF_vars(\E c \in Callers : Finish(c))

Spec == Init /\ [][Next]_vars
FairSpec == Spec /\ Fairness

================================================================================
