---------------------------- MODULE MCSenderPool ----------------------------
(* Instances of SenderPool for TLC: short ramps, accounts that start on them *)
(* and accounts with a limit of their own above them, thresholds that a few  *)
(* emails cross.                                                             *)
EXTENDS SenderPool, TLC

ShortRamp == [i \in 0..1 |-> i + 1]
FirstStage == [a \in Accounts |-> Target[0]]
AboveRamp == [a \in Accounts |-> 2]
FlatRamp == [i \in 0..1 |-> 1]
Half == <<1, 2>>
Third == <<1, 3>>

Quiet == [k \in Disturbances |-> 0]

\* Reports, failing providers, an admin, calls that send twice, crashes; of these, two
\* kinds in one behaviour if one is a crash, and nothing else with the admin's pause.
OneEach == [k \in Disturbances |-> 1]
Spent == {k \in Disturbances : budget[k] < Budget[k]}
TwoKinds ==
  \/ Cardinality(Spent) <= 1
  \/ Cardinality(Spent) = 2 /\ "crash" \in Spent /\ "pause" \notin Spent

Symmetry == Permutations(Accounts) \cup Permutations(Senders)
=============================================================================
