--------------------------- MODULE MCApprovalFlow ---------------------------
(* Instances of ApprovalFlow for TLC.  The budgets bound every unbounded     *)
(* counter: each fault is spent at most as often as the budget says.         *)
EXTENDS ApprovalFlow, FiniteSets, TLC

NoFaults == [k \in FaultKinds |-> 0]

\* One of everything: what can put two workers on one request, what can take
\* it from them, and what can stop a task or a request half-way.
EveryFault == [k \in FaultKinds |-> 1]

\* Of these ten, the most that one behaviour suffers.
FewFaults == Cardinality({k \in FaultKinds : budget[k] < Budget[k]}) <= 3

\* As many refusals as there are retries, and a suppression.
Refusals == [NoFaults EXCEPT !["refusal"] = MaxRetries, !["suppression"] = 1]

Symmetry == Permutations(Handlers) \cup Permutations(Workers)
=============================================================================
