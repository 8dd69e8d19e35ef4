--------------------------- MODULE MCSendPipeline ---------------------------
(* Instances of SendPipeline for TLC; the budgets bound the faults.          *)
EXTENDS SendPipeline, FiniteSets, TLC

OneLead == CHOOSE l \in Leads : TRUE
AllOneLead == [m \in Messages |-> OneLead]
NoFaults == [k \in FaultKinds |-> 0]

\* One message per lead; and only one of the leads belongs to an A/B campaign.
OneEach == CHOOSE f \in [Messages -> Leads] : \A l \in Leads : \E m \in Messages : f[m] = l
OnlyOneLead == {OneLead}

\* One of everything: what duplicates or interrupts the task of a message, SMTP
\* errors of every kind, a suppression.
EveryFault == [k \in FaultKinds |-> 1]
Spent == {k \in FaultKinds : budget[k] < Budget[k]}

\* What has happened to a lead or its message.
Untouched(l) ==
  /\ lstatus[l] = "new" /\ drafting[l] = "none" /\ l \notin suppressed
  /\ \A u \in Unsubscribers : leaving[u].lead # l
  /\ \A m \in Messages : LeadOf[m] = l => mstatus[m] = "absent"

\* Two kinds of fault in one behaviour.  With both spent the lead without a variant is
\* not worked on, a message has two requests and reviews in all, and a visit goes on
\* only with one request, and if the suppression it commits is one of the two kinds.
FewFaults ==
  /\ Cardinality(Spent) <= 2
  /\ Cardinality(Spent) = 2 =>
       /\ \A l \in Leads \ WithVariant : Untouched(l)
       /\ \A m \in Messages : reviews[m] + reviewing[m] + requests[m] <= 2
       /\ \/ \A u \in Unsubscribers : leaving[u] = NoVisit
          \/ "suppression" \in Spent /\ \A m \in Messages : requests[m] <= 1

\* Only one lead is worked on; and no visit is under way while a message is reviewed
\* or after it was.
OneLeadWorked == Cardinality({l \in Leads : ~Untouched(l)}) <= 1
OneSide ==
  \/ \A u \in Unsubscribers : leaving[u] = NoVisit
  \/ \A m \in Messages : reviews[m] = 0 /\ reviewing[m] = 0

\* A provider that does not answer.
OnlyTransient == [NoFaults EXCEPT !["transient"] = 2]

\* A provider that recovers before the retries are used up.
OneRefusal == [NoFaults EXCEPT !["refusal"] = 1]

Symmetry == Permutations(Workers)
=============================================================================
