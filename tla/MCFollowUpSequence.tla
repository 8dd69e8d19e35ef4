------------------------- MODULE MCFollowUpSequence -------------------------
(* Instances of FollowUpSequence for TLC; the budgets bound the events.      *)
EXTENDS FollowUpSequence, TLC

Mixed == <<"email", "linkedin", "email">>
OnlyLegacy == {<<>>}
None == <<>>
Blueprints == {Mixed, <<>>, <<"email", "email">>}

NoEvents == [k \in EventKinds |-> 0]
EveryEvent == [k \in EventKinds |-> 1]
FewEvents == Cardinality({k \in EventKinds : budget[k] < Budget[k]}) <= 2

\* One run at a time, which may fail: what it does to the second of two leads.
Troubles == [NoEvents EXCEPT !["runCrash"] = 1, !["llmError"] = 1, !["optOut"] = 1,
                             !["refusal"] = 1, !["bounce"] = 1]

Symmetry == Permutations(Runs)
=============================================================================
