---------------------------- MODULE MCLeadIntake ----------------------------
(* An instance of LeadIntake for TLC: two prospects with one website, the    *)
(* second of whom shares a domain with an address on the suppression list.   *)
EXTENDS LeadIntake, TLC

CONSTANTS p1, p2, e1, e2, e3

Email2 == p1 :> e1 @@ p2 :> e2
Site2 == p1 :> 1 @@ p2 :> 1
Domain3 == e1 :> 1 @@ e2 :> 2 @@ e3 :> 2
\* The first address holds a "_", which matches the letter of the second.
Wildcard == [e \in {e1, e2, e3} |-> IF e = e1 THEN {e1, e2} ELSE {e}]
Hash2 == [id \in Ids |-> IF id[1] = p1 THEN 1 ELSE 2]
SomeListed == {{}, {e3}}
SomeCampaigns == {<<>>, <<2, 1>>}

\* Any one event, and what can befall a batch.
Pairs == {{k} : k \in EventKinds} \cup {{"batch", "invalid"}}
=============================================================================
