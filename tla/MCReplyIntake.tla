---------------------------- MODULE MCReplyIntake ----------------------------
(* An instance of ReplyIntake for TLC: two replies of one lead.              *)
EXTENDS ReplyIntake

FromOneLead == [m \in Mails |-> CHOOSE l \in Leads : TRUE]

\* Any one event, and pairs that work together.
Pairs ==
  {{k} : k \in EventKinds}
    \cup {{"pollOverlap", "expunge"}, {"push", "hookCrash"}, {"redelivery", "unsubscribe"}}
=============================================================================
