---------------------------- MODULE SpamGuardian ----------------------------
(***************************************************************************)
(* Two pure algorithms of drafting: the spam score of a draft              *)
(* (app/services/spam_guardian.py, score_email) and the A/B variant of a   *)
(* lead (app/services/campaigns.py, assign_variant).                       *)
(***************************************************************************)
EXTENDS Integers, FiniteSets, Sequences

CONSTANTS RewriteThreshold,   \* SPAM_SCORE_REWRITE_THRESHOLD
          FlagThreshold       \* SPAM_SCORE_FLAG_THRESHOLD

ASSUME ThresholdAssumption ==
  /\ RewriteThreshold \in 0..100 /\ FlagThreshold \in 0..100
  /\ RewriteThreshold <= FlagThreshold

-----------------------------------------------------------------------------
(* What score_email counts in a draft: trigger phrases, runs of punctuation, *)
(* links; whether more than 15% of the words are capitals, the subject is    *)
(* upper case, links are dense, money is mixed with urgency.                 *)

Signals == [words : Nat, runs : Nat, links : Nat,
            caps : BOOLEAN, upper : BOOLEAN, dense : BOOLEAN, money : BOOLEAN]

Capped(n, cap) == IF n <= cap THEN n ELSE cap
If(b, points) == IF b THEN points ELSE 0

Score(s) ==
  Capped(Capped(8 * s.words, 40) + Capped(10 * s.runs, 20) + If(s.caps, 20) + If(s.upper, 15)
           + If(s.links > 2 \/ s.dense, Capped(10 * s.links, 30)) + If(s.money, 10),
         100)

RiskLevels == {"low", "medium", "high"}
Risk(s) ==
  CASE Score(s) >= FlagThreshold -> "high"
    [] Score(s) < FlagThreshold /\ Score(s) >= RewriteThreshold -> "medium"
    [] OTHER -> "low"

Rank(risk) == CASE risk = "high" -> 3 [] risk = "medium" -> 2 [] risk = "low" -> 1

\* run_with_guard has a draft of such a risk written again.
AsksAgain(risk) == risk = "high"

\* t has everything to object to that s has.
Includes(t, s) ==
  /\ s.words <= t.words /\ s.runs <= t.runs /\ s.links <= t.links
  /\ (s.caps => t.caps) /\ (s.upper => t.upper) /\ (s.dense => t.dense) /\ (s.money => t.money)

\* One more thing to object to in a draft never makes its risk smaller
\* (spam_guardian.py:69-119).
MoreSignalsNeverSafer ==
  \A s, t \in Signals : Includes(t, s) => Rank(Risk(s)) <= Rank(Risk(t))

-----------------------------------------------------------------------------
(* Variants by label; weights[i] is the weight of the i-th, at least 1.     *)

Weights == Seq(Nat \ {0})

UpTo(weights, i) ==
  LET sum[k \in 0..i] == IF k = 0 THEN 0 ELSE sum[k - 1] + weights[k] IN sum[i]
Total(weights) == UpTo(weights, Len(weights))

Bucket(weights, hash) == hash % Total(weights)

\* A slip the properties have to catch, used by no specification: the bucket is
\* compared as if it started at 1.
ChosenInclusive(weights, hash) ==
  1 + Cardinality({i \in DOMAIN weights : UpTo(weights, i) < Bucket(weights, hash)})

\* The first variant whose cumulated weight exceeds the lead's bucket: the one
\* after all those whose weight does not.
Chosen(weights, hash) ==
  1 + Cardinality({i \in DOMAIN weights : UpTo(weights, i) <= Bucket(weights, hash)})

=============================================================================
