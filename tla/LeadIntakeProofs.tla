--------------------------- MODULE LeadIntakeProofs ---------------------------
(***************************************************************************)
(* What the ways in for leads promise, for any prospects, uploads, runs,   *)
(* workers and events: IntakeInv is inductive; as long as transactions do  *)
(* not overlap no two leads have one address; and with DraftInv, which     *)
(* follows each lead from its insert to its draft, leads are enriched once *)
(* and drafted for by the rules.  First the spam score, for any            *)
(* thresholds, and the choice of a variant, for any weights.               *)
(***************************************************************************)
EXTENDS LeadIntake, Counting, TLAPS

-----------------------------------------------------------------------------
(* The spam score of a draft, whatever the thresholds: it stays between 0   *)
(* and 100, and a draft with more to object to is never judged safer.       *)

\* A capped count grows with what is counted.
LEMMA CappedGrows ==
  ASSUME NEW m \in Nat, NEW n \in Nat, NEW cap \in Nat, m <= n
  PROVE  Capped(m, cap) \in Nat /\ Capped(m, cap) <= Capped(n, cap) /\ Capped(m, cap) <= cap
BY DEF Capped

\* Every part of the score, and so the score, grows with what it counts.
LEMMA ScoreGrows ==
  ASSUME NEW s \in Signals, NEW t \in Signals, Includes(t, s)
  PROVE  Score(s) \in Nat /\ Score(s) <= Score(t)
<1> DEFINE words(x) == Capped(8 * x.words, 40)
           runs(x)  == Capped(10 * x.runs, 20)
           caps(x)  == If(x.caps, 20)
           upper(x) == If(x.upper, 15)
           linked(x) == Capped(10 * x.links, 30)
           links(x) == If(x.links > 2 \/ x.dense, linked(x))
           money(x) == If(x.money, 10)
<1>0. /\ \A x \in {s, t} : x.words \in Nat /\ x.runs \in Nat /\ x.links \in Nat
                          /\ x.caps \in BOOLEAN /\ x.upper \in BOOLEAN
                          /\ x.dense \in BOOLEAN /\ x.money \in BOOLEAN
      /\ s.words <= t.words /\ s.runs <= t.runs /\ s.links <= t.links
      /\ (s.caps => t.caps) /\ (s.upper => t.upper) /\ (s.dense => t.dense)
      /\ (s.money => t.money)
  BY DEF Includes, Signals
<1>1. words(s) \in Nat /\ words(t) \in Nat /\ words(s) <= words(t)
  BY <1>0 DEF Capped
<1>2. runs(s) \in Nat /\ runs(t) \in Nat /\ runs(s) <= runs(t)
  BY <1>0 DEF Capped
<1>3. caps(s) \in Nat /\ caps(t) \in Nat /\ caps(s) <= caps(t)
  BY <1>0 DEF If
<1>4. upper(s) \in Nat /\ upper(t) \in Nat /\ upper(s) <= upper(t)
  BY <1>0 DEF If
<1>5. linked(s) \in Nat /\ linked(t) \in Nat /\ linked(s) <= linked(t)
  BY <1>0 DEF Capped
<1>6. links(s) \in Nat /\ links(t) \in Nat /\ links(s) <= links(t)
  <2>1. (s.links > 2 \/ s.dense) => (t.links > 2 \/ t.dense)
    BY <1>0
  <2> QED BY <1>5, <2>1 DEF If
<1>7. money(s) \in Nat /\ money(t) \in Nat /\ money(s) <= money(t)
  BY <1>0 DEF If
<1> DEFINE sum(x) == words(x) + runs(x) + caps(x) + upper(x) + links(x) + money(x)
<1>8. Score(s) = Capped(sum(s), 100) /\ Score(t) = Capped(sum(t), 100)
  BY DEF Score
<1>9. sum(s) \in Nat /\ sum(t) \in Nat /\ sum(s) <= sum(t)
  <2> HIDE DEF words, runs, caps, upper, links, money
  <2> QED BY <1>1, <1>2, <1>3, <1>4, <1>6, <1>7
<1> HIDE DEF sum
<1> QED BY <1>8, <1>9, CappedGrows

\* SpamScoreResult refuses a score outside 0..100 (schemas.py:32): score_email never
\* returns one (spam_guardian.py:113).
THEOREM ScoreIsPercent ==
  \A s \in Signals : Score(s) \in 0..100
<1> TAKE s \in Signals
<1>1. Score(s) \in Nat
  BY ScoreGrows DEF Includes, Signals
<1> DEFINE sum == Capped(8 * s.words, 40) + Capped(10 * s.runs, 20) + If(s.caps, 20)
                    + If(s.upper, 15) + If(s.links > 2 \/ s.dense, Capped(10 * s.links, 30))
                    + If(s.money, 10)
<1>2. Score(s) = IF sum <= 100 THEN sum ELSE 100
  BY DEF Score, Capped
<1> HIDE DEF sum
<1>3. CASE sum <= 100
  BY <1>1, <1>2, <1>3
<1>4. CASE ~(sum <= 100)
  BY <1>2, <1>4
<1> QED BY <1>3, <1>4

\* The risk of a draft follows its score, whatever the thresholds: a rewrite that
\* only takes objections away never raises it (spam_guardian.py:69-119).
THEOREM RiskGrows == MoreSignalsNeverSafer
<1> SUFFICES ASSUME NEW s \in Signals, NEW t \in Signals, Includes(t, s)
             PROVE  Rank(Risk(s)) <= Rank(Risk(t))
  BY DEF MoreSignalsNeverSafer
<1>1. Score(s) \in Int /\ Score(t) \in Int /\ Score(s) <= Score(t)
  <2>1. Score(t) \in Nat
    BY ScoreGrows DEF Includes, Signals
  <2> QED BY <2>1, ScoreGrows
<1>2. FlagThreshold \in Int /\ RewriteThreshold \in Int /\ RewriteThreshold <= FlagThreshold
  BY ThresholdAssumption
<1>3. CASE Score(s) >= FlagThreshold
  <2>1. Risk(s) = "high" /\ Risk(t) = "high"
    BY <1>1, <1>2, <1>3 DEF Risk
  <2> QED BY <2>1 DEF Rank
<1>4. CASE Score(s) < FlagThreshold /\ Score(s) >= RewriteThreshold
  <2>1. Risk(s) = "medium" /\ Risk(t) \in {"medium", "high"}
    BY <1>1, <1>2, <1>4 DEF Risk
  <2> QED BY <2>1 DEF Rank
<1>5. CASE Score(s) < RewriteThreshold
  <2>1. Risk(s) = "low" /\ Risk(t) \in {"low", "medium", "high"}
    BY <1>1, <1>2, <1>5 DEF Risk
  <2> QED BY <2>1 DEF Rank
<1> QED BY <1>1, <1>2, <1>3, <1>4, <1>5

-----------------------------------------------------------------------------
(* The variant of a lead, for every list of weights.                        *)

\* f is the function that UpTo recurses with up to the i-th weight.
Sums(shares, i, f) ==
  f = [k \in 0..i |-> IF k = 0 THEN 0 ELSE f[k - 1] + shares[k]]

\* UpTo is a value of the function the recursion defines, if it defines one.
LEMMA UpToIsASum == \A shares, i : UpTo(shares, i) = (CHOOSE f : Sums(shares, i, f))[i]
BY Zenon DEF UpTo, Sums

\* Two of them agree where both are defined.
LEMMA OneSum ==
  ASSUME NEW shares, NEW i \in Nat, NEW j \in 0..i, NEW f, NEW g, Sums(shares, i, f), Sums(shares, j, g)
  PROVE  f[j] = g[j]
<1> DEFINE S == {n \in Nat : n <= j => f[n] = g[n]}
<1>1. 0 \in S
  <2>1. f[0] = 0 /\ g[0] = 0
    BY DEF Sums
  <2> QED BY <2>1
<1>2. ASSUME NEW n \in S PROVE n + 1 \in S
  <2> SUFFICES ASSUME n + 1 <= j PROVE f[n + 1] = g[n + 1]
    OBVIOUS
  <2>1. n \in Nat /\ f[n] = g[n]
    OBVIOUS
  <2>2. f[n + 1] = f[(n + 1) - 1] + shares[n + 1] /\ g[n + 1] = g[(n + 1) - 1] + shares[n + 1]
    BY <2>1 DEF Sums
  <2> QED BY <2>1, <2>2
<1>3. S \in SUBSET Nat
  OBVIOUS
<1> HIDE DEF S
<1>4. S = Nat
  BY <1>1, <1>2, <1>3, AllNumbers
<1> QED BY <1>4 DEF S

\* There is one, for every prefix of every list.
LEMMA SumsExist ==
  ASSUME NEW shares \in Weights, NEW i \in 0..Len(shares)
  PROVE  \E f \in [0..i -> Nat] : Sums(shares, i, f)
<1> DEFINE S == {n \in Nat : n <= Len(shares) => \E f \in [0..n -> Nat] : Sums(shares, n, f)}
<1>0. /\ Len(shares) \in Nat
      /\ \A k \in 1..Len(shares) : shares[k] \in Nat
  BY DEF Weights
<1>1. 0 \in S
  <2> DEFINE f == [k \in 0..0 |-> 0]
  <2>1. f \in [0..0 -> Nat] /\ Sums(shares, 0, f)
    BY DEF Sums
  <2> HIDE DEF f
  <2> QED BY <2>1
<1>2. ASSUME NEW n \in S PROVE n + 1 \in S
  <2> SUFFICES ASSUME n + 1 <= Len(shares)
               PROVE  \E g \in [0..(n + 1) -> Nat] : Sums(shares, n + 1, g)
    OBVIOUS
  <2>1. PICK f \in [0..n -> Nat] : Sums(shares, n, f)
    BY <1>0
  <2>2. n \in Nat /\ shares[n + 1] \in Nat
    BY <1>0
  <2> DEFINE g == [k \in 0..(n + 1) |-> IF k = n + 1 THEN f[n] + shares[n + 1] ELSE f[k]]
  <2>3. g \in [0..(n + 1) -> Nat]
    BY <2>1, <2>2
  <2>4. \A k \in 0..n : f[k] = IF k = 0 THEN 0 ELSE f[k - 1] + shares[k]
    BY <2>1 DEF Sums
  <2>5. \A k \in 0..(n + 1) : g[k] = IF k = n + 1 THEN f[n] + shares[n + 1] ELSE f[k]
    OBVIOUS
  <2>6. \A k \in 0..(n + 1) : g[k] = IF k = 0 THEN 0 ELSE g[k - 1] + shares[k]
    <3> TAKE k \in 0..(n + 1)
    <3>1. CASE k = n + 1
      <4>1. k # 0 /\ g[k] = f[n] + shares[k] /\ g[k - 1] = f[n]
        BY <2>2, <2>5, <3>1
      <4> QED BY <4>1
    <3>2. CASE k \in 0..n /\ k # 0
      <4>1. g[k] = f[k] /\ g[k - 1] = f[k - 1] /\ k \in 0..n
        BY <2>2, <2>5, <3>2
      <4> QED BY <2>4, <3>2, <4>1
    <3>3. CASE k = 0
      <4>1. g[k] = f[0] /\ f[0] = 0
        BY <2>2, <2>4, <2>5, <3>3
      <4> QED BY <3>3, <4>1
    <3> QED BY <2>2, <3>1, <3>2, <3>3
  <2>7. Sums(shares, n + 1, g)
    <3> HIDE DEF g
    <3> QED BY <2>3, <2>6 DEF Sums
  <2> HIDE DEF g
  <2> QED BY <2>3, <2>7
<1>3. S \in SUBSET Nat
  OBVIOUS
<1> HIDE DEF S
<1>4. S = Nat
  BY <1>1, <1>2, <1>3, AllNumbers
<1>5. i \in S /\ i <= Len(shares)
  BY <1>0, <1>4
<1> QED BY <1>5 DEF S

\* The cumulated weights: each adds one variant's to those before.
LEMMA UpToAdds ==
  ASSUME NEW shares \in Weights
  PROVE  /\ UpTo(shares, 0) = 0
         /\ \A i \in 0..Len(shares) : UpTo(shares, i) \in Nat
         /\ \A i \in 1..Len(shares) : UpTo(shares, i) = UpTo(shares, i - 1) + shares[i]
<1>0. Len(shares) \in Nat
  BY DEF Weights
<1>1. ASSUME NEW i \in 0..Len(shares)
      PROVE  \E f \in [0..i -> Nat] : Sums(shares, i, f) /\ UpTo(shares, i) = f[i]
  <2>1. PICK f \in [0..i -> Nat] : Sums(shares, i, f)
    BY SumsExist
  <2> DEFINE g == CHOOSE h : Sums(shares, i, h)
  <2>2. Sums(shares, i, g)
    BY <2>1
  <2>3. UpTo(shares, i) = g[i]
    BY UpToIsASum
  <2> HIDE DEF g
  <2>4. f[i] = g[i]
    BY <1>0, <2>1, <2>2, OneSum
  <2> QED BY <2>1, <2>3, <2>4
<1>2. UpTo(shares, 0) = 0
  BY <1>0, <1>1 DEF Sums
<1>3. \A i \in 0..Len(shares) : UpTo(shares, i) \in Nat
  BY <1>0, <1>1
<1>4. ASSUME NEW i \in 1..Len(shares)
      PROVE  UpTo(shares, i) = UpTo(shares, i - 1) + shares[i]
  <2>1. i \in Nat /\ i \in 0..Len(shares) /\ i - 1 \in 0..Len(shares) /\ i - 1 \in 0..i
    BY <1>0
  <2>2. PICK f \in [0..i -> Nat] : Sums(shares, i, f) /\ UpTo(shares, i) = f[i]
    BY <1>1, <2>1
  <2>3. PICK g \in [0..(i - 1) -> Nat] : Sums(shares, i - 1, g) /\ UpTo(shares, i - 1) = g[i - 1]
    BY <1>1, <2>1
  <2>4. f[i - 1] = g[i - 1]
    BY <2>1, <2>2, <2>3, OneSum
  <2>5. f[i] = f[i - 1] + shares[i]
    BY <2>1, <2>2 DEF Sums
  <2> QED BY <2>2, <2>3, <2>4, <2>5
<1> QED BY <1>2, <1>3, <1>4

\* The cumulated weights grow.
LEMMA UpToGrows ==
  ASSUME NEW shares \in Weights, NEW i \in 0..Len(shares), NEW j \in 0..Len(shares), i <= j
  PROVE  UpTo(shares, i) <= UpTo(shares, j)
<1> DEFINE S == {n \in Nat : i + n <= Len(shares) => UpTo(shares, i) <= UpTo(shares, i + n)}
<1>0. /\ Len(shares) \in Nat /\ i \in Nat /\ j \in Nat
      /\ \A k \in 1..Len(shares) : shares[k] \in Nat
      /\ \A k \in 0..Len(shares) : UpTo(shares, k) \in Nat
  BY UpToAdds DEF Weights
<1>1. 0 \in S
  <2>1. i + 0 = i /\ UpTo(shares, i) \in Nat
    BY <1>0
  <2> QED BY <2>1
<1>2. ASSUME NEW n \in S PROVE n + 1 \in S
  <2> SUFFICES ASSUME i + (n + 1) <= Len(shares)
               PROVE  UpTo(shares, i) <= UpTo(shares, i + (n + 1))
    OBVIOUS
  <2> DEFINE k == i + (n + 1)
  <2>1. n \in Nat /\ k \in 1..Len(shares) /\ k - 1 = i + n /\ k - 1 \in 0..Len(shares)
    BY <1>0
  <2>2. UpTo(shares, i) <= UpTo(shares, k - 1)
    BY <1>0, <2>1
  <2> HIDE DEF k
  <2>3. UpTo(shares, k) = UpTo(shares, k - 1) + shares[k]
    BY <2>1, UpToAdds
  <2>4. UpTo(shares, i) \in Nat /\ UpTo(shares, k - 1) \in Nat /\ shares[k] \in Nat
    BY <1>0, <2>1
  <2>5. UpTo(shares, i) <= UpTo(shares, k)
    BY <2>2, <2>3, <2>4
  <2> QED BY <2>5 DEF k
<1>3. S \in SUBSET Nat
  OBVIOUS
<1> HIDE DEF S
<1>4. S = Nat
  BY <1>1, <1>2, <1>3, AllNumbers
<1>5. j - i \in Nat /\ i + (j - i) = j /\ j <= Len(shares)
  BY <1>0
<1>6. j - i \in S
  BY <1>4, <1>5
<1> QED BY <1>5, <1>6 DEF S

\* A hash below the total is its own bucket.
LEMMA SmallBucket ==
  ASSUME NEW n \in Nat, NEW h \in 0..(n - 1) PROVE h % n = h
OBVIOUS

\* A bucket between two cumulated weights chooses the variant between them: as many
\* as come before it are passed.
LEMMA ChosenBetween ==
  ASSUME NEW shares \in Weights, NEW i \in 1..Len(shares), NEW hash \in Nat,
         UpTo(shares, i - 1) <= Bucket(shares, hash), Bucket(shares, hash) < UpTo(shares, i),
         Bucket(shares, hash) \in Nat
  PROVE  Chosen(shares, hash) = i
<1> DEFINE b == Bucket(shares, hash)
           passed == {j \in DOMAIN shares : UpTo(shares, j) <= b}
<1>1. Len(shares) \in Nat /\ DOMAIN shares = 1..Len(shares) /\ b \in Nat
  BY DEF Weights
<1>2. \A k \in 0..Len(shares) : UpTo(shares, k) \in Nat
  BY UpToAdds
<1> HIDE DEF b
<1>3. UpTo(shares, i - 1) <= b /\ b < UpTo(shares, i)
  BY DEF b
<1>4. passed = 1..(i - 1)
  <2>1. ASSUME NEW j \in 1..(i - 1) PROVE j \in passed
    <3>1. j \in DOMAIN shares /\ UpTo(shares, j) <= UpTo(shares, i - 1)
      BY <1>1, UpToGrows
    <3>2. UpTo(shares, j) \in Nat /\ UpTo(shares, i - 1) \in Nat
      BY <1>1, <1>2
    <3> QED BY <1>1, <1>3, <3>1, <3>2
  <2>2. ASSUME NEW j \in passed PROVE j \in 1..(i - 1)
    <3>1. j \in 1..Len(shares) /\ UpTo(shares, j) <= b
      BY <1>1
    <3>2. CASE j < i
      BY <1>1, <3>1, <3>2
    <3>3. CASE i <= j
      <4>1. UpTo(shares, i) <= UpTo(shares, j)
        BY <1>1, <3>1, <3>3, UpToGrows
      <4>2. UpTo(shares, i) \in Nat /\ UpTo(shares, j) \in Nat
        BY <1>1, <1>2, <3>1
      <4> QED BY <1>1, <1>3, <3>1, <4>1, <4>2
    <3> QED BY <1>1, <3>1, <3>2, <3>3
  <2> HIDE DEF passed
  <2> QED BY <2>1, <2>2
<1>5. Chosen(shares, hash) = 1 + Cardinality(passed)
  BY DEF Chosen, b
<1>6. Cardinality(1..(i - 1)) = i - 1
  <2>1. 1 \in Int /\ i - 1 \in Int /\ (1 > i - 1 => i - 1 = 0)
    BY <1>1
  <2>2. Cardinality(1..(i - 1)) = IF 1 > i - 1 THEN 0 ELSE (i - 1) - 1 + 1
    BY <2>1, FS_Interval
  <2> QED BY <2>1, <2>2
<1> HIDE DEF passed
<1> QED BY <1>1, <1>4, <1>5, <1>6

\* Every bucket is below the cumulated weight of some variant, and not below the one
\* before: the least of those it is below.
LEMMA SomeVariant ==
  ASSUME NEW shares \in Weights, NEW b \in Nat, b < Total(shares)
  PROVE  \E i \in 1..Len(shares) : UpTo(shares, i - 1) <= b /\ b < UpTo(shares, i)
<1>1. Len(shares) \in Nat
  BY DEF Weights
<1>2. UpTo(shares, 0) = 0 /\ \A k \in 0..Len(shares) : UpTo(shares, k) \in Nat
  BY UpToAdds
<1> DEFINE S == {n \in 0..Len(shares) : b < UpTo(shares, n)}
<1>3. Len(shares) \in S /\ S \in SUBSET Nat
  BY <1>1 DEF Total
<1> HIDE DEF S
<1>4. PICK i \in S : \A k \in S : i <= k
  BY <1>3, Least
<1>5. i \in 0..Len(shares) /\ b < UpTo(shares, i) /\ i # 0
  BY <1>2, <1>4 DEF S
<1>6. i - 1 \notin S /\ i - 1 \in 0..Len(shares) /\ i \in 1..Len(shares)
  BY <1>1, <1>4, <1>5
<1>7. ~(b < UpTo(shares, i - 1)) /\ UpTo(shares, i - 1) \in Nat
  BY <1>2, <1>6 DEF S
<1>8. UpTo(shares, i - 1) <= b
  BY <1>7
<1> QED BY <1>5, <1>6, <1>8

\* However many variants a campaign has and whatever they weigh, over a period of the
\* hash each gets as many leads as it weighs (campaigns.py:31-41).
THEOREM VariantsGetTheirWeight ==
  \A shares \in Weights : \A i \in DOMAIN shares :
    Cardinality({hash \in 0..(Total(shares) - 1) : Chosen(shares, hash) = i}) = shares[i]
<1> TAKE shares \in Weights
<1> TAKE i \in DOMAIN shares
<1> DEFINE chosen == {hash \in 0..(Total(shares) - 1) : Chosen(shares, hash) = i}
           from == UpTo(shares, i - 1)
           to == UpTo(shares, i)
<1>1. /\ Len(shares) \in Nat /\ i \in 1..Len(shares) /\ i - 1 \in 0..Len(shares)
      /\ shares[i] \in Nat \ {0}
  BY DEF Weights
<1>2. from \in Nat /\ to \in Nat /\ Total(shares) \in Nat /\ to = from + shares[i]
  BY <1>1, UpToAdds DEF Total
<1>3. to <= Total(shares)
  BY <1>1, UpToGrows DEF Total
<1>4. ASSUME NEW hash \in 0..(Total(shares) - 1)
      PROVE  hash \in Nat /\ Bucket(shares, hash) = hash /\ hash < Total(shares)
  BY <1>2, SmallBucket DEF Bucket
<1>5. chosen = from..(to - 1)
  <2>1. ASSUME NEW hash \in from..(to - 1) PROVE hash \in chosen
    <3>1. hash \in 0..(Total(shares) - 1)
      BY <1>2, <1>3
    <3>2. from <= hash /\ hash < to /\ hash \in Nat
      BY <1>2
    <3>3. Chosen(shares, hash) = i
      BY <1>1, <1>4, <3>1, <3>2, ChosenBetween
    <3> QED BY <3>1, <3>3
  <2>2. ASSUME NEW hash \in chosen PROVE hash \in from..(to - 1)
    <3>1. hash \in 0..(Total(shares) - 1) /\ Chosen(shares, hash) = i
      OBVIOUS
    <3>2. PICK j \in 1..Len(shares) : UpTo(shares, j - 1) <= hash /\ hash < UpTo(shares, j)
      BY <1>4, <3>1, SomeVariant
    <3>3. j = i
      BY <1>4, <3>1, <3>2, ChosenBetween
    <3> QED BY <1>2, <1>4, <3>1, <3>2, <3>3
  <2> HIDE DEF chosen
  <2> QED BY <2>1, <2>2
<1>6. Cardinality(from..(to - 1)) = shares[i]
  <2>1. from \in Int /\ to - 1 \in Int /\ ~(from > to - 1)
    BY <1>1, <1>2
  <2>2. Cardinality(from..(to - 1)) = IF from > to - 1 THEN 0 ELSE (to - 1) - from + 1
    <3> HIDE DEF from, to
    <3> QED BY <2>1, FS_Interval
  <2> QED BY <1>1, <1>2, <2>1, <2>2
<1> QED BY <1>5, <1>6

\* In particular for the lists the runs check.
THEOREM VariantsFollowTheirWeights == Spec => []VariantsAreWeighted
<1>1. VariantsAreWeighted
  <2> DEFINE lists == [1..2 -> 1..2] \cup {<<1, 2, 1>>}
  <2>1. \A some \in lists : some \in Weights
    <3>1. ASSUME NEW some \in [1..2 -> 1..2] PROVE some \in Weights
      <4>1. some[1] \in Nat \ {0} /\ some[2] \in Nat \ {0} /\ some = <<some[1], some[2]>>
        OBVIOUS
      <4>2. <<some[1], some[2]>> \in Seq(Nat \ {0})
        BY <4>1
      <4> QED BY <4>1, <4>2 DEF Weights
    <3>2. <<1, 2, 1>> \in Weights
      BY DEF Weights
    <3> QED BY <3>1, <3>2
  <2> HIDE DEF lists
  <2>2. \A some \in lists : \A i \in DOMAIN some :
          Cardinality({hash \in 0..(Total(some) - 1) : Chosen(some, hash) = i}) = some[i]
    BY <2>1, VariantsGetTheirWeight
  <2> QED BY <2>2 DEF VariantsAreWeighted, lists
<1> QED BY <1>1, PTL

\* A campaign with variants has one for every hash: the first variant is never fallen
\* back on (campaigns.py:35-41).
THEOREM AVariantIsChosen ==
  \A shares \in Weights : shares # <<>> =>
    \A hash \in Nat : Chosen(shares, hash) \in DOMAIN shares
<1> SUFFICES ASSUME NEW shares \in Weights, shares # <<>>, NEW hash \in Nat
             PROVE  Chosen(shares, hash) \in DOMAIN shares
  OBVIOUS
<1>1. Len(shares) \in Nat \ {0} /\ DOMAIN shares = 1..Len(shares)
  BY DEF Weights
<1>2. Total(shares) \in Nat \ {0}
  <2>1. /\ UpTo(shares, 0) = 0 /\ UpTo(shares, 1) = UpTo(shares, 1 - 1) + shares[1]
        /\ UpTo(shares, 1) \in Nat /\ Total(shares) \in Nat
    BY <1>1, UpToAdds DEF Total
  <2>2. UpTo(shares, 1) <= Total(shares)
    BY <1>1, UpToGrows DEF Total
  <2>3. shares[1] \in Nat \ {0}
    BY <1>1 DEF Weights
  <2> QED BY <2>1, <2>2, <2>3
<1>3. Bucket(shares, hash) \in Nat /\ Bucket(shares, hash) < Total(shares)
  <2> HIDE DEF Total
  <2> QED BY <1>2 DEF Bucket
<1>4. PICK i \in 1..Len(shares) :
        UpTo(shares, i - 1) <= Bucket(shares, hash) /\ Bucket(shares, hash) < UpTo(shares, i)
  BY <1>3, SomeVariant
<1>5. Chosen(shares, hash) = i
  BY <1>3, <1>4, ChosenBetween
<1> QED BY <1>1, <1>5

USE IntakeAssumption

-----------------------------------------------------------------------------
(* Transactions.                                                            *)

Overlapped == "overlap" \in spent

\* Without an overlap one transaction is open, at most.
OneOpen == Overlapped \/ \A x, y \in Open : x = y

\* What is about to be inserted differs from every lead and from one another.
NewEmails(fresh) ==
  /\ \A p \in fresh, id \in There : Email(id) # EmailOf[p]
  /\ \A p, q \in fresh : p # q => EmailOf[p] # EmailOf[q]
NewSites(fresh) ==
  /\ \A p \in fresh, id \in There : Site(id) # SiteOf[p]
  /\ \A p, q \in fresh : p # q => SiteOf[p] # SiteOf[q]

FreshIsNew ==
  \/ Overlapped
  \/ /\ \A u \in Uploads : upload[u].pc = "checking" => NewEmails(upload[u].fresh)
     /\ \A r \in Runs : run[r].pc = "looking" =>
          NewEmails(run[r].fresh) /\ NewSites(run[r].fresh)

Inv == IntakeInv /\ OneOpen /\ FreshIsNew /\ NoDuplicates

-----------------------------------------------------------------------------
(* Sets of prospects and of leads are finite.                               *)

\* Sets of prospects are finite.
LEMMA FewProspects == ASSUME NEW S \in SUBSET Prospects
                      PROVE  IsFiniteSet(S) /\ Cardinality(S) \in Nat
BY FS_Subset, FS_CardinalityType

\* Sets of leads are finite: there are MaxCopies of each prospect.
LEMMA FewIds == ASSUME NEW S \in SUBSET Ids
                PROVE  IsFiniteSet(S) /\ Cardinality(S) \in Nat
<1>1. IsFiniteSet(1..MaxCopies)
  BY FS_Interval
<1>2. IsFiniteSet(Ids)
  BY <1>1, FS_Product DEF Ids
<1> QED BY <1>2, FS_Subset, FS_CardinalityType

\* There is nothing in the empty set.
LEMMA NothingIsEmpty == Cardinality({}) = 0
BY FS_EmptySet

-----------------------------------------------------------------------------
(* The states of a run.                                                     *)

\* What TypeOK, RunsInOrder and DailyCountKept say of one run.
RunOK(x) ==
  /\ x \in RunStates
  /\ x.pc \in {"creating", "searching"} => x.queries > 0 /\ x.fresh = {}
  /\ x.pc # "publishing" => x.ids = {}
  /\ x.pc = "publishing" => x.todo = {} /\ x.fresh = {}
  /\ x.pc \in {"idle", "creating", "done", "failed"} => x.todo = {} /\ x.fresh = {}
  /\ Cardinality(x.todo) + Cardinality(x.fresh) + Cardinality(x.ids) <= DailyCount

\* The invariant, read run by run.
LEMMA RunsAreOK == IntakeInv => \A r \in Runs : RunOK(run[r])
BY DEF IntakeInv, TypeOK, RunsInOrder, DailyCountKept, RunOK

\* A run that holds nothing.
LEMMA EmptyRun ==
  ASSUME NEW pc \in {"idle", "creating", "searching", "done", "failed"}
  PROVE  /\ RunOK([NoRun EXCEPT !.pc = pc])
         /\ [NoRun EXCEPT !.pc = pc].pc = pc /\ [NoRun EXCEPT !.pc = pc].fresh = {}
<1> DEFINE x == [NoRun EXCEPT !.pc = pc]
<1>1. NoRun \in RunStates /\ NoRun.todo = {} /\ NoRun.fresh = {} /\ NoRun.ids = {}
  BY DEF NoRun, RunStates
<1>2. /\ x \in RunStates /\ x.pc = pc /\ x.todo = {} /\ x.fresh = {} /\ x.ids = {}
      /\ x.queries = NoRun.queries
  BY <1>1 DEF RunStates
<1> HIDE DEF x
<1>3. Cardinality(x.todo) + Cardinality(x.fresh) + Cardinality(x.ids) <= DailyCount
  BY <1>2, NothingIsEmpty
<1>4. NoRun.queries > 0
  BY DEF NoRun
<1> QED BY <1>2, <1>3, <1>4 DEF RunOK, x

\* A step of a run that is not its commit: it opens no transaction beside another
\* unless that is counted as an overlap, and what it is about to insert is new and
\* has passed the check.
LEMMA RunMoves ==
  ASSUME Inv, NEW r \in Runs, NEW x, Move(r, x), RunOK(x),
         UNCHANGED <<lead, suppressed, upload, batch, task>>,
         weights' \in Weights, cut' \in SUBSET Ids, queue' \in [Ids -> Nat], retried' \in [Ids -> Counts],
         spent' \in SUBSET EventKinds, spent \subseteq spent',
         x.pc \in {"creating", "searching", "looking"} =>
           r \in Open \/ Alone \/ "overlap" \in spent',
         "suppression" \in spent \/ \A p \in x.fresh : ~IsSuppressed(EmailOf[p]),
         x.pc = "looking" => Overlapped \/ (NewEmails(x.fresh) /\ NewSites(x.fresh))
  PROVE  Inv'
<1>1. /\ run' \in [Runs -> RunStates]
      /\ \A q \in Runs : run'[q] = IF q = r THEN x ELSE run[q]
  BY DEF Move, Inv, IntakeInv, TypeOK, RunOK
<1>2. TypeOK' /\ TasksHaveLeads'
  BY <1>1 DEF Inv, IntakeInv, TypeOK, TasksHaveLeads
<1>3. RunsInOrder' /\ DailyCountKept'
  <2>1. \A q \in Runs : RunOK(run'[q])
    BY <1>1, RunsAreOK DEF Inv
  <2> QED BY <2>1 DEF RunOK, RunsInOrder, DailyCountKept
<1>4. PassedTheCheck'
  BY <1>1 DEF Inv, IntakeInv, PassedTheCheck, IsSuppressed
<1>5. There' = There
  BY DEF There
<1>6. SuppressedStayOut' /\ NoDuplicates'
  BY <1>5 DEF Inv, IntakeInv, SuppressedStayOut, NoDuplicates
<1>7. OneOpen'
  BY <1>1 DEF Inv, OneOpen, Overlapped, Open, Alone
<1>8. FreshIsNew'
  BY <1>1, <1>5 DEF Inv, FreshIsNew, Overlapped, NewEmails, NewSites
<1> QED BY <1>2, <1>3, <1>4, <1>6, <1>7, <1>8 DEF Inv, IntakeInv

\* Events are spent once, and stay spent.
LEMMA Spent == ASSUME TypeOK, NEW kind \in EventKinds, Spend(kind)
               PROVE  spent' \in SUBSET EventKinds /\ spent \subseteq spent' /\ kind \in spent'
BY DEF TypeOK, Spend

\* A transaction opens alone, or the overlap is spent.
LEMMA OpensIsCounted ==
  ASSUME TypeOK, Opens
  PROVE  /\ spent' \in SUBSET EventKinds /\ spent \subseteq spent'
         /\ Alone \/ "overlap" \in spent'
BY Spent DEF Opens, EventKinds, TypeOK

-----------------------------------------------------------------------------
(* discover_leads_task.                                                     *)

\* A run opens its transaction.
LEMMA BeginRunKeeps == ASSUME Inv, NEW r \in Runs, BeginRun(r) PROVE Inv'
<1> DEFINE pc == IF weights = <<>> THEN "creating" ELSE "searching"
           x == [NoRun EXCEPT !.pc = pc]
<1>1. RunOK(x) /\ x.pc = pc /\ x.fresh = {}
  BY EmptyRun
<1> HIDE DEF x
<1>2. spent' \in SUBSET EventKinds /\ spent \subseteq spent' /\ (Alone \/ "overlap" \in spent')
  BY OpensIsCounted DEF BeginRun, Inv, IntakeInv
<1>3. Move(r, x)
  BY DEF BeginRun, x
<1> QED BY <1>1, <1>2, <1>3, RunMoves DEF BeginRun, intake, enrichment, broker, Inv, IntakeInv, TypeOK

\* A run that found no campaign adds its own.
LEMMA CreateCampaignKeeps == ASSUME Inv, NEW r \in Runs, CreateCampaign(r) PROVE Inv'
<1> DEFINE x == [run[r] EXCEPT !.pc = "searching", !.own = TRUE]
<1>1. RunOK(run[r]) /\ run[r].pc = "creating"
  BY RunsAreOK DEF Inv, CreateCampaign
<1>2. RunOK(x) /\ x.pc = "searching" /\ x.fresh = {}
  BY <1>1 DEF RunOK, RunStates
<1>3. Move(r, x) /\ r \in Open
  BY <1>1 DEF CreateCampaign, Open
<1> HIDE DEF x
<1> QED BY <1>2, <1>3, RunMoves DEF CreateCampaign, intake, enrichment, broker, Inv, IntakeInv, TypeOK

\* A run that ends without leads: it records that it failed, or nothing.
LEMMA EndedRun ==
  ASSUME Inv, NEW r \in Runs, NEW pc \in {"done", "failed"},
         Move(r, [NoRun EXCEPT !.pc = pc]), UNCHANGED <<lead, suppressed, upload, batch, task>>,
         weights' \in Weights, cut' \in SUBSET Ids, queue' \in [Ids -> Nat], retried' \in [Ids -> Counts],
         spent' \in SUBSET EventKinds, spent \subseteq spent'
  PROVE  Inv'
<1> DEFINE x == [NoRun EXCEPT !.pc = pc]
<1>1. RunOK(x) /\ x.pc = pc /\ x.fresh = {}
  BY EmptyRun
<1> HIDE DEF x
<1> QED BY <1>1, RunMoves DEF x

\* A campaign's variants weigh at least 1 each, whoever made it.
LEMMA CampaignIsWeighted == ASSUME TypeOK, NEW r \in Runs PROVE CampaignOf(r) \in Weights
<1>1. <<1>> \in Seq(Nat \ {0})
  OBVIOUS
<1> QED BY <1>1 DEF TypeOK, CampaignOf, Weights

\* The name clashes, the search fails, or the run crashes.
LEMMA RunEndsKeeps ==
  ASSUME Inv, NEW r \in Runs, CampaignClash(r) \/ SearchFails(r) \/ RunCrash(r)
  PROVE  Inv'
<1>1. TypeOK /\ run[r] \in RunStates
  BY DEF Inv, IntakeInv, TypeOK
<1>2. CASE CampaignClash(r)
  BY <1>1, <1>2, EndedRun DEF CampaignClash, intake, enrichment, broker, TypeOK
<1>3. CASE SearchFails(r)
  <2>1. spent' \in SUBSET EventKinds /\ spent \subseteq spent'
    BY <1>1, <1>3, Spent DEF SearchFails, EventKinds
  <2> QED BY <1>1, <1>3, <2>1, CampaignIsWeighted, EndedRun DEF SearchFails, enrichment, broker, TypeOK
<1>4. CASE RunCrash(r)
  <2>1. spent' \in SUBSET EventKinds /\ spent \subseteq spent'
    BY <1>1, <1>4, Spent DEF RunCrash, EventKinds
  <2>2. cut' \in SUBSET Ids
    BY <1>1, <1>4 DEF RunCrash, TypeOK, RunStates
  <2> QED BY <1>1, <1>4, <2>1, <2>2, EndedRun DEF RunCrash, intake, broker, TypeOK
<1> QED BY <1>2, <1>3, <1>4

\* The businesses of a run, whatever its queries find, are no more than it may look at.
LEMMA SearchKeeps ==
  ASSUME Inv, NEW r \in Runs, NEW found \in SUBSET Prospects, Search(r, found)
  PROVE  Inv'
<1> DEFINE all == run[r].todo \cup found
           pc == IF run[r].queries = 1 \/ Remaining(all) <= 0 THEN "looking" ELSE run[r].pc
           x0 == [run[r] EXCEPT !.todo = all]
           x1 == [x0 EXCEPT !.queries = run[r].queries - 1]
           x == [x1 EXCEPT !.pc = pc]
<1>1. RunOK(run[r]) /\ run[r].pc = "searching"
  BY RunsAreOK DEF Inv, Search
<1>2. /\ run[r] \in RunStates /\ run[r].fresh = {} /\ run[r].ids = {} /\ run[r].queries > 0
      /\ run[r].queries \in 0..Queries /\ run[r].todo \in SUBSET Prospects
  BY <1>1 DEF RunOK, RunStates
<1>3. Cardinality(all) <= DailyCount
  <2>1. Cardinality(found) <= DailyCount - Cardinality(run[r].todo)
    BY DEF Search, Remaining
  <2>2. /\ Cardinality(all) = Cardinality(run[r].todo) + Cardinality(found)
                                - Cardinality(run[r].todo \cap found)
    BY <1>2, FewProspects, FS_Union
  <2>3. /\ Cardinality(run[r].todo) \in Nat /\ Cardinality(found) \in Nat
        /\ Cardinality(run[r].todo \cap found) \in Nat
    BY <1>2, FewProspects
  <2> QED BY <2>1, <2>2, <2>3
<1>4. all \in SUBSET Prospects /\ pc \in {"searching", "looking"}
  BY <1>1, <1>2
<1>5. Move(r, x)
  BY DEF Search
<1> HIDE DEF all, pc
<1>6. /\ x0 \in RunStates /\ x0.todo = all /\ x0.fresh = {} /\ x0.ids = {}
  BY <1>2, <1>4 DEF RunStates
<1> HIDE DEF x0
<1>7. /\ x1 \in RunStates /\ x1.todo = all /\ x1.fresh = {} /\ x1.ids = {}
      /\ x1.queries = run[r].queries - 1
  BY <1>2, <1>6 DEF RunStates
<1> HIDE DEF x1
<1>8. /\ x \in RunStates /\ x.todo = all /\ x.fresh = {} /\ x.ids = {} /\ x.pc = pc
      /\ x.queries = run[r].queries - 1
  BY <1>4, <1>7 DEF RunStates
<1> HIDE DEF x
<1>9. Cardinality(x.todo) + Cardinality(x.fresh) + Cardinality(x.ids) <= DailyCount
  <2>1. Cardinality(all) \in Nat
    BY <1>4, FewProspects
  <2> QED BY <1>3, <1>8, <2>1, NothingIsEmpty
<1>10. pc = "searching" => x.queries > 0
  <2>1. pc = "searching" => run[r].queries # 1
    BY DEF pc
  <2> QED BY <1>2, <1>8, <2>1
<1>11. RunOK(x)
  BY <1>4, <1>8, <1>9, <1>10 DEF RunOK
<1>12. NewEmails(x.fresh) /\ NewSites(x.fresh) /\ r \in Open
  BY <1>1, <1>8 DEF NewEmails, NewSites, Open
<1> QED BY <1>5, <1>8, <1>11, <1>12, RunMoves DEF Search, intake, enrichment, broker, Inv, IntakeInv, TypeOK

\* A business is looked up once: it leaves the list, and is new or left out.
Looked(x, p, fresh) == [x EXCEPT !.todo = @ \ {p}, !.fresh = fresh]

\* What looking up one business does to a run: it holds no more than before.
LEMMA LookedUp ==
  ASSUME NEW x \in RunStates, RunOK(x), x.pc = "looking", NEW p \in Prospects, p \in x.todo,
         NEW fresh, fresh = x.fresh \/ fresh = x.fresh \cup {p}
  PROVE  /\ RunOK(Looked(x, p, fresh))
         /\ Looked(x, p, fresh).pc = "looking" /\ Looked(x, p, fresh).fresh = fresh
<1> DEFINE y == Looked(x, p, fresh)
<1>1. x.todo \in SUBSET Prospects /\ x.fresh \in SUBSET Prospects /\ x.ids = {}
  BY DEF RunStates, RunOK
<1>2. fresh \in SUBSET Prospects
  BY <1>1
<1>3. y \in RunStates /\ y.pc = "looking" /\ y.fresh = fresh /\ y.todo = x.todo \ {p} /\ y.ids = {}
  BY <1>1, <1>2 DEF RunStates, Looked
<1>4. Cardinality(x.todo \ {p}) = Cardinality(x.todo) - 1
  BY <1>1, FewProspects, FS_RemoveElement
<1>5. Cardinality(fresh) <= Cardinality(x.fresh) + 1
  <2>1. Cardinality(x.fresh) \in Nat
    BY <1>1, FewProspects
  <2>2. \/ Cardinality(x.fresh \cup {p}) = Cardinality(x.fresh)
        \/ Cardinality(x.fresh \cup {p}) = Cardinality(x.fresh) + 1
    BY <1>1, FewProspects, FS_AddElement
  <2>3. Cardinality(fresh) = Cardinality(x.fresh)
          \/ Cardinality(fresh) = Cardinality(x.fresh) + 1
    BY <2>2
  <2> QED BY <2>1, <2>3
<1>6. /\ Cardinality(x.todo) \in Nat /\ Cardinality(x.fresh) \in Nat
      /\ Cardinality(fresh) \in Nat
      /\ Cardinality(x.todo) + Cardinality(x.fresh) <= DailyCount
  <2>1. Cardinality(x.todo) \in Nat /\ Cardinality(x.fresh) \in Nat /\ Cardinality(fresh) \in Nat
    BY <1>1, <1>2, FewProspects
  <2> QED BY <1>1, <2>1, NothingIsEmpty DEF RunOK
<1> HIDE DEF y
<1>7. Cardinality(y.todo) + Cardinality(y.fresh) + Cardinality(y.ids) <= DailyCount
  BY <1>3, <1>4, <1>5, <1>6, NothingIsEmpty
<1> QED BY <1>3, <1>7 DEF RunOK, y

\* A business whose address and site nobody has is to be inserted.
LEMMA ConsiderKeeps ==
  ASSUME Inv, NEW r \in Runs, NEW p \in Prospects, Consider(r, p)
  PROVE  Inv'
<1> DEFINE fresh == IF IsNew(r, p) THEN run[r].fresh \cup {p} ELSE run[r].fresh
           x == Looked(run[r], p, fresh)
<1>1. RunOK(run[r]) /\ run[r] \in RunStates /\ run[r].pc = "looking" /\ p \in run[r].todo
  BY RunsAreOK DEF Inv, Consider, RunOK
<1>2. RunOK(x) /\ x.pc = "looking" /\ x.fresh = fresh
  <2>1. fresh = run[r].fresh \/ fresh = run[r].fresh \cup {p}
    OBVIOUS
  <2> HIDE DEF fresh
  <2> QED BY <1>1, <2>1, LookedUp
<1>3. Move(r, x) /\ r \in Open
  BY <1>1 DEF Consider, Open, Looked
<1>4. "suppression" \in spent \/ \A q \in fresh : ~IsSuppressed(EmailOf[q])
  BY DEF Inv, IntakeInv, PassedTheCheck, IsNew
<1>5. Overlapped \/ (NewEmails(fresh) /\ NewSites(fresh))
  <2>1. CASE ~IsNew(r, p)
    BY <1>1, <2>1 DEF Inv, FreshIsNew
  <2>2. CASE IsNew(r, p)
    <3>1. EmailOf[p] \in LikeOf[EmailOf[p]]
      OBVIOUS
    <3>2. /\ \A id \in There : Email(id) # EmailOf[p] /\ Site(id) # SiteOf[p]
          /\ \A q \in run[r].fresh : EmailOf[q] # EmailOf[p] /\ SiteOf[q] # SiteOf[p]
      <4>1. WithAddress(EmailOf[p], run[r].fresh) = {} /\ WithSite(SiteOf[p], run[r].fresh) = {}
        BY <2>2 DEF IsNew
      <4>2. \A id \in There : Email(id) # EmailOf[p] /\ Site(id) # SiteOf[p]
        BY <3>1, <4>1 DEF WithAddress, WithSite
      <4>3. ASSUME NEW q \in run[r].fresh PROVE EmailOf[q] # EmailOf[p] /\ SiteOf[q] # SiteOf[p]
        <5>1. EmailOf[q] \in LikeOf[EmailOf[p]] => <<q, 0>> \in WithAddress(EmailOf[p], run[r].fresh)
          BY DEF WithAddress
        <5>2. SiteOf[q] = SiteOf[p] => <<q, 0>> \in WithSite(SiteOf[p], run[r].fresh)
          BY DEF WithSite
        <5> QED BY <3>1, <4>1, <5>1, <5>2
      <4> QED BY <4>2, <4>3
    <3>3. Overlapped \/ (NewEmails(run[r].fresh) /\ NewSites(run[r].fresh))
      BY <1>1 DEF Inv, FreshIsNew
    <3> QED BY <2>2, <3>2, <3>3 DEF NewEmails, NewSites
  <2> QED BY <2>1, <2>2
<1> HIDE DEF fresh, x
<1> QED BY <1>2, <1>3, <1>4, <1>5, RunMoves DEF Consider, intake, enrichment, broker, Inv, IntakeInv, TypeOK

\* A business nobody can be reached at is left out.
LEMMA NoContactKeeps ==
  ASSUME Inv, NEW r \in Runs, NEW p \in Prospects, NoContact(r, p)
  PROVE  Inv'
<1> DEFINE x == Looked(run[r], p, run[r].fresh)
<1>1. RunOK(run[r]) /\ run[r] \in RunStates /\ run[r].pc = "looking" /\ p \in run[r].todo
  BY RunsAreOK DEF Inv, NoContact, RunOK
<1>2. RunOK(x) /\ x.pc = "looking" /\ x.fresh = run[r].fresh
  BY <1>1, LookedUp
<1>3. Move(r, x) /\ r \in Open
  <2>1. x = [run[r] EXCEPT !.todo = @ \ {p}]
    BY <1>1 DEF RunStates, Looked
  <2> QED BY <1>1, <2>1 DEF NoContact, Open
<1>4. /\ "suppression" \in spent \/ \A q \in run[r].fresh : ~IsSuppressed(EmailOf[q])
      /\ Overlapped \/ (NewEmails(run[r].fresh) /\ NewSites(run[r].fresh))
  BY <1>1 DEF Inv, IntakeInv, PassedTheCheck, FreshIsNew
<1>5. spent' \in SUBSET EventKinds /\ spent \subseteq spent'
  BY Spent DEF NoContact, EventKinds, Inv, IntakeInv
<1> HIDE DEF x
<1> QED BY <1>2, <1>3, <1>4, <1>5, RunMoves DEF NoContact, intake, enrichment, broker, Inv, IntakeInv, TypeOK

\* One committed lead less to publish, or the run is done.
LEMMA PublishLeadKeeps ==
  ASSUME Inv, NEW r \in Runs, NEW id \in Ids, PublishLead(r, id)
  PROVE  Inv'
<1>1. RunOK(run[r]) /\ run[r] \in RunStates /\ run[r].pc = "publishing" /\ id \in run[r].ids
  BY RunsAreOK DEF Inv, PublishLead, RunOK
<1>2. queue' \in [Ids -> Nat] /\ UNCHANGED retried
  BY DEF PublishLead, Published, Inv, IntakeInv, TypeOK
<1>3. CASE run[r].ids = {id}
  BY <1>2, <1>3, EndedRun DEF PublishLead, intake, Inv, IntakeInv, TypeOK
<1>4. CASE run[r].ids # {id}
  <2> DEFINE x == [run[r] EXCEPT !.ids = @ \ {id}]
  <2>1. /\ x \in RunStates /\ x.pc = "publishing" /\ x.ids = run[r].ids \ {id}
        /\ x.todo = run[r].todo /\ x.fresh = run[r].fresh
    BY <1>1 DEF RunStates
  <2>2. run[r].todo = {} /\ run[r].fresh = {} /\ run[r].ids \in SUBSET Ids
    BY <1>1 DEF RunOK, RunStates
  <2>3. Cardinality(run[r].ids \ {id}) <= DailyCount
    <3>1. Cardinality(run[r].ids) \in Nat /\ Cardinality(run[r].ids) <= DailyCount
      BY <1>1, <2>2, FewIds, NothingIsEmpty DEF RunOK
    <3>2. Cardinality(run[r].ids \ {id}) = Cardinality(run[r].ids) - 1
      BY <1>1, <2>2, FewIds, FS_RemoveElement
    <3> QED BY <3>1, <3>2
  <2>4. Move(r, x)
    BY <1>4 DEF PublishLead
  <2> HIDE DEF x
  <2>5. RunOK(x)
    <3>1. Cardinality(run[r].ids \ {id}) \in Nat
      BY <2>2, FewIds
    <3> QED BY <2>1, <2>2, <2>3, <3>1, NothingIsEmpty DEF RunOK
  <2> QED BY <1>2, <2>1, <2>2, <2>4, <2>5, RunMoves DEF PublishLead, intake, Inv, IntakeInv, TypeOK
<1> QED BY <1>3, <1>4

-----------------------------------------------------------------------------
(* Transactions insert leads.                                               *)

\* The new rows are copies that were free, one for each fresh prospect.
LEMMA InsertedLeads ==
  ASSUME TypeOK, NEW fresh \in SUBSET Prospects, Fits(fresh),
         NEW source \in {"manual", "discovery"}, NEW enrolled \in BOOLEAN,
         lead' = Inserted(fresh, source, enrolled)
  PROVE  /\ lead' \in [Ids -> Leads]
         /\ \A id \in There : lead'[id] = lead[id]
         /\ There \subseteq There'
         /\ \A id \in There' \ There :
              /\ id[1] \in fresh /\ id = FreeCopy(id[1])
              /\ lead'[id].source = source /\ lead'[id].drafts = 0
<1> DEFINE new == [NoLead EXCEPT !.there = TRUE, !.source = source, !.enrolled = enrolled]
<1>1. new \in Leads /\ new.there /\ new.source = source /\ new.drafts = 0
  BY DEF NoLead, Leads
<1>2. \A id \in Ids : lead'[id] = IF id[1] \in fresh /\ id = FreeCopy(id[1]) THEN new ELSE lead[id]
  BY DEF Inserted
<1>3. DOMAIN lead' = Ids /\ lead' = [id \in Ids |-> lead'[id]]
  BY DEF Inserted
<1> HIDE DEF new
<1>4. \A id \in Ids : lead[id] \in Leads
  BY DEF TypeOK
<1>5. lead' \in [Ids -> Leads]
  BY <1>1, <1>2, <1>3, <1>4
<1>6. \A id \in Ids : id[1] \in fresh /\ id = FreeCopy(id[1]) => ~lead[id].there
  <2>1. \A p \in fresh : FreeCopy(p) \in FreeCopies(p)
    BY DEF Fits, FreeCopy
  <2> QED BY <2>1 DEF FreeCopies
<1>7. \A id \in There : lead'[id] = lead[id]
  BY <1>2, <1>6 DEF There
<1>8. \A id \in There' \ There :
        /\ id[1] \in fresh /\ id = FreeCopy(id[1])
        /\ lead'[id].source = source /\ lead'[id].drafts = 0
  BY <1>1, <1>2 DEF There
<1>9. There \subseteq There'
  BY <1>7 DEF There
<1> QED BY <1>5, <1>7, <1>8, <1>9

\* No lead is inserted beside another with its address.
LEMMA InsertedAreNew ==
  ASSUME Inv, NEW fresh \in SUBSET Prospects, Fits(fresh),
         NEW source \in {"manual", "discovery"}, NEW enrolled \in BOOLEAN,
         lead' = Inserted(fresh, source, enrolled), UNCHANGED spent,
         Overlapped \/ NewEmails(fresh), source = "discovery" => Overlapped \/ NewSites(fresh)
  PROVE  NoDuplicates'
<1> SUFFICES ASSUME ~Overlapped,
                    NEW i \in There', NEW j \in There', i # j
             PROVE  /\ Email(i) # Email(j)
                    /\ lead'[i].source = "discovery" /\ lead'[j].source = "discovery"
                         => Site(i) # Site(j)
  BY DEF NoDuplicates, Overlapped
<1>1. /\ \A id \in There : lead'[id] = lead[id]
      /\ \A id \in There' \ There :
           id[1] \in fresh /\ id = FreeCopy(id[1]) /\ lead'[id].source = source
  BY InsertedLeads DEF Inv, IntakeInv
<1>2. CASE i \in There /\ j \in There
  BY <1>1, <1>2 DEF Inv, NoDuplicates, Overlapped
<1>3. CASE i \in There /\ j \notin There
  BY <1>1, <1>3 DEF NewEmails, NewSites, Email, Site
<1>4. CASE i \notin There /\ j \in There
  BY <1>1, <1>4 DEF NewEmails, NewSites, Email, Site
<1>5. CASE i \notin There /\ j \notin There
  <2>1. i[1] \in fresh /\ j[1] \in fresh /\ i[1] # j[1]
    BY <1>1, <1>5
  <2> QED BY <1>1, <1>5, <2>1 DEF NewEmails, NewSites, Email, Site
<1> QED BY <1>2, <1>3, <1>4, <1>5

\* Only uploads bring in a lead with a suppressed address or domain.
LEMMA InsertedAreAllowed ==
  ASSUME Inv, NEW fresh \in SUBSET Prospects, Fits(fresh),
         NEW source \in {"manual", "discovery"}, NEW enrolled \in BOOLEAN,
         lead' = Inserted(fresh, source, enrolled), UNCHANGED <<suppressed, spent>>,
         source = "discovery" =>
           "suppression" \in spent \/ \A p \in fresh : ~IsSuppressed(EmailOf[p])
  PROVE  SuppressedStayOut'
<1> SUFFICES ASSUME "suppression" \notin spent, NEW id \in There', NEW s \in suppressed,
                    DomainOf[s] = DomainOf[Email(id)]
             PROVE  lead'[id].source = "manual" /\ lead'[id].drafts = 0
  BY DEF SuppressedStayOut
<1>1. /\ \A i \in There : lead'[i] = lead[i]
      /\ \A i \in There' \ There :
           id[1] \in fresh \/ i # id
      /\ \A i \in There' \ There : lead'[i].source = source /\ lead'[i].drafts = 0
  BY InsertedLeads DEF Inv, IntakeInv
<1>2. CASE id \in There
  BY <1>1, <1>2 DEF Inv, IntakeInv, SuppressedStayOut
<1>3. CASE id \notin There
  <2>1. id[1] \in fresh /\ IsSuppressed(EmailOf[id[1]])
    BY <1>1, <1>3 DEF IsSuppressed, Email
  <2> QED BY <1>1, <1>3, <2>1
<1> QED BY <1>2, <1>3

\* Leads of one run have different prospects: there are no more of them.
LEMMA CopiesAreAsMany ==
  ASSUME NEW fresh \in SUBSET Prospects
  PROVE  Cardinality({FreeCopy(p) : p \in fresh}) <= Cardinality(fresh)
<1> DEFINE copies == {FreeCopy(p) : p \in fresh}
           f == [p \in fresh |-> FreeCopy(p)]
<1>1. f \in Surjection(fresh, copies)
  BY DEF Surjection
<1>2. IsFiniteSet(fresh)
  BY FewProspects
<1> HIDE DEF f, copies
<1> QED BY <1>1, <1>2, FS_Surjection DEF copies

\* The commit of a run: nothing else was about to insert, unless there was an overlap.
LEMMA CommitRunKeeps == ASSUME Inv, NEW r \in Runs, CommitRun(r) PROVE Inv'
<1> DEFINE fresh == run[r].fresh
           ids == {FreeCopy(p) : p \in fresh}
           pc == IF fresh = {} THEN "done" ELSE "publishing"
           x0 == [NoRun EXCEPT !.pc = pc]
           x == [x0 EXCEPT !.ids = ids]
<1>1. TypeOK /\ RunOK(run[r]) /\ run[r].pc = "looking" /\ r \in Open
  BY RunsAreOK DEF Inv, IntakeInv, CommitRun, Open
<1>2. fresh \in SUBSET Prospects /\ Fits(fresh)
  BY <1>1 DEF RunOK, RunStates, CommitRun
<1>3. lead' = Inserted(fresh, "discovery", TRUE) /\ UNCHANGED <<suppressed, spent, upload>>
  BY DEF CommitRun
<1>4. /\ Overlapped \/ (NewEmails(fresh) /\ NewSites(fresh))
      /\ "suppression" \in spent \/ \A p \in fresh : ~IsSuppressed(EmailOf[p])
  BY <1>1 DEF Inv, IntakeInv, PassedTheCheck, FreshIsNew
<1>5. lead' \in [Ids -> Leads] /\ NoDuplicates' /\ SuppressedStayOut'
  <2> HIDE DEF fresh
  <2> QED BY <1>1, <1>2, <1>3, <1>4, InsertedLeads, InsertedAreNew, InsertedAreAllowed
<1>6. ids \in SUBSET Ids /\ (fresh = {} => ids = {})
  BY <1>2 DEF Fits, FreeCopy, FreeCopies
<1>7. Move(r, x)
  BY DEF CommitRun
<1>8. Cardinality(ids) <= DailyCount
  <2>1. /\ Cardinality(run[r].todo) \in Nat /\ Cardinality(fresh) \in Nat
        /\ Cardinality(run[r].ids) \in Nat
        /\ Cardinality(run[r].todo) + Cardinality(fresh) + Cardinality(run[r].ids) <= DailyCount
    BY <1>1, FewProspects, FewIds DEF RunOK, RunStates
  <2>2. Cardinality(ids) <= Cardinality(fresh) /\ Cardinality(ids) \in Nat
    BY <1>2, <1>6, CopiesAreAsMany, FewIds
  <2> QED BY <2>1, <2>2
<1>9. pc \in {"done", "publishing"} /\ (pc = "done" => fresh = {})
  OBVIOUS
<1> HIDE DEF fresh, ids, pc
<1>10. x0 \in RunStates /\ x0.pc = pc /\ x0.todo = {} /\ x0.fresh = {}
  <2>1. NoRun \in RunStates /\ NoRun.todo = {} /\ NoRun.fresh = {}
    BY DEF NoRun, RunStates
  <2> QED BY <1>9, <2>1 DEF RunStates
<1> HIDE DEF x0
<1>11. /\ x \in RunStates /\ x.pc = pc /\ x.todo = {} /\ x.fresh = {} /\ x.ids = ids
  BY <1>6, <1>10 DEF RunStates
<1> HIDE DEF x
<1>12. RunOK(x)
  <2>1. Cardinality(ids) \in Nat
    BY <1>6, FewIds
  <2> QED BY <1>6, <1>8, <1>9, <1>11, <2>1, NothingIsEmpty DEF RunOK
<1>13. /\ run' \in [Runs -> RunStates]
       /\ \A q \in Runs : run'[q] = IF q = r THEN x ELSE run[q]
  BY <1>1, <1>7, <1>11 DEF Move, TypeOK
<1>14. TypeOK' /\ TasksHaveLeads'
  <2>1. weights' \in Weights
    BY <1>1, CampaignIsWeighted DEF CommitRun
  <2> QED BY <1>1, <1>5, <1>13, <2>1 DEF CommitRun, enrichment, broker, TypeOK, Inv, IntakeInv, TasksHaveLeads
<1>15. RunsInOrder' /\ DailyCountKept'
  <2>1. \A q \in Runs : RunOK(run'[q])
    BY <1>12, <1>13, RunsAreOK DEF Inv
  <2> QED BY <2>1 DEF RunOK, RunsInOrder, DailyCountKept
<1>16. PassedTheCheck'
  BY <1>3, <1>11, <1>13 DEF CommitRun, enrichment, broker, Inv, IntakeInv, PassedTheCheck, IsSuppressed
<1>17. Open' \subseteq Open \ {r}
  BY <1>3, <1>9, <1>11, <1>13 DEF Open
<1>18. OneOpen' /\ FreshIsNew'
  <2>1. CASE Overlapped
    BY <1>3, <2>1 DEF OneOpen, FreshIsNew, Overlapped
  <2>2. CASE ~Overlapped
    <3>1. Open' = {}
      BY <1>1, <1>17, <2>2 DEF Inv, OneOpen
    <3> QED BY <3>1 DEF OneOpen, FreshIsNew, Open
  <2> QED BY <2>1, <2>2
<1> QED BY <1>5, <1>14, <1>15, <1>16, <1>18 DEF Inv, IntakeInv

-----------------------------------------------------------------------------
(* Uploads.                                                                 *)

\* A step of an upload before its commit.
LEMMA UploadMoves ==
  ASSUME Inv, NEW u \in Uploads, NEW x \in UploadStates, upload' = [upload EXCEPT ![u] = x],
         UNCHANGED <<lead, weights, suppressed, run, enrichment>>,
         spent' \in SUBSET EventKinds, spent \subseteq spent',
         x.pc = "checking" => u \in Open \/ Alone \/ "overlap" \in spent',
         x.pc = "checking" => Overlapped \/ NewEmails(x.fresh)
  PROVE  Inv'
<1>1. /\ upload' \in [Uploads -> UploadStates]
      /\ \A v \in Uploads : upload'[v] = IF v = u THEN x ELSE upload[v]
  BY DEF Inv, IntakeInv, TypeOK
<1>2. TypeOK' /\ TasksHaveLeads' /\ RunsInOrder' /\ DailyCountKept'
  BY <1>1 DEF enrichment, broker, Inv, IntakeInv, TypeOK, TasksHaveLeads, RunsInOrder, DailyCountKept
<1>3. PassedTheCheck'
  BY DEF enrichment, broker, Inv, IntakeInv, PassedTheCheck, IsSuppressed
<1>4. There' = There
  BY DEF There
<1>5. SuppressedStayOut' /\ NoDuplicates'
  BY <1>4 DEF Inv, IntakeInv, SuppressedStayOut, NoDuplicates
<1>6. OneOpen'
  BY <1>1 DEF Inv, OneOpen, Overlapped, Open, Alone
<1>7. FreshIsNew'
  BY <1>1, <1>4 DEF Inv, FreshIsNew, Overlapped, NewEmails, NewSites
<1> QED BY <1>2, <1>3, <1>5, <1>6, <1>7 DEF Inv, IntakeInv

\* An upload opens its transaction with nothing to insert.
LEMMA BeginUploadKeeps ==
  ASSUME Inv, NEW u \in Uploads, NEW asked \in SUBSET Prospects, NEW enrolled \in BOOLEAN,
         BeginUpload(u, asked, enrolled)
  PROVE  Inv'
<1> DEFINE x == [NoUpload EXCEPT !.pc = "checking", !.enrolled = enrolled, !.todo = asked]
<1>1. x \in UploadStates /\ x.pc = "checking" /\ x.fresh = {}
  BY DEF NoUpload, UploadStates
<1>2. upload' = [upload EXCEPT ![u] = x]
  BY DEF BeginUpload
<1>3. spent' \in SUBSET EventKinds /\ spent \subseteq spent' /\ (Alone \/ "overlap" \in spent')
  BY OpensIsCounted DEF BeginUpload, Inv, IntakeInv
<1>4. NewEmails({})
  BY DEF NewEmails
<1> HIDE DEF x
<1> QED BY <1>1, <1>2, <1>3, <1>4, UploadMoves DEF BeginUpload, intake

\* An address nobody has is to be inserted; two leads with it end the upload.
LEMMA CheckRowKeeps ==
  ASSUME Inv, NEW u \in Uploads, NEW p \in Prospects, CheckRow(u, p)
  PROVE  Inv'
<1> DEFINE known == WithAddress(EmailOf[p], upload[u].fresh)
           fresh == IF known = {} THEN upload[u].fresh \cup {p} ELSE upload[u].fresh
           failed == [NoUpload EXCEPT !.pc = "failed"]
           x0 == [upload[u] EXCEPT !.todo = @ \ {p}]
           x == [upload[u] EXCEPT !.todo = @ \ {p}, !.fresh = IF known = {} THEN @ \cup {p} ELSE @]
<1>1. upload[u] \in UploadStates /\ upload[u].pc = "checking" /\ u \in Open
  BY DEF CheckRow, Open, Inv, IntakeInv, TypeOK
<1>2. failed \in UploadStates /\ failed.pc = "failed"
  BY DEF NoUpload, UploadStates
<1>3. fresh \in SUBSET Prospects
  BY <1>1 DEF UploadStates
<1>4. Overlapped \/ NewEmails(fresh)
  <2>1. Overlapped \/ NewEmails(upload[u].fresh)
    BY <1>1 DEF Inv, FreshIsNew
  <2>2. ASSUME known = {}
        PROVE  /\ \A id \in There : Email(id) # EmailOf[p]
               /\ \A q \in upload[u].fresh : EmailOf[q] # EmailOf[p]
    <3>1. EmailOf[p] \in LikeOf[EmailOf[p]]
      OBVIOUS
    <3>2. \A id \in There : Email(id) # EmailOf[p]
      BY <2>2, <3>1 DEF WithAddress
    <3>3. ASSUME NEW q \in upload[u].fresh PROVE EmailOf[q] # EmailOf[p]
      <4>1. EmailOf[q] \in LikeOf[EmailOf[p]] => <<q, 0>> \in known
        BY DEF WithAddress
      <4> QED BY <2>2, <3>1, <4>1
    <3> QED BY <3>2, <3>3
  <2> HIDE DEF known
  <2>3. CASE known = {}
    BY <2>1, <2>2, <2>3 DEF NewEmails
  <2>4. CASE known # {}
    BY <2>1, <2>4
  <2> QED BY <2>3, <2>4
<1>5. /\ Cardinality(known) > 1 => upload' = [upload EXCEPT ![u] = failed]
      /\ ~(Cardinality(known) > 1) => upload' = [upload EXCEPT ![u] = x]
  <2> HIDE DEF known
  <2> QED BY DEF CheckRow, known
<1>6. UNCHANGED <<lead, weights, suppressed, run, enrichment, spent>>
  BY DEF CheckRow, intake
<1> HIDE DEF fresh, failed
<1>7. x0 \in UploadStates /\ x0.pc = "checking"
  BY <1>1 DEF UploadStates
<1>8. x = [x0 EXCEPT !.fresh = fresh]
  BY DEF fresh
<1> HIDE DEF x0, x
<1>9. x \in UploadStates /\ x.pc = "checking" /\ x.fresh = fresh
  BY <1>3, <1>7, <1>8 DEF UploadStates
<1>10. spent' \in SUBSET EventKinds /\ spent \subseteq spent'
  BY <1>6 DEF Inv, IntakeInv, TypeOK
<1>11. CASE Cardinality(known) > 1
  BY <1>2, <1>5, <1>6, <1>10, <1>11, UploadMoves
<1>12. CASE ~(Cardinality(known) > 1)
  BY <1>1, <1>4, <1>5, <1>6, <1>9, <1>10, <1>12, UploadMoves
<1> QED BY <1>11, <1>12

\* The commit of an upload: nothing else was about to insert, unless there was an overlap.
LEMMA CommitUploadKeeps == ASSUME Inv, NEW u \in Uploads, CommitUpload(u) PROVE Inv'
<1> DEFINE fresh == upload[u].fresh
           x == [NoUpload EXCEPT !.pc = "done"]
<1>1. TypeOK /\ upload[u] \in UploadStates /\ upload[u].pc = "checking" /\ u \in Open
  BY DEF Inv, IntakeInv, TypeOK, CommitUpload, Open
<1>2. fresh \in SUBSET Prospects /\ upload[u].enrolled \in BOOLEAN /\ Fits(fresh)
  BY <1>1 DEF UploadStates, CommitUpload
<1>3. /\ lead' = Inserted(fresh, "manual", upload[u].enrolled)
      /\ UNCHANGED <<weights, suppressed, run, spent>> /\ UNCHANGED enrichment
  BY DEF CommitUpload
<1>4. Overlapped \/ NewEmails(fresh)
  BY <1>1 DEF Inv, FreshIsNew
<1>5. lead' \in [Ids -> Leads] /\ NoDuplicates' /\ SuppressedStayOut'
  <2> HIDE DEF fresh
  <2> QED BY <1>1, <1>2, <1>3, <1>4, InsertedLeads, InsertedAreNew, InsertedAreAllowed
<1>6. x \in UploadStates /\ x.pc = "done"
  BY DEF NoUpload, UploadStates
<1>7. upload' = [upload EXCEPT ![u] = x]
  BY DEF CommitUpload
<1> HIDE DEF x
<1>8. /\ upload' \in [Uploads -> UploadStates]
      /\ \A v \in Uploads : upload'[v] = IF v = u THEN x ELSE upload[v]
  BY <1>1, <1>6, <1>7 DEF TypeOK
<1>9. TypeOK' /\ TasksHaveLeads' /\ RunsInOrder' /\ DailyCountKept'
  BY <1>3, <1>5, <1>8 DEF enrichment, broker, Inv, IntakeInv, TypeOK, TasksHaveLeads, RunsInOrder, DailyCountKept
<1>10. PassedTheCheck'
  BY <1>3 DEF enrichment, broker, Inv, IntakeInv, PassedTheCheck, IsSuppressed
<1>11. Open' \subseteq Open \ {u}
  BY <1>3, <1>6, <1>8 DEF Open
<1>12. OneOpen' /\ FreshIsNew'
  <2>1. CASE Overlapped
    BY <1>3, <2>1 DEF OneOpen, FreshIsNew, Overlapped
  <2>2. CASE ~Overlapped
    <3>1. Open' = {}
      BY <1>1, <1>11, <2>2 DEF Inv, OneOpen
    <3> QED BY <3>1 DEF OneOpen, FreshIsNew, Open
  <2> QED BY <2>1, <2>2
<1> QED BY <1>5, <1>9, <1>10, <1>12 DEF Inv, IntakeInv

-----------------------------------------------------------------------------
(* Enrichment: no transaction of the ways in moves.                         *)

\* A step that touches tasks, drafts or the suppression list keeps the invariant if
\* tasks have leads and nobody suppressed from the start is drafted for.
LEMMA EnrichmentMoves ==
  ASSUME Inv, UNCHANGED <<weights, upload, run>>, UNCHANGED suppressed \/ "suppression" \in spent',
         suppressed' \in SUBSET Addresses,
         lead' \in [Ids -> Leads],
         \A id \in Ids : lead'[id].there = lead[id].there /\ lead'[id].source = lead[id].source,
         queue' \in [Ids -> Nat], retried' \in [Ids -> Counts], batch' \in SUBSET Ids, cut' \in SUBSET Ids,
         spent' \in SUBSET EventKinds, spent \subseteq spent',
         task' \in [Workers -> TaskStates], TasksHaveLeads',
         "suppression" \in spent
           \/ \A w \in Workers : task'[w].pc = "drafting" => ~IsSuppressed(Email(task'[w].id)),
         "suppression" \in spent
           \/ \A id \in There, s \in suppressed :
                DomainOf[s] = DomainOf[Email(id)] => lead'[id].drafts = 0
  PROVE  Inv'
<1>1. TypeOK' /\ RunsInOrder' /\ DailyCountKept'
  BY DEF Inv, IntakeInv, TypeOK, RunsInOrder, DailyCountKept
<1>2. There' = There
  BY DEF There
<1>3. PassedTheCheck'
  BY DEF Inv, IntakeInv, PassedTheCheck, IsSuppressed
<1>4. SuppressedStayOut'
  BY <1>2 DEF Inv, IntakeInv, SuppressedStayOut, There
<1>5. NoDuplicates'
  BY <1>2 DEF Inv, NoDuplicates, There
<1>6. OneOpen' /\ FreshIsNew'
  BY <1>2 DEF Inv, OneOpen, FreshIsNew, Overlapped, Open, NewEmails, NewSites
<1> QED BY <1>1, <1>3, <1>4, <1>5, <1>6 DEF Inv, IntakeInv

\* What every task says of its lead.
TaskOK(x) ==
  /\ x \in TaskStates
  /\ x.pc \in {"start", "drafting"} => x.id \in Ids
  /\ x.pc = "drafting" => "suppression" \in spent \/ ~IsSuppressed(Email(x.id))

\* The invariant, read task by task.
LEMMA TasksAreOK == Inv => \A w \in Workers : TaskOK(task[w])
BY DEF Inv, IntakeInv, TypeOK, TasksHaveLeads, PassedTheCheck, TaskOK

\* A worker's step that writes no lead.
LEMMA TaskMoves ==
  ASSUME Inv, NEW w \in Workers, NEW x, Do(w, x), TaskOK(x), UNCHANGED <<rest, lead, suppressed>>,
         queue' \in [Ids -> Nat], retried' \in [Ids -> Counts], batch' \in SUBSET Ids, cut' \in SUBSET Ids,
         spent' \in SUBSET EventKinds, spent \subseteq spent'
  PROVE  Inv'
<1>1. /\ task' \in [Workers -> TaskStates]
      /\ \A v \in Workers : task'[v] = IF v = w THEN x ELSE task[v]
  BY DEF Do, TaskOK, Inv, IntakeInv, TypeOK
<1>2. \A v \in Workers : TaskOK(task'[v])
  BY <1>1, TasksAreOK
<1>3. TasksHaveLeads'
  BY <1>2 DEF TaskOK, TasksHaveLeads
<1>4. "suppression" \in spent
        \/ \A v \in Workers : task'[v].pc = "drafting" => ~IsSuppressed(Email(task'[v].id))
  BY <1>2 DEF TaskOK
<1>5. /\ lead' \in [Ids -> Leads] /\ suppressed' \in SUBSET Addresses
      /\ "suppression" \in spent
           \/ \A id \in There, s \in suppressed :
                DomainOf[s] = DomainOf[Email(id)] => lead'[id].drafts = 0
  BY DEF Inv, IntakeInv, TypeOK, SuppressedStayOut
<1> QED BY <1>1, <1>3, <1>4, <1>5, EnrichmentMoves DEF rest

\* A task between leads.
LEMMA BetweenLeads ==
  ASSUME NEW pc \in {"idle", "next"}, NEW b \in SUBSET Ids, NEW left \in SUBSET Ids
  PROVE  /\ TaskOK([NoTask EXCEPT !.pc = pc, !.rest = left, !.batch = b])
         /\ TaskOK(NoTask)
<1> DEFINE x0 == [NoTask EXCEPT !.pc = pc]
           x1 == [x0 EXCEPT !.rest = left]
           x == [x1 EXCEPT !.batch = b]
<1>1. NoTask \in TaskStates /\ NoTask.pc = "idle"
  BY DEF NoTask, TaskStates
<1>2. x0 \in TaskStates /\ x0.pc = pc
  BY <1>1 DEF TaskStates
<1>3. x = [NoTask EXCEPT !.pc = pc, !.rest = left, !.batch = b]
  BY DEF NoTask
<1> HIDE DEF x0
<1>4. x1 \in TaskStates /\ x1.pc = pc
  BY <1>2 DEF TaskStates
<1> HIDE DEF x1
<1>5. x \in TaskStates /\ x.pc = pc
  BY <1>4 DEF TaskStates
<1> HIDE DEF x
<1> QED BY <1>1, <1>3, <1>5 DEF TaskOK

\* A task that is done with a lead is between leads.
LEMMA FinishedIsOK == ASSUME Inv, NEW w \in Workers PROVE TaskOK(Finished(w))
<1>1. task[w].rest \in SUBSET Ids /\ task[w].batch \in SUBSET Ids
  BY DEF Inv, IntakeInv, TypeOK, TaskStates
<1> QED BY <1>1, BetweenLeads DEF Finished

\* A message goes into the broker and is counted with its retries.
LEMMA QueueKeeps ==
  ASSUME TypeOK, NEW id \in Ids \cup {Nobody}, NEW k \in 0..MaxRetries, Queue(id, k)
  PROVE  queue' \in [Ids -> Nat] /\ retried' \in [Ids -> Counts]
<1>1. queue' \in [Ids -> Nat]
  <2> DEFINE n == queue[id] + 1
  <2>1. queue' = [queue EXCEPT ![id] = n] /\ queue \in [Ids -> Nat] /\ (id \in Ids => n \in Nat)
    BY DEF Queue, Published, TypeOK
  <2> HIDE DEF n
  <2> QED BY <2>1
<1>2. CASE k = 0
  BY <1>1, <1>2 DEF Queue, TypeOK
<1>3. CASE k # 0
  <2> DEFINE f == [retried[id] EXCEPT ![k] = @ + 1]
  <2>1. id \in Ids => retried[id] \in Counts /\ k \in 1..MaxRetries
    BY <1>3 DEF TypeOK
  <2>2. id \in Ids => f \in Counts
    BY <2>1 DEF Counts
  <2>3. retried' = [retried EXCEPT ![id] = f]
    BY <1>3 DEF Queue
  <2> HIDE DEF f
  <2>4. retried' \in [Ids -> Counts]
    BY <2>2, <2>3 DEF TypeOK
  <2> QED BY <1>1, <2>4
<1> QED BY <1>2, <1>3

\* A worker takes one lead's task from the broker.
LEMMA TakeKeeps ==
  ASSUME Inv, NEW w \in Workers, NEW id \in Ids, NEW k \in 0..MaxRetries, Take(w, id, k)
  PROVE  Inv'
<1> DEFINE x0 == [NoTask EXCEPT !.pc = "start"]
           x1 == [x0 EXCEPT !.id = id]
           x == [x1 EXCEPT !.retries = k]
<1>1. x0 \in TaskStates /\ x0.pc = "start"
  BY DEF NoTask, TaskStates
<1>2. Do(w, x)
  BY DEF Take, NoTask
<1> HIDE DEF x0
<1>3. x1 \in TaskStates /\ x1.pc = "start" /\ x1.id = id
  BY <1>1 DEF TaskStates
<1> HIDE DEF x1
<1>4. x \in TaskStates /\ x.pc = "start" /\ x.id = id
  BY <1>3 DEF TaskStates
<1> HIDE DEF x
<1>5. TaskOK(x)
  BY <1>4 DEF TaskOK
<1>6. queue' \in [Ids -> Nat]
  BY DEF Take, Inv, IntakeInv, TypeOK
<1>7. retried' \in [Ids -> Counts]
  <2>1. retried \in [Ids -> Counts]
    BY DEF Inv, IntakeInv, TypeOK
  <2>2. CASE k = 0
    BY <2>1, <2>2 DEF Take
  <2>3. CASE k # 0
    <3> DEFINE f == [retried[id] EXCEPT ![k] = @ - 1]
    <3>1. retried[id] \in Counts /\ k \in 1..MaxRetries /\ retried[id][k] > 0
      BY <2>1, <2>3 DEF Take
    <3>2. f \in Counts
      BY <3>1 DEF Counts
    <3>3. retried' = [retried EXCEPT ![id] = f]
      BY <2>3 DEF Take
    <3> HIDE DEF f
    <3> QED BY <2>1, <3>2, <3>3
  <2> QED BY <2>2, <2>3
<1> QED BY <1>2, <1>5, <1>6, <1>7, TaskMoves DEF Take, Inv, IntakeInv, TypeOK

\* A worker takes the batch from the broker.
LEMMA TakeBatchKeeps == ASSUME Inv, NEW w \in Workers, TakeBatch(w) PROVE Inv'
<1> DEFINE x == [NoTask EXCEPT !.pc = "next", !.rest = batch, !.batch = batch]
<1>1. Do(w, x)
  BY DEF TakeBatch, NoTask
<1>2. TaskOK(x)
  BY BetweenLeads DEF Inv, IntakeInv, TypeOK
<1> HIDE DEF x
<1> QED BY <1>1, <1>2, TaskMoves DEF TakeBatch, Inv, IntakeInv, TypeOK

\* The batch task turns to one of its leads.
LEMMA NextOfBatchKeeps ==
  ASSUME Inv, NEW w \in Workers, NEW id \in Ids, NextOfBatch(w, id)
  PROVE  Inv'
<1> DEFINE left == task[w].rest \ {id}
           x0 == [task[w] EXCEPT !.pc = "start"]
           x1 == [x0 EXCEPT !.id = id]
           x == [x1 EXCEPT !.rest = left]
<1>1. task[w] \in TaskStates /\ left \in SUBSET Ids
  BY DEF Inv, IntakeInv, TypeOK, TaskStates
<1>2. x0 \in TaskStates /\ x0.pc = "start"
  BY <1>1 DEF TaskStates
<1>3. Do(w, x)
  BY DEF NextOfBatch
<1> HIDE DEF x0, left
<1>4. x1 \in TaskStates /\ x1.pc = "start" /\ x1.id = id
  BY <1>2 DEF TaskStates
<1> HIDE DEF x1
<1>5. x \in TaskStates /\ x.pc = "start" /\ x.id = id
  BY <1>1, <1>4 DEF TaskStates
<1> HIDE DEF x
<1>6. TaskOK(x)
  BY <1>5 DEF TaskOK
<1> QED BY <1>3, <1>6, TaskMoves DEF NextOfBatch, broker, Inv, IntakeInv, TypeOK

\* A variant is a position among the campaign's variants, or none.
LEMMA AssignedIsPosition == ASSUME Inv, NEW id \in Ids PROVE Assigned(id) \in Nat
<1>1. lead[id].variant \in Nat
  BY DEF Inv, IntakeInv, TypeOK, Leads
<1>2. weights \in Weights => Chosen(weights, HashOf[id]) \in Nat
  <2> SUFFICES ASSUME weights \in Weights PROVE Chosen(weights, HashOf[id]) \in Nat
    OBVIOUS
  <2> DEFINE passed == {i \in DOMAIN weights : UpTo(weights, i) <= Bucket(weights, HashOf[id])}
  <2>1. Len(weights) \in Nat /\ DOMAIN weights = 1..Len(weights)
    BY DEF Weights
  <2>2. IsFiniteSet(1..Len(weights)) /\ passed \subseteq 1..Len(weights)
    BY <2>1, FS_Interval
  <2> HIDE DEF passed
  <2>3. IsFiniteSet(passed)
    BY ONLY <2>2, FS_Subset
  <2>4. Cardinality(passed) \in Nat
    BY <2>3, FS_CardinalityType
  <2>5. Chosen(weights, HashOf[id]) = 1 + Cardinality(passed)
    BY DEF Chosen, passed
  <2> QED BY <2>4, <2>5
<1> QED BY <1>1, <1>2 DEF Assigned, Inv, IntakeInv, TypeOK

\* The suppression list has been asked: drafting starts.
LEMMA StartDraftingKeeps == ASSUME Inv, NEW w \in Workers, StartDrafting(w) PROVE Inv'
<1> DEFINE variant == Assigned(task[w].id)
           x0 == [task[w] EXCEPT !.pc = "drafting"]
           x == [x0 EXCEPT !.variant = variant]
<1>1. task[w] \in TaskStates /\ task[w].id \in Ids /\ ~IsSuppressed(Email(task[w].id))
  BY DEF StartDrafting, Inv, IntakeInv, TypeOK, TasksHaveLeads
<1>2. variant \in Nat
  BY <1>1, AssignedIsPosition
<1>3. x0 \in TaskStates /\ x0.id = task[w].id
  BY <1>1 DEF TaskStates
<1>4. Do(w, x)
  BY DEF StartDrafting
<1> HIDE DEF x0, variant
<1>5. x \in TaskStates /\ x.id = task[w].id
  BY <1>2, <1>3 DEF TaskStates
<1> HIDE DEF x
<1>6. TaskOK(x)
  BY <1>1, <1>5 DEF TaskOK
<1> QED BY <1>4, <1>6, TaskMoves DEF StartDrafting, broker, Inv, IntakeInv, TypeOK

\* An answer that is sent back: only the counts of the task move.
LEMMA SentBackKeeps ==
  ASSUME Inv, NEW w \in Workers, Invalid(w) \/ Rewrite(w)
  PROVE  Inv'
<1>1. /\ task[w] \in TaskStates /\ TaskOK(task[w])
      /\ task[w].attempt \in 0..MaxRewrites /\ task[w].tries \in 0..MaxCorrections
  BY TasksAreOK DEF Inv, IntakeInv, TypeOK, TaskStates
<1>2. CASE Invalid(w)
  <2> DEFINE n == task[w].tries + 1
             x == [task[w] EXCEPT !.tries = n]
  <2>1. n \in 0..MaxCorrections
    BY <1>1, <1>2 DEF Invalid
  <2>2. Do(w, x)
    BY <1>2 DEF Invalid
  <2> HIDE DEF n
  <2>3. x \in TaskStates /\ x.pc = task[w].pc /\ x.id = task[w].id
    BY <1>1, <2>1 DEF TaskStates
  <2> HIDE DEF x
  <2>4. TaskOK(x)
    BY <1>1, <2>3 DEF TaskOK
  <2> QED BY <1>2, <2>2, <2>4, TaskMoves DEF Invalid, broker, Inv, IntakeInv, TypeOK
<1>3. CASE Rewrite(w)
  <2> DEFINE n == task[w].attempt + 1
             x0 == [task[w] EXCEPT !.attempt = n]
             x == [x0 EXCEPT !.tries = 0]
  <2>1. n \in 0..MaxRewrites
    BY <1>1, <1>3 DEF Rewrite, MayRewrite
  <2>2. Do(w, x)
    BY <1>3 DEF Rewrite
  <2> HIDE DEF n
  <2>3. x0 \in TaskStates /\ x0.pc = task[w].pc /\ x0.id = task[w].id
    BY <1>1, <2>1 DEF TaskStates
  <2> HIDE DEF x0
  <2>4. x \in TaskStates /\ x.pc = task[w].pc /\ x.id = task[w].id
    BY <2>3 DEF TaskStates
  <2> HIDE DEF x
  <2>5. TaskOK(x)
    BY <1>1, <2>4 DEF TaskOK
  <2> QED BY <1>3, <2>2, <2>5, TaskMoves DEF Rewrite, broker, Inv, IntakeInv, TypeOK
<1> QED BY <1>2, <1>3

\* A task that ends with an error, dies, or is delivered a second time.
LEMMA FaultKeeps ==
  ASSUME Inv, NEW w \in Workers, NEW back \in BOOLEAN,
         GiveUp(w) \/ ProviderFails(w) \/ WorkerCrash(w, back) \/ Redeliver(w)
  PROVE  Inv'
<1>1. /\ TypeOK /\ task[w] \in TaskStates /\ task[w].rest \in SUBSET Ids
      /\ task[w].batch \in SUBSET Ids /\ task[w].id \in Ids \cup {Nobody}
      /\ task[w].pc = "drafting" => task[w].id \in Ids
      /\ TaskOK(task[w])
  BY TasksAreOK DEF Inv, IntakeInv, TypeOK, TaskStates, TasksHaveLeads
<1>2. spent' \in SUBSET EventKinds /\ spent \subseteq spent'
  BY <1>1, Spent DEF GiveUp, ProviderFails, WorkerCrash, Redeliver, EventKinds, TypeOK
<1>3. /\ queue' \in [Ids -> Nat] /\ retried' \in [Ids -> Counts]
      /\ batch' \in SUBSET Ids /\ cut' \in SUBSET Ids
  <2>0. /\ task[w].retries \in 0..MaxRetries
        /\ UNCHANGED broker => queue' \in [Ids -> Nat] /\ retried' \in [Ids -> Counts]
                                 /\ batch' \in SUBSET Ids
        /\ UNCHANGED cut => cut' \in SUBSET Ids
    BY <1>1 DEF TaskStates, TypeOK, broker
  <2>1. CASE GiveUp(w)
    <3>1. CASE MayRetry(w)
      <4>1. task[w].retries + 1 \in 0..MaxRetries /\ task[w].id \in Ids
            /\ Queue(task[w].id, task[w].retries + 1) /\ UNCHANGED <<batch, cut>>
        BY <1>1, <2>0, <2>1, <3>1 DEF GiveUp, MayRetry
      <4>2. queue' \in [Ids -> Nat] /\ retried' \in [Ids -> Counts]
        BY <1>1, <4>1, QueueKeeps
      <4> QED BY <1>1, <4>1, <4>2 DEF TypeOK
    <3>2. CASE ~MayRetry(w)
      BY <1>1, <2>1, <3>2 DEF GiveUp, TypeOK
    <3> QED BY <3>1, <3>2
  <2>2. CASE ProviderFails(w)
    BY <1>1, <2>0, <2>2 DEF ProviderFails, TypeOK
  <2>3. Return(w) /\ task[w].pc # "idle" =>
          queue' \in [Ids -> Nat] /\ retried' \in [Ids -> Counts] /\ batch' \in SUBSET Ids
    <3> SUFFICES ASSUME Return(w), task[w].pc # "idle"
                 PROVE  queue' \in [Ids -> Nat] /\ retried' \in [Ids -> Counts]
                        /\ batch' \in SUBSET Ids
      OBVIOUS
    <3>1. CASE task[w].batch = {}
      <4>1. Queue(task[w].id, task[w].retries) /\ UNCHANGED batch
        BY <3>1 DEF Return
      <4> QED BY <1>1, <2>0, <4>1, QueueKeeps DEF TypeOK
    <3>2. CASE task[w].batch # {}
      BY <1>1, <3>2 DEF Return, TypeOK
    <3> QED BY <3>1, <3>2
  <2>4. CASE Redeliver(w)
    BY <2>0, <2>3, <2>4 DEF Redeliver
  <2>5. CASE WorkerCrash(w, back)
    <3>1. cut' \in SUBSET Ids
      BY <1>1, <2>5 DEF WorkerCrash, TypeOK
    <3> QED BY <2>0, <2>3, <2>5, <3>1 DEF WorkerCrash
  <2> QED BY <2>1, <2>2, <2>4, <2>5
<1>4. \E x : Do(w, x) /\ TaskOK(x)
  <2>1. TaskOK(NoTask)
    BY BetweenLeads
  <2>2. Redeliver(w) => Do(w, task[w])
    BY <1>1 DEF Redeliver, Do, TypeOK
  <2> QED BY <1>1, <2>1, <2>2 DEF GiveUp, ProviderFails, WorkerCrash
<1>5. UNCHANGED <<rest, lead, suppressed>>
  BY DEF GiveUp, ProviderFails, WorkerCrash, Redeliver
<1> QED BY <1>2, <1>3, <1>4, <1>5, TaskMoves

\* Leads are drafted for, or skipped.
LEMMA LeadsKeep ==
  ASSUME Inv, NEW w \in Workers, NEW risk \in RiskLevels, SkipSuppressed(w) \/ SaveDraft(w, risk)
  PROVE  Inv'
<1> DEFINE id == task[w].id
<1>1. /\ TypeOK /\ task[w] \in TaskStates /\ id \in Ids /\ lead[id] \in Leads
      /\ TaskOK(task[w])
  BY TasksAreOK DEF SkipSuppressed, SaveDraft, Inv, IntakeInv, TypeOK, TasksHaveLeads
<1>2. PICK row \in Leads :
        /\ lead' = [lead EXCEPT ![id] = row]
        /\ row.there = lead[id].there /\ row.source = lead[id].source
        /\ row.drafts = lead[id].drafts \/ "suppression" \in spent \/ ~IsSuppressed(Email(id))
  <2>1. CASE SkipSuppressed(w)
    <3> DEFINE row == [lead[id] EXCEPT !.status = "opted_out"]
    <3>1. /\ row \in Leads /\ row.there = lead[id].there /\ row.source = lead[id].source
          /\ row.drafts = lead[id].drafts
      BY <1>1 DEF Leads
    <3>2. lead' = [lead EXCEPT ![id] = row]
      BY <2>1 DEF SkipSuppressed
    <3> QED BY <3>1, <3>2
  <2>2. CASE SaveDraft(w, risk)
    <3> DEFINE h == IF HoldsIt(w, risk) THEN lead[id].held + 1 ELSE lead[id].held
               d == lead[id].drafts + 1
               row0 == [lead[id] EXCEPT !.status = "enriched"]
               row1 == [row0 EXCEPT !.variant = task[w].variant]
               row2 == [row1 EXCEPT !.drafts = d]
               row == [row2 EXCEPT !.held = h]
    <3>1. h \in Nat /\ d \in Nat /\ task[w].variant \in Nat
      BY <1>1 DEF Leads, TaskStates
    <3>2. lead' = [lead EXCEPT ![id] = row]
      BY <1>1, <2>2 DEF SaveDraft, TypeOK
    <3> HIDE DEF h, d
    <3>3. row0 \in Leads /\ row0.there = lead[id].there /\ row0.source = lead[id].source
      BY <1>1 DEF Leads
    <3> HIDE DEF row0
    <3>4. row1 \in Leads /\ row1.there = lead[id].there /\ row1.source = lead[id].source
      BY <3>1, <3>3 DEF Leads
    <3> HIDE DEF row1
    <3>5. row2 \in Leads /\ row2.there = lead[id].there /\ row2.source = lead[id].source
      BY <3>1, <3>4 DEF Leads
    <3> HIDE DEF row2
    <3>6. row \in Leads /\ row.there = lead[id].there /\ row.source = lead[id].source
      BY <3>1, <3>5 DEF Leads
    <3>7. "suppression" \in spent \/ ~IsSuppressed(Email(id))
      BY <1>1, <2>2 DEF SaveDraft, TaskOK
    <3> QED BY <3>2, <3>6, <3>7
  <2> QED BY <2>1, <2>2
<1>3. /\ lead' \in [Ids -> Leads]
      /\ \A i \in Ids : lead'[i].there = lead[i].there /\ lead'[i].source = lead[i].source
      /\ \A i \in Ids : lead'[i].drafts = lead[i].drafts \/ i = id
  BY <1>1, <1>2 DEF TypeOK
<1>4. "suppression" \in spent
        \/ \A i \in There, s \in suppressed :
             DomainOf[s] = DomainOf[Email(i)] => lead'[i].drafts = 0
  <2>1. "suppression" \in spent \/ lead'[id].drafts = lead[id].drafts \/ ~IsSuppressed(Email(id))
    BY <1>1, <1>2 DEF TypeOK
  <2> QED BY <1>3, <2>1 DEF Inv, IntakeInv, SuppressedStayOut, IsSuppressed, There
<1>5. Do(w, Finished(w)) /\ TaskOK(Finished(w))
  BY FinishedIsOK DEF SkipSuppressed, SaveDraft
<1>6. /\ task' \in [Workers -> TaskStates]
      /\ \A v \in Workers : task'[v] = IF v = w THEN Finished(w) ELSE task[v]
  BY <1>1, <1>5 DEF Do, TaskOK, TypeOK
<1>7. \A v \in Workers : TaskOK(task'[v])
  BY <1>5, <1>6, TasksAreOK
<1>8. /\ TasksHaveLeads'
      /\ "suppression" \in spent
           \/ \A v \in Workers : task'[v].pc = "drafting" => ~IsSuppressed(Email(task'[v].id))
  BY <1>7 DEF TaskOK, TasksHaveLeads
<1>9. UNCHANGED <<weights, upload, run, suppressed, queue, retried, batch, cut, spent>>
  BY DEF SkipSuppressed, SaveDraft, rest, broker
<1> QED BY <1>1, <1>3, <1>4, <1>6, <1>8, <1>9, EnrichmentMoves DEF TypeOK

\* Somebody asks for an enrichment, or enters an address on the suppression list.
LEMMA RequestKeeps ==
  ASSUME Inv, \/ \E id \in Ids : EnrichLead(id)
              \/ EnrichBatch
              \/ \E e \in Addresses : Suppress(e)
  PROVE  Inv'
<1>1. TypeOK /\ TasksHaveLeads
  BY DEF Inv, IntakeInv
<1>2. spent' \in SUBSET EventKinds /\ spent \subseteq spent'
  BY <1>1, Spent DEF EnrichLead, EnrichBatch, Suppress, EventKinds
<1>3. /\ queue' \in [Ids -> Nat] /\ retried' \in [Ids -> Counts]
      /\ batch' \in SUBSET Ids /\ suppressed' \in SUBSET Addresses
  BY <1>1 DEF EnrichLead, EnrichBatch, Suppress, Published, enrichment, broker, There, TypeOK
<1>4. UNCHANGED suppressed \/ "suppression" \in spent'
  BY <1>1, Spent DEF EnrichLead, EnrichBatch, Suppress, EventKinds
<1>5. UNCHANGED <<lead, weights, upload, run, task, cut>>
  BY DEF EnrichLead, EnrichBatch, Suppress, rest, intake, enrichment, broker
<1>6. /\ "suppression" \in spent
           \/ \A w \in Workers : task'[w].pc = "drafting" => ~IsSuppressed(Email(task'[w].id))
      /\ "suppression" \in spent
           \/ \A id \in There, s \in suppressed :
                DomainOf[s] = DomainOf[Email(id)] => lead'[id].drafts = 0
  BY <1>5 DEF Inv, IntakeInv, PassedTheCheck, SuppressedStayOut
<1>7. TasksHaveLeads' /\ lead' \in [Ids -> Leads] /\ task' \in [Workers -> TaskStates]
        /\ cut' \in SUBSET Ids
  BY <1>1, <1>5 DEF TypeOK, TasksHaveLeads
<1> QED BY <1>2, <1>3, <1>4, <1>5, <1>6, <1>7, EnrichmentMoves

-----------------------------------------------------------------------------
(* The theorems.                                                            *)

\* No leads, no transactions, no tasks.
LEMMA InitIntake == Init => Inv
<1> SUFFICES ASSUME Init PROVE Inv
  OBVIOUS
<1>1. NoLead \in Leads /\ NoUpload \in UploadStates /\ NoTask \in TaskStates
      /\ ~NoLead.there /\ NoUpload.pc = "idle" /\ NoTask.pc = "idle"
  BY DEF NoLead, Leads, NoUpload, UploadStates, NoTask, TaskStates
<1>2. RunOK(NoRun) /\ NoRun.pc = "idle" /\ NoRun.fresh = {}
  <2>1. NoRun \in RunStates /\ NoRun.pc = "idle"
    BY DEF NoRun, RunStates
  <2>2. NoRun = [NoRun EXCEPT !.pc = "idle"]
    BY <2>1 DEF RunStates
  <2> QED BY <2>2, EmptyRun
<1>3. \A r \in Runs : run[r] = NoRun
  BY DEF Init
<1>4. There = {} /\ Open = {}
  BY <1>1, <1>2, <1>3 DEF Init, There, Open
<1>5. TypeOK
  <2>1. NoRun \in RunStates
    BY <1>2 DEF RunOK
  <2>2. [k \in 1..MaxRetries |-> 0] \in Counts
    BY DEF Counts
  <2> QED BY <1>1, <2>1, <2>2 DEF Init, TypeOK
<1>6. RunsInOrder /\ DailyCountKept
  BY <1>2, <1>3 DEF RunOK, RunsInOrder, DailyCountKept
<1>7. TasksHaveLeads /\ PassedTheCheck
  BY <1>1, <1>2, <1>3 DEF Init, TasksHaveLeads, PassedTheCheck
<1>8. SuppressedStayOut /\ NoDuplicates /\ OneOpen
  BY <1>4 DEF SuppressedStayOut, NoDuplicates, OneOpen
<1>9. FreshIsNew
  BY <1>1, <1>2, <1>3 DEF Init, FreshIsNew
<1> QED BY <1>5, <1>6, <1>7, <1>8, <1>9 DEF Inv, IntakeInv

\* Every step keeps the invariant.
LEMMA NextKeeps == Inv /\ [Next]_vars => Inv'
<1> SUFFICES ASSUME Inv, [Next]_vars PROVE Inv'
  OBVIOUS
<1>1. ASSUME NEW u \in Uploads, UploadStep(u) PROVE Inv'
  BY <1>1, BeginUploadKeeps, CheckRowKeeps, CommitUploadKeeps DEF UploadStep
<1>2. ASSUME NEW r \in Runs, BeginRun(r) \/ DiscoveryStep(r) PROVE Inv'
  BY <1>2, BeginRunKeeps, CreateCampaignKeeps, RunEndsKeeps, SearchKeeps, ConsiderKeeps,
     CommitRunKeeps, PublishLeadKeeps DEF DiscoveryStep
<1>3. ASSUME NEW w \in Workers, EnrichStep(w) PROVE Inv'
  <2>1. CASE SkipSuppressed(w)
    BY <2>1, LeadsKeep DEF RiskLevels
  <2>2. CASE \E risk \in RiskLevels : SaveDraft(w, risk)
    BY <2>2, LeadsKeep
  <2>3. CASE GiveUp(w)
    BY <2>3, FaultKeeps
  <2> QED BY <1>3, <2>1, <2>2, <2>3, TakeKeeps, NextOfBatchKeeps, TakeBatchKeeps,
             StartDraftingKeeps, SentBackKeeps DEF EnrichStep
<1>4. CASE Disturbance
  <2>1. ASSUME NEW r \in Runs, SearchFails(r) \/ RunCrash(r) \/ \E p \in Prospects : NoContact(r, p)
        PROVE  Inv'
    BY <2>1, RunEndsKeeps, NoContactKeeps
  <2>2. ASSUME NEW w \in Workers,
               \/ ProviderFails(w) \/ Redeliver(w)
               \/ \E back \in BOOLEAN : WorkerCrash(w, back)
        PROVE  Inv'
    BY <2>2, FaultKeeps
  <2> QED BY <1>4, <2>1, <2>2, RequestKeeps DEF Disturbance
<1>5. CASE UNCHANGED vars
  BY <1>5 DEF vars, broker, Inv, IntakeInv, TypeOK, RunsInOrder, TasksHaveLeads, DailyCountKept,
     PassedTheCheck, IsSuppressed, SuppressedStayOut, OneOpen, FreshIsNew, NoDuplicates,
     Overlapped, Open, There, NewEmails, NewSites
<1> QED BY <1>1, <1>2, <1>3, <1>4, <1>5 DEF Next

\* The inductive invariant holds in every state.
LEMMA AlwaysInv == Spec => []Inv
BY InitIntake, NextKeeps, PTL DEF Spec

\* Suppressed addresses stay out, and a run keeps to its daily count, whatever
\* overlaps, fails or crashes: the inductive invariant holds in every state.
THEOREM IntakeInvariant == Spec => []IntakeInv
<1>1. Inv => IntakeInv
  BY DEF Inv
<1> QED BY <1>1, AlwaysInv, PTL

\* While one transaction at most is open, no two leads get one address, and no two
\* discovered leads one website, for any patterns that match at least themselves.
THEOREM NoDuplicatesWithoutOverlap == Spec => []NoDuplicates
<1>1. Inv => NoDuplicates
  BY DEF Inv
<1> QED BY <1>1, AlwaysInv, PTL

\* No run adds a lead of a suppressed domain and nothing is drafted for one, as long
\* as the list does not change in between.
THEOREM SuppressedAreLeftOut == Spec => []SuppressedStayOut
<1>1. IntakeInv => SuppressedStayOut
  BY DEF IntakeInv
<1> QED BY <1>1, IntakeInvariant, PTL

-----------------------------------------------------------------------------
(* From a lead to its draft.                                                *)

\* The lead a task is at, the leads it still has to do, and all it came with.
Working == {"start", "drafting"}
At(x, id) == x.pc \in Working /\ x.id = id
HasToDo(x, id) == id \in x.rest \/ At(x, id)
Carries(x, id) == id \in x.batch \/ HasToDo(x, id)
InBroker(id) == queue[id] > 0 \/ id \in batch

\* What is in the broker, to be published or in a worker's hands is a lead.
OnItsWay(id) ==
  \/ InBroker(id)
  \/ \E r \in Runs : id \in run[r].ids
  \/ \E w \in Workers : Carries(task[w], id)
OnlyLeads == \A id \in Ids : OnItsWay(id) => lead[id].there

\* What is left of a batch is of the batch, and so is the lead it is at: the message
\* that comes back holds them all.
InBatch(x) ==
  /\ x.rest \subseteq x.batch
  /\ x.pc \in {"idle", "next"} => x.id = Nobody
  /\ x.pc = "idle" => x.rest = {}
  /\ x.pc = "next" => x.batch # {}
  /\ x.pc \in Working /\ x.batch # {} => x.id \in x.batch
BatchesAreWhole == \A w \in Workers : InBatch(task[w])

\* A discovered lead that is still new waits somewhere for its enrichment.
Waiting(id) == lead[id].there /\ lead[id].source = "discovery" /\ lead[id].status = "new"
Coming(id) ==
  \/ InBroker(id)
  \/ \E r \in Runs : id \in run[r].ids
  \/ \E w \in Workers : HasToDo(task[w], id)
NoneForgotten == \A id \in Ids : Waiting(id) => Coming(id) \/ id \in cut

\* Unless somebody asks again or a task comes twice, a lead is in one place: to be
\* published, in the broker, in a worker's hands, or drafted for.
Undisturbed == spent \cap {"enrich", "batch", "workerCrash", "redelivery"} = {}
Places(id) == queue[id] + lead[id].drafts
InOnePlace(id) ==
  /\ Places(id) <= 1
  /\ \A r \in Runs : id \in run[r].ids =>
       /\ Places(id) = 0
       /\ \A q \in Runs : id \in run[q].ids => q = r
       /\ \A w \in Workers : ~At(task[w], id)
  /\ \A w \in Workers : At(task[w], id) =>
       /\ Places(id) = 0
       /\ \A v \in Workers : At(task[v], id) => v = w
OnePlace ==
  /\ batch = {} /\ \A w \in Workers : task[w].batch = {}
  /\ \A id \in Ids : InOnePlace(id)

\* There is one campaign for life, and who enrols leads has it, or is about to
\* commit it.
OneCampaign ==
  /\ \A q, r \in Runs : run[q].own /\ run[r].own => q = r
  /\ \A r \in Runs : run[r].own <=> run[r].pc \in {"searching", "looking"} /\ weights = <<>>
  /\ \A u \in Uploads : upload[u].pc = "checking" /\ upload[u].enrolled => weights # <<>>
  /\ \A id \in Ids : lead[id].enrolled => lead[id].there /\ weights # <<>>

\* The variant a lead gets, whoever assigns it and when.
Due(id) == IF lead[id].enrolled THEN Chosen(weights, HashOf[id]) ELSE 0
VariantIsDue ==
  /\ \A id \in Ids : lead[id].variant \in {0, Due(id)}
  /\ \A id \in Ids : lead[id].variant # 0 => lead[id].there
  /\ \A w \in Workers : task[w].pc = "drafting" => task[w].variant = Due(task[w].id)

DraftInv ==
  /\ Inv
  /\ OnlyLeads
  /\ BatchesAreWhole
  /\ NoneForgotten
  /\ Undisturbed => OnePlace
  /\ OneCampaign
  /\ VariantIsDue

-----------------------------------------------------------------------------
(* Steps of workers.                                                        *)

\* A campaign is only ever added: whoever is enrolled keeps the variant that is due.
LEMMA DueStays ==
  ASSUME OneCampaign, NEW id \in Ids, lead'[id].enrolled = lead[id].enrolled,
         weights' = weights \/ weights = <<>>
  PROVE  Due(id)' = Due(id)
BY DEF OneCampaign, Due

\* How a lead passes a worker: it stays where it is or is dropped, leaves the broker,
\* or goes from the worker's hands to the broker or to its draft.
Passes(w, x, id) ==
  \/ Places(id)' <= Places(id) /\ (At(x, id) => At(task[w], id))
  \/ Places(id)' < Places(id)
  \/ Places(id)' = Places(id) + 1 /\ At(task[w], id) /\ ~At(x, id)

\* Leads and their places are counted.
LEMMA PlacesAreCounted == ASSUME Inv, NEW id \in Ids PROVE Places(id) \in Nat
<1>1. queue[id] \in Nat /\ lead[id].drafts \in Nat
  BY DEF Inv, IntakeInv, TypeOK, Leads
<1> QED BY <1>1 DEF Places

\* A worker's step that passes every lead on keeps each in one place.
LEMMA WorkerKeepsPlaces ==
  ASSUME Inv, Inv', OnePlace, NEW w \in Workers, NEW x, Do(w, x), UNCHANGED run,
         batch' = {}, x.batch = {}, \A id \in Ids : Passes(w, x, id)
  PROVE  OnePlace'
<1>1. \A v \in Workers : task'[v] = IF v = w THEN x ELSE task[v]
  BY DEF Do, Inv, IntakeInv, TypeOK
<1>2. \A v \in Workers : task'[v].batch = {}
  BY <1>1 DEF OnePlace
<1>3. ASSUME NEW id \in Ids PROVE InOnePlace(id)'
  <2>1. Places(id) \in Nat /\ Places(id)' \in Nat
    <3>1. Places(id) \in Nat
      BY PlacesAreCounted
    <3>2. queue'[id] \in Nat /\ lead'[id].drafts \in Nat
      BY DEF Inv, IntakeInv, TypeOK, Leads
    <3> QED BY <3>1, <3>2 DEF Places
  <2>2. InOnePlace(id)
    BY DEF OnePlace
  <2>3. \A v \in Workers : At(task'[v], id) <=> IF v = w THEN At(x, id) ELSE At(task[v], id)
    BY <1>1
  <2>4. CASE Places(id)' <= Places(id) /\ (At(x, id) => At(task[w], id))
    <3>1. \A v \in Workers : At(task'[v], id) => At(task[v], id)
      BY <2>3, <2>4
    <3>2. Places(id) = 0 => Places(id)' = 0
      BY <2>1, <2>4
    <3>3. Places(id)' <= 1
      BY <2>1, <2>2, <2>4 DEF InOnePlace
    <3> QED BY <2>2, <3>1, <3>2, <3>3 DEF InOnePlace
  <2>5. CASE Places(id)' < Places(id)
    <3>1. Places(id) <= 1
      BY <2>2 DEF InOnePlace
    <3>2. Places(id) # 0 /\ Places(id)' = 0
      BY <2>1, <2>5, <3>1
    <3>3. /\ \A r \in Runs : id \notin run[r].ids
          /\ \A v \in Workers : ~At(task[v], id)
      BY <2>2, <3>2 DEF InOnePlace
    <3>4. \A v \in Workers : At(task'[v], id) => v = w
      BY <2>3, <3>3
    <3> QED BY <3>2, <3>3, <3>4 DEF InOnePlace
  <2>6. CASE Places(id)' = Places(id) + 1 /\ At(task[w], id) /\ ~At(x, id)
    <3>1. /\ Places(id) = 0
          /\ \A v \in Workers : At(task[v], id) => v = w
          /\ \A r \in Runs : id \notin run[r].ids
      BY <2>2, <2>6 DEF InOnePlace
    <3>2. Places(id)' = 1
      BY <2>6, <3>1
    <3>3. \A v \in Workers : ~At(task'[v], id)
      BY <2>3, <2>6, <3>1
    <3> QED BY <3>1, <3>2, <3>3 DEF InOnePlace
  <2> QED BY <2>4, <2>5, <2>6 DEF Passes
<1> QED BY <1>2, <1>3 DEF OnePlace

\* A worker's step keeps the invariant when what it holds or hands over was its own
\* or the broker's, nothing that waits gets lost, and no lead gets into two places.
LEMMA WorkerKeepsDrafts ==
  ASSUME DraftInv, Inv', NEW w \in Workers, NEW x, Do(w, x), UNCHANGED rest,
         spent \subseteq spent', cut \subseteq cut',
         \A id \in Ids :
           /\ lead'[id].there = lead[id].there /\ lead'[id].source = lead[id].source
           /\ lead'[id].enrolled = lead[id].enrolled
           /\ lead'[id].status = "new" => lead[id].status = "new"
           /\ lead'[id].variant \in {lead[id].variant, Due(id)},
         InBatch(x), x.pc = "drafting" => x.id \in Ids /\ x.variant = Due(x.id),
         \A id \in Ids : InBroker(id)' \/ Carries(x, id) => InBroker(id) \/ Carries(task[w], id),
         \A id \in Ids :
           lead'[id].status = "new" /\ id \notin cut' /\ (InBroker(id) \/ HasToDo(task[w], id))
             => InBroker(id)' \/ HasToDo(x, id),
         Undisturbed' => batch' = {} /\ x.batch = {} /\ \A id \in Ids : Passes(w, x, id)
  PROVE  DraftInv'
<1>1. \A v \in Workers : task'[v] = IF v = w THEN x ELSE task[v]
  BY DEF Do, DraftInv, Inv, IntakeInv, TypeOK
<1>2. UNCHANGED <<weights, upload, run>>
  BY DEF rest
<1>3. OnlyLeads'
  <2> SUFFICES ASSUME NEW id \in Ids, OnItsWay(id)' PROVE lead[id].there
    BY DEF OnlyLeads
  <2>1. CASE InBroker(id)' \/ Carries(x, id)
    BY <2>1 DEF DraftInv, OnlyLeads, OnItsWay
  <2>2. CASE \E r \in Runs : id \in run'[r].ids
    BY <1>2, <2>2 DEF DraftInv, OnlyLeads, OnItsWay
  <2>3. ASSUME NEW v \in Workers, Carries(task'[v], id) PROVE lead[id].there
    BY <1>1, <2>1, <2>3 DEF DraftInv, OnlyLeads, OnItsWay
  <2> QED BY <2>1, <2>2, <2>3 DEF OnItsWay
<1>4. BatchesAreWhole'
  BY <1>1 DEF DraftInv, BatchesAreWhole
<1>5. NoneForgotten'
  <2> SUFFICES ASSUME NEW id \in Ids, Waiting(id)', id \notin cut' PROVE Coming(id)'
    BY DEF NoneForgotten
  <2>1. Coming(id)
    BY DEF DraftInv, NoneForgotten, Waiting
  <2>2. CASE InBroker(id) \/ HasToDo(task[w], id)
    <3>1. InBroker(id)' \/ HasToDo(x, id)
      BY <2>2 DEF Waiting
    <3> QED BY <1>1, <3>1 DEF Coming
  <2>3. CASE \E r \in Runs : id \in run[r].ids
    BY <1>2, <2>3 DEF Coming
  <2>4. ASSUME NEW v \in Workers, v # w, HasToDo(task[v], id) PROVE Coming(id)'
    BY <1>1, <2>4 DEF Coming
  <2> QED BY <2>1, <2>2, <2>3, <2>4 DEF Coming
<1>6. Undisturbed' => OnePlace'
  <2> SUFFICES ASSUME Undisturbed' PROVE OnePlace'
    OBVIOUS
  <2>1. OnePlace
    BY DEF Undisturbed, DraftInv
  <2>2. Inv /\ UNCHANGED run
    BY <1>2 DEF DraftInv
  <2> QED BY <2>1, <2>2, WorkerKeepsPlaces
<1>7. OneCampaign'
  BY <1>2 DEF DraftInv, OneCampaign
<1>8. \A id \in Ids : Due(id)' = Due(id)
  BY <1>2, DueStays DEF DraftInv
<1>9. VariantIsDue'
  <2>1. \A id \in Ids : lead'[id].variant \in {0, Due(id)'}
    BY <1>8 DEF DraftInv, VariantIsDue
  <2>2. ASSUME NEW id \in Ids, lead'[id].variant # 0 PROVE lead'[id].there
    <3>1. CASE lead[id].variant # 0
      BY <3>1 DEF DraftInv, VariantIsDue
    <3>2. CASE lead[id].variant = 0
      <4>1. lead[id].enrolled
        BY <2>2, <3>2 DEF Due
      <4> QED BY <4>1 DEF DraftInv, OneCampaign
    <3> QED BY <3>1, <3>2
  <2>3. ASSUME NEW v \in Workers, task'[v].pc = "drafting"
        PROVE  (task[v].variant = Due(task[v].id))'
    <3>1. PICK i \in Ids : i = task'[v].id /\ task'[v].variant = Due(i)
      <4>1. CASE v = w
        BY <1>1, <2>3, <4>1
      <4>2. CASE v # w
        <5>1. task'[v] = task[v] /\ task[v].id \in Ids
          BY <1>1, <2>3, <4>2 DEF DraftInv, Inv, IntakeInv, TasksHaveLeads
        <5> QED BY <2>3, <5>1 DEF DraftInv, VariantIsDue
      <4> QED BY <4>1, <4>2
    <3>2. Due(i)' = Due(i)
      BY <1>8
    <3> QED BY <3>1, <3>2 DEF Due
  <2> QED BY <2>1, <2>2, <2>3 DEF VariantIsDue
<1> QED BY <1>3, <1>4, <1>5, <1>6, <1>7, <1>9 DEF DraftInv

\* A worker's step that writes no lead.
LEMMA HandsKeepDrafts ==
  ASSUME DraftInv, Inv', NEW w \in Workers, NEW x, Do(w, x), UNCHANGED <<rest, lead>>,
         spent \subseteq spent', cut \subseteq cut',
         InBatch(x), x.pc = "drafting" => x.id \in Ids /\ x.variant = Due(x.id),
         \A id \in Ids : InBroker(id)' \/ Carries(x, id) => InBroker(id) \/ Carries(task[w], id),
         \A id \in Ids :
           id \notin cut' /\ (InBroker(id) \/ HasToDo(task[w], id))
             => InBroker(id)' \/ HasToDo(x, id),
         Undisturbed' => batch' = {} /\ x.batch = {} /\ \A id \in Ids : Passes(w, x, id)
  PROVE  DraftInv'
<1>1. \A id \in Ids :
        /\ lead'[id].there = lead[id].there /\ lead'[id].source = lead[id].source
        /\ lead'[id].enrolled = lead[id].enrolled
        /\ lead'[id].status = "new" => lead[id].status = "new"
        /\ lead'[id].variant \in {lead[id].variant, Due(id)}
  OBVIOUS
<1>2. \A id \in Ids :
        lead'[id].status = "new" /\ id \notin cut' /\ (InBroker(id) \/ HasToDo(task[w], id))
          => InBroker(id)' \/ HasToDo(x, id)
  OBVIOUS
<1>3. UNCHANGED rest
  OBVIOUS
<1> QED BY <1>1, <1>2, <1>3, WorkerKeepsDrafts

\* What the invariant says of one task.
LEMMA HandsAreOK ==
  ASSUME DraftInv, NEW w \in Workers
  PROVE  /\ task[w] \in TaskStates /\ InBatch(task[w])
         /\ task[w].pc \in Working => task[w].id \in Ids
         /\ task[w].pc = "drafting" => task[w].variant = Due(task[w].id)
         /\ Undisturbed => batch = {} /\ task[w].batch = {} /\ task[w].rest = {}
<1>1. task[w] \in TaskStates /\ InBatch(task[w])
  BY DEF DraftInv, Inv, IntakeInv, TypeOK, BatchesAreWhole
<1>2. task[w].pc \in Working => task[w].id \in Ids
  BY DEF DraftInv, Inv, IntakeInv, TasksHaveLeads, Working
<1>3. task[w].pc = "drafting" => task[w].variant = Due(task[w].id)
  BY DEF DraftInv, VariantIsDue
<1>4. Undisturbed => batch = {} /\ task[w].batch = {} /\ task[w].rest = {}
  BY <1>1 DEF DraftInv, OnePlace, InBatch
<1> QED BY <1>1, <1>2, <1>3, <1>4

\* A worker takes one lead's task from the broker: the lead leaves it for the hands.
LEMMA TakeKeepsDrafts ==
  ASSUME DraftInv, Inv', NEW w \in Workers, NEW id \in Ids, NEW k \in 0..MaxRetries,
         Take(w, id, k)
  PROVE  DraftInv'
<1> DEFINE x == [NoTask EXCEPT !.pc = "start", !.id = id, !.retries = k]
<1>1. Do(w, x) /\ UNCHANGED <<rest, lead, batch, cut, spent>>
  BY DEF Take
<1>2. x.pc = "start" /\ x.id = id /\ x.rest = {} /\ x.batch = {}
  BY DEF NoTask
<1> HIDE DEF x
<1>3. task[w].rest = {} /\ task[w].pc = "idle" /\ (Undisturbed => batch = {})
  BY HandsAreOK DEF Take, InBatch
<1>4. \A i \in Ids : queue[i] \in Nat /\ queue'[i] = IF i = id THEN queue[i] - 1 ELSE queue[i]
  BY DEF Take, DraftInv, Inv, IntakeInv, TypeOK
<1>5. queue[id] > 0
  BY DEF Take
<1>6. InBatch(x) /\ x.pc # "drafting"
  BY <1>2 DEF InBatch, Working
<1>7. \A i \in Ids : At(x, i) <=> i = id
  BY <1>2 DEF At, Working
<1>8. \A i \in Ids : InBroker(i)' \/ Carries(x, i) => InBroker(i) \/ Carries(task[w], i)
  BY <1>1, <1>2, <1>4, <1>5, <1>7 DEF InBroker, Carries, HasToDo
<1>9. \A i \in Ids :
        i \notin cut' /\ (InBroker(i) \/ HasToDo(task[w], i)) => InBroker(i)' \/ HasToDo(x, i)
  BY <1>1, <1>3, <1>4, <1>7 DEF InBroker, HasToDo, At, Working
<1>10. \A i \in Ids : Passes(w, x, i)
  <2> TAKE i \in Ids
  <2>1. lead'[i].drafts = lead[i].drafts /\ lead[i].drafts \in Nat
    BY <1>1 DEF DraftInv, Inv, IntakeInv, TypeOK, Leads
  <2>2. CASE i = id
    <3>1. Places(i)' < Places(i)
      BY <1>4, <1>5, <2>1, <2>2 DEF Places
    <3> QED BY <3>1 DEF Passes
  <2>3. CASE i # id
    <3>1. Places(i)' <= Places(i) /\ ~At(x, i)
      BY <1>4, <1>7, <2>1, <2>3 DEF Places
    <3> QED BY <3>1 DEF Passes
  <2> QED BY <2>2, <2>3
<1>11. Undisturbed' => batch' = {} /\ x.batch = {} /\ \A i \in Ids : Passes(w, x, i)
  BY <1>1, <1>2, <1>3, <1>10 DEF Undisturbed
<1> QED BY <1>1, <1>6, <1>8, <1>9, <1>11, HandsKeepDrafts

\* A worker takes the batch, which holds leads only if somebody asked again, or goes on
\* with it.
LEMMA BatchKeepsDrafts ==
  ASSUME DraftInv, Inv', NEW w \in Workers, TakeBatch(w) \/ \E id \in Ids : NextOfBatch(w, id)
  PROVE  DraftInv'
<1>1. PICK x :
        /\ Do(w, x) /\ x.pc \in {"next", "start"}
        /\ x.pc = "next" => x.id = Nobody /\ x.batch # {}
        /\ x.rest \subseteq x.batch /\ (x.pc = "start" => x.id \in x.batch)
        /\ \A i \in Ids : InBroker(i)' \/ Carries(x, i) => InBroker(i) \/ Carries(task[w], i)
        /\ \A i \in Ids : InBroker(i) \/ HasToDo(task[w], i) => InBroker(i)' \/ HasToDo(x, i)
  <2>1. CASE TakeBatch(w)
    <3> DEFINE x == [NoTask EXCEPT !.pc = "next", !.batch = batch, !.rest = batch]
    <3>1. Do(w, x) /\ UNCHANGED queue /\ batch' = {} /\ batch # {} /\ task[w].pc = "idle"
      BY <2>1 DEF TakeBatch
    <3>2. x.pc = "next" /\ x.id = Nobody /\ x.rest = batch /\ x.batch = batch
      BY DEF NoTask
    <3> HIDE DEF x
    <3>3. task[w].rest = {}
      BY <3>1, HandsAreOK DEF InBatch
    <3>4. \A i \in Ids : InBroker(i)' \/ Carries(x, i) => InBroker(i) \/ Carries(task[w], i)
      BY <3>1, <3>2 DEF InBroker, Carries, HasToDo, At, Working
    <3>5. \A i \in Ids : InBroker(i) \/ HasToDo(task[w], i) => InBroker(i)' \/ HasToDo(x, i)
      BY <3>1, <3>2, <3>3 DEF InBroker, HasToDo, At, Working
    <3> QED BY <3>1, <3>2, <3>4, <3>5
  <2>2. ASSUME NEW id \in Ids, NextOfBatch(w, id)
        PROVE  \E x :
                 /\ Do(w, x) /\ x.pc \in {"next", "start"}
                 /\ x.pc = "next" => x.id = Nobody /\ x.batch # {}
                 /\ x.rest \subseteq x.batch /\ (x.pc = "start" => x.id \in x.batch)
                 /\ \A i \in Ids :
                      InBroker(i)' \/ Carries(x, i) => InBroker(i) \/ Carries(task[w], i)
                 /\ \A i \in Ids : InBroker(i) \/ HasToDo(task[w], i) => InBroker(i)' \/ HasToDo(x, i)
    <3> DEFINE x == [task[w] EXCEPT !.pc = "start", !.id = id, !.rest = task[w].rest \ {id}]
    <3>1. Do(w, x) /\ UNCHANGED <<queue, batch>> /\ id \in task[w].rest /\ task[w].pc = "next"
      BY <2>2 DEF NextOfBatch, broker
    <3>2. x.pc = "start" /\ x.id = id /\ x.rest = task[w].rest \ {id} /\ x.batch = task[w].batch
      BY HandsAreOK DEF TaskStates
    <3> HIDE DEF x
    <3>3. task[w].rest \subseteq task[w].batch
      BY HandsAreOK DEF InBatch
    <3>4. \A i \in Ids : InBroker(i)' \/ Carries(x, i) => InBroker(i) \/ Carries(task[w], i)
      BY <3>1, <3>2 DEF InBroker, Carries, HasToDo, At, Working
    <3>5. \A i \in Ids : InBroker(i) \/ HasToDo(task[w], i) => InBroker(i)' \/ HasToDo(x, i)
      BY <3>1, <3>2, <3>3 DEF InBroker, HasToDo, At, Working
    <3> QED BY <3>1, <3>2, <3>3, <3>4, <3>5
  <2> QED BY <2>1, <2>2
<1>2. UNCHANGED <<rest, lead, cut, spent>>
  BY DEF TakeBatch, NextOfBatch
<1>3. ~Undisturbed
  <2>1. batch # {} \/ task[w].rest # {}
    BY DEF TakeBatch, NextOfBatch
  <2> QED BY <2>1, HandsAreOK
<1>4. InBatch(x) /\ x.pc # "drafting"
  BY <1>1 DEF InBatch, Working
<1>5. ~Undisturbed'
  BY <1>2, <1>3 DEF Undisturbed
<1> QED BY <1>1, <1>2, <1>4, <1>5, HandsKeepDrafts

\* A task goes on with its lead: drafting starts with the variant that is due, or an
\* answer is sent back.
LEMMA GoingOnKeepsDrafts ==
  ASSUME DraftInv, Inv', NEW w \in Workers, StartDrafting(w) \/ Invalid(w) \/ Rewrite(w)
  PROVE  DraftInv'
<1>1. /\ task[w] \in TaskStates /\ InBatch(task[w]) /\ task[w].pc \in Working
      /\ task[w].id \in Ids
  BY HandsAreOK DEF StartDrafting, Invalid, Rewrite, Working
<1>2. PICK x :
        /\ Do(w, x) /\ x.pc = "drafting" /\ x.id = task[w].id /\ x.rest = task[w].rest
        /\ x.batch = task[w].batch /\ x.variant = Due(task[w].id)
  <2>1. CASE StartDrafting(w)
    <3> DEFINE variant == Assigned(task[w].id)
               x == [task[w] EXCEPT !.pc = "drafting", !.variant = variant]
    <3>1. variant = Due(task[w].id)
      BY <1>1 DEF Assigned, Due, DraftInv, VariantIsDue, OneCampaign
    <3>2. Do(w, x)
      BY <2>1 DEF StartDrafting
    <3> HIDE DEF variant
    <3>3. /\ x.pc = "drafting" /\ x.id = task[w].id /\ x.rest = task[w].rest
          /\ x.batch = task[w].batch /\ x.variant = variant
      BY <1>1 DEF TaskStates
    <3> HIDE DEF x
    <3> QED BY <3>1, <3>2, <3>3
  <2>2. CASE Invalid(w) \/ Rewrite(w)
    <3>1. task[w].pc = "drafting" /\ task[w].variant = Due(task[w].id)
      BY <2>2, HandsAreOK DEF Invalid, Rewrite
    <3>2. CASE Invalid(w)
      <4> DEFINE x == [task[w] EXCEPT !.tries = task[w].tries + 1]
      <4>1. Do(w, x)
        BY <3>2 DEF Invalid
      <4>2. /\ x.pc = task[w].pc /\ x.id = task[w].id /\ x.rest = task[w].rest
            /\ x.batch = task[w].batch /\ x.variant = task[w].variant
        BY <1>1 DEF TaskStates
      <4> HIDE DEF x
      <4> QED BY <3>1, <4>1, <4>2
    <3>3. CASE Rewrite(w)
      <4> DEFINE x == [task[w] EXCEPT !.attempt = task[w].attempt + 1, !.tries = 0]
      <4>1. Do(w, x)
        BY <3>3 DEF Rewrite
      <4>2. /\ x.pc = task[w].pc /\ x.id = task[w].id /\ x.rest = task[w].rest
            /\ x.batch = task[w].batch /\ x.variant = task[w].variant
        BY <1>1 DEF TaskStates
      <4> HIDE DEF x
      <4> QED BY <3>1, <4>1, <4>2
    <3> QED BY <2>2, <3>2, <3>3
  <2> QED BY <2>1, <2>2
<1>3. UNCHANGED <<rest, lead, queue, batch, cut, spent>>
  BY DEF StartDrafting, Invalid, Rewrite, broker
<1>4. \A i \in Ids : At(x, i) <=> At(task[w], i)
  BY <1>1, <1>2 DEF At, Working
<1>5. \A i \in Ids : InBroker(i)' \/ Carries(x, i) => InBroker(i) \/ Carries(task[w], i)
  BY <1>2, <1>3, <1>4 DEF InBroker, Carries, HasToDo
<1>6. \A i \in Ids : InBroker(i) \/ HasToDo(task[w], i) => InBroker(i)' \/ HasToDo(x, i)
  BY <1>2, <1>3, <1>4 DEF InBroker, HasToDo
<1>7. InBatch(x)
  BY <1>1, <1>2 DEF InBatch, Working
<1>8. \A i \in Ids : Passes(w, x, i)
  <2> TAKE i \in Ids
  <2>1. Places(i) \in Nat /\ Places(i)' = Places(i)
    BY <1>3, PlacesAreCounted DEF DraftInv, Places
  <2>2. Places(i)' <= Places(i)
    BY <2>1
  <2> QED BY <1>4, <2>2 DEF Passes
<1>9. Undisturbed' => batch' = {} /\ x.batch = {} /\ \A i \in Ids : Passes(w, x, i)
  BY <1>2, <1>3, <1>8, HandsAreOK DEF Undisturbed
<1> QED BY <1>1, <1>2, <1>3, <1>5, <1>6, <1>7, <1>9, HandsKeepDrafts

\* A task that has ended holds nothing.
LEMMA NothingInHands ==
  /\ InBatch(NoTask) /\ NoTask.pc = "idle" /\ NoTask.batch = {}
  /\ \A id \in Ids : ~Carries(NoTask, id) /\ ~HasToDo(NoTask, id) /\ ~At(NoTask, id)
BY DEF NoTask, InBatch, Carries, HasToDo, At, Working

\* What a task that is done with a lead holds.
LEMMA FinishedHands ==
  ASSUME DraftInv, NEW w \in Workers
  PROVE  /\ InBatch(Finished(w)) /\ Finished(w).pc # "drafting"
         /\ \A id \in Ids :
              /\ ~At(Finished(w), id)
              /\ Carries(Finished(w), id) => Carries(task[w], id)
              /\ HasToDo(Finished(w), id) <=> id \in task[w].rest
         /\ Undisturbed => Finished(w).batch = {}
<1>1. /\ InBatch(task[w])
      /\ Undisturbed => task[w].rest = {}
  BY HandsAreOK
<1>2. CASE task[w].rest = {}
  <2>1. Finished(w) = NoTask
    BY <1>2 DEF Finished
  <2> QED BY <1>2, <2>1, NothingInHands
<1>3. CASE task[w].rest # {}
  <2> DEFINE x == [NoTask EXCEPT !.pc = "next", !.rest = task[w].rest, !.batch = task[w].batch]
  <2>1. Finished(w) = x
    BY <1>3 DEF Finished
  <2>2. x.pc = "next" /\ x.id = Nobody /\ x.rest = task[w].rest /\ x.batch = task[w].batch
    BY DEF NoTask
  <2> HIDE DEF x
  <2>3. InBatch(x)
    BY <1>1, <1>3, <2>2 DEF InBatch, Working
  <2> QED BY <1>1, <1>3, <2>1, <2>2, <2>3 DEF Carries, HasToDo, At, Working
<1> QED BY <1>2, <1>3

\* A lead is left out or drafted for: it gets its variant, and is in no hands any more.
LEMMA DoneKeepsDrafts ==
  ASSUME DraftInv, Inv', NEW w \in Workers,
         SkipSuppressed(w) \/ \E risk \in RiskLevels : SaveDraft(w, risk)
  PROVE  DraftInv'
<1> DEFINE id == task[w].id
           x == Finished(w)
<1>1. /\ Do(w, x) /\ UNCHANGED <<rest, queue, batch, cut, spent>>
  BY DEF SkipSuppressed, SaveDraft, broker
<1>2. /\ task[w] \in TaskStates /\ task[w].pc \in Working /\ id \in Ids
  BY HandsAreOK DEF SkipSuppressed, SaveDraft, Working
<1>3. lead \in [Ids -> Leads] /\ lead[id] \in Leads
  BY <1>2 DEF DraftInv, Inv, IntakeInv, TypeOK
<1>4. PICK row :
        /\ lead' = [lead EXCEPT ![id] = row]
        /\ row.there = lead[id].there /\ row.source = lead[id].source
        /\ row.enrolled = lead[id].enrolled /\ row.status # "new"
        /\ row.variant \in {lead[id].variant, Due(id)}
        /\ row.drafts \in {lead[id].drafts, lead[id].drafts + 1}
  <2>1. CASE SkipSuppressed(w)
    <3> DEFINE row == [lead[id] EXCEPT !.status = "opted_out"]
    <3>1. lead' = [lead EXCEPT ![id] = row]
      BY <2>1 DEF SkipSuppressed
    <3>2. /\ row.there = lead[id].there /\ row.source = lead[id].source
          /\ row.enrolled = lead[id].enrolled /\ row.status # "new"
          /\ row.variant = lead[id].variant /\ row.drafts = lead[id].drafts
      BY <1>3 DEF Leads
    <3> HIDE DEF row
    <3> QED BY <3>1, <3>2
  <2>2. ASSUME NEW risk \in RiskLevels, SaveDraft(w, risk)
        PROVE  \E row :
                 /\ lead' = [lead EXCEPT ![id] = row]
                 /\ row.there = lead[id].there /\ row.source = lead[id].source
                 /\ row.enrolled = lead[id].enrolled /\ row.status # "new"
                 /\ row.variant \in {lead[id].variant, Due(id)}
                 /\ row.drafts \in {lead[id].drafts, lead[id].drafts + 1}
    <3> DEFINE h == IF HoldsIt(w, risk) THEN lead[id].held + 1 ELSE lead[id].held
               row == [lead[id] EXCEPT !.status = "enriched", !.variant = task[w].variant,
                                       !.drafts = lead[id].drafts + 1, !.held = h]
    <3>1. lead' = [lead EXCEPT ![id] = row]
      BY <1>2, <1>3, <2>2 DEF SaveDraft
    <3>2. task[w].variant = Due(id)
      BY <2>2, HandsAreOK DEF SaveDraft
    <3> HIDE DEF h
    <3>3. /\ row.there = lead[id].there /\ row.source = lead[id].source
          /\ row.enrolled = lead[id].enrolled /\ row.status = "enriched"
          /\ row.variant = task[w].variant /\ row.drafts = lead[id].drafts + 1
      BY <1>3 DEF Leads
    <3> HIDE DEF row
    <3> QED BY <3>1, <3>2, <3>3
  <2> QED BY <2>1, <2>2
<1> HIDE DEF id, x
<1>5. \A i \in Ids : lead'[i] = IF i = id THEN row ELSE lead[i]
  BY <1>3, <1>4
<1>6. \A i \in Ids :
        /\ lead'[i].there = lead[i].there /\ lead'[i].source = lead[i].source
        /\ lead'[i].enrolled = lead[i].enrolled
        /\ lead'[i].status = "new" => lead[i].status = "new"
        /\ lead'[i].variant \in {lead[i].variant, Due(i)}
  BY <1>4, <1>5
<1>7. /\ InBatch(x) /\ x.pc # "drafting"
      /\ \A i \in Ids : /\ ~At(x, i)
                        /\ Carries(x, i) => Carries(task[w], i)
                        /\ HasToDo(x, i) <=> i \in task[w].rest
      /\ Undisturbed => x.batch = {}
  BY FinishedHands DEF x
<1>8. \A i \in Ids : At(task[w], i) <=> i = id
  BY <1>2 DEF At, id
<1>9. \A i \in Ids : InBroker(i)' \/ Carries(x, i) => InBroker(i) \/ Carries(task[w], i)
  BY <1>1, <1>7 DEF InBroker
<1>10. \A i \in Ids :
         lead'[i].status = "new" /\ i \notin cut' /\ (InBroker(i) \/ HasToDo(task[w], i))
           => InBroker(i)' \/ HasToDo(x, i)
  BY <1>1, <1>4, <1>5, <1>7, <1>8 DEF InBroker, HasToDo
<1>11. \A i \in Ids : Passes(w, x, i)
  <2> TAKE i \in Ids
  <2>1. queue[i] \in Nat /\ lead[i].drafts \in Nat /\ queue'[i] = queue[i]
    BY <1>1, <1>3 DEF DraftInv, Inv, IntakeInv, TypeOK, Leads
  <2>2. lead'[i].drafts = lead[i].drafts \/ (i = id /\ lead'[i].drafts = lead[i].drafts + 1)
    BY <1>4, <1>5
  <2>3. CASE lead'[i].drafts = lead[i].drafts
    <3>1. Places(i)' <= Places(i)
      BY <2>1, <2>3 DEF Places
    <3> QED BY <1>7, <3>1 DEF Passes
  <2>4. CASE i = id /\ lead'[i].drafts = lead[i].drafts + 1
    <3>1. Places(i)' = Places(i) + 1
      BY <2>1, <2>4 DEF Places
    <3> QED BY <1>7, <1>8, <2>4, <3>1 DEF Passes
  <2> QED BY <2>2, <2>3, <2>4
<1>12. Undisturbed' => batch' = {} /\ x.batch = {} /\ \A i \in Ids : Passes(w, x, i)
  BY <1>1, <1>7, <1>11, HandsAreOK DEF Undisturbed
<1>13. spent \subseteq spent' /\ cut \subseteq cut' /\ UNCHANGED rest
  BY <1>1
<1> QED BY <1>1, <1>6, <1>7, <1>9, <1>10, <1>12, <1>13, WorkerKeepsDrafts

\* A task that gives up goes back to the broker, or what it had left is cut off.
LEMMA EndedTaskKeepsDrafts ==
  ASSUME DraftInv, Inv', NEW w \in Workers, GiveUp(w) \/ ProviderFails(w)
  PROVE  DraftInv'
<1> DEFINE id == task[w].id
<1>1. /\ Do(w, NoTask) /\ UNCHANGED <<rest, lead, batch>>
  BY DEF GiveUp, ProviderFails, broker
<1>2. spent \subseteq spent' /\ cut \subseteq cut' /\ (Undisturbed' => Undisturbed)
  BY DEF GiveUp, ProviderFails, Spend, Undisturbed
<1>3. /\ task[w] \in TaskStates /\ InBatch(task[w]) /\ task[w].pc \in Working /\ id \in Ids
      /\ Undisturbed => batch = {} /\ task[w].batch = {} /\ task[w].rest = {}
  BY HandsAreOK DEF GiveUp, ProviderFails, Working
<1>4. \A i \in Ids : queue[i] \in Nat /\ lead[i].drafts \in Nat
  BY DEF DraftInv, Inv, IntakeInv, TypeOK, Leads
<1>5. \/ /\ task[w].batch = {}
         /\ \A i \in Ids : queue'[i] = IF i = id THEN queue[i] + 1 ELSE queue[i]
      \/ /\ UNCHANGED queue
         /\ id \in cut' /\ task[w].rest \subseteq cut'
  <2>1. CASE GiveUp(w) /\ MayRetry(w)
    <3>1. queue' = Published(id) /\ task[w].batch = {}
      BY <2>1 DEF GiveUp, MayRetry, Queue
    <3>2. DOMAIN queue = Ids
      BY DEF DraftInv, Inv, IntakeInv, TypeOK
    <3> QED BY <2>1, <3>1, <3>2 DEF Published
  <2>2. CASE GiveUp(w) /\ ~MayRetry(w)
    BY <2>2 DEF GiveUp
  <2>3. CASE ProviderFails(w)
    BY <2>3 DEF ProviderFails, broker
  <2> QED BY <2>1, <2>2, <2>3
<1> HIDE DEF id
<1>6. \A i \in Ids : At(task[w], i) <=> i = id
  BY <1>3 DEF At, id
<1>7. \A i \in Ids : InBroker(i)' \/ Carries(NoTask, i) => InBroker(i) \/ Carries(task[w], i)
  BY <1>1, <1>5, <1>6, NothingInHands DEF InBroker, Carries, HasToDo
<1>8. \A i \in Ids :
        i \notin cut' /\ (InBroker(i) \/ HasToDo(task[w], i)) => InBroker(i)' \/ HasToDo(NoTask, i)
  <2> SUFFICES ASSUME NEW i \in Ids, i \notin cut', InBroker(i) \/ HasToDo(task[w], i)
               PROVE  InBroker(i)'
    OBVIOUS
  <2>1. CASE i \in batch
    BY <1>1, <2>1 DEF InBroker
  <2>2. CASE queue[i] > 0
    BY <1>4, <1>5, <2>2 DEF InBroker
  <2>3. CASE HasToDo(task[w], i)
    <3>1. i \in task[w].rest \/ i = id
      BY <1>6, <2>3 DEF HasToDo
    <3>2. task[w].batch = {} => task[w].rest = {}
      BY <1>3 DEF InBatch
    <3>3. queue'[i] = queue[i] + 1
      BY <1>5, <3>1, <3>2
    <3> QED BY <1>4, <3>3 DEF InBroker
  <2> QED BY <2>1, <2>2, <2>3 DEF InBroker
<1>9. \A i \in Ids : Passes(w, NoTask, i)
  <2> TAKE i \in Ids
  <2>1. queue[i] \in Nat /\ lead[i].drafts \in Nat /\ lead'[i].drafts = lead[i].drafts
    BY <1>1, <1>4
  <2>2. queue'[i] = queue[i] \/ (i = id /\ queue'[i] = queue[i] + 1)
    BY <1>5
  <2>3. CASE queue'[i] = queue[i]
    <3>1. Places(i)' <= Places(i)
      BY <2>1, <2>3 DEF Places
    <3> QED BY <3>1, NothingInHands DEF Passes
  <2>4. CASE i = id /\ queue'[i] = queue[i] + 1
    <3>1. Places(i)' = Places(i) + 1
      BY <2>1, <2>4 DEF Places
    <3> QED BY <1>6, <2>4, <3>1, NothingInHands DEF Passes
  <2> QED BY <2>2, <2>3, <2>4
<1>10. Undisturbed' => batch' = {} /\ NoTask.batch = {} /\ \A i \in Ids : Passes(w, NoTask, i)
  BY <1>1, <1>2, <1>3, <1>9, NothingInHands
<1>11. InBatch(NoTask) /\ NoTask.pc # "drafting" /\ UNCHANGED <<rest, lead>>
  BY <1>1, NothingInHands
<1> QED BY <1>1, <1>2, <1>7, <1>8, <1>10, <1>11, HandsKeepDrafts

\* A task that dies is delivered again, with all it came with, or what it had left is
\* cut off; one that is delivered twice goes on.
LEMMA TwiceKeepsDrafts ==
  ASSUME DraftInv, Inv', NEW w \in Workers,
         Redeliver(w) \/ \E back \in BOOLEAN : WorkerCrash(w, back)
  PROVE  DraftInv'
<1> DEFINE id == task[w].id
<1>1. UNCHANGED <<rest, lead>> /\ task[w].pc # "idle"
  BY DEF Redeliver, WorkerCrash
<1>2. spent \subseteq spent' /\ cut \subseteq cut' /\ ~Undisturbed'
  BY DEF Redeliver, WorkerCrash, Spend, Undisturbed
<1>3. /\ task[w] \in TaskStates /\ InBatch(task[w])
      /\ task[w].pc \in Working => id \in Ids
      /\ task[w].pc = "drafting" => task[w].variant = Due(id)
  BY HandsAreOK
<1>4. \A i \in Ids : queue[i] \in Nat
  BY DEF DraftInv, Inv, IntakeInv, TypeOK
<1>5. \A i \in Ids : HasToDo(task[w], i) => i \in task[w].batch \/ (task[w].batch = {} /\ i = id)
  BY <1>3 DEF HasToDo, At, InBatch
<1>6. task[w].batch = {} => task[w].pc \in Working
  BY <1>1, <1>3 DEF InBatch, Working, TaskStates
<1>7. \/ /\ task[w].batch = {} /\ UNCHANGED batch
         /\ \A i \in Ids : queue'[i] = IF i = id THEN queue[i] + 1 ELSE queue[i]
      \/ task[w].batch # {} /\ batch' = batch \cup task[w].batch /\ UNCHANGED queue
      \/ /\ UNCHANGED <<queue, batch>> /\ Do(w, NoTask)
         /\ \A i \in Ids : HasToDo(task[w], i) => i \in cut'
  <2>1. CASE Redeliver(w) \/ WorkerCrash(w, TRUE)
    <3>1. CASE task[w].batch = {}
      <4>1. queue' = Published(id) /\ UNCHANGED batch
        BY <2>1, <3>1 DEF Redeliver, WorkerCrash, Return, Queue
      <4>2. DOMAIN queue = Ids
        BY DEF DraftInv, Inv, IntakeInv, TypeOK
      <4> QED BY <3>1, <4>1, <4>2 DEF Published
    <3>2. CASE task[w].batch # {}
      BY <2>1, <3>2 DEF Redeliver, WorkerCrash, Return
    <3> QED BY <3>1, <3>2
  <2>2. CASE WorkerCrash(w, FALSE)
    <3>1. UNCHANGED <<queue, batch>> /\ Do(w, NoTask)
          /\ cut' = cut \cup task[w].rest \cup ({id} \ {Nobody})
      BY <2>2 DEF WorkerCrash, broker
    <3>2. \A i \in Ids : i # Nobody
      <4>1. \A i \in Ids : i[2] \in 1..MaxCopies
        BY DEF Ids
      <4>2. Nobody[2] = 0
        BY DEF Nobody
      <4> QED BY <4>1, <4>2
    <3>3. \A i \in Ids : HasToDo(task[w], i) => i \in task[w].rest \/ (i = id /\ i # Nobody)
      BY <3>2 DEF HasToDo, At
    <3> QED BY <3>1, <3>3
  <2> QED BY <2>1, <2>2
<1>8. PICK x \in {task[w], NoTask} : Do(w, x)
  <2>1. Redeliver(w) => Do(w, task[w])
    BY DEF Redeliver, Do, DraftInv, Inv, IntakeInv, TypeOK
  <2> QED BY <2>1 DEF WorkerCrash
<1>9. \A i \in Ids : InBroker(i)' => InBroker(i) \/ Carries(task[w], i)
  <2>1. \A i \in Ids : i = id /\ task[w].batch = {} => At(task[w], i)
    BY <1>6 DEF At
  <2> QED BY <1>7, <2>1 DEF InBroker, Carries, HasToDo
<1>10. \A i \in Ids : InBroker(i) => InBroker(i)'
  BY <1>4, <1>7 DEF InBroker
<1>11. \A i \in Ids : i \notin cut' /\ HasToDo(task[w], i) => InBroker(i)' 
  <2> SUFFICES ASSUME NEW i \in Ids, i \notin cut', HasToDo(task[w], i) PROVE InBroker(i)'
    OBVIOUS
  <2>1. CASE task[w].batch = {}
    <3>1. i = id /\ queue'[i] = queue[i] + 1
      BY <1>5, <1>7, <2>1
    <3> QED BY <1>4, <3>1 DEF InBroker
  <2>2. CASE task[w].batch # {}
    BY <1>5, <1>7, <2>2 DEF InBroker
  <2> QED BY <2>1, <2>2
<1>12. \A i \in Ids : InBroker(i)' \/ Carries(x, i) => InBroker(i) \/ Carries(task[w], i)
  BY <1>8, <1>9, NothingInHands
<1>13. \A i \in Ids :
         i \notin cut' /\ (InBroker(i) \/ HasToDo(task[w], i)) => InBroker(i)' \/ HasToDo(x, i)
  BY <1>10, <1>11
<1>14. InBatch(x) /\ (x.pc = "drafting" => x.id \in Ids /\ x.variant = Due(x.id))
  BY <1>3, <1>8, NothingInHands DEF Working
<1> QED BY <1>1, <1>2, <1>8, <1>12, <1>13, <1>14, HandsKeepDrafts

-----------------------------------------------------------------------------
(* Requests, uploads and runs.                                              *)

\* Somebody asks for an enrichment: of leads there are, and the bet is off that each
\* is in one place.  Or an address is suppressed.
LEMMA RequestKeepsDrafts ==
  ASSUME DraftInv, Inv', \/ \E id \in Ids : EnrichLead(id)
                         \/ EnrichBatch
                         \/ \E e \in Addresses : Suppress(e)
  PROVE  DraftInv'
<1>1. UNCHANGED <<lead, weights, upload, run, task, cut>>
  BY DEF EnrichLead, EnrichBatch, Suppress, intake, rest, enrichment, broker
<1>2. \/ UNCHANGED <<queue, batch>> /\ (Undisturbed' => Undisturbed)
      \/ ~Undisturbed'
  BY DEF EnrichLead, EnrichBatch, Suppress, enrichment, broker, Spend, Undisturbed
<1>3. \A i \in Ids : InBroker(i)' => InBroker(i) \/ lead[i].there
  <2>1. ASSUME NEW id \in Ids, EnrichLead(id), NEW i \in Ids, InBroker(i)'
        PROVE  InBroker(i) \/ lead[i].there
    <3>1. queue' = Published(id) /\ id \in There /\ UNCHANGED batch
      BY <2>1 DEF EnrichLead
    <3>2. i # id => queue'[i] = queue[i]
      BY <3>1 DEF Published, DraftInv, Inv, IntakeInv, TypeOK
    <3> QED BY <2>1, <3>1, <3>2 DEF InBroker, There
  <2>2. CASE EnrichBatch
    BY <2>2 DEF EnrichBatch, InBroker, There
  <2>3. CASE \E e \in Addresses : Suppress(e)
    BY <2>3 DEF Suppress, enrichment, broker, InBroker
  <2> QED BY <2>1, <2>2, <2>3
<1>4. \A i \in Ids : Waiting(i) /\ InBroker(i) => InBroker(i)'
  <2>1. \A i \in Ids : queue[i] \in Nat
    BY DEF DraftInv, Inv, IntakeInv, TypeOK
  <2>2. ASSUME NEW id \in Ids, EnrichLead(id), NEW i \in Ids, InBroker(i)
        PROVE  InBroker(i)'
    <3>1. queue' = Published(id) /\ UNCHANGED batch
      BY <2>2 DEF EnrichLead
    <3>2. queue'[i] = IF i = id THEN queue[i] + 1 ELSE queue[i]
      BY <3>1 DEF Published, DraftInv, Inv, IntakeInv, TypeOK
    <3> QED BY <2>1, <2>2, <3>1, <3>2 DEF InBroker
  <2>3. CASE EnrichBatch
    BY <2>3 DEF EnrichBatch, InBroker, There, Waiting
  <2>4. CASE \E e \in Addresses : Suppress(e)
    BY <2>4 DEF Suppress, enrichment, broker, InBroker
  <2> QED BY <2>2, <2>3, <2>4
<1>5. OnlyLeads'
  BY <1>1, <1>3 DEF DraftInv, OnlyLeads, OnItsWay
<1>6. BatchesAreWhole'
  BY <1>1 DEF DraftInv, BatchesAreWhole
<1>7. NoneForgotten'
  BY <1>1, <1>4 DEF DraftInv, NoneForgotten, Coming, Waiting
<1>8. Undisturbed' => OnePlace'
  BY <1>1, <1>2 DEF DraftInv, OnePlace, InOnePlace, Places
<1>9. OneCampaign'
  BY <1>1 DEF DraftInv, OneCampaign
<1>10. VariantIsDue'
  BY <1>1 DEF DraftInv, VariantIsDue, Due
<1> QED BY <1>5, <1>6, <1>7, <1>8, <1>9, <1>10 DEF DraftInv

\* An upload enrols leads in a campaign there is; it writes nothing before it commits.
LEMMA UploadKeepsDrafts ==
  ASSUME DraftInv, Inv', NEW u \in Uploads,
         \/ \E asked \in SUBSET Prospects, enrolled \in BOOLEAN : BeginUpload(u, asked, enrolled)
         \/ \E p \in Prospects : CheckRow(u, p)
  PROVE  DraftInv'
<1>1. UNCHANGED <<lead, weights, run, queue, batch, task, cut>>
  BY DEF BeginUpload, CheckRow, intake, enrichment, broker
<1>2. Undisturbed' => Undisturbed
  BY DEF BeginUpload, CheckRow, Opens, Spend, Undisturbed
<1>3. \A v \in Uploads : upload'[v].pc = "checking" /\ upload'[v].enrolled => weights # <<>>
  <2>1. upload \in [Uploads -> UploadStates] /\ upload[u] \in UploadStates
    BY DEF DraftInv, Inv, IntakeInv, TypeOK
  <2>2. PICK x : /\ upload' = [upload EXCEPT ![u] = x]
                 /\ x.pc = "checking" /\ x.enrolled => weights # <<>>
    <3>1. ASSUME NEW asked \in SUBSET Prospects, NEW enrolled \in BOOLEAN,
                 BeginUpload(u, asked, enrolled)
          PROVE  \E x : /\ upload' = [upload EXCEPT ![u] = x]
                        /\ x.pc = "checking" /\ x.enrolled => weights # <<>>
      <4> DEFINE x == [NoUpload EXCEPT !.pc = "checking", !.enrolled = enrolled, !.todo = asked]
      <4>1. upload' = [upload EXCEPT ![u] = x] /\ (enrolled => weights # <<>>)
        BY <3>1 DEF BeginUpload
      <4>2. x.enrolled = enrolled
        BY DEF NoUpload
      <4> HIDE DEF x
      <4> QED BY <4>1, <4>2
    <3>2. ASSUME NEW p \in Prospects, CheckRow(u, p)
          PROVE  \E x : /\ upload' = [upload EXCEPT ![u] = x]
                        /\ x.pc = "checking" /\ x.enrolled => weights # <<>>
      <4> DEFINE many == Cardinality(WithAddress(EmailOf[p], upload[u].fresh)) > 1
                 fresh == IF WithAddress(EmailOf[p], upload[u].fresh) = {}
                          THEN upload[u].fresh \cup {p} ELSE upload[u].fresh
                 x0 == [NoUpload EXCEPT !.pc = "failed"]
                 x1 == [upload[u] EXCEPT !.todo = upload[u].todo \ {p}, !.fresh = fresh]
                 x == IF many THEN x0 ELSE x1
      <4>1. upload' = [upload EXCEPT ![u] = x] /\ upload[u].pc = "checking"
        BY <3>2 DEF CheckRow
      <4> HIDE DEF many, fresh
      <4>2. x0.pc = "failed" /\ x1.enrolled = upload[u].enrolled
        BY <2>1 DEF NoUpload, UploadStates
      <4> HIDE DEF x0, x1
      <4>3. x.pc = "checking" /\ x.enrolled => weights # <<>>
        BY <4>1, <4>2 DEF DraftInv, OneCampaign
      <4> HIDE DEF x
      <4> QED BY <4>1, <4>3
    <3> QED BY <3>1, <3>2
  <2>3. \A v \in Uploads : upload'[v] = IF v = u THEN x ELSE upload[v]
    BY <2>1, <2>2
  <2> QED BY <2>2, <2>3 DEF DraftInv, OneCampaign
<1>4. OnlyLeads' /\ BatchesAreWhole' /\ NoneForgotten'
  BY <1>1 DEF DraftInv, OnlyLeads, OnItsWay, InBroker, BatchesAreWhole, NoneForgotten, Coming,
     Waiting
<1>5. Undisturbed' => OnePlace'
  BY <1>1, <1>2 DEF DraftInv, OnePlace, InOnePlace, Places
<1>6. OneCampaign'
  BY <1>1, <1>3 DEF DraftInv, OneCampaign
<1>7. VariantIsDue'
  BY <1>1 DEF DraftInv, VariantIsDue, Due
<1> QED BY <1>4, <1>5, <1>6, <1>7 DEF DraftInv

\* A run's step keeps it to one campaign: it adds one only while there is none, and
\* commits its own, or finds one.
LEMMA RunKeepsCampaign ==
  ASSUME TypeOK, OneCampaign, NEW r \in Runs, NEW x, Move(r, x), UNCHANGED upload,
         weights' = weights \/ (run[r].own /\ weights' # <<>>),
         x.own <=> x.pc \in {"searching", "looking"} /\ weights' = <<>>,
         x.own => run[r].own \/ \A q \in Runs : ~run[q].own,
         \A id \in Ids : lead'[id].enrolled =>
           lead'[id].there /\ (lead[id].enrolled \/ weights' # <<>>)
  PROVE  OneCampaign'
<1>1. \A q \in Runs : run'[q] = IF q = r THEN x ELSE run[q]
  BY DEF Move, TypeOK
<1>2. run[r].own => weights = <<>> /\ \A q \in Runs : run[q].own => q = r
  BY DEF OneCampaign
<1>3. \A p, q \in Runs : run'[p].own /\ run'[q].own => p = q
  BY <1>1 DEF OneCampaign
<1>4. ASSUME NEW q \in Runs
      PROVE  run'[q].own <=> run'[q].pc \in {"searching", "looking"} /\ weights' = <<>>
  <2>1. CASE q = r
    BY <1>1, <2>1
  <2>2. CASE q # r /\ weights' = weights
    BY <1>1, <2>2 DEF OneCampaign
  <2>3. CASE q # r /\ weights' # weights
    BY <1>1, <1>2, <2>3
  <2> QED BY <2>1, <2>2, <2>3
<1>5. weights # <<>> => weights' # <<>>
  BY <1>2
<1>6. \A u \in Uploads : upload'[u].pc = "checking" /\ upload'[u].enrolled => weights' # <<>>
  BY <1>5 DEF OneCampaign
<1>7. \A id \in Ids : lead'[id].enrolled => lead'[id].there /\ weights' # <<>>
  BY <1>5 DEF OneCampaign
<1> QED BY <1>3, <1>4, <1>6, <1>7 DEF OneCampaign

\* A run's step that writes no lead: what it had to publish it still has, has put in
\* the broker or has cut off.
LEMMA RunKeepsDrafts ==
  ASSUME DraftInv, Inv', NEW r \in Runs, NEW x, Move(r, x), UNCHANGED <<lead, upload, batch, task>>,
         weights' = weights \/ (run[r].own /\ weights' # <<>>),
         x.own <=> x.pc \in {"searching", "looking"} /\ weights' = <<>>,
         x.own => run[r].own \/ \A q \in Runs : ~run[q].own,
         cut \subseteq cut', Undisturbed' => Undisturbed,
         \A id \in Ids :
           \/ /\ queue'[id] = queue[id]
              /\ id \in x.ids => id \in run[r].ids
              /\ id \in run[r].ids => id \in x.ids \/ id \in cut'
           \/ queue'[id] = queue[id] + 1 /\ id \in run[r].ids /\ id \notin x.ids
  PROVE  DraftInv'
<1>1. TypeOK /\ \A q \in Runs : run'[q] = IF q = r THEN x ELSE run[q]
  BY DEF Move, DraftInv, Inv, IntakeInv, TypeOK
<1>2. \A id \in Ids : queue[id] \in Nat /\ lead[id].drafts \in Nat
  BY DEF DraftInv, Inv, IntakeInv, TypeOK, Leads
<1>3. OneCampaign'
  <2>1. \A id \in Ids : lead'[id].enrolled =>
          lead'[id].there /\ (lead[id].enrolled \/ weights' # <<>>)
    BY DEF DraftInv, OneCampaign
  <2> QED BY <1>1, <2>1, RunKeepsCampaign DEF DraftInv
<1>4. OnlyLeads'
  <2> SUFFICES ASSUME NEW id \in Ids, OnItsWay(id)' PROVE lead[id].there
    BY DEF OnlyLeads
  <2>1. OnItsWay(id)
    <3>1. CASE InBroker(id)'
      BY <3>1 DEF InBroker, OnItsWay
    <3>2. ASSUME NEW q \in Runs, id \in run'[q].ids PROVE OnItsWay(id)
      BY <1>1, <3>2 DEF OnItsWay
    <3>3. CASE \E w \in Workers : Carries(task'[w], id)
      BY <3>3 DEF OnItsWay
    <3> QED BY <3>1, <3>2, <3>3 DEF OnItsWay
  <2> QED BY <2>1 DEF DraftInv, OnlyLeads
<1>5. NoneForgotten'
  <2> SUFFICES ASSUME NEW id \in Ids, Waiting(id)', id \notin cut' PROVE Coming(id)'
    BY DEF NoneForgotten
  <2>1. Coming(id)
    BY DEF DraftInv, NoneForgotten, Waiting
  <2>2. CASE InBroker(id)
    <3>1. InBroker(id)'
      BY <1>2, <2>2 DEF InBroker
    <3> QED BY <3>1 DEF Coming
  <2>3. ASSUME NEW q \in Runs, id \in run[q].ids PROVE Coming(id)'
    <3>1. CASE q # r \/ id \in x.ids
      BY <1>1, <2>3, <3>1 DEF Coming
    <3>2. CASE q = r /\ id \notin x.ids
      <4>1. queue'[id] = queue[id] + 1
        BY <2>3, <3>2
      <4>2. InBroker(id)'
        BY <1>2, <4>1 DEF InBroker
      <4> QED BY <4>2 DEF Coming
    <3> QED BY <3>1, <3>2
  <2>4. CASE \E w \in Workers : HasToDo(task[w], id)
    BY <2>4 DEF Coming
  <2> QED BY <2>1, <2>2, <2>3, <2>4 DEF Coming
<1>6. Undisturbed' => OnePlace'
  <2> SUFFICES ASSUME Undisturbed' PROVE OnePlace'
    OBVIOUS
  <2>1. OnePlace
    BY DEF DraftInv
  <2>2. ASSUME NEW id \in Ids PROVE InOnePlace(id)'
    <3>1. InOnePlace(id) /\ Places(id) \in Nat
      BY <2>1, PlacesAreCounted DEF OnePlace, DraftInv
    <3>2. CASE queue'[id] = queue[id] /\ (id \in x.ids => id \in run[r].ids)
      <4>1. Places(id)' = Places(id)
        BY <3>2 DEF Places
      <4>2. \A q \in Runs : id \in run'[q].ids => id \in run[q].ids
        BY <1>1, <3>2
      <4> QED BY <3>1, <4>1, <4>2 DEF InOnePlace
    <3>3. CASE queue'[id] = queue[id] + 1 /\ id \in run[r].ids /\ id \notin x.ids
      <4>1. Places(id) = 0 /\ (\A q \in Runs : id \in run[q].ids => q = r)
              /\ \A w \in Workers : ~At(task[w], id)
        BY <3>1, <3>3 DEF InOnePlace
      <4>2. Places(id)' = 1
        BY <1>2, <3>3, <4>1 DEF Places
      <4>3. \A q \in Runs : id \notin run'[q].ids
        BY <1>1, <3>3, <4>1
      <4> QED BY <4>1, <4>2, <4>3 DEF InOnePlace
    <3> QED BY <3>2, <3>3
  <2> QED BY <2>1, <2>2 DEF OnePlace
<1>7. BatchesAreWhole'
  BY DEF DraftInv, BatchesAreWhole
<1>8. \A id \in Ids : Due(id)' = Due(id)
  <2>1. weights' = weights \/ weights = <<>>
    BY DEF DraftInv, OneCampaign
  <2> QED BY <2>1, DueStays DEF DraftInv
<1>9. VariantIsDue'
  <2>1. \A id \in Ids : lead'[id].variant \in {0, Due(id)'}
    BY <1>8 DEF DraftInv, VariantIsDue
  <2>2. \A id \in Ids : lead'[id].variant # 0 => lead'[id].there
    BY DEF DraftInv, VariantIsDue
  <2>3. ASSUME NEW w \in Workers, task'[w].pc = "drafting"
        PROVE  (task[w].variant = Due(task[w].id))'
    <3>1. task[w].variant = Due(task[w].id) /\ task[w].id \in Ids
      BY <2>3 DEF DraftInv, VariantIsDue, Inv, IntakeInv, TasksHaveLeads
    <3>2. PICK i \in Ids : i = task[w].id /\ task[w].variant = Due(i)
      BY <3>1
    <3>3. Due(i)' = Due(i)
      BY <1>8
    <3> QED BY <3>2, <3>3 DEF Due
  <2> QED BY <2>1, <2>2, <2>3 DEF VariantIsDue
<1> QED BY <1>3, <1>4, <1>5, <1>6, <1>7, <1>9 DEF DraftInv

\* The steps of a run before it commits, its end without leads, and its crash.
LEMMA RunStepKeepsDrafts ==
  ASSUME DraftInv, Inv', NEW r \in Runs,
         \/ BeginRun(r) \/ CreateCampaign(r) \/ CampaignClash(r) \/ SearchFails(r) \/ RunCrash(r)
         \/ \E found \in SUBSET Prospects : Search(r, found)
         \/ \E p \in Prospects : Consider(r, p) \/ NoContact(r, p)
  PROVE  DraftInv'
<1>1. /\ run[r] \in RunStates /\ (run[r].pc # "publishing" => run[r].ids = {})
      /\ run[r].own <=> run[r].pc \in {"searching", "looking"} /\ weights = <<>>
  BY DEF DraftInv, Inv, IntakeInv, TypeOK, RunsInOrder, OneCampaign
<1>2. /\ NoRun.own = FALSE /\ NoRun.ids = {}
      /\ \A pc : [NoRun EXCEPT !.pc = pc].pc = pc /\ [NoRun EXCEPT !.pc = pc].own = FALSE
                 /\ [NoRun EXCEPT !.pc = pc].ids = {}
  BY DEF NoRun
<1> DEFINE Goal == \E x :
             /\ Move(r, x)
             /\ weights' = weights \/ (run[r].own /\ weights' # <<>>)
             /\ x.own <=> x.pc \in {"searching", "looking"} /\ weights' = <<>>
             /\ x.own => run[r].own \/ \A q \in Runs : ~run[q].own
             /\ x.ids = {} /\ run[r].ids \subseteq cut'
<1>3. Goal
  <2>1. ASSUME NEW pc \in {"creating", "searching", "done", "failed"},
               Move(r, [NoRun EXCEPT !.pc = pc]),
               weights' = weights \/ (run[r].own /\ weights' # <<>>),
               pc # "searching" \/ weights' # <<>>, run[r].ids \subseteq cut'
        PROVE  Goal
    <3> DEFINE x == [NoRun EXCEPT !.pc = pc]
    <3>1. x.pc = pc /\ x.own = FALSE /\ x.ids = {} /\ Move(r, x)
      BY <1>2, <2>1
    <3> HIDE DEF x
    <3> QED BY <2>1, <3>1
  <2>2. CASE BeginRun(r)
    <3> DEFINE pc == IF weights = <<>> THEN "creating" ELSE "searching"
    <3>1. /\ Move(r, [NoRun EXCEPT !.pc = pc]) /\ UNCHANGED weights /\ run[r].ids = {}
      BY <1>1, <2>2 DEF BeginRun, intake
    <3>2. pc \in {"creating", "searching"} /\ (pc # "searching" \/ weights' # <<>>)
      BY <3>1
    <3> HIDE DEF pc, Goal
    <3>3. pc \in {"creating", "searching", "done", "failed"} /\ run[r].ids \subseteq cut'
      BY <3>1, <3>2
    <3> QED BY <2>1, <3>1, <3>2, <3>3
  <2>3. CASE CreateCampaign(r)
    <3> DEFINE x == [run[r] EXCEPT !.pc = "searching", !.own = TRUE]
    <3>1. /\ Move(r, x) /\ UNCHANGED weights /\ run[r].ids = {} /\ weights = <<>>
          /\ \A q \in Runs : ~run[q].own
      BY <1>1, <2>3 DEF CreateCampaign, intake
    <3>2. x.pc = "searching" /\ x.own = TRUE /\ x.ids = run[r].ids
      BY <1>1 DEF RunStates
    <3> HIDE DEF x
    <3> QED BY <3>1, <3>2
  <2>4. CASE CampaignClash(r)
    <3>1. Move(r, [NoRun EXCEPT !.pc = "failed"]) /\ UNCHANGED weights /\ run[r].ids = {}
      BY <1>1, <2>4 DEF CampaignClash, intake
    <3> HIDE DEF Goal
    <3> QED BY <2>1, <3>1
  <2>5. CASE SearchFails(r)
    <3>1. Move(r, [NoRun EXCEPT !.pc = "done"]) /\ weights' = CampaignOf(r) /\ run[r].ids = {}
      BY <1>1, <2>5 DEF SearchFails
    <3>2. weights' = weights \/ (run[r].own /\ weights' # <<>>)
      BY <3>1 DEF CampaignOf
    <3> HIDE DEF Goal
    <3> QED BY <2>1, <3>1, <3>2
  <2>6. CASE RunCrash(r)
    <3>1. Move(r, [NoRun EXCEPT !.pc = "failed"]) /\ UNCHANGED weights
          /\ run[r].ids \subseteq cut'
      BY <2>6 DEF RunCrash, intake
    <3> HIDE DEF Goal
    <3> QED BY <2>1, <3>1
  <2>7. ASSUME NEW found \in SUBSET Prospects, Search(r, found) PROVE Goal
    <3> DEFINE all == run[r].todo \cup found
               pc == IF run[r].queries = 1 \/ Remaining(all) <= 0 THEN "looking" ELSE run[r].pc
               x == [run[r] EXCEPT !.todo = all, !.queries = run[r].queries - 1, !.pc = pc]
    <3>1. Move(r, x) /\ UNCHANGED weights /\ run[r].ids = {} /\ run[r].pc = "searching"
      BY <1>1, <2>7 DEF Search, intake
    <3>2. pc \in {"searching", "looking"}
      BY <3>1
    <3> HIDE DEF all, pc
    <3>3. x.pc = pc /\ x.own = run[r].own /\ x.ids = run[r].ids
      BY <1>1 DEF RunStates
    <3> HIDE DEF x
    <3> QED BY <1>1, <3>1, <3>2, <3>3
  <2>8. ASSUME NEW p \in Prospects, Consider(r, p) \/ NoContact(r, p) PROVE Goal
    <3>1. PICK fresh : Move(r, [run[r] EXCEPT !.todo = run[r].todo \ {p}, !.fresh = fresh])
      <4>1. CASE Consider(r, p)
        BY <4>1 DEF Consider
      <4>2. CASE NoContact(r, p)
        <5>1. [run[r] EXCEPT !.todo = run[r].todo \ {p}]
                = [run[r] EXCEPT !.todo = run[r].todo \ {p}, !.fresh = run[r].fresh]
          BY <1>1 DEF RunStates
        <5> QED BY <4>2, <5>1 DEF NoContact
      <4> QED BY <2>8, <4>1, <4>2
    <3> DEFINE x == [run[r] EXCEPT !.todo = run[r].todo \ {p}, !.fresh = fresh]
    <3>2. x.pc = run[r].pc /\ x.own = run[r].own /\ x.ids = run[r].ids /\ Move(r, x)
      BY <1>1, <3>1 DEF RunStates
    <3>3. UNCHANGED weights /\ run[r].pc = "looking" /\ run[r].ids = {}
      BY <1>1, <2>8 DEF Consider, NoContact, intake
    <3> HIDE DEF x
    <3> QED BY <1>1, <3>2, <3>3
  <2> HIDE DEF Goal
  <2> QED BY <2>2, <2>3, <2>4, <2>5, <2>6, <2>7, <2>8
<1>4. UNCHANGED <<lead, upload, batch, task, queue>>
  BY DEF BeginRun, CreateCampaign, CampaignClash, SearchFails, RunCrash, Search, Consider,
     NoContact, intake, enrichment, broker
<1>5. cut \subseteq cut' /\ (Undisturbed' => Undisturbed)
  BY DEF BeginRun, CreateCampaign, CampaignClash, SearchFails, RunCrash, Search, Consider,
     NoContact, intake, enrichment, broker, Opens, Spend, Undisturbed
<1>6. PICK x : /\ Move(r, x)
               /\ weights' = weights \/ (run[r].own /\ weights' # <<>>)
               /\ x.own <=> x.pc \in {"searching", "looking"} /\ weights' = <<>>
               /\ x.own => run[r].own \/ \A q \in Runs : ~run[q].own
               /\ x.ids = {} /\ run[r].ids \subseteq cut'
  BY <1>3
<1>7. \A id \in Ids :
        /\ queue'[id] = queue[id]
        /\ id \in x.ids => id \in run[r].ids
        /\ id \in run[r].ids => id \in x.ids \/ id \in cut'
  BY <1>4, <1>6
<1> QED BY <1>4, <1>5, <1>6, <1>7, RunKeepsDrafts

\* A message for one of the new leads: it leaves the run for the broker.
LEMMA PublishKeepsDrafts ==
  ASSUME DraftInv, Inv', NEW r \in Runs, NEW id \in Ids, PublishLead(r, id)
  PROVE  DraftInv'
<1>1. /\ run[r] \in RunStates /\ run[r].pc = "publishing" /\ id \in run[r].ids
      /\ run[r].own <=> run[r].pc \in {"searching", "looking"} /\ weights = <<>>
  BY DEF PublishLead, DraftInv, Inv, IntakeInv, TypeOK, OneCampaign
<1> DEFINE x0 == [NoRun EXCEPT !.pc = "done"]
           x1 == [run[r] EXCEPT !.ids = run[r].ids \ {id}]
           x == IF run[r].ids = {id} THEN x0 ELSE x1
<1>2. Move(r, x) /\ UNCHANGED <<lead, weights, upload, batch, task, cut, spent>>
  BY DEF PublishLead, intake
<1>3. x0.pc = "done" /\ x0.own = FALSE /\ x0.ids = {}
  BY DEF NoRun
<1>4. x1.pc = "publishing" /\ x1.own = run[r].own /\ x1.ids = run[r].ids \ {id}
  BY <1>1 DEF RunStates
<1> HIDE DEF x0, x1
<1>5. x.ids = run[r].ids \ {id} /\ x.own = FALSE /\ x.pc \notin {"searching", "looking"}
  BY <1>1, <1>3, <1>4
<1> HIDE DEF x
<1>6. \A i \in Ids : queue'[i] = IF i = id THEN queue[i] + 1 ELSE queue[i]
  BY DEF PublishLead, Published, DraftInv, Inv, IntakeInv, TypeOK
<1>7. \A i \in Ids :
        \/ /\ queue'[i] = queue[i]
           /\ i \in x.ids => i \in run[r].ids
           /\ i \in run[r].ids => i \in x.ids \/ i \in cut'
        \/ queue'[i] = queue[i] + 1 /\ i \in run[r].ids /\ i \notin x.ids
  BY <1>1, <1>5, <1>6
<1>8. Undisturbed' => Undisturbed
  BY <1>2 DEF Undisturbed
<1> QED BY <1>2, <1>5, <1>7, <1>8, RunKeepsDrafts

\* The rows a transaction inserts: copies there were not, not yet drafted for.
LEMMA InsertedRows ==
  ASSUME TypeOK, NEW fresh \in SUBSET Prospects, Fits(fresh),
         NEW source \in {"manual", "discovery"}, NEW enrolled \in BOOLEAN,
         lead' = Inserted(fresh, source, enrolled)
  PROVE  /\ {FreeCopy(p) : p \in fresh} \in SUBSET Ids
         /\ \A id \in Ids :
              \/ id \notin {FreeCopy(p) : p \in fresh} /\ lead'[id] = lead[id]
              \/ /\ id \in {FreeCopy(p) : p \in fresh} /\ ~lead[id].there
                 /\ lead'[id].there /\ lead'[id].source = source /\ lead'[id].enrolled = enrolled
                 /\ lead'[id].status = "new" /\ lead'[id].variant = 0
                 /\ lead'[id].drafts = 0 /\ lead'[id].held = 0
<1> DEFINE new == [NoLead EXCEPT !.there = TRUE, !.source = source, !.enrolled = enrolled]
           rows == {FreeCopy(p) : p \in fresh}
<1>1. \A p \in fresh : FreeCopy(p) \in FreeCopies(p)
  BY DEF Fits, FreeCopy
<1>2. \A p \in fresh :
        FreeCopy(p) \in Ids /\ FreeCopy(p)[1] = p /\ ~lead[FreeCopy(p)].there
  BY <1>1 DEF FreeCopies
<1>3. \A id \in Ids : id \in rows <=> id[1] \in fresh /\ id = FreeCopy(id[1])
  BY <1>2
<1>4. rows \in SUBSET Ids
  BY <1>2
<1>5. \A id \in Ids : lead'[id] = IF id[1] \in fresh /\ id = FreeCopy(id[1]) THEN new ELSE lead[id]
  BY DEF Inserted
<1>6. /\ new.there /\ new.source = source /\ new.enrolled = enrolled /\ new.status = "new"
      /\ new.variant = 0 /\ new.drafts = 0 /\ new.held = 0
  BY DEF NoLead
<1>7. \A id \in rows : ~lead[id].there
  BY <1>2
<1> HIDE DEF new, rows
<1>8. \A id \in Ids :
        \/ id \notin rows /\ lead'[id] = lead[id]
        \/ id \in rows /\ ~lead[id].there /\ lead'[id] = new
  BY <1>3, <1>5, <1>7
<1> QED BY <1>4, <1>6, <1>8 DEF rows

\* A transaction inserts rows, and r, if that is a run, has ids of them to publish: all
\* that are discovered.
Inserts(rows, r, ids) ==
  /\ \A id \in Ids :
       \/ id \notin rows /\ lead'[id] = lead[id]
       \/ /\ id \in rows /\ ~lead[id].there
          /\ lead'[id].there /\ lead'[id].variant = 0 /\ lead'[id].drafts = 0
  /\ \A q \in Runs : run'[q].ids = IF q = r THEN ids ELSE run[q].ids
  /\ r \in Runs => run[r].ids = {}
  /\ ids \subseteq rows
  /\ \A id \in rows : lead'[id].source = "discovery" => r \in Runs /\ id \in ids

\* A transaction's rows are in no other place than the run that inserted them, if a run
\* did: it publishes them.
LEMMA InsertKeepsDrafts ==
  ASSUME DraftInv, Inv', OneCampaign', UNCHANGED <<queue, batch, task, cut, spent>>,
         weights' = weights \/ weights = <<>>,
         NEW rows \in SUBSET Ids, NEW r, NEW ids \in SUBSET Ids, Inserts(rows, r, ids)
  PROVE  DraftInv'
<1> USE DEF Inserts
<1>1. \A id \in rows :
        /\ ~InBroker(id) /\ \A q \in Runs : id \notin run[q].ids
        /\ \A w \in Workers : ~Carries(task[w], id)
  BY DEF DraftInv, OnlyLeads, OnItsWay
<1>2. \A id \in Ids : lead[id].there => lead'[id].there
  BY DEF DraftInv
<1>3. OnlyLeads'
  <2> SUFFICES ASSUME NEW id \in Ids, OnItsWay(id)' PROVE lead'[id].there
    BY DEF OnlyLeads
  <2>1. OnItsWay(id) \/ id \in rows
    <3>1. ASSUME NEW q \in Runs, id \in run'[q].ids PROVE OnItsWay(id) \/ id \in rows
      BY <3>1 DEF OnItsWay
    <3>2. CASE InBroker(id)'
      BY <3>2 DEF OnItsWay, InBroker
    <3>3. CASE \E w \in Workers : Carries(task'[w], id)
      BY <3>3 DEF OnItsWay
    <3> QED BY <3>1, <3>2, <3>3 DEF OnItsWay
  <2> QED BY <1>2, <2>1 DEF DraftInv, OnlyLeads
<1>4. NoneForgotten'
  <2> SUFFICES ASSUME NEW id \in Ids, Waiting(id)', id \notin cut' PROVE Coming(id)'
    BY DEF NoneForgotten
  <2>1. CASE id \in rows
    <3>1. r \in Runs /\ id \in run'[r].ids
      BY <2>1 DEF Waiting
    <3> QED BY <3>1 DEF Coming
  <2>2. CASE id \notin rows
    <3>1. Waiting(id)
      BY <2>2 DEF Waiting
    <3>2. Coming(id)
      BY <3>1 DEF DraftInv, NoneForgotten
    <3>3. ASSUME NEW q \in Runs, id \in run[q].ids PROVE Coming(id)'
      <4>1. id \in run'[q].ids
        BY <3>3
      <4> QED BY <4>1 DEF Coming
    <3> QED BY <3>2, <3>3 DEF Coming, InBroker
  <2> QED BY <2>1, <2>2
<1>5. Undisturbed' => OnePlace'
  <2> SUFFICES ASSUME Undisturbed' PROVE OnePlace'
    OBVIOUS
  <2>1. OnePlace
    BY DEF DraftInv, Undisturbed
  <2>2. ASSUME NEW id \in Ids PROVE InOnePlace(id)'
    <3>1. CASE id \in rows
      <4>1. queue[id] \in Nat /\ ~(queue[id] > 0)
        BY <1>1, <3>1 DEF InBroker, DraftInv, Inv, IntakeInv, TypeOK
      <4>2. lead'[id].drafts = 0
        BY <3>1
      <4>3. Places(id)' = 0
        BY <4>1, <4>2 DEF Places
      <4>4. \A q \in Runs : id \in run'[q].ids => q = r
        BY <1>1, <3>1
      <4>5. \A w \in Workers : ~At(task'[w], id)
        BY <1>1, <3>1 DEF Carries, HasToDo
      <4> QED BY <4>3, <4>4, <4>5 DEF InOnePlace
    <3>2. CASE id \notin rows
      <4>1. InOnePlace(id) /\ lead'[id] = lead[id]
        BY <2>1, <3>2 DEF OnePlace
      <4>2. Places(id)' = Places(id)
        BY <4>1 DEF Places
      <4>3. \A q \in Runs : id \in run'[q].ids => id \in run[q].ids
        BY <3>2
      <4> QED BY <4>1, <4>2, <4>3 DEF InOnePlace
    <3> QED BY <3>1, <3>2
  <2> QED BY <2>1, <2>2 DEF OnePlace
<1>6. BatchesAreWhole'
  BY DEF DraftInv, BatchesAreWhole
<1>7. VariantIsDue'
  <2>1. ASSUME NEW id \in Ids, id \notin rows PROVE Due(id)' = Due(id) /\ lead'[id] = lead[id]
    BY <2>1, DueStays DEF DraftInv
  <2>2. \A id \in Ids : lead'[id].variant \in {0, Due(id)'}
    BY <2>1 DEF DraftInv, VariantIsDue
  <2>3. \A id \in Ids : lead'[id].variant # 0 => lead'[id].there
    BY DEF DraftInv, VariantIsDue
  <2>4. ASSUME NEW w \in Workers, task'[w].pc = "drafting"
        PROVE  (task[w].variant = Due(task[w].id))'
    <3>1. /\ task[w].pc = "drafting" /\ task[w].variant = Due(task[w].id)
          /\ task[w].id \in Ids
      BY <2>4 DEF DraftInv, VariantIsDue, Inv, IntakeInv, TasksHaveLeads
    <3>2. PICK i \in Ids : i = task[w].id /\ task[w].variant = Due(i)
      BY <3>1
    <3>3. i \notin rows
      BY <1>1, <3>1, <3>2 DEF Carries, HasToDo, At, Working
    <3>4. Due(i)' = Due(i)
      BY <2>1, <3>3
    <3> QED BY <3>2, <3>4 DEF Due
  <2> QED BY <2>2, <2>3, <2>4 DEF VariantIsDue
<1> QED BY <1>3, <1>4, <1>5, <1>6, <1>7 DEF DraftInv

\* A run commits its leads, its campaign and that it has them to publish.
LEMMA CommitRunKeepsDrafts ==
  ASSUME DraftInv, Inv', NEW r \in Runs, CommitRun(r)
  PROVE  DraftInv'
<1> DEFINE fresh == run[r].fresh
           rows == {FreeCopy(p) : p \in fresh}
           pc == IF fresh = {} THEN "done" ELSE "publishing"
           x == [NoRun EXCEPT !.pc = pc, !.ids = rows]
<1>1. /\ TypeOK /\ run[r] \in RunStates /\ run[r].pc = "looking" /\ run[r].ids = {}
      /\ run[r].own <=> weights = <<>>
  BY DEF CommitRun, DraftInv, Inv, IntakeInv, TypeOK, RunsInOrder, OneCampaign
<1>2. fresh \in SUBSET Prospects /\ Fits(fresh) /\ lead' = Inserted(fresh, "discovery", TRUE)
  BY <1>1 DEF RunStates, CommitRun
<1>3. Move(r, x) /\ UNCHANGED <<upload, queue, batch, task, cut, spent>> /\ weights' = CampaignOf(r)
  BY DEF CommitRun, enrichment, broker
<1>4. pc \in {"done", "publishing"}
  OBVIOUS
<1> HIDE DEF pc
<1>5. x.pc = pc /\ x.own = FALSE /\ x.ids = rows
  BY DEF NoRun
<1> HIDE DEF x
<1>6. weights' # <<>> /\ (weights' = weights \/ (run[r].own /\ weights = <<>>))
  BY <1>1, <1>3 DEF CampaignOf
<1> HIDE DEF fresh
<1>7. /\ rows \in SUBSET Ids
      /\ \A id \in Ids :
           \/ id \notin rows /\ lead'[id] = lead[id]
           \/ /\ id \in rows /\ ~lead[id].there
              /\ lead'[id].there /\ lead'[id].source = "discovery" /\ lead'[id].enrolled = TRUE
              /\ lead'[id].status = "new" /\ lead'[id].variant = 0
              /\ lead'[id].drafts = 0 /\ lead'[id].held = 0
  BY <1>1, <1>2, InsertedRows
<1> HIDE DEF rows
<1>8. OneCampaign'
  <2>1. x.own <=> x.pc \in {"searching", "looking"} /\ weights' = <<>>
    BY <1>4, <1>5, <1>6
  <2>2. \A id \in Ids : lead'[id].enrolled =>
          lead'[id].there /\ (lead[id].enrolled \/ weights' # <<>>)
    BY <1>6, <1>7 DEF DraftInv, OneCampaign
  <2>3. weights' = weights \/ (run[r].own /\ weights' # <<>>)
    BY <1>6
  <2> QED BY <1>1, <1>3, <1>5, <2>1, <2>2, <2>3, RunKeepsCampaign DEF DraftInv
<1>9. \A q \in Runs : run'[q].ids = IF q = r THEN rows ELSE run[q].ids
  BY <1>1, <1>3, <1>5 DEF Move, TypeOK
<1>10. Inserts(rows, r, rows)
  BY <1>1, <1>7, <1>9 DEF Inserts
<1>11. UNCHANGED <<queue, batch, task, cut, spent>> /\ (weights' = weights \/ weights = <<>>)
  BY <1>3, <1>6
<1> QED BY <1>7, <1>8, <1>10, <1>11, InsertKeepsDrafts

\* An upload commits its leads; nothing is on its way for them.
LEMMA CommitUploadKeepsDrafts ==
  ASSUME DraftInv, Inv', NEW u \in Uploads, CommitUpload(u)
  PROVE  DraftInv'
<1> DEFINE fresh == upload[u].fresh
           rows == {FreeCopy(p) : p \in fresh}
           enrolled == upload[u].enrolled
           x == [NoUpload EXCEPT !.pc = "done"]
<1>1. TypeOK /\ upload[u] \in UploadStates /\ upload[u].pc = "checking"
  BY DEF CommitUpload, DraftInv, Inv, IntakeInv, TypeOK
<1>2. /\ fresh \in SUBSET Prospects /\ Fits(fresh) /\ enrolled \in BOOLEAN
      /\ lead' = Inserted(fresh, "manual", enrolled)
  BY <1>1 DEF UploadStates, CommitUpload
<1>3. /\ upload' = [upload EXCEPT ![u] = x]
      /\ UNCHANGED <<weights, run, queue, batch, task, cut, spent>>
  BY DEF CommitUpload, enrichment, broker
<1>4. x.pc = "done"
  BY DEF NoUpload
<1> HIDE DEF x
<1>5. enrolled => weights # <<>>
  BY <1>1 DEF DraftInv, OneCampaign
<1> HIDE DEF fresh, enrolled
<1>6. /\ rows \in SUBSET Ids
      /\ \A id \in Ids :
           \/ id \notin rows /\ lead'[id] = lead[id]
           \/ /\ id \in rows /\ ~lead[id].there
              /\ lead'[id].there /\ lead'[id].source = "manual" /\ lead'[id].enrolled = enrolled
              /\ lead'[id].status = "new" /\ lead'[id].variant = 0
              /\ lead'[id].drafts = 0 /\ lead'[id].held = 0
  BY <1>1, <1>2, InsertedRows
<1> HIDE DEF rows
<1>7. OneCampaign'
  <2>1. \A v \in Uploads : upload'[v] = IF v = u THEN x ELSE upload[v]
    BY <1>1, <1>3 DEF TypeOK
  <2>2. \A v \in Uploads : upload'[v].pc = "checking" /\ upload'[v].enrolled => weights' # <<>>
    BY <1>3, <1>4, <2>1 DEF DraftInv, OneCampaign
  <2>3. \A id \in Ids : lead'[id].enrolled => lead'[id].there /\ weights' # <<>>
    BY <1>3, <1>5, <1>6 DEF DraftInv, OneCampaign
  <2> QED BY <1>3, <2>2, <2>3 DEF DraftInv, OneCampaign
<1>8. u \notin Runs
  OBVIOUS
<1>9. \A q \in Runs : run'[q].ids = IF q = u THEN {} ELSE run[q].ids
  BY <1>3, <1>8
<1>10. Inserts(rows, u, {})
  BY <1>6, <1>8, <1>9 DEF Inserts
<1>11. UNCHANGED <<queue, batch, task, cut, spent>> /\ weights' = weights /\ {} \in SUBSET Ids
  BY <1>3
<1> QED BY <1>6, <1>7, <1>10, <1>11, InsertKeepsDrafts

\* No leads, and nothing on its way.
LEMMA InitDrafts == Init => DraftInv
<1> SUFFICES ASSUME Init PROVE DraftInv
  OBVIOUS
<1>1. Inv
  BY InitIntake
<1>2. /\ \A id \in Ids : lead[id] = NoLead /\ queue[id] = 0
      /\ \A u \in Uploads : upload[u] = NoUpload
      /\ \A r \in Runs : run[r] = NoRun
      /\ \A w \in Workers : task[w] = NoTask
      /\ batch = {}
  BY DEF Init
<1>3. /\ ~NoLead.there /\ NoLead.drafts = 0 /\ ~NoLead.enrolled /\ NoLead.variant = 0
      /\ NoUpload.pc = "idle" /\ NoRun.ids = {} /\ ~NoRun.own /\ NoRun.pc = "idle"
  BY DEF NoLead, NoUpload, NoRun
<1>4. BatchesAreWhole /\ OnlyLeads
  BY <1>2, <1>3, NothingInHands DEF BatchesAreWhole, OnlyLeads, OnItsWay, InBroker
<1>5. NoneForgotten
  BY <1>2, <1>3 DEF NoneForgotten, Waiting
<1>6. OnePlace
  <2>1. \A id \in Ids : Places(id) = 0
    BY <1>2, <1>3 DEF Places
  <2>2. \A id \in Ids : InOnePlace(id)
    BY <1>2, <1>3, <2>1, NothingInHands DEF InOnePlace
  <2> QED BY <1>2, <2>2, NothingInHands DEF OnePlace
<1>7. OneCampaign
  BY <1>2, <1>3 DEF OneCampaign
<1>8. VariantIsDue
  BY <1>2, <1>3, NothingInHands DEF VariantIsDue
<1> QED BY <1>1, <1>4, <1>5, <1>6, <1>7, <1>8 DEF DraftInv

\* Every step keeps the invariant.
LEMMA NextKeepsDrafts == DraftInv /\ [Next]_vars => DraftInv'
<1> SUFFICES ASSUME DraftInv, [Next]_vars PROVE DraftInv'
  OBVIOUS
<1>1. Inv'
  BY NextKeeps DEF DraftInv
<1>2. ASSUME NEW u \in Uploads, UploadStep(u) PROVE DraftInv'
  BY <1>1, <1>2, UploadKeepsDrafts, CommitUploadKeepsDrafts DEF UploadStep
<1>3. ASSUME NEW r \in Runs, BeginRun(r) \/ DiscoveryStep(r) PROVE DraftInv'
  BY <1>1, <1>3, RunStepKeepsDrafts, CommitRunKeepsDrafts, PublishKeepsDrafts DEF DiscoveryStep
<1>4. ASSUME NEW w \in Workers, EnrichStep(w) PROVE DraftInv'
  BY <1>1, <1>4, TakeKeepsDrafts, BatchKeepsDrafts, GoingOnKeepsDrafts, DoneKeepsDrafts,
     EndedTaskKeepsDrafts DEF EnrichStep
<1>5. CASE Disturbance
  <2>1. ASSUME NEW r \in Runs, SearchFails(r) \/ RunCrash(r) \/ \E p \in Prospects : NoContact(r, p)
        PROVE  DraftInv'
    BY <1>1, <2>1, RunStepKeepsDrafts
  <2>2. ASSUME NEW w \in Workers,
               \/ ProviderFails(w) \/ Redeliver(w)
               \/ \E back \in BOOLEAN : WorkerCrash(w, back)
        PROVE  DraftInv'
    BY <1>1, <2>2, EndedTaskKeepsDrafts, TwiceKeepsDrafts
  <2> QED BY <1>1, <1>5, <2>1, <2>2, RequestKeepsDrafts DEF Disturbance
<1>6. CASE UNCHANGED vars
  <2>1. UNCHANGED <<lead, weights, upload, run, queue, batch, task, cut, spent>>
    BY <1>6 DEF vars, broker
  <2>2. OnlyLeads' /\ BatchesAreWhole' /\ NoneForgotten'
    BY <2>1 DEF DraftInv, OnlyLeads, OnItsWay, InBroker, BatchesAreWhole, NoneForgotten, Coming,
       Waiting
  <2>3. Undisturbed' => OnePlace'
    BY <2>1 DEF DraftInv, Undisturbed, OnePlace, InOnePlace, Places
  <2>4. OneCampaign' /\ VariantIsDue'
    BY <2>1 DEF DraftInv, OneCampaign, VariantIsDue, Due
  <2> QED BY <1>1, <2>2, <2>3, <2>4 DEF DraftInv
<1> QED BY <1>2, <1>3, <1>4, <1>5, <1>6 DEF Next

\* Nothing is enriched that is no lead, nothing that waits is forgotten, and a lead has
\* one variant for life: the inductive invariant holds in every state, whatever
\* overlaps, fails, crashes or is delivered twice.
THEOREM DraftInvariant == Spec => []DraftInv
BY InitDrafts, NextKeepsDrafts, PTL DEF Spec

\* A discovered lead that is still new with nothing on its way for it was cut off, and
\* no lead gets a second first draft unless somebody asks again or a task comes twice.
THEOREM LeadsAreEnrichedOnce == Spec => []EnrichedOnce
<1>1. DraftInv => EnrichedOnce
  <2> SUFFICES ASSUME DraftInv PROVE EnrichedOnce
    OBVIOUS
  <2>1. ASSUME NEW id \in There, lead[id].source = "discovery", lead[id].status = "new", AtRest(id)
        PROVE  id \in cut
    <3>1. id \in Ids /\ Waiting(id)
      BY <2>1 DEF There, Waiting
    <3>2. ~Coming(id)
      BY <2>1 DEF AtRest, Coming, InBroker, HasToDo, At
    <3> QED BY <3>1, <3>2 DEF DraftInv, NoneForgotten
  <2>2. ASSUME Undisturbed, NEW id \in There PROVE lead[id].drafts <= 1
    <3>1. id \in Ids /\ queue[id] \in Nat /\ lead[id].drafts \in Nat
      BY DEF There, DraftInv, Inv, IntakeInv, TypeOK, Leads
    <3>2. queue[id] + lead[id].drafts <= 1
      BY <2>2, <3>1 DEF DraftInv, OnePlace, InOnePlace, Places
    <3> QED BY <3>1, <3>2
  <2> QED BY <2>1, <2>2 DEF EnrichedOnce, Undisturbed
<1> QED BY <1>1, DraftInvariant, PTL

\* What a step may do to a lead's variant and to its held drafts.
ByTheRules(id) ==
  /\ lead[id].variant # 0 => lead'[id].variant = lead[id].variant
  /\ lead'[id].held > lead[id].held =>
       \E w \in Workers : task[w].id = id /\ task[w].attempt = MaxRewrites

\* Inserted rows had no variant and no drafts.
LEMMA InsertedByTheRules ==
  ASSUME DraftInv, NEW fresh \in SUBSET Prospects, Fits(fresh),
         NEW source \in {"manual", "discovery"}, NEW enrolled \in BOOLEAN,
         lead' = Inserted(fresh, source, enrolled), NEW id \in Ids
  PROVE  ByTheRules(id)
<1>1. \/ lead'[id] = lead[id]
      \/ ~lead[id].there /\ lead'[id].held = 0
  BY InsertedRows DEF DraftInv, Inv, IntakeInv
<1>2. lead[id].held \in Nat /\ (lead[id].variant # 0 => lead[id].there)
  BY DEF DraftInv, Inv, IntakeInv, TypeOK, Leads, VariantIsDue
<1> QED BY <1>1, <1>2 DEF ByTheRules

\* A draft comes with the variant that is due, and one that is held with as many
\* rewrites as there may be.
LEMMA DraftedByTheRulesStep ==
  ASSUME DraftInv, NEW w \in Workers, NEW risk \in RiskLevels,
         SkipSuppressed(w) \/ SaveDraft(w, risk), NEW i \in Ids
  PROVE  ByTheRules(i)
<1> DEFINE id == task[w].id
<1>1. id \in Ids /\ lead \in [Ids -> Leads] /\ lead[id] \in Leads /\ task[w] \in TaskStates
  BY HandsAreOK DEF SkipSuppressed, SaveDraft, Working, DraftInv, Inv, IntakeInv, TypeOK
<1>2. \A j \in Ids : lead[j].held \in Nat
  BY <1>1 DEF Leads
<1>3. CASE i # id
  <2>1. lead'[i] = lead[i]
    BY <1>1, <1>3 DEF SkipSuppressed, SaveDraft
  <2> QED BY <1>2, <2>1 DEF ByTheRules
<1>4. CASE i = id /\ SkipSuppressed(w)
  <2>1. lead'[id] = [lead[id] EXCEPT !.status = "opted_out"]
    BY <1>1, <1>4 DEF SkipSuppressed
  <2>2. lead'[id].variant = lead[id].variant /\ lead'[id].held = lead[id].held
    BY <1>1, <2>1 DEF Leads
  <2> QED BY <1>2, <1>4, <2>2 DEF ByTheRules
<1>5. CASE i = id /\ SaveDraft(w, risk)
  <2> DEFINE h == IF HoldsIt(w, risk) THEN lead[id].held + 1 ELSE lead[id].held
  <2>1. lead'[id] = [lead[id] EXCEPT !.status = "enriched", !.variant = task[w].variant,
                                     !.drafts = lead[id].drafts + 1, !.held = h]
    BY <1>1, <1>5 DEF SaveDraft
  <2> HIDE DEF h
  <2>2. lead'[id].variant = task[w].variant /\ lead'[id].held = h
    BY <1>1, <2>1 DEF Leads
  <2>3. task[w].variant = Due(id) /\ lead[id].variant \in {0, Due(id)}
    BY <1>1, <1>5, HandsAreOK DEF SaveDraft, DraftInv, VariantIsDue
  <2>4. h > lead[id].held => task[w].attempt = MaxRewrites
    <3>1. task[w].attempt \in 0..MaxRewrites /\ lead[id].held \in Nat
      BY <1>1, <1>2 DEF TaskStates
    <3>2. HoldsIt(w, risk) => task[w].attempt >= MaxRewrites
      BY <1>5 DEF SaveDraft, HoldsIt, Accepted, AsksAgain
    <3> QED BY <3>1, <3>2 DEF h
  <2> QED BY <1>5, <2>2, <2>3, <2>4 DEF ByTheRules
<1> QED BY <1>3, <1>4, <1>5

\* Every step that writes leads keeps to the rules.
LEMMA StepsKeepTheRules ==
  ASSUME DraftInv, Next, NEW id \in Ids
  PROVE  ByTheRules(id) \/ UNCHANGED lead
<1>1. ASSUME NEW u \in Uploads, UploadStep(u) PROVE ByTheRules(id) \/ UNCHANGED lead
  <2>1. CASE CommitUpload(u)
    <3>1. upload[u] \in UploadStates
      BY DEF DraftInv, Inv, IntakeInv, TypeOK
    <3> QED BY <2>1, <3>1, InsertedByTheRules DEF CommitUpload, UploadStates
  <2> QED BY <1>1, <2>1 DEF UploadStep, BeginUpload, CheckRow, intake
<1>2. ASSUME NEW r \in Runs, BeginRun(r) \/ DiscoveryStep(r)
      PROVE  ByTheRules(id) \/ UNCHANGED lead
  <2>1. CASE CommitRun(r)
    <3>1. run[r] \in RunStates
      BY DEF DraftInv, Inv, IntakeInv, TypeOK
    <3> QED BY <2>1, <3>1, InsertedByTheRules DEF CommitRun, RunStates
  <2> QED BY <1>2, <2>1 DEF DiscoveryStep, BeginRun, CreateCampaign, CampaignClash, Search,
             Consider, PublishLead, intake
<1>3. ASSUME NEW w \in Workers, EnrichStep(w) PROVE ByTheRules(id) \/ UNCHANGED lead
  <2>1. CASE SkipSuppressed(w)
    BY <2>1, DraftedByTheRulesStep DEF RiskLevels
  <2>2. CASE \E risk \in RiskLevels : SaveDraft(w, risk)
    BY <2>2, DraftedByTheRulesStep
  <2> QED BY <1>3, <2>1, <2>2 DEF EnrichStep, Take, NextOfBatch, TakeBatch, StartDrafting,
             Invalid, GiveUp, Rewrite
<1>4. CASE Disturbance
  BY <1>4 DEF Disturbance, SearchFails, RunCrash, NoContact, EnrichLead, EnrichBatch,
     ProviderFails, Redeliver, WorkerCrash, Suppress, intake
<1> QED BY <1>1, <1>2, <1>3, <1>4 DEF Next

\* A lead keeps its variant whoever enriches it and however often, and a draft that is
\* held for review has been rewritten as often as allowed: every step keeps to it.
THEOREM DraftsFollowTheRules == Spec => DraftedByTheRules
<1> DEFINE A == \A id \in Ids :
             /\ lead[id].variant # 0 => lead'[id].variant = lead[id].variant
             /\ lead'[id].held > lead[id].held =>
                  \E w \in Workers : task[w].id = id /\ task[w].attempt = MaxRewrites
<1>1. DraftInv /\ [Next]_vars => [A]_lead
  <2> SUFFICES ASSUME DraftInv, [Next]_vars, lead' # lead PROVE A
    OBVIOUS
  <2>1. Next
    BY DEF vars
  <2>2. \A id \in Ids : ByTheRules(id)
    BY <2>1, StepsKeepTheRules
  <2> QED BY <2>2 DEF ByTheRules
<1> QED BY <1>1, DraftInvariant, PTL DEF Spec, DraftedByTheRules

===============================================================================
