------------------------------ MODULE Counting ------------------------------
(***************************************************************************)
(* How the proofs count.  A number of tasks, copies or workers is the size *)
(* of a set, and a step of a specification adds one element to such a set  *)
(* or takes one away: no sum is ever taken.  Where a definition is         *)
(* recursive over the numbers, the proof goes by sets of numbers: one with *)
(* 0 and with every successor is Nat.                                      *)
(***************************************************************************)
EXTENDS Integers, FiniteSets, FiniteSetTheorems, WellFoundedInduction, TLAPS

\* A set of numbers has a least one.
LEMMA Least ==
  ASSUME NEW S \in SUBSET Nat, S # {}
  PROVE  \E m \in S : \A k \in S : m <= k
<1>1. PICK m \in S : \A k \in S : <<k, m>> \notin OpToRel(<, Nat)
  BY WFMin, NatLessThanWellFounded, Zenon
<1>2. \A k \in S : ~(k < m)
  BY <1>1, Zenon DEF OpToRel
<1> QED BY <1>2

\* A set with 0 and with every successor has all numbers.
LEMMA AllNumbers ==
  ASSUME NEW S \in SUBSET Nat, 0 \in S, \A n \in S : n + 1 \in S
  PROVE  S = Nat
<1> SUFFICES ASSUME Nat \ S # {} PROVE FALSE
  OBVIOUS
<1>1. PICK m \in Nat \ S : \A k \in Nat \ S : m <= k
  BY Least
<1>2. m # 0 /\ m - 1 \in Nat
  BY <1>1
<1>3. m - 1 \in S
  BY <1>1, <1>2
<1> QED BY <1>1, <1>3

\* A counter that goes down from a positive value.
LEMMA CounterDown ==
  ASSUME NEW S, NEW f \in [S -> Nat], NEW x \in S, f[x] > 0
  PROVE  [f EXCEPT ![x] = @ - 1] \in [S -> Nat]
  OBVIOUS

\* A fact as a number.
One(b) == IF b THEN 1 ELSE 0

\* Two sets that agree on everything but x differ in size by x alone.
LEMMA OneElement ==
  ASSUME NEW S, NEW T, NEW x, IsFiniteSet(S), S \ {x} = T \ {x}
  PROVE  /\ IsFiniteSet(T)
         /\ Cardinality(S) \in Nat /\ Cardinality(T) \in Nat
         /\ Cardinality(T) = Cardinality(S) + One(x \in T) - One(x \in S)
<1> DEFINE R == S \ {x}
<1>1. IsFiniteSet(R) /\ Cardinality(R) = Cardinality(S) - One(x \in S)
  <2>1. Cardinality(S) \in Nat
    BY FS_CardinalityType
  <2>2. /\ IsFiniteSet(R)
        /\ Cardinality(R) = IF x \in S THEN Cardinality(S) - 1 ELSE Cardinality(S)
    BY FS_RemoveElement
  <2> HIDE DEF R
  <2> QED
    BY <2>1, <2>2 DEF One
<1>2. IsFiniteSet(R \cup {x}) /\ Cardinality(R \cup {x}) = Cardinality(R) + 1
  BY <1>1, FS_AddElement, x \notin R
<1>3. T = IF x \in T THEN R \cup {x} ELSE R
  OBVIOUS
<1>4. IsFiniteSet(T)
  BY <1>1, <1>2, <1>3
<1>5. Cardinality(S) \in Nat /\ Cardinality(R) \in Nat /\ Cardinality(T) \in Nat
  BY <1>1, <1>4, FS_CardinalityType
<1>6. Cardinality(T) = Cardinality(R) + One(x \in T)
  <2>1. CASE x \in T
    BY <1>2, <1>3, <2>1 DEF One
  <2>2. CASE x \notin T
    <3>1. T = R
      BY <1>3, <2>2
    <3> HIDE DEF R
    <3> QED
      BY <1>5, <2>2, <3>1 DEF One
  <2> QED
    BY <2>1, <2>2
<1> HIDE DEF R
<1> QED
  BY <1>1, <1>4, <1>5, <1>6 DEF One

\* The numbers up to n are n.
LEMMA UpToNumber ==
  ASSUME NEW n \in Nat
  PROVE  IsFiniteSet(1..n) /\ Cardinality(1..n) = n
<1>1. /\ IsFiniteSet(1..n)
      /\ Cardinality(1..n) = IF 1 > n THEN 0 ELSE n - 1 + 1
  <2>1. 1 \in Int /\ n \in Int
    OBVIOUS
  <2> QED
    BY <2>1, FS_Interval, Zenon
<1> QED
  BY <1>1

\* f[x] numbered copies of every x in S.
Copies(f, S) == UNION {{x} \X (1..f[x]) : x \in S}

\* Copies is a set of numbered elements.
LEMMA CopiesMembers ==
  ASSUME NEW f, NEW S
  PROVE  /\ \A p \in Copies(f, S) : p = <<p[1], p[2]>> /\ p[1] \in S /\ p[2] \in 1..f[p[1]]
         /\ \A x \in S : \A i \in 1..f[x] : <<x, i>> \in Copies(f, S)
  BY DEF Copies

\* One copy more, of an element that counts or of another one.
LEMMA CopiesUp ==
  ASSUME NEW D, NEW f \in [D -> Nat], NEW g \in [D -> Nat], NEW S \in SUBSET D,
         NEW x \in D, g[x] = f[x] + 1, \A y \in D \ {x} : g[y] = f[y],
         IsFiniteSet(Copies(f, S))
  PROVE  /\ IsFiniteSet(Copies(g, S))
         /\ Cardinality(Copies(f, S)) \in Nat /\ Cardinality(Copies(g, S)) \in Nat
         /\ Cardinality(Copies(g, S)) = Cardinality(Copies(f, S)) + One(x \in S)
<1> DEFINE p == <<x, f[x] + 1>>
<1>1. \A y \in D : \A i : i \in 1..g[y] <=> i \in 1..f[y] \/ (y = x /\ i = f[x] + 1)
  <2>1. \A y \in D : f[y] \in Nat /\ g[y] = IF y = x THEN f[y] + 1 ELSE f[y]
    OBVIOUS
  <2> QED
    BY <2>1
<1>2. ASSUME NEW q  PROVE q \in Copies(f, S) \ {p} <=> q \in Copies(g, S) \ {p}
  <2>1. ASSUME q \in Copies(f, S) \ {p}  PROVE q \in Copies(g, S)
    <3>1. q = <<q[1], q[2]>> /\ q[1] \in S /\ q[2] \in 1..f[q[1]]
      BY <2>1, CopiesMembers
    <3>2. q[2] \in 1..g[q[1]]
      BY <1>1, <3>1
    <3>3. <<q[1], q[2]>> \in Copies(g, S)
      BY <3>1, <3>2, CopiesMembers
    <3> QED
      BY <3>1, <3>3
  <2>2. ASSUME q \in Copies(g, S) \ {p}  PROVE q \in Copies(f, S)
    <3>1. q = <<q[1], q[2]>> /\ q[1] \in S /\ q[2] \in 1..g[q[1]]
      BY <2>2, CopiesMembers
    <3>2. q[2] \in 1..f[q[1]]
      BY <1>1, <2>2, <3>1
    <3> QED
      BY <3>1, <3>2, CopiesMembers
  <2> QED
    BY <2>1, <2>2
<1>3. p \notin Copies(f, S)
  <2> SUFFICES ASSUME p \in Copies(f, S)  PROVE FALSE
    OBVIOUS
  <2>1. p[1] \in S /\ p[2] \in 1..f[p[1]]
    BY CopiesMembers
  <2> QED
    BY <2>1
<1>4. p \in Copies(g, S) <=> x \in S
  <2>1. ASSUME p \in Copies(g, S)  PROVE x \in S
    <3>1. p[1] \in S
      BY <2>1, CopiesMembers
    <3> QED
      BY <3>1
  <2>2. ASSUME x \in S  PROVE p \in Copies(g, S)
    <3>1. f[x] + 1 \in 1..g[x]
      OBVIOUS
    <3> QED
      BY <2>2, <3>1, CopiesMembers
  <2> QED
    BY <2>1, <2>2
<1> HIDE DEF p
<1>5. Copies(f, S) \ {p} = Copies(g, S) \ {p}
  BY <1>2
<1>6. Cardinality(Copies(g, S)) = Cardinality(Copies(f, S)) + One(p \in Copies(g, S))
                                  - One(p \in Copies(f, S))
  BY <1>5, OneElement
<1>7. IsFiniteSet(Copies(g, S)) /\ Cardinality(Copies(f, S)) \in Nat
      /\ Cardinality(Copies(g, S)) \in Nat
  BY <1>5, OneElement
<1> QED
  BY <1>3, <1>4, <1>6, <1>7 DEF One

\* One copy less.
LEMMA CopiesDown ==
  ASSUME NEW D, NEW f \in [D -> Nat], NEW g \in [D -> Nat], NEW S \in SUBSET D,
         NEW x \in D, f[x] = g[x] + 1, \A y \in D \ {x} : g[y] = f[y],
         IsFiniteSet(Copies(f, S))
  PROVE  /\ IsFiniteSet(Copies(g, S))
         /\ Cardinality(Copies(f, S)) \in Nat /\ Cardinality(Copies(g, S)) \in Nat
         /\ Cardinality(Copies(g, S)) = Cardinality(Copies(f, S)) - One(x \in S)
<1>1. \A y \in D : f[y] \in Nat /\ g[y] \in Nat /\ g[y] <= f[y]
  <2>1. \A y \in D : f[y] \in Nat /\ g[y] \in Nat
    OBVIOUS
  <2> QED
    BY <2>1
<1>2. Copies(g, S) \subseteq Copies(f, S)
  <2> SUFFICES ASSUME NEW q \in Copies(g, S)  PROVE q \in Copies(f, S)
    OBVIOUS
  <2>1. q = <<q[1], q[2]>> /\ q[1] \in S /\ q[2] \in 1..g[q[1]]
    BY CopiesMembers
  <2>2. q[2] \in 1..f[q[1]]
    BY <1>1, <2>1
  <2> QED
    BY <2>1, <2>2, CopiesMembers
<1>3. IsFiniteSet(Copies(g, S))
  BY <1>2, FS_Subset
<1>4. /\ Cardinality(Copies(f, S)) \in Nat /\ Cardinality(Copies(g, S)) \in Nat
      /\ Cardinality(Copies(f, S)) = Cardinality(Copies(g, S)) + One(x \in S)
  BY <1>3, CopiesUp
<1> QED
  BY <1>3, <1>4 DEF One

\* An element that leaves takes its copies with it.
LEMMA CopiesLeave ==
  ASSUME NEW D, NEW f \in [D -> Nat], NEW g \in [D -> Nat], NEW S \in SUBSET D,
         NEW x \in S, \A y \in D \ {x} : g[y] = f[y], IsFiniteSet(Copies(f, S))
  PROVE  /\ IsFiniteSet(Copies(g, S \ {x}))
         /\ Cardinality(Copies(f, S)) \in Nat /\ Cardinality(Copies(g, S \ {x})) \in Nat
         /\ Cardinality(Copies(g, S \ {x})) = Cardinality(Copies(f, S)) - f[x]
<1> DEFINE C == Copies(f, S)
           X == {x} \X (1..f[x])
<1>1. f[x] \in Nat
  OBVIOUS
<1>2. C \cap X = X
  <2> SUFFICES ASSUME NEW q \in X  PROVE q \in C
    OBVIOUS
  <2>1. <<x, q[2]>> \in C /\ q = <<x, q[2]>>
    BY CopiesMembers
  <2> QED
    BY <2>1
<1>3. ASSUME NEW q  PROVE q \in C \ X <=> q \in Copies(g, S \ {x})
  <2>1. ASSUME q \in C \ X  PROVE q \in Copies(g, S \ {x})
    <3>1. q = <<q[1], q[2]>> /\ q[1] \in S /\ q[2] \in 1..f[q[1]]
      BY <2>1, CopiesMembers
    <3>2. q[1] \in S \ {x} /\ q[2] \in 1..g[q[1]]
      BY <2>1, <3>1
    <3>3. <<q[1], q[2]>> \in Copies(g, S \ {x})
      BY <3>2, CopiesMembers
    <3> QED
      BY <3>1, <3>3
  <2>2. ASSUME q \in Copies(g, S \ {x})  PROVE q \in C \ X
    <3>1. q = <<q[1], q[2]>> /\ q[1] \in S \ {x} /\ q[2] \in 1..g[q[1]]
      BY <2>2, CopiesMembers
    <3>2. q[1] \in S /\ q[2] \in 1..f[q[1]]
      BY <3>1
    <3>3. <<q[1], q[2]>> \in C
      BY <3>2, CopiesMembers
    <3>4. q \notin X
      BY <3>1
    <3> QED
      BY <3>1, <3>3, <3>4
  <2> QED
    BY <2>1, <2>2
<1>4. IsFiniteSet(X) /\ Cardinality(X) = f[x]
  <2>1. IsFiniteSet({x}) /\ Cardinality({x}) = 1
    BY FS_Singleton
  <2>2. IsFiniteSet(1..f[x]) /\ Cardinality(1..f[x]) = f[x]
    BY <1>1, UpToNumber
  <2>3. IsFiniteSet(X) /\ Cardinality(X) = 1 * f[x]
    BY <2>1, <2>2, FS_Product
  <2> QED
    BY <1>1, <2>3
<1>5. C \ X = Copies(g, S \ {x})
  BY <1>3
<1> HIDE DEF X, C
<1>6. IsFiniteSet(C \ X) /\ Cardinality(C \ X) = Cardinality(C) - f[x]
  <2>1. IsFiniteSet(C)
    BY DEF C
  <2>2. IsFiniteSet(C \ X) /\ Cardinality(C \ X) = Cardinality(C) - Cardinality(C \cap X)
    BY <2>1, FS_Difference
  <2> QED
    BY <1>2, <1>4, <2>2
<1>7. Cardinality(C) \in Nat /\ Cardinality(C \ X) \in Nat
  BY <1>6, FS_CardinalityType DEF C
<1> QED
  BY <1>5, <1>6, <1>7 DEF C

=============================================================================
