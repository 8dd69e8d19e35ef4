-------------------------- MODULE SenderPoolProofs --------------------------
(***************************************************************************)
(* The pool of accounts, for any number of accounts and workers, any ramp, *)
(* rising or falling, accounts with a limit of their own and any           *)
(* disturbances: the gates (PoolInv), the fairness of the rotation         *)
(* (LineInv), and what a day's sends above the limit come from (VolumeInv). *)
(***************************************************************************)
EXTENDS SenderPool, Counting, FiniteSetTheorems, TLAPS

-----------------------------------------------------------------------------
(* The rotation.  A pick that passes over a healthy account b takes one that *)
(* is older than b.  Each worker has at most one such turn with each account *)
(* before b: when it is done with that account, it puts it behind b.         *)

Places == 1..Cardinality(Accounts)

\* The rotation lists every account once.
Rotation ==
  /\ lru \in [Places -> Accounts]
  /\ \A i, j \in Places : lru[i] = lru[j] => i = j
  /\ \A a \in Accounts : \E i \in Places : lru[i] = a

\* As many places as accounts, and no account twice: none is missing.
LEMMA OrdersAreRotations == lru \in Orders => Rotation
<1> SUFFICES ASSUME lru \in Orders  PROVE Rotation
  OBVIOUS
<1>1. lru \in Injection(Places, Accounts)
  BY DEF Orders, Places, Injection, IsInjective
<1>2. Cardinality(Accounts) \in Nat
  BY SenderPoolAssumption, FS_CardinalityType
<1>3. IsFiniteSet(Places) /\ Cardinality(Places) = Cardinality(Accounts)
  <2>1. ASSUME NEW n \in Nat  PROVE IsFiniteSet(1..n) /\ Cardinality(1..n) = n
    <3>1. 1 \in Int /\ n \in Int /\ (IF 1 > n THEN 0 ELSE n - 1 + 1) = n
      OBVIOUS
    <3> QED
      BY <3>1, FS_Interval
  <2> QED
    BY <1>2, <2>1 DEF Places
<1>4. lru \in Surjection(Places, Accounts)
  BY <1>1, <1>3, SenderPoolAssumption, FS_Injection
<1> QED
  BY <1>1, <1>4 DEF Orders, Rotation, Places, Surjection

\* Of two accounts one is older.
LEMMA OneIsOlder ==
  ASSUME Rotation, NEW a \in Accounts, NEW b \in Accounts, a # b
  PROVE  Older(a, b) \/ Older(b, a)
<1>1. PICK i \in Places, j \in Places : lru[i] = a /\ lru[j] = b
  BY DEF Rotation
<1>2. i \in Int /\ j \in Int /\ i # j
  BY <1>1 DEF Places
<1> QED
  BY <1>1, <1>2 DEF Rotation, Older

\* The account that was used goes to the end, the others keep their order.
LEMMA TouchMoves ==
  ASSUME Rotation, NEW a \in Accounts, Touch(a)
  PROVE  /\ Rotation'
         /\ \A x, b \in Accounts : b # a /\ Older(x, b)' => x # a /\ Older(x, b)
<1> DEFINE n == Cardinality(Accounts)
<1>1. n \in Nat
  BY SenderPoolAssumption, FS_CardinalityType
<1>2. PICK k \in Places :
        /\ lru[k] = a
        /\ lru' = [j \in Places |-> IF j < k THEN lru[j] ELSE IF j < n THEN lru[j + 1] ELSE a]
  BY DEF Touch, Rotation
<1> DEFINE From(j) == IF j < k THEN j ELSE IF j < n THEN j + 1 ELSE k
<1> HIDE DEF n
<1>3. Places = 1..n /\ k \in 1..n
  BY DEF n, Places
<1>4. \A j \in Places : From(j) \in Places /\ lru'[j] = lru[From(j)]
  BY <1>1, <1>2, <1>3
<1>5. \A i, j \in Places : From(i) = From(j) => i = j
  BY <1>1, <1>3
<1>6. \A i, j \in Places : i < j /\ From(j) # k => From(i) < From(j) /\ From(i) # k
  BY <1>1, <1>3
<1>7. \A i \in Places : \E j \in Places : From(j) = i
  <2> SUFFICES ASSUME NEW i \in Places  PROVE \E j \in Places : From(j) = i
    OBVIOUS
  <2>1. CASE i < k
    BY <1>1, <1>3, <2>1
  <2>2. CASE i = k
    <3>1. n \in Places /\ From(n) = k
      BY <1>1, <1>3
    <3> QED
      BY <2>2, <3>1
  <2>3. CASE i > k
    <3>1. i - 1 \in Places /\ From(i - 1) = i
      BY <1>1, <1>3, <2>3
    <3> QED
      BY <3>1
  <2> QED
    BY <1>3, <2>1, <2>2, <2>3
<1> HIDE DEF From
<1>8. lru' \in [Places -> Accounts] /\ DOMAIN lru' = Places /\ DOMAIN lru = Places
  BY <1>2, <1>4 DEF Rotation
<1>9. Rotation'
  <2>1. \A i, j \in Places : lru'[i] = lru'[j] => i = j
    BY <1>4, <1>5 DEF Rotation
  <2>2. ASSUME NEW c \in Accounts  PROVE \E i \in Places : lru'[i] = c
    <3>1. PICK i \in Places : lru[i] = c
      BY DEF Rotation
    <3>2. PICK j \in Places : From(j) = i
      BY <1>7
    <3> QED
      BY <1>4, <3>1, <3>2
  <2> QED
    BY <1>8, <2>1, <2>2 DEF Rotation, Places
<1>10. ASSUME NEW x \in Accounts, NEW b \in Accounts, b # a, Older(x, b)'
       PROVE  x # a /\ Older(x, b)
  <2>1. PICK i \in Places, j \in Places : i < j /\ lru'[i] = x /\ lru'[j] = b
    BY <1>8, <1>10 DEF Older
  <2>2. From(j) # k
    BY <1>2, <1>4, <1>10, <2>1
  <2>3. From(i) < From(j) /\ From(i) # k
    BY <1>6, <2>1, <2>2
  <2>4. lru[From(i)] = x /\ lru[From(j)] = b
    BY <1>4, <2>1
  <2> QED
    BY <1>2, <1>4, <1>8, <2>1, <2>3, <2>4 DEF Rotation, Older
<1> QED
  BY <1>9, <1>10

\* The worker uses the account.
Holds(w, a) == pc[w] # "idle" /\ acct[w] = a

\* The turns that workers still have before account b.
Turns(b) == {t \in Senders \X (Accounts \ {b}) : Older(t[2], b) /\ ~Holds(t[1], t[2])}

\* Each time b was passed over has used up one of the turns, or is paid for by
\* a crash, which gives the worker its turn back.
TurnsPay(b) ==
  skipped[b] + Cardinality(Turns(b))
    <= (Cardinality(Accounts) - 1) * Cardinality(Senders) + (Budget["crash"] - budget["crash"])

\* The accounts wait in line, and everyone in the line is owed a turn.
LineInv ==
  /\ PoolInv
  /\ Rotation
  /\ skipped \in [Accounts -> Nat]
  /\ budget \in [Disturbances -> Nat] /\ budget["crash"] <= Budget["crash"]
  /\ \A b \in Accounts : TurnsPay(b)

\* There are finitely many turns, at most one per worker and other account.
LEMMA TurnsAreFew ==
  ASSUME NEW b \in Accounts
  PROVE  /\ IsFiniteSet(Turns(b)) /\ Cardinality(Turns(b)) \in Nat
         /\ IsFiniteSet(Turns(b)') /\ Cardinality(Turns(b)') \in Nat
         /\ (Cardinality(Accounts) - 1) * Cardinality(Senders) \in Nat
         /\ Cardinality(Turns(b)) <= (Cardinality(Accounts) - 1) * Cardinality(Senders)
         /\ Cardinality(Turns(b)') <= (Cardinality(Accounts) - 1) * Cardinality(Senders)
<1> DEFINE O == Accounts \ {b}
           T == Senders \X O
<1>1. IsFiniteSet(O) /\ Cardinality(O) = Cardinality(Accounts) - 1
  BY SenderPoolAssumption, FS_RemoveElement
<1>2. IsFiniteSet(T) /\ Cardinality(T) = Cardinality(Senders) * Cardinality(O)
  <2> HIDE DEF O
  <2> QED
    BY <1>1, SenderPoolAssumption, FS_Product
<1>3. Cardinality(O) \in Nat /\ Cardinality(Senders) \in Nat /\ Cardinality(T) \in Nat
  <2> HIDE DEF T, O
  <2> QED
    BY <1>1, <1>2, SenderPoolAssumption, FS_CardinalityType
<1>4. Turns(b) \subseteq T /\ Turns(b)' \subseteq T
  BY DEF Turns
<1>5. \A i, j \in Nat : i * j = j * i
  OBVIOUS
<1> HIDE DEF T, O
<1>6. /\ IsFiniteSet(Turns(b)) /\ Cardinality(Turns(b)) <= Cardinality(T)
      /\ IsFiniteSet(Turns(b)') /\ Cardinality(Turns(b)') <= Cardinality(T)
  BY <1>2, <1>4, FS_Subset
<1>7. Cardinality(Turns(b)) \in Nat /\ Cardinality(Turns(b)') \in Nat
  BY <1>6, FS_CardinalityType
<1>8. Cardinality(T) = (Cardinality(Accounts) - 1) * Cardinality(Senders)
  BY <1>1, <1>2, <1>3, <1>5
<1> QED
  BY <1>3, <1>6, <1>7, <1>8

\* Passed over as often as before, with no new turn: the account is still paid.
LEMMA NoNewTurn ==
  ASSUME LineInv, NEW b \in Accounts, Turns(b)' \subseteq Turns(b),
         skipped'[b] = skipped[b], budget'["crash"] = budget["crash"]
  PROVE  TurnsPay(b)'
<1> DEFINE most == (Cardinality(Accounts) - 1) * Cardinality(Senders)
<1>1. most \in Nat /\ Cardinality(Turns(b)) \in Nat /\ Cardinality(Turns(b)') \in Nat
  BY TurnsAreFew
<1>2. Cardinality(Turns(b)') <= Cardinality(Turns(b))
  BY TurnsAreFew, FS_Subset
<1>3. skipped[b] \in Nat /\ budget["crash"] \in Nat /\ Budget["crash"] \in Nat
  BY SenderPoolAssumption DEF LineInv, Disturbances
<1>4. skipped[b] + Cardinality(Turns(b)) <= most + (Budget["crash"] - budget["crash"])
  BY DEF LineInv, TurnsPay
<1> SUFFICES skipped'[b] + Cardinality(Turns(b)')
               <= most + (Budget["crash"] - budget'["crash"])
  BY DEF TurnsPay
<1> HIDE DEF most
<1> QED
  BY <1>1, <1>2, <1>3, <1>4

\* An account that was just used is owed every turn again.
LEMMA NewTurns ==
  ASSUME NEW b \in Accounts, skipped'[b] = 0, budget'["crash"] \in Nat,
         budget'["crash"] <= Budget["crash"]
  PROVE  TurnsPay(b)'
<1> DEFINE most == (Cardinality(Accounts) - 1) * Cardinality(Senders)
<1>1. most \in Nat /\ Cardinality(Turns(b)') \in Nat /\ Cardinality(Turns(b)') <= most
  BY TurnsAreFew
<1>2. Budget["crash"] \in Nat
  BY SenderPoolAssumption DEF Disturbances
<1> SUFFICES skipped'[b] + Cardinality(Turns(b)')
               <= most + (Budget["crash"] - budget'["crash"])
  BY DEF TurnsPay
<1> HIDE DEF most
<1> QED
  BY <1>1, <1>2

\* A pick takes the worker's turn with the account it picks.
LEMMA PickPays ==
  ASSUME LineInv, NEW w \in Senders, NEW a \in Accounts, Pick(w, a), NEW b \in Accounts
  PROVE  TurnsPay(b)' /\ skipped'[b] \in Nat
<1>1. /\ pc[w] = "idle" /\ pc'[w] # "idle" /\ acct'[w] = a
      /\ \A v \in Senders \ {w} : pc'[v] = pc[v] /\ acct'[v] = acct[v]
      /\ UNCHANGED <<lru, budget>>
  BY DEF Pick, LineInv, PoolInv
<1>2. skipped'[b] = IF b = a THEN 0 ELSE IF Healthy(w, b) THEN skipped[b] + 1 ELSE skipped[b]
  BY DEF Pick
<1>3. /\ budget["crash"] \in Nat /\ budget["crash"] <= Budget["crash"] /\ skipped[b] \in Nat
      /\ Budget["crash"] \in Nat
  BY SenderPoolAssumption DEF LineInv, Disturbances
<1>4. Turns(b)' \subseteq Turns(b)
  BY <1>1 DEF Turns, Holds, Older
<1>5. CASE b = a
  BY <1>1, <1>2, <1>3, <1>5, NewTurns
<1>6. CASE b # a /\ ~Healthy(w, b)
  BY <1>1, <1>2, <1>3, <1>4, <1>6, NoNewTurn
<1>7. CASE b # a /\ Healthy(w, b)
  <2>1. Older(a, b)
    BY <1>7, OneIsOlder DEF Pick, LineInv
  <2>2. <<w, a>> \in Turns(b) /\ Turns(b)' = Turns(b) \ {<<w, a>>}
    BY <1>1, <1>7, <2>1 DEF Turns, Holds, Older
  <2>3. Cardinality(Turns(b)') = Cardinality(Turns(b)) - 1 /\ Cardinality(Turns(b)) \in Nat
    <3>1. IsFiniteSet(Turns(b)) /\ Cardinality(Turns(b)) \in Nat
      BY TurnsAreFew
    <3> QED
      BY <2>2, <3>1, FS_RemoveElement
  <2>4. skipped'[b] = skipped[b] + 1
    BY <1>2, <1>7
  <2> DEFINE most == (Cardinality(Accounts) - 1) * Cardinality(Senders)
  <2>5. most \in Nat
    BY TurnsAreFew
  <2>6. skipped[b] + Cardinality(Turns(b)) <= most + (Budget["crash"] - budget["crash"])
    BY DEF LineInv, TurnsPay
  <2>7. skipped'[b] + Cardinality(Turns(b)')
          <= most + (Budget["crash"] - budget'["crash"])
    <3> HIDE DEF most
    <3> QED
      BY <1>1, <1>3, <2>3, <2>4, <2>5, <2>6
  <2> QED
    BY <1>3, <2>4, <2>7 DEF TurnsPay
<1> QED
  BY <1>5, <1>6, <1>7

\* A worker that is done puts the account behind all the others.
LEMMA UsePays ==
  ASSUME LineInv, NEW w \in Senders, pc[w] # "idle", Touch(acct[w]), Finish(w),
         skipped' = [skipped EXCEPT ![acct[w]] = 0], UNCHANGED budget, NEW b \in Accounts
  PROVE  TurnsPay(b)'
<1>1. acct[w] \in Accounts
  BY DEF LineInv, PoolInv, HeldIsAllowed
<1>2. budget["crash"] \in Nat /\ budget["crash"] <= Budget["crash"]
  BY DEF LineInv, Disturbances
<1>3. CASE b = acct[w]
  BY <1>1, <1>2, <1>3, NewTurns DEF LineInv
<1>4. CASE b # acct[w]
  <2>1. \A x \in Accounts : Older(x, b)' => x # acct[w] /\ Older(x, b)
    BY <1>1, <1>4, TouchMoves DEF LineInv
  <2>2. \A v \in Senders, x \in Accounts : x # acct[w] /\ Holds(v, x) => Holds(v, x)'
    BY DEF Finish, Holds, LineInv, PoolInv
  <2>3. Turns(b)' \subseteq Turns(b)
    BY <2>1, <2>2 DEF Turns
  <2> QED
    BY <1>4, <2>3, NoNewTurn DEF LineInv
<1> QED
  BY <1>3, <1>4

\* A worker that dies gives its turn back.
LEMMA CrashPays ==
  ASSUME LineInv, NEW w \in Senders, WorkerCrash(w), NEW b \in Accounts
  PROVE  TurnsPay(b)'
<1> DEFINE t == <<w, acct[w]>>
           most == (Cardinality(Accounts) - 1) * Cardinality(Senders)
<1>1. Turns(b) \ {t} = Turns(b)' \ {t}
  <2>1. /\ \A v \in Senders \ {w} : pc'[v] = pc[v] /\ acct'[v] = acct[v]
        /\ pc'[w] = "idle" /\ UNCHANGED lru
    BY DEF WorkerCrash, Finish, LineInv, PoolInv
  <2>2. \A v \in Senders, x \in Accounts :
          <<v, x>> # t => (Holds(v, x) <=> Holds(v, x)')
    BY <2>1 DEF Holds
  <2>3. \A x : Older(x, b)' <=> Older(x, b)
    BY <2>1 DEF Older
  <2> HIDE DEF t
  <2> QED
    BY <2>2, <2>3 DEF Turns
<1>2. IsFiniteSet(Turns(b)) /\ most \in Nat
  BY TurnsAreFew
<1> HIDE DEF t, most
<1>3. /\ Cardinality(Turns(b)) \in Nat /\ Cardinality(Turns(b)') \in Nat
      /\ Cardinality(Turns(b)') <= Cardinality(Turns(b)) + 1
  <2>1. /\ Cardinality(Turns(b)) \in Nat /\ Cardinality(Turns(b)') \in Nat
        /\ Cardinality(Turns(b)')
             = Cardinality(Turns(b)) + One(t \in Turns(b)') - One(t \in Turns(b))
    BY <1>1, <1>2, OneElement
  <2> QED
    BY <2>1 DEF One
<1>4. /\ budget["crash"] \in Nat /\ Budget["crash"] \in Nat /\ skipped[b] \in Nat
      /\ budget'["crash"] = budget["crash"] - 1 /\ skipped' = skipped
  BY SenderPoolAssumption DEF WorkerCrash, Spend, LineInv, Disturbances
<1>5. skipped[b] + Cardinality(Turns(b)) <= most + (Budget["crash"] - budget["crash"])
  BY DEF LineInv, TurnsPay, most
<1>6. skipped'[b] + Cardinality(Turns(b)') <= most + (Budget["crash"] - budget'["crash"])
  BY <1>2, <1>3, <1>4, <1>5
<1> QED
  BY <1>6 DEF TurnsPay, most

-----------------------------------------------------------------------------
(* The gates.                                                                *)

\* What was allowed still is when the stage goes on.
LEMMA AllowedKept ==
  ASSUME NEW a, NEW n, NEW s \in Int, NEW t \in Int, s <= t, Allowed(a, s, n)
  PROVE  Allowed(a, t, n)
<1>1. PICK r \in 0..s : n <= StageLimit(a, r)
  BY DEF Allowed
<1>2. r \in 0..t
  BY <1>1
<1> QED
  BY <1>1, <1>2 DEF Allowed

\* A count below the limit leaves room for one more, and every limit is a number.
LEMMA RoomForOne ==
  ASSUME PoolInv, NEW a \in Accounts
  PROVE  /\ limit[a] \in Nat \ {0} /\ stage[a] \in 0..LastStage
         /\ \A n \in Nat : n < limit[a] => Allowed(a, stage[a], n + 1)
<1>1. stage[a] \in 0..LastStage /\ LastStage \in Nat
  BY SenderPoolAssumption DEF PoolInv
<1>2. limit[a] = StageLimit(a, stage[a])
  BY DEF PoolInv, LimitIsItsStages
<1>3. limit[a] \in Nat \ {0}
  BY <1>1, <1>2, SenderPoolAssumption DEF StageLimit
<1>4. ASSUME NEW n \in Nat, n < limit[a]  PROVE Allowed(a, stage[a], n + 1)
  <2>1. n + 1 <= StageLimit(a, stage[a]) /\ stage[a] \in 0..stage[a]
    BY <1>1, <1>2, <1>3, <1>4
  <2> QED
    BY <2>1 DEF Allowed
<1> QED
  BY <1>1, <1>3, <1>4

\* The seeded pool: nothing sent, every limit that of stage 0.
LEMMA InitPool == Init => PoolInv
<1> USE SenderPoolAssumption
<1> SUFFICES ASSUME Init PROVE PoolInv
  OBVIOUS
<1>1. CounterIsAllowed
  <2> SUFFICES ASSUME NEW a \in Accounts  PROVE Allowed(a, stage[a], sent[a])
    BY DEF CounterIsAllowed
  <2>1. stage[a] = 0 /\ sent[a] = 0 /\ InitialLimit[a] \in Nat
    BY DEF Init
  <2>2. 0 \in 0..stage[a] /\ 0 <= StageLimit(a, 0)
    BY <2>1 DEF StageLimit
  <2> QED BY <2>1, <2>2 DEF Allowed
<1> QED BY <1>1 DEF Init, PoolInv, LimitIsItsStages, StageLimit, HeldIsAllowed, PauseGate, PCs

\* A worker that lets go of its account (after its commit, or lost) keeps what
\* the invariant says of the workers.
LEMMA FinishKeeps ==
  ASSUME PoolInv, NEW w \in Senders, Finish(w), UNCHANGED <<stage, paused>>
  PROVE  /\ pc' \in [Senders -> PCs]
         /\ acct' \in [Senders -> Accounts \cup {NoAccount}]
         /\ seen' \in [Senders -> Nat]
         /\ late' \in SUBSET Senders
         /\ HeldIsAllowed'
         /\ PauseGate'
<1>1. /\ pc' = [pc EXCEPT ![w] = "idle"] /\ late' = late \ {w}
      /\ acct' = [acct EXCEPT ![w] = NoAccount] /\ seen' = [seen EXCEPT ![w] = 0]
  BY DEF Finish
<1>2. /\ pc' \in [Senders -> PCs] /\ seen' \in [Senders -> Nat]
      /\ acct' \in [Senders -> Accounts \cup {NoAccount}] /\ late' \in SUBSET Senders
  BY <1>1 DEF PoolInv, PCs
<1>3. /\ pc'[w] = "idle"
      /\ \A v \in Senders \ {w} : pc'[v] = pc[v] /\ acct'[v] = acct[v] /\ seen'[v] = seen[v]
  BY <1>1 DEF PoolInv
<1>4. HeldIsAllowed'
  BY <1>3 DEF PoolInv, HeldIsAllowed
<1>5. PauseGate'
  BY <1>1, <1>3 DEF PoolInv, PauseGate
<1> QED
  BY <1>2, <1>4, <1>5

\* Writing back the count a worker holds, plus one, writes what is allowed.
LEMMA WriteBack ==
  ASSUME PoolInv, NEW w \in Senders, pc[w] # "idle", UNCHANGED stage,
         sent' = [sent EXCEPT ![acct[w]] = seen[w] + 1]
  PROVE  sent' \in [Accounts -> Nat] /\ CounterIsAllowed'
<1>1. acct[w] \in Accounts /\ Allowed(acct[w], stage[acct[w]], seen[w] + 1) /\ seen[w] \in Nat
  BY DEF PoolInv, HeldIsAllowed
<1>2. \A a \in Accounts : sent'[a] = IF a = acct[w] THEN seen[w] + 1 ELSE sent[a]
  BY <1>1 DEF PoolInv
<1>3. ASSUME NEW a \in Accounts  PROVE Allowed(a, stage[a], sent'[a])
  BY <1>1, <1>2 DEF PoolInv, CounterIsAllowed
<1> QED BY <1>1, <1>2, <1>3 DEF PoolInv, CounterIsAllowed

\* Pausing an account marks every worker that holds it.
LEMMA PauseKeeps ==
  ASSUME PoolInv, NEW a \in Accounts, MarkPaused(a), UNCHANGED workers
  PROVE  paused' \in SUBSET Accounts /\ late' \in SUBSET Senders /\ PauseGate'
  BY DEF PoolInv, MarkPaused, PauseGate, workers

\* The daily task clears the counters, and a stage never goes back.
LEMMA WarmupKeeps ==
  ASSUME PoolInv, AdvanceWarmup
  PROVE  PoolInv'
<1> USE SenderPoolAssumption
<1>1. \A a \in Accounts :
        /\ stage[a] \in 0..LastStage /\ NextStage(a) \in 0..LastStage
        /\ stage[a] <= NextStage(a)
        /\ stage[a] < LastStage => NextStage(a) = stage[a] + 1
        /\ ~(stage[a] < LastStage) => NextStage(a) = stage[a]
  BY DEF PoolInv, NextStage
<1>2. \A a \in Accounts : limit[a] \in Nat /\ Target[NextStage(a)] \in Nat
  BY <1>1 DEF PoolInv
<1>3. stage' \in [Accounts -> 0..LastStage] /\ limit' \in [Accounts -> Nat]
  BY <1>1, <1>2 DEF AdvanceWarmup, PoolInv
<1>4. \A a \in Accounts : stage[a] <= stage'[a] /\ stage[a] \in Int /\ stage'[a] \in Int
  BY <1>1, <1>3 DEF AdvanceWarmup, PoolInv
<1>5. LimitIsItsStages'
  <2> SUFFICES ASSUME NEW a \in Accounts  PROVE limit'[a] = StageLimit(a, stage'[a])
    BY DEF LimitIsItsStages, StageLimit
  <2>1. CASE a \in Accounts \ (paused \cup warm) /\ stage[a] < LastStage
    <3>1. stage'[a] = NextStage(a) /\ limit'[a] = Target[NextStage(a)]
      BY <2>1 DEF AdvanceWarmup
    <3>2. NextStage(a) # 0
      BY <1>1, <2>1
    <3> QED BY <3>1, <3>2 DEF StageLimit
  <2>2. CASE ~(a \in Accounts \ (paused \cup warm) /\ stage[a] < LastStage)
    <3>1. limit'[a] = limit[a] /\ stage'[a] = stage[a]
      BY <1>1, <2>2 DEF AdvanceWarmup
    <3> QED BY <3>1 DEF PoolInv, LimitIsItsStages
  <2> QED BY <2>1, <2>2
<1>6. sent' \in [Accounts -> Nat] /\ CounterIsAllowed'
  <2>1. sent' = [a \in Accounts |-> 0]
    BY DEF AdvanceWarmup
  <2>2. ASSUME NEW a \in Accounts  PROVE Allowed(a, stage'[a], sent'[a])
    <3>1. 0 \in 0..stage'[a] /\ sent'[a] = 0 /\ 0 <= StageLimit(a, 0)
      BY <1>3, <2>1 DEF StageLimit
    <3> QED BY <3>1 DEF Allowed
  <2> QED BY <2>1, <2>2 DEF CounterIsAllowed
<1>7. HeldIsAllowed'
  <2> SUFFICES ASSUME NEW w \in Senders, pc'[w] # "idle"
               PROVE  /\ acct'[w] \in Accounts
                      /\ Allowed(acct'[w], stage'[acct'[w]], seen'[w] + 1)
    BY DEF HeldIsAllowed
  <2>1. UNCHANGED <<pc, acct, seen>>
    BY DEF AdvanceWarmup, workers
  <2>2. acct[w] \in Accounts /\ Allowed(acct[w], stage[acct[w]], seen[w] + 1)
    BY <2>1 DEF PoolInv, HeldIsAllowed
  <2>3. Allowed(acct[w], stage'[acct[w]], seen[w] + 1)
    BY <1>4, <2>2, AllowedKept
  <2> QED BY <2>1, <2>2, <2>3
<1>8. UNCHANGED <<pc, acct, seen, paused, late, reports>>
  BY DEF AdvanceWarmup, workers
<1> QED BY <1>3, <1>5, <1>6, <1>7, <1>8 DEF PoolInv, PauseGate

\* Every step of a worker, a report, the admin and the daily task keeps the
\* invariant.
LEMMA NextPool == PoolInv /\ [Next]_vars => PoolInv'
<1> SUFFICES ASSUME PoolInv, [Next]_vars PROVE PoolInv'
  OBVIOUS
<1>1. ASSUME NEW w \in Senders, NEW a \in Accounts, Pick(w, a) PROVE PoolInv'
  <2>1. sent[a] \in Nat /\ Allowed(a, stage[a], sent[a] + 1) /\ a \notin paused
    BY <1>1, RoomForOne DEF Pick, Healthy, Candidate, PoolInv
  <2>2. /\ pc' = [pc EXCEPT ![w] = "picked"] /\ acct' = [acct EXCEPT ![w] = a]
        /\ seen' = [seen EXCEPT ![w] = sent[a]]
        /\ UNCHANGED <<sent, limit, stage, paused, reports, late>>
    BY <1>1 DEF Pick, counters, ramp
  <2>4. HeldIsAllowed'
    <3> SUFFICES ASSUME NEW v \in Senders, pc'[v] # "idle"
                 PROVE  /\ acct'[v] \in Accounts
                        /\ Allowed(acct'[v], stage'[acct'[v]], seen'[v] + 1)
      BY DEF HeldIsAllowed
    <3>1. CASE v = w
      <4>1. acct'[v] = a /\ seen'[v] = sent[a]
        BY <2>2, <3>1 DEF PoolInv
      <4> QED BY <2>1, <2>2, <4>1
    <3>2. CASE v # w
      <4>1. acct'[v] = acct[v] /\ seen'[v] = seen[v] /\ pc[v] # "idle"
        BY <2>2, <3>2 DEF PoolInv
      <4> QED BY <2>2, <4>1 DEF PoolInv, HeldIsAllowed
    <3> QED BY <3>1, <3>2
  <2>5. CounterIsAllowed'
    BY <2>2 DEF PoolInv, CounterIsAllowed
  <2> QED BY <2>1, <2>2, <2>4, <2>5 DEF PoolInv, PCs, LimitIsItsStages, PauseGate
<1>2. ASSUME NEW w \in Senders, NEW a \in Accounts, Recover(w, a) PROVE PoolInv'
  BY <1>2 DEF Recover, PoolInv, counters, ramp, workers,
              LimitIsItsStages, CounterIsAllowed, HeldIsAllowed, PauseGate
<1>3. ASSUME NEW w \in Senders, \/ Deliver(w) \/ Resend(w)
                                \/ \E trips \in BOOLEAN : Fail(w, trips)
      PROVE  PoolInv'
  <2>1. /\ \E p \in {"picked", "accepted", "failed"} : pc' = [pc EXCEPT ![w] = p]
        /\ pc[w] # "idle"
    BY <1>3 DEF Deliver, Resend, Fail, workers, PoolInv
  <2>2. UNCHANGED <<sent, limit, stage, acct, seen, paused, late, reports>>
    BY <1>3 DEF Deliver, Resend, Fail, workers, counters, ramp
  <2> QED BY <2>1, <2>2 DEF PoolInv, PCs, LimitIsItsStages, CounterIsAllowed, HeldIsAllowed,
             PauseGate
<1>4. ASSUME NEW w \in Senders, CommitFailure(w) \/ CommitUsage(w) PROVE PoolInv'
  <2>1. Finish(w) /\ UNCHANGED <<limit, stage, paused, reports>> /\ pc[w] # "idle"
    BY <1>4 DEF CommitFailure, CommitUsage, ramp
  <2>2. sent' \in [Accounts -> Nat] /\ CounterIsAllowed'
    BY <1>4, <2>1, WriteBack DEF CommitFailure, CommitUsage
  <2> QED BY <2>1, <2>2, FinishKeeps DEF PoolInv, LimitIsItsStages
<1>5. ASSUME NEW w \in Senders, WorkerCrash(w) PROVE PoolInv'
  <2>1. Finish(w) /\ UNCHANGED <<sent, limit, stage, paused, reports>>
    BY <1>5 DEF WorkerCrash, counters, ramp
  <2> QED BY <2>1, FinishKeeps DEF PoolInv, LimitIsItsStages, CounterIsAllowed
<1>6. ASSUME NEW a \in Accounts, NEW kind \in Kinds, LoadReport(a, kind) PROVE PoolInv'
  BY <1>6 DEF LoadReport, PoolInv, counters, ramp, workers,
              LimitIsItsStages, CounterIsAllowed, HeldIsAllowed, PauseGate
<1>7. ASSUME NEW r \in reports, CommitReport(r) PROVE PoolInv'
  <2>0. r.acct \in Accounts
    BY DEF PoolInv
  <2>1. UNCHANGED <<sent, limit, stage, pc, acct, seen>> /\ reports' \subseteq reports
    BY <1>7 DEF CommitReport, ramp, workers
  <2>2. MarkPaused(r.acct) \/ UNCHANGED <<paused, late>>
    BY <1>7 DEF CommitReport
  <2>3. /\ paused' \in SUBSET Accounts
        /\ late' \in SUBSET Senders
        /\ PauseGate'
    BY <1>7, <2>0, <2>1, <2>2, PauseKeeps DEF workers, PoolInv, PauseGate
  <2> QED BY <2>1, <2>3 DEF PoolInv, LimitIsItsStages, CounterIsAllowed, HeldIsAllowed
<1>8. ASSUME NEW a \in Accounts, PauseSender(a) PROVE PoolInv'
  <2>1. UNCHANGED <<sent, limit, stage, pc, acct, seen, reports>> /\ MarkPaused(a)
    BY <1>8 DEF PauseSender, counters, ramp, workers
  <2> QED BY <2>1, PauseKeeps
          DEF workers, PoolInv, LimitIsItsStages, CounterIsAllowed, HeldIsAllowed
<1>9. ASSUME NEW a \in Accounts, UnpauseSender(a) PROVE PoolInv'
  BY <1>9 DEF UnpauseSender, PoolInv, counters, ramp, workers,
              LimitIsItsStages, CounterIsAllowed, HeldIsAllowed, PauseGate
<1>10. CASE AdvanceWarmup
  BY <1>10, WarmupKeeps
<1>11. CASE UNCHANGED vars
  BY <1>11 DEF vars, PoolInv, LimitIsItsStages, CounterIsAllowed, HeldIsAllowed, PauseGate
<1> QED BY <1>1, <1>2, <1>3, <1>4, <1>5, <1>6, <1>7, <1>8, <1>9, <1>10, <1>11
        DEF Next, SenderStep

\* The invariant of the pool's gates, for every pool and every ramp, rising or
\* falling, and for accounts with a limit of their own.
THEOREM PoolInvariant == Spec => []PoolInv
  BY InitPool, NextPool, PTL DEF Spec

\* However stale the counts the workers write back, no counter passes the highest
\* limit its account has had.
THEOREM CountersStayAllowed == Spec => []CounterIsAllowed
<1>1. PoolInv => CounterIsAllowed
  BY DEF PoolInv
<1> QED BY <1>1, PoolInvariant, PTL

\* A paused account is only used by workers that picked it before the pause.
THEOREM PausedAccountsDrain == Spec => []PauseGate
<1>1. PoolInv => PauseGate
  BY DEF PoolInv
<1> QED BY <1>1, PoolInvariant, PTL

-----------------------------------------------------------------------------
(* The rotation, in every reachable state.                                   *)

\* The seeded pool: everyone is owed every turn.
LEMMA InitLine == Init => LineInv
<1> SUFFICES ASSUME Init  PROVE LineInv
  OBVIOUS
<1>1. PoolInv /\ Rotation
  BY InitPool, OrdersAreRotations DEF Init
<1>2. skipped \in [Accounts -> Nat] /\ budget \in [Disturbances -> Nat]
      /\ budget["crash"] <= Budget["crash"]
  BY SenderPoolAssumption DEF Init, Disturbances
<1>3. ASSUME NEW b \in Accounts  PROVE TurnsPay(b)
  <2> DEFINE most == (Cardinality(Accounts) - 1) * Cardinality(Senders)
  <2>1. most \in Nat /\ Cardinality(Turns(b)) \in Nat /\ Cardinality(Turns(b)) <= most
    BY TurnsAreFew
  <2>2. skipped[b] = 0 /\ budget["crash"] = Budget["crash"] /\ Budget["crash"] \in Nat
    BY SenderPoolAssumption DEF Init, Disturbances
  <2> SUFFICES skipped[b] + Cardinality(Turns(b)) <= most + (Budget["crash"] - budget["crash"])
    BY DEF TurnsPay
  <2> HIDE DEF most
  <2> QED
    BY <2>1, <2>2
<1> QED
  BY <1>1, <1>2, <1>3 DEF LineInv

\* Every step keeps the line.
LEMMA NextLine == LineInv /\ [Next]_vars => LineInv'
<1> SUFFICES ASSUME LineInv, [Next]_vars  PROVE LineInv'
  OBVIOUS
<1>1. PoolInv'
  BY NextPool DEF LineInv
<1>2. ASSUME NEW w \in Senders, NEW a \in Accounts, Pick(w, a)  PROVE LineInv'
  <2>1. UNCHANGED <<lru, budget>> /\ DOMAIN skipped' = Accounts
        /\ skipped' = [b \in Accounts |-> skipped'[b]]
    BY <1>2 DEF Pick
  <2>2. skipped' \in [Accounts -> Nat] /\ \A b \in Accounts : TurnsPay(b)'
    BY <1>2, <2>1, PickPays
  <2> QED
    BY <1>1, <2>1, <2>2 DEF LineInv, Rotation, Places
<1>3. ASSUME NEW w \in Senders, CommitUsage(w) \/ CommitFailure(w)  PROVE LineInv'
  <2>1. /\ pc[w] # "idle" /\ Touch(acct[w]) /\ Finish(w) /\ UNCHANGED budget
        /\ skipped' = [skipped EXCEPT ![acct[w]] = 0]
    BY <1>3 DEF CommitUsage, CommitFailure
  <2>2. acct[w] \in Accounts
    BY <2>1 DEF LineInv, PoolInv, HeldIsAllowed
  <2>3. Rotation'
    BY <2>1, <2>2, TouchMoves DEF LineInv
  <2>4. \A b \in Accounts : TurnsPay(b)'
    BY <2>1, UsePays
  <2> QED
    BY <1>1, <2>1, <2>3, <2>4 DEF LineInv
<1>4. ASSUME NEW w \in Senders, WorkerCrash(w)  PROVE LineInv'
  <2>1. UNCHANGED <<lru, skipped>> /\ Spend("crash")
    BY <1>4 DEF WorkerCrash
  <2>2. budget' \in [Disturbances -> Nat] /\ budget'["crash"] <= Budget["crash"]
    <3>1. budget["crash"] \in Nat /\ Budget["crash"] \in Nat
      BY SenderPoolAssumption DEF LineInv, Disturbances
    <3> QED
      BY <2>1, <3>1 DEF Spend, LineInv, Disturbances
  <2>3. \A b \in Accounts : TurnsPay(b)'
    BY <1>4, CrashPays
  <2> QED
    BY <1>1, <2>1, <2>2, <2>3 DEF LineInv, Rotation, Places
<1>5. \* nobody takes an account or lets go of one
      ASSUME UNCHANGED <<lru, skipped, acct>>,
             UNCHANGED budget \/ \E kind \in Disturbances \ {"crash"} : Spend(kind),
             \A w \in Senders : pc[w] = "idle" <=> pc'[w] = "idle"
      PROVE  LineInv'
  <2>1. budget' \in [Disturbances -> Nat] /\ budget'["crash"] = budget["crash"]
    <3>1. ASSUME NEW kind \in Disturbances \ {"crash"}, Spend(kind)
          PROVE  budget' \in [Disturbances -> Nat] /\ budget'["crash"] = budget["crash"]
      BY <3>1 DEF Spend, LineInv, Disturbances
    <3> QED
      BY <1>5, <3>1 DEF LineInv
  <2>2. \A b \in Accounts : Turns(b)' \subseteq Turns(b)
    BY <1>5 DEF Turns, Holds, Older
  <2>3. \A b \in Accounts : TurnsPay(b)'
    BY <1>5, <2>1, <2>2, NoNewTurn
  <2> QED
    BY <1>1, <1>5, <2>1, <2>3 DEF LineInv, Rotation, Places
<1>6. ASSUME NEW w \in Senders, \/ Deliver(w) \/ Resend(w)
                                \/ \E trips \in BOOLEAN : Fail(w, trips)
      PROVE  LineInv'
  <2>1. \A v \in Senders : pc[v] = "idle" <=> pc'[v] = "idle"
    BY <1>6 DEF Deliver, Resend, Fail, workers, LineInv, PoolInv
  <2>2. UNCHANGED <<lru, skipped, acct>>
        /\ (UNCHANGED budget \/ \E kind \in Disturbances \ {"crash"} : Spend(kind))
    BY <1>6 DEF Deliver, Resend, Fail, workers, Disturbances
  <2> QED
    BY <1>5, <2>1, <2>2
<1>7. ASSUME \/ \E w \in Senders, a \in Accounts : Recover(w, a)
             \/ \E a \in Accounts, kind \in Kinds : LoadReport(a, kind)
             \/ \E r \in reports : CommitReport(r)
             \/ \E a \in Accounts : PauseSender(a) \/ UnpauseSender(a)
             \/ AdvanceWarmup
      PROVE  /\ UNCHANGED <<lru, skipped, acct, pc>>
             /\ UNCHANGED budget \/ \E kind \in Disturbances \ {"crash"} : Spend(kind)
  BY <1>7 DEF Recover, LoadReport, CommitReport, PauseSender, UnpauseSender, AdvanceWarmup,
     workers, Disturbances
<1>8. CASE UNCHANGED vars
  BY <1>5, <1>8 DEF vars
<1> QED
  BY <1>2, <1>3, <1>4, <1>5, <1>6, <1>7, <1>8 DEF Next, SenderStep

\* The rotation is fair in every reachable state.
THEOREM LineInvariant == Spec => []LineInv
BY InitLine, NextLine, PTL DEF Spec

\* However long the workers take, whatever fails, trips or is paused: a healthy
\* account is passed over at most once per worker and other account, and once
\* more for every worker that died with an account.
THEOREM EveryAccountGetsItsTurn == Spec => []NoAccountStarves
<1>1. ASSUME LineInv  PROVE NoAccountStarves
  <2> SUFFICES ASSUME NEW a \in Accounts
               PROVE  skipped[a] <= (Cardinality(Accounts) - 1) * Cardinality(Senders)
                                    + (Budget["crash"] - budget["crash"])
    BY DEF NoAccountStarves
  <2> DEFINE most == (Cardinality(Accounts) - 1) * Cardinality(Senders)
  <2>1. most \in Nat /\ Cardinality(Turns(a)) \in Nat
    BY TurnsAreFew
  <2>2. skipped[a] + Cardinality(Turns(a)) <= most + (Budget["crash"] - budget["crash"])
    BY <1>1 DEF LineInv, TurnsPay
  <2>3. skipped[a] \in Nat /\ budget["crash"] \in Nat /\ Budget["crash"] \in Nat
    BY <1>1, SenderPoolAssumption DEF LineInv, Disturbances
  <2> HIDE DEF most
  <2>4. skipped[a] <= most + (Budget["crash"] - budget["crash"])
    BY <2>1, <2>2, <2>3
  <2> QED
    BY <2>4 DEF most
<1> QED
  BY <1>1, LineInvariant, PTL

-----------------------------------------------------------------------------
(* The volume of a day.  An account has workers that picked it and have not  *)
(* tried to send yet, and workers that tried and have not counted it yet.    *)

Untried(a) == {w \in Senders : pc[w] = "picked" /\ acct[w] = a}

Uncounted(a) == {w \in Senders : pc[w] \in {"accepted", "failed"} /\ acct[w] = a}

\* What is not counted is under way or in the excess; what is still to come fits
\* under the limit, and under the count that any of the workers will write.
VolumeOf(a) ==
  /\ today[a] <= sent[a] + Cardinality(Uncounted(a)) + excess[a]
  /\ today[a] + Cardinality(Untried(a)) <= limit[a] + excess[a]
  /\ \A w \in Senders :
       Holds(w, a) => today[a] + Cardinality(Untried(a)) <= seen[w] + 1 + excess[a]

VolumeInv ==
  /\ PoolInv
  /\ today \in [Accounts -> Nat] /\ excess \in [Accounts -> Nat]
  /\ \A a \in Accounts : VolumeOf(a)

\* The two kinds of workers are all that use the account.
LEMMA UsersAreTwoKinds ==
  ASSUME PoolInv, NEW a \in Accounts
  PROVE  /\ IsFiniteSet(Untried(a)) /\ IsFiniteSet(Uncounted(a)) /\ IsFiniteSet(Users(a))
         /\ Cardinality(Untried(a)) \in Nat /\ Cardinality(Uncounted(a)) \in Nat
         /\ Cardinality(Users(a)) \in Nat
         /\ Cardinality(Users(a)) = Cardinality(Untried(a)) + Cardinality(Uncounted(a))
         /\ \A w \in Senders : Holds(w, a) => Cardinality(Users(a)) >= 1
<1>1. /\ Untried(a) \subseteq Senders /\ Uncounted(a) \subseteq Senders
      /\ Users(a) = Untried(a) \cup Uncounted(a) /\ Untried(a) \cap Uncounted(a) = {}
  BY DEF Untried, Uncounted, Users, PoolInv, PCs
<1>2. IsFiniteSet(Untried(a)) /\ IsFiniteSet(Uncounted(a))
  BY <1>1, SenderPoolAssumption, FS_Subset
<1>3. Cardinality(Untried(a)) \in Nat /\ Cardinality(Uncounted(a)) \in Nat
  BY <1>2, FS_CardinalityType
<1>4. /\ IsFiniteSet(Users(a))
      /\ Cardinality(Users(a)) = Cardinality(Untried(a)) + Cardinality(Uncounted(a))
  <2>1. /\ IsFiniteSet(Untried(a) \cup Uncounted(a))
        /\ Cardinality(Untried(a) \cup Uncounted(a))
             = Cardinality(Untried(a)) + Cardinality(Uncounted(a)) - Cardinality({})
    BY <1>1, <1>2, FS_Union
  <2> QED
    BY <1>1, <1>3, <2>1, FS_EmptySet
<1>5. ASSUME NEW w \in Senders, Holds(w, a)  PROVE Cardinality(Users(a)) >= 1
  <2>1. Users(a) # {}
    BY <1>5 DEF Users, Holds
  <2> QED
    BY <1>3, <1>4, <2>1, FS_EmptySet
<1> QED
  BY <1>2, <1>3, <1>4, <1>5

\* A step of one worker adds it to the workers of a kind or takes it away.
LEMMA OneWorkerMoves ==
  ASSUME PoolInv, NEW w \in Senders, NEW a \in Accounts,
         \A v \in Senders \ {w} : pc'[v] = pc[v] /\ acct'[v] = acct[v]
  PROVE  /\ Cardinality(Untried(a)') = Cardinality(Untried(a))
               + One(pc'[w] = "picked" /\ acct'[w] = a) - One(pc[w] = "picked" /\ acct[w] = a)
         /\ Cardinality(Uncounted(a)') = Cardinality(Uncounted(a))
               + One(pc'[w] \in {"accepted", "failed"} /\ acct'[w] = a)
               - One(pc[w] \in {"accepted", "failed"} /\ acct[w] = a)
<1>1. Untried(a) \ {w} = Untried(a)' \ {w} /\ Uncounted(a) \ {w} = Uncounted(a)' \ {w}
  BY DEF Untried, Uncounted
<1>2. IsFiniteSet(Untried(a)) /\ IsFiniteSet(Uncounted(a))
  BY UsersAreTwoKinds
<1>3. /\ Cardinality(Untried(a)')
           = Cardinality(Untried(a)) + One(w \in Untried(a)') - One(w \in Untried(a))
      /\ Cardinality(Uncounted(a)')
           = Cardinality(Uncounted(a)) + One(w \in Uncounted(a)') - One(w \in Uncounted(a))
  BY <1>1, <1>2, OneElement
<1>4. /\ w \in Untried(a)' <=> pc'[w] = "picked" /\ acct'[w] = a
      /\ w \in Untried(a) <=> pc[w] = "picked" /\ acct[w] = a
      /\ w \in Uncounted(a)' <=> pc'[w] \in {"accepted", "failed"} /\ acct'[w] = a
      /\ w \in Uncounted(a) <=> pc[w] \in {"accepted", "failed"} /\ acct[w] = a
  BY DEF Untried, Uncounted
<1> QED
  BY <1>3, <1>4

\* A pick of an account that others use adds them to the excess.
LEMMA PickVolume ==
  ASSUME VolumeInv, NEW w \in Senders, NEW a \in Accounts, Pick(w, a), NEW b \in Accounts
  PROVE  VolumeOf(b)' /\ excess'[b] \in Nat
<1>1. /\ pc[w] = "idle" /\ pc'[w] = "picked" /\ acct'[w] = a /\ seen'[w] = sent[a]
      /\ \A v \in Senders \ {w} : pc'[v] = pc[v] /\ acct'[v] = acct[v] /\ seen'[v] = seen[v]
      /\ UNCHANGED <<sent, limit, today>> /\ sent[a] < limit[a]
      /\ excess' = [excess EXCEPT ![a] = @ + Cardinality(Users(a))]
  BY DEF Pick, Healthy, Candidate, counters, ramp, VolumeInv, PoolInv
<1> DEFINE N == Cardinality(Untried(b))
           A == Cardinality(Uncounted(b))
<1>2. N \in Nat /\ A \in Nat /\ Cardinality(Users(b)) = N + A
      /\ \A v \in Senders : Holds(v, b) => N + A >= 1
  BY UsersAreTwoKinds DEF VolumeInv
<1>3. Cardinality(Untried(b)') = N + One(a = b) /\ Cardinality(Uncounted(b)') = A
  <2>1. /\ Cardinality(Untried(b)') = N + One(pc'[w] = "picked" /\ acct'[w] = b)
                                        - One(pc[w] = "picked" /\ acct[w] = b)
        /\ Cardinality(Uncounted(b)') = A
             + One(pc'[w] \in {"accepted", "failed"} /\ acct'[w] = b)
             - One(pc[w] \in {"accepted", "failed"} /\ acct[w] = b)
    BY <1>1, OneWorkerMoves DEF VolumeInv
  <2> HIDE DEF N, A
  <2> QED
    BY <1>1, <1>2, <2>1 DEF One
<1>4. /\ sent[b] \in Nat /\ limit[b] \in Nat /\ today[b] \in Nat /\ excess[b] \in Nat
      /\ \A v \in Senders : seen[v] \in Nat
  BY DEF VolumeInv, PoolInv
<1>5. excess'[b] = IF a = b THEN excess[b] + N + A ELSE excess[b]
  BY <1>1, <1>2, <1>4 DEF VolumeInv
<1>6. /\ today[b] <= sent[b] + A + excess[b] /\ today[b] + N <= limit[b] + excess[b]
      /\ \A v \in Senders : Holds(v, b) => today[b] + N <= seen[v] + 1 + excess[b]
  BY DEF VolumeInv, VolumeOf
<1>7. \A v \in Senders \ {w} : Holds(v, b)' <=> Holds(v, b)
  BY <1>1 DEF Holds
<1>8. Holds(w, b)' => a = b
  BY <1>1 DEF Holds
<1>9. today'[b] <= sent'[b] + Cardinality(Uncounted(b)') + excess'[b]
  <2> HIDE DEF N, A
  <2> QED
    BY <1>1, <1>2, <1>3, <1>4, <1>5, <1>6
<1>10. today'[b] + Cardinality(Untried(b)') <= limit'[b] + excess'[b]
  <2> HIDE DEF N, A
  <2> QED
    BY <1>1, <1>2, <1>3, <1>4, <1>5, <1>6 DEF One
<1>11. ASSUME NEW v \in Senders, Holds(v, b)'
       PROVE  today'[b] + Cardinality(Untried(b)') <= seen'[v] + 1 + excess'[b]
  <2> HIDE DEF N, A
  <2>1. CASE v = w
    BY <1>1, <1>2, <1>3, <1>4, <1>5, <1>6, <1>8, <1>11, <2>1 DEF One
  <2>2. CASE v # w
    <3>1. /\ today[b] + N <= seen[v] + 1 + excess[b] /\ N + A >= 1 /\ seen[v] \in Nat
          /\ seen'[v] = seen[v]
      BY <1>1, <1>2, <1>4, <1>6, <1>7, <1>11, <2>2
    <3> QED
      BY <1>1, <1>2, <1>3, <1>4, <1>5, <3>1 DEF One
  <2> QED
    BY <2>1, <2>2
<1> QED
  <2>1. excess'[b] \in Nat
    <3> HIDE DEF N, A
    <3> QED BY <1>2, <1>4, <1>5
  <2> QED BY <1>9, <1>10, <1>11, <2>1 DEF VolumeOf

\* An attempt goes from what is still to come to what was tried, a second email of
\* the same call into the excess; a worker that is lost takes its attempt with it.
LEMMA WorkerVolume ==
  ASSUME VolumeInv, NEW w \in Senders, NEW b \in Accounts,
         \/ Deliver(w) \/ Resend(w) \/ WorkerCrash(w)
         \/ \E trips \in BOOLEAN : Fail(w, trips)
  PROVE  VolumeOf(b)' /\ today'[b] \in Nat /\ excess'[b] \in Nat
<1> DEFINE N == Cardinality(Untried(b))
           A == Cardinality(Uncounted(b))
           mine == acct[w] = b
<1>0. /\ pc[w] \in {"picked", "accepted", "failed"} /\ acct[w] \in Accounts
      /\ (pc[w] = "picked" \/ WorkerCrash(w))
      /\ today \in [Accounts -> Nat] /\ excess \in [Accounts -> Nat]
  BY DEF Deliver, Resend, Fail, WorkerCrash, VolumeInv, PoolInv, PCs, HeldIsAllowed
<1>1. /\ UNCHANGED <<sent, limit>>
      /\ \A v \in Senders \ {w} : pc'[v] = pc[v] /\ acct'[v] = acct[v] /\ seen'[v] = seen[v]
      /\ (pc'[w] = "idle" \/ (acct'[w] = acct[w] /\ seen'[w] = seen[w]))
  BY DEF Deliver, Resend, Fail, WorkerCrash, Finish, workers, counters, ramp, VolumeInv, PoolInv
<1>2. N \in Nat /\ A \in Nat /\ (mine /\ pc[w] = "picked" => N >= 1)
      /\ (mine /\ pc[w] # "picked" => A >= 1)
  <2>1. IsFiniteSet(Untried(b)) /\ IsFiniteSet(Uncounted(b)) /\ N \in Nat /\ A \in Nat
    BY UsersAreTwoKinds DEF VolumeInv
  <2>2. (mine /\ pc[w] = "picked" => Untried(b) # {})
        /\ (mine /\ pc[w] # "picked" => Uncounted(b) # {})
    BY <1>0 DEF Untried, Uncounted
  <2>3. (Untried(b) # {} => N # 0) /\ (Uncounted(b) # {} => A # 0)
    BY <2>1, FS_EmptySet
  <2> HIDE DEF N, A
  <2> QED
    BY <2>1, <2>2, <2>3
<1>3. /\ Cardinality(Untried(b)') = N + One(pc'[w] = "picked" /\ acct'[w] = b)
                                      - One(pc[w] = "picked" /\ mine)
      /\ Cardinality(Uncounted(b)') = A + One(pc'[w] \in {"accepted", "failed"} /\ acct'[w] = b)
                                        - One(pc[w] \in {"accepted", "failed"} /\ mine)
  BY <1>1, OneWorkerMoves DEF VolumeInv
<1>4. /\ sent[b] \in Nat /\ limit[b] \in Nat /\ today[b] \in Nat /\ excess[b] \in Nat
      /\ \A v \in Senders : seen[v] \in Nat
  BY DEF VolumeInv, PoolInv
<1>6. /\ today[b] <= sent[b] + A + excess[b] /\ today[b] + N <= limit[b] + excess[b]
      /\ \A v \in Senders : Holds(v, b) => today[b] + N <= seen[v] + 1 + excess[b]
  BY DEF VolumeInv, VolumeOf
<1>7. /\ \A v \in Senders : Holds(v, b)' => Holds(v, b) /\ seen'[v] = seen[v]
  BY <1>0, <1>1 DEF Holds
<1>8. \* what the step does to the account
      \/ /\ pc[w] = "picked" /\ pc'[w] \in {"accepted", "failed"} /\ acct'[w] = acct[w]
         /\ today'[b] = (IF mine THEN today[b] + 1 ELSE today[b]) /\ excess'[b] = excess[b]
      \/ /\ pc[w] = "picked" /\ pc'[w] = "picked" /\ acct'[w] = acct[w]
         /\ today'[b] = (IF mine THEN today[b] + 1 ELSE today[b])
         /\ excess'[b] = IF mine THEN excess[b] + 1 ELSE excess[b]
      \/ /\ pc[w] = "picked" /\ pc'[w] = "idle" /\ today'[b] = today[b] /\ excess'[b] = excess[b]
      \/ /\ pc[w] # "picked" /\ pc'[w] = "idle" /\ today'[b] = today[b]
         /\ excess'[b] = IF mine THEN excess[b] + 1 ELSE excess[b]
  <2>1. CASE Deliver(w) \/ \E trips \in BOOLEAN : Fail(w, trips)
    BY <1>0, <2>1 DEF Deliver, Fail, VolumeInv, PoolInv
  <2>2. CASE Resend(w)
    BY <1>0, <2>2 DEF Resend, workers
  <2>3. CASE WorkerCrash(w)
    BY <1>0, <2>3 DEF WorkerCrash, Finish, VolumeInv, PoolInv
  <2> QED
    BY <2>1, <2>2, <2>3
<1> HIDE DEF N, A, mine
<1>9. /\ today'[b] \in Nat /\ excess'[b] \in Nat
      /\ today'[b] <= sent[b] + Cardinality(Uncounted(b)') + excess'[b]
      /\ today'[b] + Cardinality(Untried(b)') - excess'[b] <= today[b] + N - excess[b]
      /\ Cardinality(Untried(b)') \in Int
  <2>1. pc'[w] # "idle" => (acct'[w] = b <=> mine)
    BY <1>8 DEF mine
  <2> QED
    BY <1>0, <1>2, <1>3, <1>4, <1>6, <1>8, <2>1 DEF One
<1>10. ASSUME NEW v \in Senders, Holds(v, b)'
       PROVE  today'[b] + Cardinality(Untried(b)') <= seen'[v] + 1 + excess'[b]
  <2>1. today[b] + N <= seen[v] + 1 + excess[b] /\ seen'[v] = seen[v] /\ seen[v] \in Nat
    BY <1>4, <1>6, <1>7, <1>10
  <2> QED
    BY <1>2, <1>4, <1>9, <2>1
<1>11. today'[b] + Cardinality(Untried(b)') <= limit[b] + excess'[b]
  BY <1>2, <1>4, <1>6, <1>9
<1> QED
  BY <1>1, <1>9, <1>10, <1>11 DEF VolumeOf

\* A worker writes back at least what the account sent, less the excess.
LEMMA CommitVolume ==
  ASSUME VolumeInv, NEW w \in Senders, NEW b \in Accounts, CommitUsage(w) \/ CommitFailure(w)
  PROVE  VolumeOf(b)'
<1> DEFINE N == Cardinality(Untried(b))
           A == Cardinality(Uncounted(b))
<1>1. /\ pc[w] \in {"accepted", "failed"} /\ acct[w] \in Accounts /\ pc'[w] = "idle"
      /\ \A v \in Senders \ {w} : pc'[v] = pc[v] /\ acct'[v] = acct[v] /\ seen'[v] = seen[v]
      /\ UNCHANGED <<limit, today, excess>>
      /\ sent' = [sent EXCEPT ![acct[w]] = seen[w] + 1]
  BY DEF CommitUsage, CommitFailure, Finish, ramp, day, VolumeInv, PoolInv, PCs, HeldIsAllowed
<1>2. N \in Nat /\ A \in Nat /\ (acct[w] = b => A >= 1)
  <2>1. IsFiniteSet(Uncounted(b)) /\ N \in Nat /\ A \in Nat
    BY UsersAreTwoKinds DEF VolumeInv
  <2>2. acct[w] = b => Uncounted(b) # {}
    BY <1>1 DEF Uncounted
  <2>3. Uncounted(b) # {} => A # 0
    BY <2>1, FS_EmptySet
  <2> HIDE DEF N, A
  <2> QED
    BY <2>1, <2>2, <2>3
<1>3. /\ Cardinality(Untried(b)') = N
      /\ Cardinality(Uncounted(b)') = A - One(acct[w] = b)
  <2>1. /\ Cardinality(Untried(b)') = N + One(FALSE) - One(FALSE)
        /\ Cardinality(Uncounted(b)') = A + One(FALSE) - One(acct[w] = b)
    BY <1>1, OneWorkerMoves DEF VolumeInv
  <2> QED
    BY <1>2, <2>1 DEF One
<1>4. /\ sent[b] \in Nat /\ limit[b] \in Nat /\ today[b] \in Nat /\ excess[b] \in Nat
      /\ \A v \in Senders : seen[v] \in Nat
  BY DEF VolumeInv, PoolInv
<1>5. sent'[b] = IF acct[w] = b THEN seen[w] + 1 ELSE sent[b]
  BY <1>1 DEF VolumeInv, PoolInv
<1>6. /\ today[b] <= sent[b] + A + excess[b] /\ today[b] + N <= limit[b] + excess[b]
      /\ \A v \in Senders : Holds(v, b) => today[b] + N <= seen[v] + 1 + excess[b]
  BY DEF VolumeInv, VolumeOf
<1>7. acct[w] = b => Holds(w, b)
  BY <1>1 DEF Holds
<1>8. \A v \in Senders : Holds(v, b)' => Holds(v, b) /\ seen'[v] = seen[v]
  BY <1>1 DEF Holds
<1> HIDE DEF N, A
<1>9. today'[b] <= sent'[b] + Cardinality(Uncounted(b)') + excess'[b]
  BY <1>1, <1>2, <1>3, <1>4, <1>5, <1>6, <1>7 DEF One
<1> QED
  BY <1>1, <1>3, <1>6, <1>8, <1>9 DEF VolumeOf

\* A new day starts with nothing sent, and with room for one of the workers that
\* are still at it.
LEMMA WarmupVolume ==
  ASSUME VolumeInv, AdvanceWarmup, NEW b \in Accounts
  PROVE  VolumeOf(b)' /\ today'[b] \in Nat /\ excess'[b] \in Nat
<1> DEFINE N == Cardinality(Untried(b))
           A == Cardinality(Uncounted(b))
<1>1. /\ UNCHANGED <<pc, acct, seen>> /\ sent'[b] = 0 /\ today'[b] = 0
      /\ excess'[b] = IF Users(b) = {} THEN 0 ELSE Cardinality(Users(b)) - 1
  BY DEF AdvanceWarmup, StartDay, workers
<1>2. /\ N \in Nat /\ A \in Nat /\ Cardinality(Users(b)) = N + A
      /\ IsFiniteSet(Users(b))
      /\ \A v \in Senders : Holds(v, b) => N + A >= 1
  BY UsersAreTwoKinds DEF VolumeInv
<1>3. Untried(b)' = Untried(b) /\ Uncounted(b)' = Uncounted(b)
      /\ \A v \in Senders : Holds(v, b)' <=> Holds(v, b)
  BY <1>1 DEF Untried, Uncounted, Holds
<1>4. limit'[b] \in Nat \ {0}
  <2>1. PoolInv'
    BY WarmupKeeps DEF VolumeInv
  <2>2. limit'[b] = StageLimit(b, stage'[b]) /\ stage'[b] \in 0..LastStage
    BY <2>1 DEF PoolInv, LimitIsItsStages
  <2> QED
    BY <2>2, SenderPoolAssumption DEF StageLimit
<1>5. excess'[b] \in Nat /\ (Users(b) = {} <=> N + A = 0)
      /\ (N + A = 0 => excess'[b] = 0) /\ (N + A # 0 => excess'[b] = N + A - 1)
  <2>1. Users(b) = {} <=> Cardinality(Users(b)) = 0
    BY <1>2, FS_EmptySet
  <2> HIDE DEF N, A
  <2> QED
    BY <1>1, <1>2, <2>1
<1>6. \A v \in Senders : seen'[v] \in Nat
  BY <1>1 DEF VolumeInv, PoolInv
<1>7. Cardinality(Untried(b)') = N /\ Cardinality(Uncounted(b)') = A
  BY <1>3
<1> HIDE DEF N, A
<1>8. today'[b] + Cardinality(Untried(b)') <= limit'[b] + excess'[b]
  BY <1>1, <1>2, <1>4, <1>5, <1>7
<1>9. ASSUME NEW v \in Senders, Holds(v, b)'
      PROVE  today'[b] + Cardinality(Untried(b)') <= seen'[v] + 1 + excess'[b]
  BY <1>1, <1>2, <1>3, <1>5, <1>6, <1>7, <1>9
<1>10. today'[b] <= sent'[b] + Cardinality(Uncounted(b)') + excess'[b]
  BY <1>1, <1>2, <1>5, <1>7
<1> QED
  BY <1>1, <1>5, <1>8, <1>9, <1>10 DEF VolumeOf

LEMMA InitVolume == Init => VolumeInv
<1> SUFFICES ASSUME Init  PROVE VolumeInv
  OBVIOUS
<1>1. PoolInv
  BY InitPool
<1>2. ASSUME NEW a \in Accounts  PROVE VolumeOf(a)
  <2>1. /\ sent[a] = 0 /\ today[a] = 0 /\ excess[a] = 0 /\ limit[a] \in Nat
        /\ Untried(a) = {} /\ Uncounted(a) = {} /\ \A w \in Senders : ~Holds(w, a)
    BY SenderPoolAssumption DEF Init, Untried, Uncounted, Holds
  <2> QED
    BY <2>1, FS_EmptySet DEF VolumeOf
<1> QED
  BY <1>1, <1>2 DEF VolumeInv, Init

\* Every step explains its volume.
LEMMA NextVolume == VolumeInv /\ [Next]_vars => VolumeInv'
<1> SUFFICES ASSUME VolumeInv, [Next]_vars  PROVE VolumeInv'
  OBVIOUS
<1>1. PoolInv'
  BY NextPool DEF VolumeInv
<1>2. ASSUME NEW w \in Senders, NEW a \in Accounts, Pick(w, a)  PROVE VolumeInv'
  <2>1. UNCHANGED today /\ excess' = [b \in Accounts |-> excess'[b]]
    BY <1>2 DEF Pick, VolumeInv
  <2>2. excess' \in [Accounts -> Nat] /\ \A b \in Accounts : VolumeOf(b)'
    BY <1>2, <2>1, PickVolume
  <2> QED
    BY <1>1, <2>1, <2>2 DEF VolumeInv
<1>3. ASSUME NEW w \in Senders, \/ Deliver(w) \/ Resend(w) \/ WorkerCrash(w)
                                \/ \E trips \in BOOLEAN : Fail(w, trips)
      PROVE  VolumeInv'
  <2>1. today' = [b \in Accounts |-> today'[b]] /\ excess' = [b \in Accounts |-> excess'[b]]
    BY <1>3 DEF Deliver, Resend, Fail, WorkerCrash, VolumeInv
  <2>2. /\ today' \in [Accounts -> Nat] /\ excess' \in [Accounts -> Nat]
        /\ \A b \in Accounts : VolumeOf(b)'
    BY <1>3, <2>1, WorkerVolume
  <2> QED
    BY <1>1, <2>2 DEF VolumeInv
<1>4. ASSUME NEW w \in Senders, CommitUsage(w) \/ CommitFailure(w)  PROVE VolumeInv'
  <2>1. UNCHANGED <<today, excess>>
    BY <1>4 DEF CommitUsage, CommitFailure, day
  <2> QED
    BY <1>1, <1>4, <2>1, CommitVolume DEF VolumeInv
<1>5. CASE AdvanceWarmup
  <2>1. today' = [b \in Accounts |-> today'[b]] /\ excess' = [b \in Accounts |-> excess'[b]]
    BY <1>5 DEF AdvanceWarmup, StartDay
  <2>2. /\ today' \in [Accounts -> Nat] /\ excess' \in [Accounts -> Nat]
        /\ \A b \in Accounts : VolumeOf(b)'
    BY <1>5, <2>1, WarmupVolume
  <2> QED
    BY <1>1, <2>2 DEF VolumeInv
<1>6. \* nobody sends and nobody counts
      ASSUME UNCHANGED <<sent, limit, pc, acct, seen, today, excess>>
      PROVE  VolumeInv'
  BY <1>1, <1>6 DEF VolumeInv, VolumeOf, Untried, Uncounted, Holds
<1>7. ASSUME \/ \E w \in Senders, a \in Accounts : Recover(w, a)
             \/ \E a \in Accounts, kind \in Kinds : LoadReport(a, kind)
             \/ \E r \in reports : CommitReport(r)
             \/ \E a \in Accounts : PauseSender(a) \/ UnpauseSender(a)
             \/ UNCHANGED vars
      PROVE  UNCHANGED <<sent, limit, pc, acct, seen, today, excess>>
  BY <1>7 DEF Recover, LoadReport, CommitReport, PauseSender, UnpauseSender, counters, ramp,
     workers, day, vars
<1> QED
  BY <1>2, <1>3, <1>4, <1>5, <1>6, <1>7 DEF Next, SenderStep

\* However many workers share an account, whatever fails, is paused or starts a new
\* day: a day's sends above the limit are explained by picks of an account in use,
\* calls that sent twice and workers that died.  A single worker that none of this
\* happens to keeps the daily limit.
THEOREM VolumeExplained == Spec => []VolumeIsExplained
<1>1. ASSUME VolumeInv  PROVE VolumeIsExplained
  <2> SUFFICES ASSUME NEW a \in Accounts  PROVE today[a] <= limit[a] + excess[a]
    BY DEF VolumeIsExplained
  <2>1. today[a] + Cardinality(Untried(a)) <= limit[a] + excess[a]
        /\ Cardinality(Untried(a)) \in Nat
    BY <1>1, UsersAreTwoKinds DEF VolumeInv, VolumeOf
  <2>2. today[a] \in Nat /\ limit[a] \in Nat /\ excess[a] \in Nat
    BY <1>1 DEF VolumeInv, PoolInv
  <2> QED
    BY <2>1, <2>2
<1> QED
  BY <1>1, InitVolume, NextVolume, PTL DEF Spec
=============================================================================
