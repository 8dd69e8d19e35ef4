----------------------------- MODULE SenderPool -----------------------------
(***************************************************************************)
(* The pool of sender accounts: workers pick the least recently used       *)
(* healthy account, send, and write its counters back; bounce and spam     *)
(* reports pause it; the daily warm-up task raises its limit and clears    *)
(* its counters (app/services/sender_rotation.py, app/services/warmup.py,  *)
(* app/routers/tracking.py, app/routers/senders.py).                       *)
(*                                                                         *)
(* A worker adds one to the sent_count it read when it picked the account, *)
(* and a report adds one to the counts it loaded: reading and writing are  *)
(* two steps.  The warm-up task and the admin's handlers wait for nothing  *)
(* between the two and are one step.  What happens inside a breaker is     *)
(* CircuitBreaker's: here it trips after a failure and recovers some time. *)
(***************************************************************************)
EXTENDS Integers, FiniteSets

CONSTANTS Accounts,
          ApiAccounts,     \* those of Instantly and Smartlead
          Senders,         \* worker processes
          LastStage,
          Target,          \* Target[i]: daily limit of warm-up stage i
          InitialLimit,    \* InitialLimit[a]: the daily_limit it is created with, that
                           \* of stage 0 or one of its own
          WarmupEnabled,
          MinSample,       \* bounce_rate_min_sample
          BounceRate,      \* <<n, d>>: pause at n bounces in d emails
          ComplaintRate,   \* the same for spam complaints
          Budget           \* how many disturbances of each kind there are

Disturbances == {"report", "trip", "pause", "crash", "resend"}

ASSUME SenderPoolAssumption ==
  /\ IsFiniteSet(Accounts) /\ IsFiniteSet(Senders)
  /\ ApiAccounts \subseteq Accounts
  /\ LastStage \in Nat
  /\ Target \in [0..LastStage -> Nat \ {0}]
  /\ InitialLimit \in [Accounts -> Nat \ {0}]
  /\ WarmupEnabled \in BOOLEAN
  /\ MinSample \in Nat
  /\ BounceRate \in (Nat \ {0}) \X (Nat \ {0})
  /\ ComplaintRate \in (Nat \ {0}) \X (Nat \ {0})
  /\ Budget \in [Disturbances -> Nat]

VARIABLES
  sent, bounced, complained,  \* counters of the account since the last reset
  limit,                      \* daily_limit
  stage, warm,                \* warmup_stage, accounts with warmup_complete
  paused,                     \* accounts with is_paused
  lru,                        \* the accounts by last_used_at, oldest first
  pc, acct,                   \* per worker: where it is, the account it picked
  seen,                       \* seen[w]: sent_count when it picked
  tripped,                    \* pairs <<w, a>>: breakers open in process w
  reports,                    \* reports loaded and not yet committed
  budget,                     \* disturbances left
  served,                     \* history: accounts some email names as sender
  today,                      \* history: attempted sends since the reset
  excess,                     \* history: what can hide one of them from the limit
  skipped,                    \* history: picks that passed over an account
  late                        \* history: workers that picked before the pause

counters == <<sent, bounced, complained>>
ramp == <<limit, stage, warm>>
workers == <<pc, acct, seen>>
day == <<today, excess>>
vars == <<sent, bounced, complained, limit, stage, warm, paused, lru, pc, acct, seen,
          tripped, reports, budget, served, today, excess, skipped, late>>

PCs == {"idle", "picked", "accepted", "failed"}
NoAccount == "none"
Kinds == {"bounce", "complaint"}
Reports == [id : Nat, acct : Accounts, kind : Kinds, sent : Nat, bounced : Nat, complained : Nat,
            paused : BOOLEAN]

Orders ==
  {o \in [1..Cardinality(Accounts) -> Accounts] :
     \A i, j \in 1..Cardinality(Accounts) : o[i] = o[j] => i = j}

TypeOK ==
  /\ sent \in [Accounts -> Nat]
  /\ bounced \in [Accounts -> Nat]
  /\ complained \in [Accounts -> Nat]
  /\ limit \in [Accounts -> Nat]
  /\ stage \in [Accounts -> 0..LastStage]
  /\ warm \in SUBSET Accounts
  /\ paused \in SUBSET Accounts
  /\ lru \in Orders
  /\ pc \in [Senders -> PCs]
  /\ acct \in [Senders -> Accounts \cup {NoAccount}]
  /\ seen \in [Senders -> Nat]
  /\ tripped \in SUBSET (Senders \X Accounts)
  /\ \A r \in reports : r \in Reports
  /\ budget \in [Disturbances -> Nat]
  /\ served \in SUBSET Accounts
  /\ today \in [Accounts -> Nat]
  /\ excess \in [Accounts -> Nat]
  /\ skipped \in [Accounts -> Nat]
  /\ late \in SUBSET Senders

Init ==
  /\ sent = [a \in Accounts |-> 0]
  /\ bounced = [a \in Accounts |-> 0]
  /\ complained = [a \in Accounts |-> 0]
  /\ limit = InitialLimit
  /\ stage = [a \in Accounts |-> 0]
  /\ warm = {}
  /\ paused = {}
  /\ lru \in Orders
  /\ pc = [w \in Senders |-> "idle"]
  /\ acct = [w \in Senders |-> NoAccount]
  /\ seen = [w \in Senders |-> 0]
  /\ tripped = {}
  /\ reports = {}
  /\ budget = Budget
  /\ served = {}
  /\ today = [a \in Accounts |-> 0]
  /\ excess = [a \in Accounts |-> 0]
  /\ skipped = [a \in Accounts |-> 0]
  /\ late = {}

Spend(kind) ==
  /\ budget[kind] > 0
  /\ budget' = [budget EXCEPT ![kind] = @ - 1]

-----------------------------------------------------------------------------
(* Slips the properties have to catch: each is an operation further down    *)
(* with one plausible mistake.  No specification uses them; PROJECT.json    *)
(* pairs each with its property.                                            *)

\* sent_count <= daily_limit, or no look at is_paused.
CandidateAtLimit(a) == a \notin paused /\ sent[a] <= limit[a]

CandidatePaused(a) == sent[a] < limit[a]

-----------------------------------------------------------------------------
(* What the operations are made of.                                         *)

\* The row is a candidate, and the breaker the pool looks up is not open.  The
\* calls of an API account go through a breaker of another name, so the one
\* looked up here never opens.
Candidate(a) == a \notin paused /\ sent[a] < limit[a]

LooksOpen(w, a) == a \notin ApiAccounts /\ <<w, a>> \in tripped

Healthy(w, a) == Candidate(a) /\ ~LooksOpen(w, a)

Older(a, b) == \E i, j \in DOMAIN lru : i < j /\ lru[i] = a /\ lru[j] = b

\* last_used_at = now: a goes to the end, those that were behind it move up.
Touch(a) ==
  \E i \in DOMAIN lru :
    /\ lru[i] = a
    /\ lru' = [j \in DOMAIN lru |-> IF j < i THEN lru[j]
                                  ELSE IF j < Cardinality(Accounts) THEN lru[j + 1]
                                  ELSE a]

Finish(w) ==
  /\ pc' = [pc EXCEPT ![w] = "idle"]
  /\ acct' = [acct EXCEPT ![w] = NoAccount]
  /\ seen' = [seen EXCEPT ![w] = 0]
  /\ late' = late \ {w}

\* A rate over its threshold; with nothing sent every rate is 0.
AtRate(rate, count, total) == total > 0 /\ count * rate[2] >= rate[1] * total

\* The workers that have picked the account and not counted it yet.
Users(a) == {w \in Senders : pc[w] # "idle" /\ acct[w] = a}

\* A new day; of several workers that send through an account across the reset,
\* each after the first can be lost from the count.
StartDay ==
  /\ today' = [a \in Accounts |-> 0]
  /\ excess' = [a \in Accounts |-> IF Users(a) = {} THEN 0 ELSE Cardinality(Users(a)) - 1]

\* _maybe_auto_pause, from the counts the caller holds.
OverThreshold(total, bounces, complaints) ==
  /\ total >= MinSample
  /\ AtRate(BounceRate, bounces, total) \/ AtRate(ComplaintRate, complaints, total)

NextStage(a) == IF stage[a] < LastStage THEN stage[a] + 1 ELSE stage[a]

MarkPaused(a) ==
  /\ paused' = paused \cup {a}
  /\ late' = late \cup {w \in Senders : acct[w] = a}

-----------------------------------------------------------------------------
(* A slip in one operation.                                                 *)

\* A failed attempt does not move last_used_at.
CommitFailureUntouched(w) ==
  /\ pc[w] = "failed"
  /\ sent' = [sent EXCEPT ![acct[w]] = seen[w] + 1]
  /\ Finish(w)
  /\ UNCHANGED <<bounced, complained, ramp, paused, lru, tripped, reports, budget,
                 served, day, skipped>>

-----------------------------------------------------------------------------
(* _pick_account and send_via_rotation.                                     *)

Pick(w, a) ==
  /\ pc[w] = "idle"
  /\ Healthy(w, a)
  /\ \A b \in Accounts : Older(b, a) => ~Healthy(w, b)
  /\ pc' = [pc EXCEPT ![w] = "picked"]
  /\ acct' = [acct EXCEPT ![w] = a]
  /\ seen' = [seen EXCEPT ![w] = sent[a]]
  /\ skipped' = [b \in Accounts |-> IF b = a THEN 0
                                    ELSE IF Healthy(w, b) THEN skipped[b] + 1
                                    ELSE skipped[b]]
  /\ excess' = [excess EXCEPT ![a] = @ + Cardinality(Users(a))]
  /\ UNCHANGED <<counters, ramp, paused, lru, tripped, reports, budget, served,
                 today, late>>

Deliver(w) ==
  /\ pc[w] = "picked"
  /\ <<w, acct[w]>> \notin tripped
  /\ pc' = [pc EXCEPT ![w] = "accepted"]
  /\ today' = [today EXCEPT ![acct[w]] = @ + 1]
  /\ UNCHANGED <<counters, ramp, paused, lru, acct, seen, tripped, reports, budget,
                 served, excess, skipped, late>>

\* The provider takes the email, but the attempt ends in an error that is tried
\* again (the answer of an API sender times out, QUIT answered with 421): one call of
\* send_via_rotation sends it twice.
Resend(w) ==
  /\ pc[w] = "picked"
  /\ <<w, acct[w]>> \notin tripped
  /\ Spend("resend")
  /\ today' = [today EXCEPT ![acct[w]] = @ + 1]
  /\ excess' = [excess EXCEPT ![acct[w]] = @ + 1]
  /\ UNCHANGED <<counters, ramp, paused, lru, workers, tripped, reports, served, skipped,
                 late>>

\* The call fails, perhaps after the provider has taken the email, and may be the
\* one that trips the breaker; an open breaker fails it before it starts.
Fail(w, trips) ==
  /\ pc[w] = "picked"
  /\ pc' = [pc EXCEPT ![w] = "failed"]
  /\ today' = [today EXCEPT ![acct[w]] = @ + 1]
  /\ IF trips THEN Spend("trip") /\ tripped' = tripped \cup {<<w, acct[w]>>}
              ELSE UNCHANGED <<tripped, budget>>
  /\ UNCHANGED <<counters, ramp, paused, lru, acct, seen, reports, served,
                 excess, skipped, late>>

\* An attempt counts toward the daily volume even if it failed.
CommitFailure(w) ==
  /\ pc[w] = "failed"
  /\ sent' = [sent EXCEPT ![acct[w]] = seen[w] + 1]
  /\ Touch(acct[w])
  /\ skipped' = [skipped EXCEPT ![acct[w]] = 0]
  /\ Finish(w)
  /\ UNCHANGED <<bounced, complained, ramp, paused, tripped, reports, budget, served,
                 day>>

\* With the usage the message gets its sender account.
CommitUsage(w) ==
  /\ pc[w] = "accepted"
  /\ sent' = [sent EXCEPT ![acct[w]] = seen[w] + 1]
  /\ Touch(acct[w])
  /\ skipped' = [skipped EXCEPT ![acct[w]] = 0]
  /\ served' = served \cup {acct[w]}
  /\ Finish(w)
  /\ UNCHANGED <<bounced, complained, ramp, paused, tripped, reports, budget, day>>

\* A process that is lost forgets its breakers with what it was doing; an email
\* it had handed over, or a call that had failed, is not counted.
WorkerCrash(w) ==
  /\ pc[w] # "idle"
  /\ Spend("crash")
  /\ tripped' = {t \in tripped : t[1] # w}
  /\ excess' = IF pc[w] = "picked" THEN excess ELSE [excess EXCEPT ![acct[w]] = @ + 1]
  /\ Finish(w)
  /\ UNCHANGED <<counters, ramp, paused, lru, reports, served, today, skipped>>

\* The recovery timeout of a breaker is over.
Recover(w, a) ==
  /\ <<w, a>> \in tripped
  /\ pc[w] = "idle"
  /\ tripped' = tripped \ {<<w, a>>}
  /\ UNCHANGED <<counters, ramp, paused, lru, workers, reports, budget, served,
                 day, skipped, late>>

-----------------------------------------------------------------------------
(* Reports, the admin, the daily task.                                      *)

\* A report names a message with a sender account; the same message can be
\* reported again.
LoadReport(a, kind) ==
  /\ a \in served
  /\ Spend("report")
  /\ reports' = reports \cup
       {[id |-> budget["report"], acct |-> a, kind |-> kind, sent |-> sent[a], bounced |-> bounced[a],
         complained |-> complained[a], paused |-> a \in paused]}
  /\ UNCHANGED <<counters, ramp, paused, lru, workers, tripped, served,
                 day, skipped, late>>

\* The count it names is written, and the pause decided, from what was loaded.
CommitReport(r) ==
  LET bounces == IF r.kind = "bounce" THEN r.bounced + 1 ELSE r.bounced
      complaints == IF r.kind = "complaint" THEN r.complained + 1 ELSE r.complained
  IN
  /\ r \in reports
  /\ reports' = reports \ {r}
  /\ IF r.kind = "bounce"
     THEN bounced' = [bounced EXCEPT ![r.acct] = bounces] /\ UNCHANGED complained
     ELSE complained' = [complained EXCEPT ![r.acct] = complaints] /\ UNCHANGED bounced
  /\ IF ~r.paused /\ OverThreshold(r.sent, bounces, complaints)
     THEN MarkPaused(r.acct) ELSE UNCHANGED <<paused, late>>
  /\ UNCHANGED <<sent, ramp, lru, workers, tripped, budget, served, day, skipped>>

PauseSender(a) ==
  /\ a \notin paused
  /\ Spend("pause")
  /\ MarkPaused(a)
  /\ UNCHANGED <<counters, ramp, lru, workers, tripped, reports, served,
                 day, skipped>>

\* Nothing but the pause is undone: not the counters, not the warm-up stage.
UnpauseSender(a) ==
  /\ a \in paused
  /\ paused' = paused \ {a}
  /\ UNCHANGED <<counters, ramp, lru, workers, tripped, reports, budget, served, day,
                 skipped, late>>

\* advance_warmup: the ramp of the accounts that are not paused, the counters
\* of all of them; with the warm-up switched off, nothing at all.
AdvanceWarmup ==
  LET ramping == Accounts \ (paused \cup warm) IN
  /\ WarmupEnabled
  /\ stage' = [a \in Accounts |-> IF a \in ramping THEN NextStage(a) ELSE stage[a]]
  /\ limit' = [a \in Accounts |-> IF a \in ramping /\ stage[a] < LastStage
                                   THEN Target[NextStage(a)] ELSE limit[a]]
  /\ warm' = warm \cup {a \in ramping : stage[a] = LastStage}
  /\ sent' = [a \in Accounts |-> 0]
  /\ bounced' = [a \in Accounts |-> 0]
  /\ complained' = [a \in Accounts |-> 0]
  /\ StartDay
  /\ UNCHANGED <<paused, lru, workers, tripped, reports, budget, served, skipped,
                 late>>

-----------------------------------------------------------------------------
SenderStep(w) ==
  \/ Deliver(w) \/ Resend(w) \/ (\E trips \in BOOLEAN : Fail(w, trips))
  \/ CommitFailure(w) \/ CommitUsage(w)

Next ==
  \/ \E w \in Senders, a \in Accounts : Pick(w, a) \/ Recover(w, a)
  \/ \E w \in Senders : SenderStep(w) \/ WorkerCrash(w)
  \/ \E a \in Accounts, kind \in Kinds : LoadReport(a, kind)
  \/ \E r \in reports : CommitReport(r)
  \/ \E a \in Accounts : PauseSender(a) \/ UnpauseSender(a)
  \/ AdvanceWarmup

Spec == Init /\ [][Next]_vars

-----------------------------------------------------------------------------
(* Properties.                                                              *)

\* The limit of stage s, and what the account was allowed at some stage up to the last.
StageLimit(a, s) == IF s = 0 THEN InitialLimit[a] ELSE Target[s]

Allowed(a, last, n) == \E s \in 0..last : n <= StageLimit(a, s)

\* Whatever the interleaving of workers and resets, and however stale the count a
\* worker writes back, the counter of an account never passes the highest limit the
\* account has had.  The present limit it can pass: a worker may hold the count over a
\* reset that lowers the limit, from a daily_limit of its own to the ramp's.
CounterIsAllowed == \A a \in Accounts : Allowed(a, stage[a], sent[a])

\* Why: the limit is its stage's, and a worker holds a count below a limit the
\* account has had.
LimitIsItsStages == \A a \in Accounts : limit[a] = StageLimit(a, stage[a])

HeldIsAllowed ==
  \A w \in Senders :
    pc[w] # "idle" =>
      acct[w] \in Accounts /\ Allowed(acct[w], stage[acct[w]], seen[w] + 1)

\* "the staged daily_limit ramp and daily counter reset are what actually gate
\* outbound volume" (warmup.py:7-8): no more sends are attempted with an account
\* between two resets than its limit.  Two workers break it.
WithinDailyLimit == \A a \in Accounts : today[a] <= limit[a]

\* What does gate the volume: each send of a day above the limit is explained by a
\* pick of an account another worker was using, a call that sent twice, or a worker
\* that died before it could count; failures, breakers, pauses and resets add none.
VolumeIsExplained == \A a \in Accounts : today[a] <= limit[a] + excess[a]

\* "never fall back to sending from an unhealthy/paused account"
\* (sender_rotation.py:186-187): a worker that uses a paused account picked it
\* before the pause.
PauseGate ==
  \A w \in Senders : pc[w] # "idle" /\ acct[w] \in paused => w \in late

\* The inductive invariant behind the two gates.
PoolInv ==
  /\ sent \in [Accounts -> Nat] /\ limit \in [Accounts -> Nat]
  /\ stage \in [Accounts -> 0..LastStage]
  /\ pc \in [Senders -> PCs] /\ acct \in [Senders -> Accounts \cup {NoAccount}]
  /\ seen \in [Senders -> Nat]
  /\ paused \in SUBSET Accounts /\ late \in SUBSET Senders
  /\ \A r \in reports : r.acct \in Accounts
  /\ LimitIsItsStages
  /\ CounterIsAllowed
  /\ HeldIsAllowed
  /\ PauseGate

\* "least-recently-used rotation": while an account is healthy the others go
\* first at most once per worker each, failed sends included, and once more for
\* every worker that died before it could touch the account it had picked.
NoAccountStarves ==
  \A a \in Accounts :
    skipped[a] <= (Cardinality(Accounts) - 1) * Cardinality(Senders)
                  + (Budget["crash"] - budget["crash"])
=============================================================================
