--------------------------- MODULE CircuitBreaker ---------------------------
(***************************************************************************)
(* One circuit breaker and the retry policy around it, as every outbound   *)
(* integration uses them (app/core/resilience.py; callers in               *)
(* email_sender.py, sender_rotation.py, llm.py, crm.py, lead_discovery.py).*)
(*                                                                         *)
(* A breaker lives in one process, and a Celery worker process runs one    *)
(* task at a time, so one call is under way at most.  Time is counted in   *)
(* ticks.  The code compares the age of the opening with the recovery      *)
(* timeout and the failure count with the threshold, no more: both         *)
(* saturate there.                                                         *)
(***************************************************************************)
EXTENDS Naturals

CONSTANTS FailureThreshold,
          RecoveryTimeout,   \* recovery_timeout_seconds, in ticks
          MaxAttempts        \* stop_after_attempt of resilient_retry

ASSUME CircuitBreakerAssumption ==
  /\ FailureThreshold \in Nat \ {0}
  /\ RecoveryTimeout \in Nat \ {0}
  /\ MaxAttempts \in Nat \ {0}

VARIABLES
  circuit,      \* _state
  failureCount, \* _failure_count, up to FailureThreshold
  sinceOpened,  \* ticks since _opened_at, up to RecoveryTimeout
  call,         \* the call under way: none, on the wire, waiting for a retry
  attempt,      \* attempts it has used
  inARow,       \* history: failures counted since the last success
  sinceFailure  \* history: ticks since the last counted failure

breakerVars == <<circuit, failureCount, sinceOpened>>
callVars == <<call, attempt>>
history == <<inARow, sinceFailure>>
vars == <<circuit, failureCount, sinceOpened, call, attempt, inARow, sinceFailure>>

Circuits == {"closed", "open", "half_open"}
Calls == {"none", "wire", "waiting"}

TypeOK ==
  /\ circuit \in Circuits
  /\ failureCount \in 0..FailureThreshold
  /\ sinceOpened \in 0..RecoveryTimeout
  /\ call \in Calls
  /\ attempt \in 0..MaxAttempts
  /\ inARow \in 0..FailureThreshold
  /\ sinceFailure \in 0..RecoveryTimeout

Init ==
  /\ circuit = "closed"
  /\ failureCount = 0
  /\ sinceOpened = RecoveryTimeout
  /\ call = "none"
  /\ attempt = 0
  /\ inARow = 0
  /\ sinceFailure = RecoveryTimeout

UpTo(bound, n) == IF n < bound THEN n + 1 ELSE n

HangUp == call' = "none" /\ attempt' = 0

-----------------------------------------------------------------------------
(* Slips the properties have to catch: each is an operation further down    *)
(* with one plausible mistake.  No specification uses them; PROJECT.json    *)
(* pairs each with its property.                                            *)

\* A success forgets to clear the count.
OnSuccessKeepingCount ==
  /\ circuit' = "closed"
  /\ inARow' = 0
  /\ UNCHANGED <<failureCount, sinceOpened, sinceFailure>>

\* The opening is dated once, a failed trial does not date it again.
OnFailureDatedOnce ==
  LET count == UpTo(FailureThreshold, failureCount) IN
  /\ failureCount' = count
  /\ inARow' = UpTo(FailureThreshold, inARow)
  /\ sinceFailure' = 0
  /\ IF circuit = "half_open" \/ count >= FailureThreshold
     THEN /\ circuit' = "open"
          /\ sinceOpened' = IF circuit = "closed" THEN 0 ELSE sinceOpened
     ELSE UNCHANGED <<circuit, sinceOpened>>

\* A call that is turned away dates the opening again.
RejectAndRestart ==
  /\ call # "wire"
  /\ circuit = "open" /\ sinceOpened < RecoveryTimeout
  /\ sinceOpened' = 0
  /\ HangUp
  /\ UNCHANGED <<circuit, failureCount, history>>

-----------------------------------------------------------------------------
(* The breaker.                                                             *)

\* The state property: an opening that is old enough becomes HALF_OPEN when
\* somebody looks.
Seen == IF circuit = "open" /\ sinceOpened >= RecoveryTimeout
        THEN "half_open" ELSE circuit

OnSuccess ==
  /\ circuit' = "closed"
  /\ failureCount' = 0
  /\ inARow' = 0
  /\ UNCHANGED <<sinceOpened, sinceFailure>>

\* A failed trial opens the circuit again; otherwise the threshold decides.
OnFailure ==
  LET count == UpTo(FailureThreshold, failureCount) IN
  /\ failureCount' = count
  /\ inARow' = UpTo(FailureThreshold, inARow)
  /\ sinceFailure' = 0
  /\ IF circuit = "half_open" \/ count >= FailureThreshold
     THEN circuit' = "open" /\ sinceOpened' = 0
     ELSE UNCHANGED <<circuit, sinceOpened>>

\* The sender pool and the dashboard read the state without a call.
Look ==
  /\ circuit # Seen
  /\ circuit' = Seen
  /\ UNCHANGED <<failureCount, sinceOpened, callVars, history>>

-----------------------------------------------------------------------------
(* A call under resilient_retry: every attempt asks the breaker first.      *)

Admit ==
  /\ call # "wire"
  /\ Seen # "open"
  /\ circuit' = Seen
  /\ call' = "wire"
  /\ attempt' = attempt + 1
  /\ UNCHANGED <<failureCount, sinceOpened, history>>

\* CircuitBreakerOpenError is not retried: it ends the call, wherever it is.
Reject ==
  /\ call # "wire"
  /\ Seen = "open"
  /\ HangUp
  /\ UNCHANGED <<breakerVars, history>>

Succeed ==
  /\ call = "wire"
  /\ OnSuccess
  /\ HangUp

\* Wait and try again, or let the exception go after the last attempt.
RetryOrHangUp ==
  IF attempt < MaxAttempts THEN call' = "waiting" /\ UNCHANGED attempt ELSE HangUp

\* A connection error or a timeout; for SMTP and the LLM a 429 as well.
FailTransient ==
  /\ call = "wire"
  /\ OnFailure
  /\ RetryOrHangUp

\* An answer that is an error for good: no retry.
FailForGood ==
  /\ call = "wire"
  /\ OnFailure
  /\ HangUp

\* A 429 of an HTTP integration: retried, but the breaker is not told.
RateLimited ==
  /\ call = "wire"
  /\ RetryOrHangUp
  /\ UNCHANGED <<breakerVars, history>>

\* An exception the integration does not name (a DNS error under SMTP, a
\* broken HTTP answer): neither counted nor retried.
Unforeseen ==
  /\ call = "wire"
  /\ HangUp
  /\ UNCHANGED <<breakerVars, history>>

Tick ==
  /\ sinceOpened < RecoveryTimeout \/ sinceFailure < RecoveryTimeout
  /\ sinceOpened' = UpTo(RecoveryTimeout, sinceOpened)
  /\ sinceFailure' = UpTo(RecoveryTimeout, sinceFailure)
  /\ UNCHANGED <<circuit, failureCount, callVars, inARow>>

Answer == Succeed \/ FailTransient \/ FailForGood \/ RateLimited \/ Unforeseen
BeforeCall == Admit \/ Reject

Next == BeforeCall \/ Answer \/ Look \/ Tick

Spec == Init /\ [][Next]_vars

\* Time passes, every attempt is answered (all clients set a timeout), and
\* there is always another call: the beat schedule and the send queue do not
\* stop for an outage.
Fairness == WF_vars(Tick) /\ WF_vars(Answer) /\ WF_vars(BeforeCall)

FairSpec == Spec /\ Fairness

-----------------------------------------------------------------------------
(* Properties.                                                              *)

\* The count is the number of failures since the last success, and the circuit
\* is closed exactly as long as there are fewer than the threshold; an opening
\* is as old as the last failure, a trial is only under way after the timeout,
\* and a call that is not on the wire has an attempt left.
BreakerInv ==
  /\ TypeOK
  /\ failureCount = inARow
  /\ circuit = "closed" <=> inARow < FailureThreshold
  /\ circuit # "closed" => sinceOpened = sinceFailure
  /\ circuit = "half_open" => sinceFailure >= RecoveryTimeout
  /\ call = "wire" => circuit # "open"
  /\ call # "wire" => attempt < MaxAttempts

\* "once a breaker trips, calls fail fast (no network round trip) until the
\* recovery timeout elapses" (resilience.py:8-9), told by the provider: after a
\* threshold of failures in a row the next request comes a timeout after the
\* last of them, first attempts and retries alike.
FailFast ==
  [][call' = "wire" /\ call # "wire" =>
       inARow < FailureThreshold \/ sinceFailure >= RecoveryTimeout]_vars

\* An outage does not outlive the provider's: however many calls are turned
\* away, an open circuit is tried again.
OpenIsRetried == circuit = "open" ~> call = "wire"
=============================================================================
