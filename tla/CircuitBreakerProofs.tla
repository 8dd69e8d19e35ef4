------------------------ MODULE CircuitBreakerProofs ------------------------
(* The breaker's invariant is inductive, and fail-fast follows from it, for  *)
(* every threshold, timeout and number of attempts.                          *)
EXTENDS CircuitBreaker, TLAPS

USE CircuitBreakerAssumption

\* A saturating counter stays in its range and moves by one below its bound
\* (the failure count of on_failure, the age of an opening).
LEMMA UpToRange ==
  ASSUME NEW bound \in Nat, NEW n \in 0..bound
  PROVE  /\ UpTo(bound, n) \in 0..bound
         /\ n < bound => UpTo(bound, n) = n + 1
         /\ n = bound => UpTo(bound, n) = n
  BY DEF UpTo

\* The breaker starts closed with a clean count.
LEMMA InitBreaker == Init => BreakerInv
  BY DEF Init, BreakerInv, TypeOK, Circuits, Calls

\* A counted failure, wherever the call then goes, keeps the breaker's part of
\* the invariant, and an opening it causes is as young as the failure.
LEMMA FailureKeeps ==
  ASSUME BreakerInv, call = "wire", OnFailure
  PROVE  /\ circuit' \in Circuits
         /\ failureCount' \in 0..FailureThreshold
         /\ sinceOpened' \in 0..RecoveryTimeout
         /\ inARow' \in 0..FailureThreshold
         /\ sinceFailure' \in 0..RecoveryTimeout
         /\ failureCount' = inARow'
         /\ circuit' = "closed" <=> inARow' < FailureThreshold
         /\ circuit' # "closed" => sinceOpened' = sinceFailure'
         /\ circuit' # "half_open"
<1> DEFINE count == UpTo(FailureThreshold, failureCount)
<1>1. /\ failureCount \in 0..FailureThreshold
      /\ inARow = failureCount
      /\ circuit \in {"closed", "half_open"}
      /\ sinceOpened \in 0..RecoveryTimeout
  BY DEF BreakerInv, TypeOK, Circuits
<1>2. /\ count \in 0..FailureThreshold
      /\ failureCount' = count /\ inARow' = count
      /\ sinceFailure' = 0
  BY <1>1, UpToRange DEF OnFailure
<1>3. CASE circuit = "half_open" \/ count >= FailureThreshold
  <2>1. circuit' = "open" /\ sinceOpened' = 0
    BY <1>3 DEF OnFailure
  <2>2. count = FailureThreshold
    <3>1. CASE circuit = "half_open"
      <4>1. failureCount = FailureThreshold
        BY <1>1, <3>1 DEF BreakerInv
      <4> QED BY <1>1, <4>1, UpToRange
    <3>2. CASE count >= FailureThreshold
      BY <1>2, <3>2
    <3> QED BY <1>3, <3>1, <3>2
  <2> QED BY <1>2, <2>1, <2>2 DEF Circuits
<1>4. CASE ~(circuit = "half_open" \/ count >= FailureThreshold)
  <2>1. circuit = "closed" /\ circuit' = "closed" /\ sinceOpened' = sinceOpened
    BY <1>1, <1>4 DEF OnFailure
  <2> QED BY <1>1, <1>2, <1>4, <2>1 DEF Circuits
<1> QED BY <1>3, <1>4

\* Every step of a call, of the clock and of a reader keeps the invariant.
LEMMA NextBreaker == BreakerInv /\ [Next]_vars => BreakerInv'
<1> SUFFICES ASSUME BreakerInv, [Next]_vars PROVE BreakerInv'
  OBVIOUS
<1>1. CASE Admit
  BY <1>1 DEF Admit, Seen, BreakerInv, TypeOK, Circuits, Calls, history
<1>2. CASE Reject
  BY <1>2 DEF Reject, Seen, HangUp, BreakerInv, TypeOK, Circuits, Calls, breakerVars, history
<1>3. CASE Succeed
  BY <1>3 DEF Succeed, OnSuccess, HangUp, BreakerInv, TypeOK, Circuits, Calls
<1>4. CASE FailTransient
  <2>1. call' \in {"none", "waiting"} /\ attempt' \in 0..(MaxAttempts - 1)
    BY <1>4 DEF FailTransient, RetryOrHangUp, HangUp, BreakerInv, TypeOK
  <2> QED BY <1>4, <2>1, FailureKeeps DEF FailTransient, BreakerInv, TypeOK, Calls
<1>5. CASE FailForGood
  BY <1>5, FailureKeeps DEF FailForGood, HangUp, BreakerInv, TypeOK, Calls
<1>6. CASE RateLimited
  <2>1. /\ call = "wire" /\ call' \in {"none", "waiting"}
        /\ attempt' \in 0..(MaxAttempts - 1)
    BY <1>6 DEF RateLimited, RetryOrHangUp, HangUp, BreakerInv, TypeOK
  <2> QED BY <1>6, <2>1 DEF RateLimited, BreakerInv, TypeOK, Calls, breakerVars, history
<1>7. CASE Unforeseen
  BY <1>7 DEF Unforeseen, HangUp, BreakerInv, TypeOK, Calls, breakerVars, history
<1>8. CASE Look
  BY <1>8 DEF Look, Seen, BreakerInv, TypeOK, Circuits, callVars, history
<1>9. CASE Tick
  BY <1>9, UpToRange DEF Tick, UpTo, BreakerInv, TypeOK, callVars
<1>10. CASE UNCHANGED vars
  BY <1>10 DEF vars, BreakerInv, TypeOK
<1> QED BY <1>1, <1>2, <1>3, <1>4, <1>5, <1>6, <1>7, <1>8, <1>9, <1>10
        DEF Next, BeforeCall, Answer

\* The state of a breaker always agrees with the failures its process has seen
\* and with their age.
THEOREM BreakerInvariant == Spec => []BreakerInv
  BY InitBreaker, NextBreaker, PTL DEF Spec

\* A process never sends a request to a provider that has failed a threshold of
\* times in a row before the recovery timeout is over.
THEOREM BreakerFailsFast == Spec => FailFast
<1>1. BreakerInv /\ [Next]_vars =>
        [call' = "wire" /\ call # "wire" =>
           inARow < FailureThreshold \/ sinceFailure >= RecoveryTimeout]_vars
  <2> SUFFICES ASSUME BreakerInv, Next, call' = "wire", call # "wire"
               PROVE  inARow < FailureThreshold \/ sinceFailure >= RecoveryTimeout
    OBVIOUS
  <2>1. Admit
    BY DEF Next, BeforeCall, Answer, Reject, Succeed, FailTransient, FailForGood,
           RateLimited, Unforeseen, Look, Tick, HangUp, callVars
  <2>2. CASE circuit = "closed"
    BY <2>2 DEF BreakerInv
  <2>3. CASE circuit = "half_open"
    BY <2>3 DEF BreakerInv
  <2>4. CASE circuit = "open"
    BY <2>1, <2>4 DEF Admit, Seen, BreakerInv
  <2> QED BY <2>2, <2>3, <2>4 DEF BreakerInv, TypeOK, Circuits
<1> QED BY <1>1, BreakerInvariant, PTL DEF Spec, FailFast
=============================================================================
