------------------------ MODULE CircuitBreakerProofs ------------------------
(***************************************************************************)
(* Theorems about CircuitBreaker for every set of callers and every choice *)
(* of thresholds.                                                          *)
(***************************************************************************)
EXTENDS CircuitBreaker, TLAPS

\* While OPEN, the clock the code reads and the history of the opening agree.
ClockAgrees == state = "open" => sinceOpen = elapsed

\* The inductive invariant.  CountersMatchState needs the state to say which counter is
\* live; TripsOnlyOnAStreak needs the counter to be the streak.
IInv == TypeOK /\ CountersMatchState /\ CountsConsecutiveFailures /\ ClockAgrees

\* Saturating addition stays within its bound.
LEMMA CappedBound ==
  ASSUME NEW n \in Nat, NEW m \in Nat
  PROVE  Capped(n, m) \in 0..m /\ (n <= m => Capped(n, m) = n)
BY DEF Capped

LEMMA InitIInv == Init => IInv
BY ThresholdsAssumption
   DEF Init, IInv, TypeOK, States, CountersMatchState, CountsConsecutiveFailures, ClockAgrees

LEMMA NextIInv == IInv /\ [Next]_vars => IInv'
<1> SUFFICES ASSUME IInv, [Next]_vars PROVE IInv'
  OBVIOUS
<1> USE ThresholdsAssumption
    DEF IInv, TypeOK, States, CountersMatchState, CountsConsecutiveFailures, ClockAgrees
<1>1. CASE ReadState
  BY <1>1 DEF ReadState, MaybeHalfOpen, Refreshed, HalfOpenDue
<1>2. ASSUME NEW c \in Calls, Admit(c) PROVE IInv'
  BY <1>2 DEF Admit, MaybeHalfOpen, Refreshed, HalfOpenDue
<1>3. ASSUME NEW c \in Calls, OnSuccess(c) PROVE IInv'
  BY <1>3 DEF OnSuccess, Finish, EnterClosed, ClosedSuccess, ReachesSuccessThreshold
<1>4. ASSUME NEW c \in Calls, OnFailure(c) PROVE IInv'
  <2>1. streak' = Capped(streak + 1, FailureThreshold) /\ streak' \in 0..FailureThreshold
    BY <1>4, CappedBound DEF OnFailure
  <2>2. CASE state = "closed"
    <3>1. streak + 1 <= FailureThreshold /\ streak' = streak + 1
      BY <2>1, <2>2, CappedBound
    <3> QED
      BY <1>4, <2>1, <2>2, <3>1 DEF OnFailure, Finish, EnterOpen, ReachesFailureThreshold
  <2>3. CASE state # "closed"
    BY <1>4, <2>1, <2>3 DEF OnFailure, Finish, EnterOpen
  <2> QED
    BY <2>2, <2>3
<1>5. ASSUME NEW c \in Calls, EndUncounted(c) PROVE IInv'
  BY <1>5 DEF EndUncounted, Finish
<1>6. CASE Reset
  BY <1>6 DEF Reset, EnterClosed
<1>7. CASE Trip
  BY <1>7 DEF Trip, EnterOpen
<1>8. CASE Tick
  <2>1. elapsed' \in 0..RecoveryTimeout /\ sinceOpen' \in 0..RecoveryTimeout
    BY <1>8, CappedBound DEF Tick
  <2> QED
    BY <1>8, <2>1 DEF Tick
<1>9. CASE Stabilise
  BY <1>9 DEF Stabilise
<1>10. CASE UNCHANGED vars
  BY <1>10 DEF vars
<1> QED
  BY <1>1, <1>2, <1>3, <1>4, <1>5, <1>6, <1>7, <1>8, <1>9, <1>10 DEF Next

\* The strengthened invariant holds in every reachable state.
THEOREM Invariant == Spec => []IInv
BY InitIInv, NextIInv, PTL DEF Spec

\* The breaker's variables keep their types (TypeOK).
THEOREM TypeCorrect == Spec => []TypeOK
<1>1. IInv => TypeOK
  BY DEF IInv
<1> QED
  BY Invariant, <1>1, PTL

\* However the calls in flight interleave with the transitions, no counter reaches a
\* threshold without the transition it triggers (CountersMatchState).
THEOREM CountersAlwaysMatch == Spec => []CountersMatchState
<1>1. IInv => CountersMatchState
  BY DEF IInv
<1> QED
  BY Invariant, <1>1, PTL

\* A CLOSED breaker's counter is the number of failures completed since the last success
\* (CountsConsecutiveFailures).
THEOREM CounterIsStreak == Spec => []CountsConsecutiveFailures
<1>1. IInv => CountsConsecutiveFailures
  BY DEF IInv
<1> QED
  BY Invariant, <1>1, PTL

\* Only failure_threshold failures in a row, or trip(), open a CLOSED breaker
\* (TripsOnlyOnAStreak, the action property of _on_failure).
THEOREM OpensOnStreak == Spec => TripsOnlyOnAStreak
<1>1. IInv /\ [Next]_vars =>
        [state = "closed" /\ state' = "open" => Trip \/ streak' = FailureThreshold]_vars
  <2> SUFFICES ASSUME IInv, Next, state = "closed", state' = "open", ~Trip
               PROVE  streak' = FailureThreshold
    BY DEF vars
  <2>1. PICK c \in Calls : OnFailure(c)
    BY DEF Next, ReadState, Admit, MaybeHalfOpen, Refreshed, HalfOpenDue, OnSuccess,
           EnterClosed, EndUncounted, Reset, Tick, Stabilise
  <2>2. failureCount + 1 >= FailureThreshold
    BY <2>1 DEF OnFailure, ReachesFailureThreshold
  <2>3. streak' = Capped(streak + 1, FailureThreshold)
    BY <2>1 DEF OnFailure
  <2> QED
    BY <2>2, <2>3, ThresholdsAssumption
       DEF IInv, TypeOK, CountersMatchState, CountsConsecutiveFailures, Capped
<1> QED
  BY Invariant, <1>1, PTL DEF Spec, TripsOnlyOnAStreak

\* An OPEN breaker stays OPEN for recovery_timeout since it last opened, unless it is
\* reset by hand (ShieldsForRecoveryTimeout).
THEOREM Shields == Spec => ShieldsForRecoveryTimeout
<1>1. IInv /\ [Next]_vars =>
        [state = "open" /\ state' # "open" => sinceOpen >= RecoveryTimeout \/ Reset]_vars
  <2> SUFFICES ASSUME IInv, Next, state = "open", state' # "open", ~Reset
               PROVE  sinceOpen >= RecoveryTimeout
    BY DEF vars
  <2>1. ReadState \/ \E c \in Calls : Admit(c)
    BY DEF Next, OnSuccess, OnFailure, EnterOpen, EndUncounted, Trip, Tick, Stabilise
  <2>2. elapsed >= RecoveryTimeout
    BY <2>1 DEF ReadState, Admit, MaybeHalfOpen, Refreshed, HalfOpenDue
  <2> QED
    BY <2>2 DEF IInv, ClockAgrees
<1> QED
  BY Invariant, <1>1, PTL DEF Spec, ShieldsForRecoveryTimeout
=============================================================================
