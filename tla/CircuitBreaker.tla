--------------------------- MODULE CircuitBreaker ---------------------------
(***************************************************************************)
(* The circuit breaker of core/circuit_breaker.py, shared by the threads   *)
(* that call an external service (Anthropic, OpenSearch).  The wrapped     *)
(* function runs between two critical sections of the breaker's lock: the  *)
(* gate (_before_call) and the bookkeeping (_on_success, _on_failure).     *)
(* Each critical section is one action; between the two the call is "in    *)
(* flight" and the breaker may change state under it.                      *)
(***************************************************************************)
EXTENDS Naturals, FiniteSets

CONSTANTS
  Calls,             \* the threads that may have a call in flight
  FailureThreshold,  \* failure_threshold
  SuccessThreshold,  \* success_threshold
  RecoveryTimeout    \* recovery_timeout, in ticks of the monotonic clock

ASSUME ThresholdsAssumption ==
  /\ FailureThreshold \in Nat \ {0}
  /\ SuccessThreshold \in Nat \ {0}
  /\ RecoveryTimeout \in Nat

VARIABLES
  state,         \* _state
  failureCount,  \* _failure_count
  successCount,  \* _success_count
  elapsed,       \* time.monotonic() - _opened_at, saturating at RecoveryTimeout
  call,          \* per thread: "idle", or the state that admitted its call in flight
  service,       \* "flaky": calls may fail; "stable": they succeed from now on
  streak,        \* history: failures since the last success, in completion order
  sinceOpen      \* history: ticks since the breaker last became or was made OPEN

vars == <<state, failureCount, successCount, elapsed, call, service, streak, sinceOpen>>

States == {"closed", "open", "half_open"}

\* n, saturating at the bound m (elapsed and the histories are capped this way).
Capped(n, m) == IF n > m THEN m ELSE n

TypeOK ==
  /\ state \in States
  /\ failureCount \in 0..FailureThreshold
  /\ successCount \in 0..SuccessThreshold
  /\ elapsed \in 0..RecoveryTimeout
  /\ call \in [Calls -> {"idle", "closed", "half_open"}]
  /\ service \in {"flaky", "stable"}
  /\ streak \in 0..FailureThreshold
  /\ sinceOpen \in 0..RecoveryTimeout

Init ==
  /\ state = "closed"
  /\ failureCount = 0
  /\ successCount = 0
  /\ elapsed = RecoveryTimeout
  /\ call = [c \in Calls |-> "idle"]
  /\ service = "flaky"
  /\ streak = 0
  /\ sinceOpen = RecoveryTimeout
-----------------------------------------------------------------------------
(* The transitions that the critical sections share.                       *)

\* _maybe_transition_to_half_open: the recovery timeout of an OPEN breaker is over.
HalfOpenDue == state = "open" /\ elapsed >= RecoveryTimeout

Refreshed == IF HalfOpenDue THEN "half_open" ELSE state

MaybeHalfOpenMutant ==
  /\ state' = Refreshed
  /\ successCount' = 0

MaybeHalfOpen ==
  /\ state' = Refreshed
  /\ successCount' = IF HalfOpenDue THEN 0 ELSE successCount

EnterOpenMutant ==
  /\ state' = "open"
  /\ successCount' = 0
  /\ sinceOpen' = 0
  /\ UNCHANGED elapsed

\* The breaker opens: _opened_at is taken from the clock now.
EnterOpen ==
  /\ state' = "open"
  /\ successCount' = 0
  /\ elapsed' = 0
  /\ sinceOpen' = 0

EnterClosed ==
  /\ state' = "closed"
  /\ failureCount' = 0
  /\ successCount' = 0

ReachesFailureThreshold == failureCount + 1 >= FailureThreshold

ReachesSuccessThreshold == successCount + 1 >= SuccessThreshold
-----------------------------------------------------------------------------
\* The state property and info(): reading the breaker may move it to HALF_OPEN.
ReadState ==
  /\ MaybeHalfOpen
  /\ UNCHANGED <<failureCount, elapsed, call, service, streak, sinceOpen>>

\* _before_call lets the call through.  A refused call (CircuitOpenError) changes
\* nothing and is a stuttering step.
Admit(c) ==
  /\ call[c] = "idle"
  /\ Refreshed # "open"
  /\ MaybeHalfOpen
  /\ call' = [call EXCEPT ![c] = Refreshed]
  /\ UNCHANGED <<failureCount, elapsed, service, streak, sinceOpen>>

Finish(c) ==
  /\ call[c] # "idle"
  /\ call' = [call EXCEPT ![c] = "idle"]

ClosedSuccessMutant == UNCHANGED failureCount

\* A success while CLOSED resets the failure counter.
ClosedSuccess == failureCount' = 0

\* _on_success, in whatever state the breaker is by then.
OnSuccess(c) ==
  /\ Finish(c)
  /\ streak' = 0
  /\ \/ /\ state = "half_open"
        /\ ReachesSuccessThreshold
        /\ EnterClosed
     \/ /\ state = "half_open"
        /\ ~ReachesSuccessThreshold
        /\ successCount' = successCount + 1
        /\ UNCHANGED <<state, failureCount>>
     \/ /\ state = "closed"
        /\ ClosedSuccess
        /\ UNCHANGED <<state, successCount>>
     \/ /\ state = "open"
        /\ UNCHANGED <<state, failureCount, successCount>>
  /\ UNCHANGED <<elapsed, service, sinceOpen>>

\* _on_failure with an exception that counts.
OnFailure(c) ==
  /\ service = "flaky"
  /\ Finish(c)
  /\ streak' = Capped(streak + 1, FailureThreshold)
  /\ \/ /\ state = "half_open"
        /\ EnterOpen
        /\ UNCHANGED failureCount
     \/ /\ state = "closed"
        /\ failureCount' = failureCount + 1
        /\ IF ReachesFailureThreshold
             THEN EnterOpen
             ELSE UNCHANGED <<state, successCount, elapsed, sinceOpen>>
     \/ /\ state = "open"
        /\ UNCHANGED <<state, failureCount, successCount, elapsed, sinceOpen>>
  /\ UNCHANGED service

\* The call ends in an excluded exception, or is cancelled (a BaseException, which
\* call and async_call do not catch): the breaker learns nothing of it.
EndUncounted(c) ==
  /\ service = "flaky"
  /\ Finish(c)
  /\ UNCHANGED <<state, failureCount, successCount, elapsed, service, streak, sinceOpen>>

Reset ==
  /\ EnterClosed
  /\ streak' = 0
  /\ UNCHANGED <<elapsed, call, service, sinceOpen>>

Trip ==
  /\ service = "flaky"
  /\ EnterOpen
  /\ failureCount' = FailureThreshold
  /\ UNCHANGED <<call, service, streak>>

\* The monotonic clock advances.
Tick ==
  /\ elapsed' = Capped(elapsed + 1, RecoveryTimeout)
  /\ sinceOpen' = Capped(sinceOpen + 1, RecoveryTimeout)
  /\ UNCHANGED <<state, failureCount, successCount, call, service, streak>>

\* The external service recovers for good and nobody trips the breaker by hand.
Stabilise ==
  /\ service = "flaky"
  /\ service' = "stable"
  /\ UNCHANGED <<state, failureCount, successCount, elapsed, call, streak, sinceOpen>>

Next ==
  \/ ReadState
  \/ \E c \in Calls : Admit(c) \/ OnSuccess(c) \/ OnFailure(c) \/ EndUncounted(c)
  \/ Reset
  \/ Trip
  \/ Tick
  \/ Stabilise

Spec == Init /\ [][Next]_vars

\* Time passes, every call ends (the clients set timeouts), and callers keep calling.
Fairness ==
  /\ WF_vars(Tick)
  /\ \A c \in Calls : WF_vars(Admit(c)) /\ WF_vars(OnSuccess(c))

FairSpec == Spec /\ Fairness
-----------------------------------------------------------------------------
(* Properties.                                                             *)

\* The counters never sit at or past a threshold without the transition it triggers
\* having been taken: a CLOSED breaker is below failure_threshold, a HALF_OPEN one
\* below success_threshold, successes are counted only in HALF_OPEN, and a breaker
\* that is not CLOSED still shows the count that opened it, however late the calls
\* in flight report.
CountersMatchState ==
  /\ state = "closed" => failureCount < FailureThreshold
  /\ state # "closed" => failureCount = FailureThreshold
  /\ state = "half_open" => successCount < SuccessThreshold
  /\ state # "half_open" => successCount = 0

\* "Number of consecutive failures": while CLOSED the counter is the number of failures
\* that completed since the last success completed (or since a manual reset), whichever
\* state the breaker was in when those calls were admitted or completed.
CountsConsecutiveFailures == state = "closed" => failureCount = streak

\* A breaker that failures have opened was opened by failure_threshold failures in a
\* row; calls in flight that end in other ways in between cannot trip it.
TripsOnlyOnAStreak ==
  [][state = "closed" /\ state' = "open" => Trip \/ streak' = FailureThreshold]_vars

\* Once OPEN (again), the breaker shields the service for the whole recovery timeout:
\* it leaves OPEN earlier only by a manual reset.
ShieldsForRecoveryTimeout ==
  [][state = "open" /\ state' # "open" => sinceOpen >= RecoveryTimeout \/ Reset]_vars

\* When the service is healthy for good and callers keep calling, the breaker closes
\* and stays closed.
Recovers == service = "stable" ~> [](state = "closed")
=============================================================================
