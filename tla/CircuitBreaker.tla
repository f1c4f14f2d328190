--------------------------- MODULE CircuitBreaker ---------------------------
(***************************************************************************)
(* The closed / open / half-open breaker of util/resilience.py, as an      *)
(* object: its fields, and one operator per method.  The code runs every   *)
(* method body under one lock, so a method is one atomic step.             *)
(*                                                                         *)
(* Time.  The code stores the wall-clock time of the last failure and only *)
(* ever compares its age with the open window.  failureAge is that age,    *)
(* saturating one past the window: no later value can be told apart.       *)
(* failureCount saturates at the threshold for the same reason: a failed   *)
(* probe keeps counting up in the code, and nothing reads how far.         *)
(***************************************************************************)
EXTENDS Integers

CONSTANTS
  FailureThreshold,   \* failures in a row that trip the breaker
  OpenTimeout         \* how long, in ticks, a tripped breaker refuses work

ASSUME BreakerAssumption ==
  /\ FailureThreshold \in Nat \ {0}     \* max(1, int(failure_threshold))
  /\ OpenTimeout \in Nat

VARIABLES
  state,              \* _state
  failureCount,       \* _failure_count
  failureAge          \* time since _last_failure_time; NoFailure for None

breakerVars == <<state, failureCount, failureAge>>

Closed == "closed"
Open == "open"
HalfOpen == "half-open"

NoFailure == -1
Ages == 0 .. (OpenTimeout + 1)

\* One more, never beyond limit.
Saturate(n, limit) == IF n < limit THEN n + 1 ELSE limit

BreakerTypeOK ==
  /\ state \in {Closed, Open, HalfOpen}
  /\ failureCount \in 0 .. FailureThreshold
  /\ failureAge \in Ages \cup {NoFailure}

BreakerInit ==
  /\ state = Closed
  /\ failureCount = 0
  /\ failureAge = NoFailure

-----------------------------------------------------------------------------
\* Mutated forms of the definitions below, used only to show that the
\* properties depend on them.
\* the window's last tick already counts as elapsed
WindowReached == failureAge # NoFailure /\ failureAge >= OpenTimeout

\* a success after a probe closes the breaker but keeps the old count
CloseWithoutReset ==
  /\ state' = IF state = HalfOpen THEN Closed ELSE state
  /\ UNCHANGED <<failureCount, failureAge>>

\* a successful probe does not close the breaker
SuccessKeepsProbing ==
  /\ failureCount' = 0
  /\ failureAge' = NoFailure
  /\ UNCHANGED state

-----------------------------------------------------------------------------
\* allow(): the test of an open breaker.  Without a recorded failure time the
\* window never elapses.
WindowElapsed ==
  /\ failureAge # NoFailure
  /\ failureAge > OpenTimeout

\* allow() returns True.  An open breaker whose window has elapsed moves to
\* half-open; a half-open one lets every caller through.
AllowPasses ==
  \/ /\ state \in {Closed, HalfOpen}
     /\ UNCHANGED breakerVars
  \/ /\ state = Open
     /\ WindowElapsed
     /\ state' = HalfOpen
     /\ UNCHANGED <<failureCount, failureAge>>

\* allow() returns False.
AllowRefuses ==
  /\ state = Open
  /\ ~WindowElapsed
  /\ UNCHANGED breakerVars

\* record_success(): only a half-open breaker closes, but the count and the
\* failure time are cleared in every state, an open one included.
RecordSuccess ==
  /\ state' = IF state = HalfOpen THEN Closed ELSE state
  /\ failureCount' = 0
  /\ failureAge' = NoFailure

\* record_failure() trips at the threshold, in whatever state.
Trips == failureCount' >= FailureThreshold

RecordFailure ==
  /\ failureCount' = Saturate(failureCount, FailureThreshold)
  /\ failureAge' = 0
  /\ state' = IF Trips THEN Open ELSE state

\* One tick of the clock the breaker reads.
BreakerTick ==
  /\ failureAge' = IF failureAge = NoFailure THEN NoFailure
                   ELSE Saturate(failureAge, OpenTimeout + 1)
  /\ UNCHANGED <<state, failureCount>>
=============================================================================
