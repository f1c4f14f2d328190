---------------------------- MODULE OpenAIAdapter ----------------------------
(***************************************************************************)
(* OpenAICompatibleAdapter.generate_response: overlapping coroutines that  *)
(* share one adapter, its breaker and its retry counter.  A request asks   *)
(* the breaker once, then makes up to MaxRetries + 1 attempts, sleeping    *)
(* between them, and reports one outcome however many attempts it made.    *)
(* Between two awaits no other request runs.                               *)
(*                                                                         *)
(* An unconfigured adapter answers before it touches any of this and is    *)
(* left out, and so is last_error, which nothing here depends on.          *)
(***************************************************************************)
EXTENDS CircuitBreaker, FiniteSets, Sequences

CONSTANTS
  Requests,
  MaxRetries       \* config.max_retries

ASSUME RetryAssumption ==
  /\ MaxRetries \in Nat
  /\ Requests # {} /\ IsFiniteSet(Requests)

VARIABLES
  pc,              \* "posting" and "sleeping" are the two awaits
  attempt,         \* the loop variable of each request
  lastRetryCount,  \* self.last_retry_count, shared by all requests
  up,              \* environment: the backend answers
  sinceTrip,       \* history, as in SharedBreaker
  outcomes,        \* history, as in SharedBreaker
  overlapped,      \* history: another request ran during this one
  stragglers       \* history: attempts begun while the breaker is open

requestVars == <<pc, attempt, lastRetryCount>>
historyVars == <<sinceTrip, outcomes, overlapped, stragglers>>
vars == <<breakerVars, requestVars, up, historyVars>>

\* The counters stop here; they never get there.
CountBound == MaxRetries * Cardinality(Requests)

TypeOK ==
  /\ BreakerTypeOK
  /\ pc \in [Requests -> {"idle", "posting", "sleeping"}]
  /\ attempt \in [Requests -> 0 .. MaxRetries]
  /\ lastRetryCount \in 0 .. CountBound
  /\ up \in BOOLEAN
  /\ sinceTrip \in Ages
  /\ outcomes \in Seq({"success", "failure"})
  /\ Len(outcomes) <= FailureThreshold
  /\ overlapped \in [Requests -> BOOLEAN]
  /\ stragglers \in 0 .. CountBound

Init ==
  /\ BreakerInit
  /\ pc = [c \in Requests |-> "idle"]
  /\ attempt = [c \in Requests |-> 0]
  /\ lastRetryCount = 0
  /\ up = TRUE
  /\ sinceTrip = OpenTimeout + 1
  /\ outcomes = <<>>
  /\ overlapped = [c \in Requests |-> FALSE]
  /\ stragglers = 0

Active(c) == pc[c] # "idle"

-----------------------------------------------------------------------------
\* History.

Entering == state # Open /\ state' = Open

NoteTrip ==
  /\ sinceTrip' = IF Entering THEN 0 ELSE sinceTrip
  /\ stragglers' = IF state = Open /\ state' = Open THEN stragglers ELSE 0

NoteOutcome(o) ==
  outcomes' = IF Len(outcomes) = FailureThreshold
              THEN Append(Tail(outcomes), o)
              ELSE Append(outcomes, o)

-----------------------------------------------------------------------------
\* Mutated forms of the definitions below.
\* the counter is not reset for the new request
AdmitKeepsCounter(c) ==
  /\ ~Active(c)
  /\ AllowPasses
  /\ pc' = [pc EXCEPT ![c] = "posting"]
  /\ attempt' = [attempt EXCEPT ![c] = 0]
  /\ overlapped' = [d \in Requests |->
                      IF d = c THEN \E e \in Requests : Active(e)
                      ELSE overlapped[d] \/ Active(d)]
  /\ NoteTrip
  /\ UNCHANGED <<lastRetryCount, up, outcomes>>

\* every failed attempt counts as a failure of the backend
RetryRecordsFailure(c) ==
  /\ pc[c] = "posting" /\ ~up
  /\ attempt[c] < MaxRetries
  /\ RecordFailure
  /\ NoteTrip
  /\ NoteOutcome("failure")
  /\ pc' = [pc EXCEPT ![c] = "sleeping"]
  /\ lastRetryCount' = Saturate(lastRetryCount, CountBound)
  /\ UNCHANGED <<attempt, up, overlapped>>

\* the attempts are not counted
WakeForgetsAttempt(c) ==
  /\ pc[c] = "sleeping"
  /\ pc' = [pc EXCEPT ![c] = "posting"]
  /\ stragglers' = IF state = Open THEN Saturate(stragglers, CountBound) ELSE stragglers
  /\ UNCHANGED <<breakerVars, attempt, lastRetryCount, up, sinceTrip, outcomes,
                 overlapped>>

-----------------------------------------------------------------------------
\* The breaker lets the request in; the shared counter starts again from zero,
\* for the requests already in flight too.
Admit(c) ==
  /\ ~Active(c)
  /\ AllowPasses
  /\ pc' = [pc EXCEPT ![c] = "posting"]
  /\ attempt' = [attempt EXCEPT ![c] = 0]
  /\ lastRetryCount' = 0
  /\ overlapped' = [d \in Requests |->
                      IF d = c THEN \E e \in Requests : Active(e)
                      ELSE overlapped[d] \/ Active(d)]
  /\ NoteTrip
  /\ UNCHANGED <<up, outcomes>>

\* The breaker refuses: an offline answer at once.
Refuse(c) ==
  /\ ~Active(c)
  /\ AllowRefuses
  /\ UNCHANGED <<requestVars, up, historyVars>>

\* The attempt succeeds; whatever the answer holds, the request ends.
Succeed(c) ==
  /\ pc[c] = "posting"
  /\ RecordSuccess
  /\ NoteTrip
  /\ NoteOutcome("success")
  /\ pc' = [pc EXCEPT ![c] = "idle"]
  /\ UNCHANGED <<attempt, lastRetryCount, up, overlapped>>

\* A retryable error, and an attempt left: back off.
Retry(c) ==
  /\ pc[c] = "posting" /\ ~up
  /\ attempt[c] < MaxRetries
  /\ pc' = [pc EXCEPT ![c] = "sleeping"]
  /\ lastRetryCount' = Saturate(lastRetryCount, CountBound)
  /\ UNCHANGED <<breakerVars, attempt, up, historyVars>>

\* The next attempt.  The breaker is not asked again: it may be open by now.
Wake(c) ==
  /\ pc[c] = "sleeping"
  /\ pc' = [pc EXCEPT ![c] = "posting"]
  /\ attempt' = [attempt EXCEPT ![c] = @ + 1]
  /\ stragglers' = IF state = Open THEN Saturate(stragglers, CountBound) ELSE stragglers
  /\ UNCHANGED <<breakerVars, lastRetryCount, up, sinceTrip, outcomes, overlapped>>

\* The last attempt failed, or an error no retry would mend: one failure for
\* the whole request, audited with the shared counter.
Fail(c) ==
  /\ pc[c] = "posting" /\ ~up
  /\ RecordFailure
  /\ NoteTrip
  /\ NoteOutcome("failure")
  /\ pc' = [pc EXCEPT ![c] = "idle"]
  /\ UNCHANGED <<attempt, lastRetryCount, up, overlapped>>

Tick ==
  /\ BreakerTick
  /\ sinceTrip' = Saturate(sinceTrip, OpenTimeout + 1)
  /\ UNCHANGED <<requestVars, up, outcomes, overlapped, stragglers>>

Flap ==
  /\ up' = ~up
  /\ UNCHANGED <<breakerVars, requestVars, historyVars>>

Respond(c) == Succeed(c) \/ Retry(c) \/ Fail(c)

Next ==
  \/ \E c \in Requests : Admit(c) \/ Refuse(c) \/ Respond(c) \/ Wake(c)
  \/ Tick
  \/ Flap

\* The client has a timeout, so an attempt ends one way or another, and a sleep
\* ends.  Nothing makes the backend come back or a user ask.
Fairness == \A c \in Requests : WF_vars(Respond(c)) /\ WF_vars(Wake(c))

Spec == Init /\ [][Next]_vars

FairSpec == Spec /\ Fairness

-----------------------------------------------------------------------------
(***************************************************************************)
(* Properties.                                                             *)
(***************************************************************************)

\* With its retries hidden the adapter uses the breaker as SharedBreaker says:
\* one question before, one outcome at the end, nothing in between, so what is
\* checked and proved of SharedBreaker holds of the adapter.
\* openai_adapter.py:256-258, "a 3-attempt failure counts as a single breaker
\* event, not three".
Breaker == INSTANCE SharedBreaker WITH
             Callers <- Requests,
             pc <- [c \in Requests |-> IF Active(c) THEN "calling" ELSE "idle"]

ImplementsSharedBreaker == Breaker!Spec

\* The retry counter, and so the audited number of attempts, is right for a
\* request no other one overlapped.  openai_adapter.py:245-247, 293, 320.
CounterRightAlone ==
  \A c \in Requests : pc[c] # "idle" /\ ~overlapped[c] =>
    lastRetryCount = attempt[c] + (IF pc[c] = "sleeping" THEN 1 ELSE 0)

\* An open breaker stops new requests, not the retries of those in flight: the
\* attempts a backend still sees after the trip are at most MaxRetries for each
\* request other than the one whose failure tripped it.
StragglersBounded ==
  state = Open => stragglers <= MaxRetries * (Cardinality(Requests) - 1)

\* Types; the counter is right for those alone; stragglers are bounded.
Inv == TypeOK /\ CounterRightAlone /\ StragglersBounded

\* Every request is answered, even when the backend never comes back.
Answered == \A c \in Requests : Active(c) ~> ~Active(c)
=============================================================================
