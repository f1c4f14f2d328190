---------------------------- MODULE SharedBreaker ----------------------------
(***************************************************************************)
(* One CircuitBreaker shared by concurrent callers, as the adapters use    *)
(* it: LiveTalkingAdapter._request runs in the demo server's worker        *)
(* threads, the OpenAI adapter in overlapping coroutines.  A call asks     *)
(* allow(), works with no lock held, and reports one outcome when it ends: *)
(* by then the breaker may have tripped, probed or closed under it.  The   *)
(* retry loop inside a call never touches the breaker and is left out here *)
(* (OpenAIAdapter models it).                                              *)
(***************************************************************************)
EXTENDS CircuitBreaker, FiniteSets, Sequences

CONSTANT Callers

ASSUME CallersAssumption == Callers # {}

VARIABLES
  pc,            \* what each caller is doing
  up,            \* environment: each admitted call reaches the dependency and
                 \* is answered correctly
  sinceTrip,     \* history: ticks since the breaker last entered Open
  outcomes       \* history: the last FailureThreshold recorded outcomes

vars == <<breakerVars, pc, up, sinceTrip, outcomes>>

\* "idle": no call; "calling": admitted, working outside the lock;
\* "malformed": success recorded, but the answer cannot be returned.
CallerStates == {"idle", "calling", "malformed"}

InFlight == {c \in Callers : pc[c] # "idle"}

TypeOK ==
  /\ BreakerTypeOK
  /\ pc \in [Callers -> CallerStates]
  /\ up \in BOOLEAN
  /\ sinceTrip \in Ages
  /\ outcomes \in Seq({"success", "failure"})
  /\ Len(outcomes) <= FailureThreshold

Init ==
  /\ BreakerInit
  /\ pc = [c \in Callers |-> "idle"]
  /\ up = TRUE
  /\ sinceTrip = OpenTimeout + 1
  /\ outcomes = <<>>

-----------------------------------------------------------------------------
\* History.

NoteTrip == sinceTrip' = IF state # Open /\ state' = Open THEN 0 ELSE sinceTrip

NoteOutcome(o) ==
  outcomes' = IF Len(outcomes) = FailureThreshold
              THEN Append(Tail(outcomes), o)
              ELSE Append(outcomes, o)

-----------------------------------------------------------------------------
\* Mutated form of Admit: a caller that does not ask the breaker.
AdmitUnasked(c) ==
  /\ pc[c] = "idle"
  /\ UNCHANGED breakerVars
  /\ pc' = [pc EXCEPT ![c] = "calling"]
  /\ NoteTrip
  /\ UNCHANGED <<up, outcomes>>

\* allow() answered True and the call begins.
Admit(c) ==
  /\ pc[c] = "idle"
  /\ AllowPasses
  /\ pc' = [pc EXCEPT ![c] = "calling"]
  /\ NoteTrip
  /\ UNCHANGED <<up, outcomes>>

\* allow() answered False: the caller reports the dependency offline at once.
Refuse(c) ==
  /\ pc[c] = "idle"
  /\ AllowRefuses
  /\ UNCHANGED <<pc, up, sinceTrip, outcomes>>

\* An attempt succeeded.
Succeed(c) ==
  /\ pc[c] = "calling"
  /\ RecordSuccess
  /\ pc' = [pc EXCEPT ![c] = "idle"]
  /\ NoteTrip
  /\ NoteOutcome("success")
  /\ UNCHANGED up

\* record_success() ran, then building the reply raised (the answer was JSON
\* but not an object): the handler below it also counts the call as failed.
SucceedMalformed(c) ==
  /\ pc[c] = "calling"
  /\ ~up
  /\ RecordSuccess
  /\ pc' = [pc EXCEPT ![c] = "malformed"]
  /\ NoteTrip
  /\ NoteOutcome("success")
  /\ UNCHANGED up

\* The attempts are used up, or the error is not worth a retry.
Fail(c) ==
  /\ \/ pc[c] = "calling" /\ ~up
     \/ pc[c] = "malformed"
  /\ RecordFailure
  /\ pc' = [pc EXCEPT ![c] = "idle"]
  /\ NoteTrip
  /\ NoteOutcome("failure")
  /\ UNCHANGED up

\* The call ends with no outcome recorded: LuxTTS asks the breaker first and
\* the cost cap second, so an admitted call may never reach the vendor.
Abandon(c) ==
  /\ pc[c] = "calling" /\ ~up
  /\ pc' = [pc EXCEPT ![c] = "idle"]
  /\ UNCHANGED <<breakerVars, up, sinceTrip, outcomes>>

Tick ==
  /\ BreakerTick
  /\ sinceTrip' = Saturate(sinceTrip, OpenTimeout + 1)
  /\ UNCHANGED <<pc, up, outcomes>>

\* The dependency, or the budget for calling it, goes or comes back.
Flap ==
  /\ up' = ~up
  /\ UNCHANGED <<breakerVars, pc, sinceTrip, outcomes>>

Call(c) == Admit(c) \/ Refuse(c)
Return(c) == Succeed(c) \/ SucceedMalformed(c) \/ Fail(c)

Next ==
  \/ \E c \in Callers : Call(c) \/ Return(c) \/ Abandon(c)
  \/ Tick
  \/ Flap

\* Time passes, users keep calling, and an attempt ends (every adapter gives
\* its attempts a timeout).
Fairness ==
  /\ WF_vars(Tick)
  /\ \A c \in Callers : WF_vars(Call(c)) /\ WF_vars(Return(c))

Spec == Init /\ [][Next]_vars

FairSpec == Spec /\ Fairness

-----------------------------------------------------------------------------
(***************************************************************************)
(* Safety.                                                                 *)
(***************************************************************************)

\* After a trip no call starts for more than OpenTimeout, whatever the calls
\* already in flight report meanwhile: a late success must not let traffic
\* back early, a late failure must not either.
\* resilience.py:38-42, "trips to OPEN and refuses work".
CoolOff ==
  [][\A c \in Callers : pc[c] = "idle" /\ pc'[c] = "calling"
                          => sinceTrip > OpenTimeout]_vars

\* The breaker trips exactly on FailureThreshold failures in a row, counted in
\* the order the outcomes were recorded over all callers: with that many it is
\* not closed, and it enters Open on no fewer.
\* resilience.py:38-39, "After failure_threshold consecutive failures".
AllFailed ==
  /\ Len(outcomes) = FailureThreshold
  /\ \A i \in DOMAIN outcomes : outcomes[i] = "failure"

ClosedIsEarned == state = Closed => ~AllFailed

TripIsEarned == [][state # Open /\ state' = Open => AllFailed']_vars

\* What makes these two and CoolOff inductive: the count is the length of the
\* streak of failures that ends the history, and an open breaker's last failure
\* is no older than its trip.
StreakInv ==
  /\ state = Closed => failureCount < FailureThreshold
  /\ failureCount <= Len(outcomes)
  /\ \A i \in 1 .. Len(outcomes) :
       i > Len(outcomes) - failureCount => outcomes[i] = "failure"
  /\ failureCount < Len(outcomes) => outcomes[Len(outcomes) - failureCount] = "success"

GateInv ==
  /\ state # Open => sinceTrip > OpenTimeout
  /\ state = Open /\ failureAge # NoFailure => failureAge <= sinceTrip

IInv == TypeOK /\ StreakInv /\ GateInv

\* The breaker implements the gate it is to its dependency.
Gate == INSTANCE CallGate WITH
          Window <- OpenTimeout,
          shut <- (state = Open),
          shutFor <- sinceTrip,
          inFlight <- InFlight

ImplementsGate == Gate!Spec

-----------------------------------------------------------------------------
(***************************************************************************)
(* Liveness.                                                               *)
(***************************************************************************)

\* An open breaker that has forgotten when it failed: allow() can never move
\* it on, so it waits for a failure no caller is let in to have.
Wedged == state = Open /\ failureAge = NoFailure

\* Once the dependency stays up, the breaker closes for good, unless it wedges:
\* a wedge is the only obstacle.  resilience.py:40-42.
Recovers == <>[]up /\ []~Wedged => <>[](state = Closed)

-----------------------------------------------------------------------------
(***************************************************************************)
(* What the comments say and the code does not do.                         *)
(***************************************************************************)

\* resilience.py:40-41: "Once open_timeout seconds have elapsed it moves to
\* HALF_OPEN and allows a single probe".  An open breaker always knows when
\* its window ends.
OpenWindowEnds == ~Wedged
=============================================================================
