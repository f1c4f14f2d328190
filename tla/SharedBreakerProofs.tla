------------------------- MODULE SharedBreakerProofs -------------------------
(***************************************************************************)
(* Theorems about SharedBreaker, for every set of callers, threshold and   *)
(* window.                                                                 *)
(***************************************************************************)
EXTENDS SharedBreaker, TLAPS

-----------------------------------------------------------------------------
(***************************************************************************)
(* Lemmas on the helpers.                                                  *)
(***************************************************************************)

\* Saturate stays within its limit and never moves down.
LEMMA SaturateFacts ==
  ASSUME NEW limit \in Nat, NEW n \in 0 .. limit
  PROVE  /\ Saturate(n, limit) \in 0 .. limit
         /\ Saturate(n, limit) >= n
         /\ n < limit => Saturate(n, limit) = n + 1
         /\ n = limit => Saturate(n, limit) = limit
BY DEF Saturate

\* Where an entry of a full or growing window of length n comes from: entry i of
\* the new window, inside the new streak of k + 1, lies inside the old streak of k.
LEMMA StreakArithmetic ==
  ASSUME NEW T \in Nat, NEW n \in 0 .. T, NEW k \in 0 .. n, NEW k1 \in Nat,
         NEW m \in Nat, NEW i \in 1 .. (m - 1),
         k1 = k + 1 \/ (k = T /\ k1 = T),
         (n = T /\ m = n) \/ (n < T /\ m = n + 1),
         i > m - k1
  PROVE  /\ i + n + 1 - m \in 1 .. n
         /\ i + n + 1 - m > n - k
<1>1. CASE n = T /\ m = n
  BY <1>1
<1>2. CASE n < T /\ m = n + 1
  BY <1>2
<1> QED
  BY <1>1, <1>2

\* The sliding window of outcomes keeps its type and its length bound, ends with
\* the outcome just recorded, and its other entries are old ones moved down.
LEMMA OutcomeFacts ==
  ASSUME TypeOK, NEW o \in {"success", "failure"}, NoteOutcome(o)
  PROVE  /\ outcomes' \in Seq({"success", "failure"})
         /\ Len(outcomes') <= FailureThreshold
         /\ Len(outcomes') = IF Len(outcomes) = FailureThreshold
                             THEN FailureThreshold ELSE Len(outcomes) + 1
         /\ outcomes'[Len(outcomes')] = o
         /\ \A i \in 1 .. (Len(outcomes') - 1) :
              outcomes'[i] = outcomes[i + Len(outcomes) + 1 - Len(outcomes')]
<1> USE BreakerAssumption DEF TypeOK
<1>1. CASE Len(outcomes) = FailureThreshold
  <2>1. outcomes # <<>>
    BY <1>1
  <2>2. /\ Tail(outcomes) \in Seq({"success", "failure"})
        /\ Len(Tail(outcomes)) = Len(outcomes) - 1
        /\ \A i \in 1 .. Len(Tail(outcomes)) : Tail(outcomes)[i] = outcomes[i + 1]
    BY <2>1
  <2>3. outcomes' = Append(Tail(outcomes), o)
    BY <1>1 DEF NoteOutcome
  <2> QED
    BY <1>1, <2>2, <2>3
<1>2. CASE Len(outcomes) # FailureThreshold
  <2>1. outcomes' = Append(outcomes, o)
    BY <1>2 DEF NoteOutcome
  <2> QED
    BY <1>2, <2>1
<1> QED
  BY <1>1, <1>2

-----------------------------------------------------------------------------
(***************************************************************************)
(* The inductive invariant.                                                *)
(***************************************************************************)

LEMMA InitIInv == Init => IInv
BY BreakerAssumption
   DEF Init, BreakerInit, IInv, TypeOK, BreakerTypeOK, StreakInv, GateInv,
       CallerStates, Ages, NoFailure, Closed, Open, HalfOpen

\* A recorded success empties the streak.
LEMMA SuccessStep ==
  ASSUME IInv, RecordSuccess, NoteTrip, NoteOutcome("success")
  PROVE  /\ BreakerTypeOK'
         /\ sinceTrip' \in Ages
         /\ StreakInv'
         /\ GateInv'
<1> USE BreakerAssumption
<1>1. /\ state \in {Closed, Open, HalfOpen}
      /\ failureCount \in 0 .. FailureThreshold
      /\ sinceTrip \in Ages
      /\ outcomes \in Seq({"success", "failure"})
  BY DEF IInv, TypeOK, BreakerTypeOK
<1>2. /\ state' = IF state = HalfOpen THEN Closed ELSE state
      /\ failureCount' = 0
      /\ failureAge' = NoFailure
  BY DEF RecordSuccess
<1>3. sinceTrip' = sinceTrip
  BY <1>1, <1>2 DEF NoteTrip, Closed, Open, HalfOpen
<1>4. BreakerTypeOK'
  BY <1>1, <1>2 DEF BreakerTypeOK
<1>5. StreakInv'
  <2>1. /\ outcomes' \in Seq({"success", "failure"})
        /\ Len(outcomes') >= 1
        /\ outcomes'[Len(outcomes')] = "success"
    BY <1>1, OutcomeFacts DEF IInv
  <2> QED
    BY <1>2, <2>1 DEF StreakInv
<1>6. GateInv'
  BY <1>1, <1>2, <1>3 DEF IInv, GateInv, Closed, Open, HalfOpen
<1> QED
  BY <1>1, <1>3, <1>4, <1>5, <1>6

\* A recorded failure lengthens the streak and restarts the open window.
LEMMA FailureStep ==
  ASSUME IInv, RecordFailure, NoteTrip, NoteOutcome("failure")
  PROVE  /\ BreakerTypeOK'
         /\ sinceTrip' \in Ages
         /\ StreakInv'
         /\ GateInv'
<1> USE BreakerAssumption
<1>1. /\ state \in {Closed, Open, HalfOpen}
      /\ failureCount \in 0 .. FailureThreshold
      /\ sinceTrip \in Ages
      /\ outcomes \in Seq({"success", "failure"})
      /\ Len(outcomes) <= FailureThreshold
  BY DEF IInv, TypeOK, BreakerTypeOK
<1>2. /\ failureCount' = Saturate(failureCount, FailureThreshold)
      /\ failureAge' = 0
      /\ state' = IF failureCount' >= FailureThreshold THEN Open ELSE state
  BY DEF RecordFailure, Trips
<1>3. /\ failureCount' \in 0 .. FailureThreshold
      /\ failureCount < FailureThreshold => failureCount' = failureCount + 1
      /\ failureCount = FailureThreshold => failureCount' = FailureThreshold
  BY <1>1, <1>2, SaturateFacts
<1>4. BreakerTypeOK'
  BY <1>1, <1>2, <1>3 DEF BreakerTypeOK, Ages
<1>5. sinceTrip' \in Ages
  BY <1>1 DEF NoteTrip, Ages
<1>6. StreakInv'
  <2> DEFINE n == Len(outcomes)
             m == Len(outcomes')
  <2>1. /\ outcomes' \in Seq({"success", "failure"})
        /\ m = IF n = FailureThreshold THEN FailureThreshold ELSE n + 1
        /\ outcomes'[m] = "failure"
        /\ \A i \in 1 .. (m - 1) : outcomes'[i] = outcomes[i + n + 1 - m]
    BY OutcomeFacts DEF IInv
  <2>2. /\ failureCount <= n
        /\ \A i \in 1 .. n : i > n - failureCount => outcomes[i] = "failure"
        /\ failureCount < n => outcomes[n - failureCount] = "success"
    BY DEF IInv, StreakInv
  <2>3. n \in Nat /\ m \in Nat /\ n <= FailureThreshold /\ m >= 1
    BY <1>1, <2>1
  <2>4. state' = Closed => failureCount' < FailureThreshold
    BY <1>2, <1>3 DEF Closed, Open
  <2>5. failureCount' <= m
    BY <1>1, <1>3, <2>1, <2>2, <2>3
  <2>6. ASSUME NEW i \in 1 .. m, i > m - failureCount'
        PROVE  outcomes'[i] = "failure"
    <3>1. CASE i = m
      BY <3>1, <2>1
    <3>2. CASE i # m
      <4>1. i \in 1 .. (m - 1)
        BY <3>2, <2>3
      <4>2. /\ i + n + 1 - m \in 1 .. n
            /\ i + n + 1 - m > n - failureCount
        <5>1. /\ n \in 0 .. FailureThreshold /\ failureCount \in 0 .. n
              /\ failureCount' \in Nat /\ m \in Nat /\ FailureThreshold \in Nat
          BY <1>1, <1>3, <2>2, <2>3
        <5>2. \/ failureCount' = failureCount + 1
              \/ failureCount = FailureThreshold /\ failureCount' = FailureThreshold
          BY <1>1, <1>3
        <5>3. (n = FailureThreshold /\ m = n) \/ (n < FailureThreshold /\ m = n + 1)
          BY <2>1, <2>3
        <5> HIDE DEF n, m
        <5> QED
          BY <4>1, <5>1, <5>2, <5>3, <2>6, StreakArithmetic
      <4> QED
        BY <4>1, <4>2, <2>1, <2>2
    <3> QED
      BY <3>1, <3>2
  <2>7. failureCount' < m => outcomes'[m - failureCount'] = "success"
    <3> SUFFICES ASSUME failureCount' < m
                 PROVE  outcomes'[m - failureCount'] = "success"
      OBVIOUS
    <3>1. failureCount < FailureThreshold /\ failureCount' = failureCount + 1
      BY <1>1, <1>3, <2>1, <2>3
    <3>2. m - failureCount' \in 1 .. (m - 1)
      BY <1>1, <2>3, <3>1
    <3>3. (m - failureCount') + n + 1 - m = n - failureCount /\ failureCount < n
      BY <1>1, <2>1, <2>3, <3>1
    <3> QED
      BY <2>1, <2>2, <3>2, <3>3
  <2> QED
    BY <2>4, <2>5, <2>6, <2>7 DEF StreakInv
<1>7. GateInv'
  BY <1>1, <1>2, <1>5 DEF IInv, GateInv, NoteTrip, Closed, Open, HalfOpen, NoFailure, Ages
<1> QED
  BY <1>4, <1>5, <1>6, <1>7

\* Every step preserves the inductive invariant.
LEMMA NextIInv == IInv /\ [Next]_vars => IInv'
<1> SUFFICES ASSUME IInv, [Next]_vars
             PROVE  IInv'
  OBVIOUS
<1> USE BreakerAssumption
<1>0. /\ state \in {Closed, Open, HalfOpen}
      /\ failureCount \in 0 .. FailureThreshold
      /\ failureAge \in Ages \cup {NoFailure}
      /\ pc \in [Callers -> CallerStates]
      /\ up \in BOOLEAN
      /\ sinceTrip \in Ages
  BY DEF IInv, TypeOK, BreakerTypeOK
<1>1. ASSUME NEW c \in Callers, Admit(c)
      PROVE  IInv'
  <2>1. /\ UNCHANGED <<failureCount, failureAge, up, outcomes>>
        /\ pc' = [pc EXCEPT ![c] = "calling"]
        /\ \/ state' = state
           \/ state = Open /\ state' = HalfOpen /\ WindowElapsed
    BY <1>1 DEF Admit, AllowPasses, breakerVars
  <2>2. sinceTrip' = sinceTrip
    BY <1>1, <2>1 DEF Admit, NoteTrip, Open, HalfOpen
  <2>3. TypeOK'
    BY <1>0, <2>1, <2>2 DEF IInv, TypeOK, BreakerTypeOK, CallerStates
  <2>4. StreakInv'
    BY <2>1 DEF IInv, StreakInv, Closed, HalfOpen
  <2>5. GateInv'
    BY <1>0, <2>1, <2>2 DEF IInv, GateInv, WindowElapsed, Ages, Open, HalfOpen, NoFailure
  <2> QED
    BY <2>3, <2>4, <2>5 DEF IInv
<1>2. ASSUME NEW c \in Callers, Refuse(c)
      PROVE  IInv'
  BY <1>2 DEF Refuse, AllowRefuses, breakerVars, IInv, TypeOK, BreakerTypeOK, StreakInv, GateInv
<1>3. ASSUME NEW c \in Callers, Succeed(c)
      PROVE  IInv'
  <2>1. pc' \in [Callers -> CallerStates] /\ up' \in BOOLEAN
    BY <1>0, <1>3 DEF Succeed, CallerStates
  <2>2. BreakerTypeOK' /\ sinceTrip' \in Ages /\ StreakInv' /\ GateInv'
    BY <1>3, SuccessStep DEF Succeed
  <2> QED
    BY <1>3, <2>1, <2>2, OutcomeFacts DEF IInv, TypeOK, Succeed
<1>4. ASSUME NEW c \in Callers, SucceedMalformed(c)
      PROVE  IInv'
  <2>1. pc' \in [Callers -> CallerStates] /\ up' \in BOOLEAN
    BY <1>0, <1>4 DEF SucceedMalformed, CallerStates
  <2>2. BreakerTypeOK' /\ sinceTrip' \in Ages /\ StreakInv' /\ GateInv'
    BY <1>4, SuccessStep DEF SucceedMalformed
  <2> QED
    BY <1>4, <2>1, <2>2, OutcomeFacts DEF IInv, TypeOK, SucceedMalformed
<1>5. ASSUME NEW c \in Callers, Fail(c)
      PROVE  IInv'
  <2>1. pc' \in [Callers -> CallerStates] /\ up' \in BOOLEAN
    BY <1>0, <1>5 DEF Fail, CallerStates
  <2>2. BreakerTypeOK' /\ sinceTrip' \in Ages /\ StreakInv' /\ GateInv'
    BY <1>5, FailureStep DEF Fail
  <2> QED
    BY <1>5, <2>1, <2>2, OutcomeFacts DEF IInv, TypeOK, Fail
<1>6. ASSUME NEW c \in Callers, Abandon(c)
      PROVE  IInv'
  BY <1>0, <1>6
     DEF Abandon, breakerVars, CallerStates, IInv, TypeOK, BreakerTypeOK, StreakInv, GateInv
<1>7. ASSUME Tick
      PROVE  IInv'
  <2>1. /\ sinceTrip' = Saturate(sinceTrip, OpenTimeout + 1)
        /\ failureAge' = IF failureAge = NoFailure THEN NoFailure
                         ELSE Saturate(failureAge, OpenTimeout + 1)
        /\ UNCHANGED <<state, failureCount, pc, up, outcomes>>
    BY <1>7 DEF Tick, BreakerTick
  <2>2. TypeOK'
    BY <1>0, <2>1 DEF IInv, TypeOK, BreakerTypeOK, Ages, Saturate, NoFailure
  <2>3. StreakInv'
    BY <2>1 DEF IInv, StreakInv
  <2>4. GateInv'
    BY <1>0, <2>1 DEF IInv, GateInv, Ages, Saturate, NoFailure
  <2> QED
    BY <2>2, <2>3, <2>4 DEF IInv
<1>8. ASSUME Flap
      PROVE  IInv'
  BY <1>0, <1>8 DEF Flap, breakerVars, IInv, TypeOK, BreakerTypeOK, StreakInv, GateInv
<1>9. CASE UNCHANGED vars
  BY <1>9 DEF vars, breakerVars, IInv, TypeOK, BreakerTypeOK, StreakInv, GateInv
<1> QED
  BY <1>1, <1>2, <1>3, <1>4, <1>5, <1>6, <1>7, <1>8, <1>9 DEF Next, Call, Return

\* The inductive invariant holds throughout: the count is the streak of failures
\* ending the history, and every admitted call found a rested gate.
THEOREM InductiveInvariant == Spec => []IInv
<1> QED
  BY InitIInv, NextIInv, PTL DEF Spec

\* The breaker's fields and the callers' states keep their types.
THEOREM TypeCorrect == Spec => []TypeOK
<1>1. IInv => TypeOK
  BY DEF IInv
<1> QED
  BY <1>1, InductiveInvariant, PTL

-----------------------------------------------------------------------------
(***************************************************************************)
(* The properties the runs check.                                          *)
(***************************************************************************)

\* A closed breaker has not just seen FailureThreshold failures in a row.
THEOREM ClosedEarned == Spec => []ClosedIsEarned
<1>1. IInv => ClosedIsEarned
  <2> SUFFICES ASSUME IInv, state = Closed, AllFailed
               PROVE  FALSE
    BY DEF ClosedIsEarned
  <2>1. /\ failureCount \in 0 .. FailureThreshold
        /\ failureCount < FailureThreshold
        /\ Len(outcomes) = FailureThreshold
        /\ outcomes \in Seq({"success", "failure"})
        /\ \A i \in 1 .. Len(outcomes) : outcomes[i] = "failure"
    BY DEF IInv, TypeOK, BreakerTypeOK, StreakInv, AllFailed
  <2>2. outcomes[Len(outcomes) - failureCount] = "success"
    BY <2>1 DEF IInv, StreakInv
  <2>3. Len(outcomes) - failureCount \in 1 .. Len(outcomes)
    BY <2>1, BreakerAssumption
  <2> QED
    BY <2>1, <2>2, <2>3
<1> QED
  BY <1>1, InductiveInvariant, PTL

\* No call starts within OpenTimeout ticks of a trip.
THEOREM CoolOffHolds == Spec => CoolOff
<1>1. IInv /\ [Next]_vars
      => [\A c \in Callers : pc[c] = "idle" /\ pc'[c] = "calling"
                             => sinceTrip > OpenTimeout]_vars
  <2> SUFFICES ASSUME IInv, Next,
                      NEW c \in Callers, pc[c] = "idle", pc'[c] = "calling"
               PROVE  sinceTrip > OpenTimeout
    BY DEF vars
  <2>1. /\ pc \in [Callers -> CallerStates]
        /\ sinceTrip \in Ages
        /\ failureAge \in Ages \cup {NoFailure}
        /\ state \in {Closed, Open, HalfOpen}
    BY DEF IInv, TypeOK, BreakerTypeOK
  <2>2. PICK d \in Callers : Call(d) \/ Return(d) \/ Abandon(d)
    BY <2>1 DEF Next, Tick, Flap
  <2>3. Admit(d)
    BY <2>1, <2>2
       DEF Call, Return, Refuse, Succeed, SucceedMalformed, Fail, Abandon, CallerStates
  <2>4. CASE state # Open
    BY <2>4 DEF IInv, GateInv
  <2>5. CASE state = Open
    <3>1. failureAge # NoFailure /\ failureAge > OpenTimeout
      BY <2>3, <2>5 DEF Admit, AllowPasses, WindowElapsed, Closed, Open, HalfOpen
    <3>2. failureAge <= sinceTrip
      BY <2>5, <3>1 DEF IInv, GateInv
    <3> QED
      BY <2>1, <3>1, <3>2, BreakerAssumption DEF Ages
  <2> QED
    BY <2>4, <2>5
<1> QED
  BY <1>1, InductiveInvariant, PTL DEF Spec, CoolOff

\* The breaker enters Open only on FailureThreshold failures in a row.
THEOREM TripEarned == Spec => TripIsEarned
<1>1. IInv /\ [Next]_vars => [state # Open /\ state' = Open => AllFailed']_vars
  <2> SUFFICES ASSUME IInv, IInv', Next, state # Open, state' = Open
               PROVE  AllFailed'
    BY NextIInv DEF vars
  <2>1. /\ state \in {Closed, Open, HalfOpen}
        /\ failureCount' \in 0 .. FailureThreshold
        /\ outcomes' \in Seq({"success", "failure"})
        /\ Len(outcomes') <= FailureThreshold
        /\ failureCount' <= Len(outcomes')
        /\ \A i \in 1 .. Len(outcomes') :
             i > Len(outcomes') - failureCount' => outcomes'[i] = "failure"
    BY DEF IInv, TypeOK, BreakerTypeOK, StreakInv
  <2>2. RecordFailure
    BY <2>1
       DEF Next, Call, Return, Admit, AllowPasses, Refuse, AllowRefuses, Succeed,
           SucceedMalformed, RecordSuccess, Fail, Abandon, Tick, BreakerTick, Flap,
           breakerVars, Closed, Open, HalfOpen
  <2>3. failureCount' = FailureThreshold
    BY <2>1, <2>2, BreakerAssumption DEF RecordFailure, Trips
  <2> QED
    BY <2>1, <2>3, BreakerAssumption DEF AllFailed
<1> QED
  BY <1>1, InductiveInvariant, PTL DEF Spec, TripIsEarned

\* Every initial state of the breaker is one of the gate.
LEMMA GateInit == Init => Gate!Init
BY DEF Init, BreakerInit, Gate!Init, InFlight, Closed, Open

\* Every step of the breaker is a step of the gate, or leaves it alone.
LEMMA GateStep == IInv /\ [Next]_vars => [Gate!Next]_(Gate!gateVars)
<1> SUFFICES ASSUME IInv, [Next]_vars
             PROVE  [Gate!Next]_(Gate!gateVars)
  OBVIOUS
<1> USE BreakerAssumption DEF Closed, Open, HalfOpen
<1>0. /\ state \in {Closed, Open, HalfOpen}
      /\ failureAge \in Ages \cup {NoFailure}
      /\ pc \in [Callers -> CallerStates]
      /\ sinceTrip \in Ages
  BY DEF IInv, TypeOK, BreakerTypeOK
<1>1. ASSUME NEW c \in Callers, Admit(c)
      PROVE  Gate!Start(c)
  <2>1. state' # Open /\ sinceTrip' = sinceTrip
    BY <1>0, <1>1 DEF Admit, AllowPasses, NoteTrip, breakerVars
  <2>2. state = Open => sinceTrip > OpenTimeout
    BY <1>0, <1>1 DEF Admit, AllowPasses, WindowElapsed, IInv, GateInv, Ages
  <2>3. c \notin InFlight /\ InFlight' = InFlight \cup {c}
    BY <1>0, <1>1 DEF Admit, InFlight, CallerStates
  <2> QED
    BY <2>1, <2>2, <2>3 DEF Gate!Start
<1>2. ASSUME NEW c \in Callers, Succeed(c) \/ SucceedMalformed(c) \/ Abandon(c)
      PROVE  Gate!Progress(c)
  <2>1. (state = Open)' = (state = Open) /\ sinceTrip' = sinceTrip
    BY <1>0, <1>2
       DEF Succeed, SucceedMalformed, Abandon, RecordSuccess, NoteTrip, breakerVars
  <2>2. c \in InFlight /\ InFlight' \in {InFlight, InFlight \ {c}}
    BY <1>0, <1>2 DEF Succeed, SucceedMalformed, Abandon, InFlight, CallerStates
  <2> QED
    BY <2>1, <2>2 DEF Gate!Progress
<1>3. ASSUME NEW c \in Callers, Fail(c)
      PROVE  Gate!Progress(c)
  <2>1. \/ (state = Open)' = (state = Open) /\ sinceTrip' = sinceTrip
        \/ state # Open /\ state' = Open /\ sinceTrip' = 0
    BY <1>0, <1>3 DEF Fail, RecordFailure, NoteTrip
  <2>2. c \in InFlight /\ InFlight' = InFlight \ {c}
    BY <1>0, <1>3 DEF Fail, InFlight, CallerStates
  <2> QED
    BY <2>1, <2>2 DEF Gate!Progress
<1>4. ASSUME Tick
      PROVE  Gate!Tick
  BY <1>0, <1>4 DEF Tick, BreakerTick, Gate!Tick, Saturate, InFlight, Ages
<1>5. ASSUME NEW c \in Callers, Refuse(c)
      PROVE  UNCHANGED Gate!gateVars
  BY <1>5 DEF Refuse, AllowRefuses, breakerVars, Gate!gateVars, InFlight
<1>6. ASSUME Flap
      PROVE  UNCHANGED Gate!gateVars
  BY <1>6 DEF Flap, breakerVars, Gate!gateVars, InFlight
<1>7. CASE UNCHANGED vars
  BY <1>7 DEF vars, breakerVars, Gate!gateVars, InFlight
<1> QED
  BY <1>1, <1>2, <1>3, <1>4, <1>5, <1>6, <1>7 DEF Next, Call, Return, Gate!Next

\* The breaker implements the gate, under the mapping of Gate.
THEOREM BreakerImplementsGate == Spec => ImplementsGate
<1> QED
  BY GateInit, GateStep, InductiveInvariant, PTL DEF Spec, ImplementsGate, Gate!Spec
=============================================================================
