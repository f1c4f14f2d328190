----------------------------- MODULE OpenAIProofs -----------------------------
(***************************************************************************)
(* OpenAIAdapter for any number of requests and retries: with its retries  *)
(* hidden it implements SharedBreaker, what is proved of SharedBreaker     *)
(* holds of it, and the audited retries of a request alone are its own.    *)
(***************************************************************************)
EXTENDS OpenAIAdapter, FiniteSetTheorems, TLAPS

\* A request's place as SharedBreaker sees it.
Place == [c \in Requests |-> IF Active(c) THEN "calling" ELSE "idle"]

PlacesOK == pc \in [Requests -> {"idle", "posting", "sleeping"}]

\* Nobody has asked, in both views.
LEMMA InitMaps == Init => PlacesOK /\ Breaker!Init
BY DEF Init, PlacesOK, Breaker!Init, BreakerInit, Breaker!BreakerInit, Active, Closed,
   Breaker!Closed, NoFailure, Breaker!NoFailure

\* A request that begins or ends does so in both views; one that retries stays.
LEMMA PlaceMoves ==
  ASSUME PlacesOK, NEW c \in Requests, NEW s \in {"idle", "posting", "sleeping"},
         pc' = [pc EXCEPT ![c] = s]
  PROVE  /\ PlacesOK'
         /\ Place[c] = IF Active(c) THEN "calling" ELSE "idle"
         /\ Place' = [Place EXCEPT ![c] = IF s = "idle" THEN "idle" ELSE "calling"]
         /\ Active(c) /\ s # "idle" => Place' = Place
BY DEF PlacesOK, Place, Active

\* The breaker and its histories mean the same in both views.
LEMMA SameBreaker ==
  /\ Breaker!breakerVars = breakerVars
  /\ AllowPasses => Breaker!AllowPasses
  /\ AllowRefuses => Breaker!AllowRefuses
  /\ RecordSuccess => Breaker!RecordSuccess
  /\ RecordFailure => Breaker!RecordFailure
  /\ BreakerTick => Breaker!BreakerTick
  /\ NoteTrip => Breaker!NoteTrip
  /\ \A o : NoteOutcome(o) => Breaker!NoteOutcome(o)
  /\ \A n, limit : Saturate(n, limit) = Breaker!Saturate(n, limit)
<1> USE DEF breakerVars, Breaker!breakerVars, Closed, Open, HalfOpen, Breaker!Closed,
            Breaker!Open, Breaker!HalfOpen, NoFailure, Breaker!NoFailure, Saturate,
            Breaker!Saturate
<1>1. AllowPasses => Breaker!AllowPasses
  BY DEF AllowPasses, Breaker!AllowPasses, WindowElapsed, Breaker!WindowElapsed
<1>2. AllowRefuses => Breaker!AllowRefuses
  BY DEF AllowRefuses, Breaker!AllowRefuses, WindowElapsed, Breaker!WindowElapsed
<1>3. RecordSuccess => Breaker!RecordSuccess
  BY DEF RecordSuccess, Breaker!RecordSuccess
<1>4. RecordFailure => Breaker!RecordFailure
  BY DEF RecordFailure, Breaker!RecordFailure, Trips, Breaker!Trips
<1>5. BreakerTick => Breaker!BreakerTick
  BY DEF BreakerTick, Breaker!BreakerTick
<1>6. NoteTrip => Breaker!NoteTrip
  BY DEF NoteTrip, Breaker!NoteTrip, Entering
<1>7. \A o : NoteOutcome(o) => Breaker!NoteOutcome(o)
  BY DEF NoteOutcome, Breaker!NoteOutcome
<1> QED
  BY <1>1, <1>2, <1>3, <1>4, <1>5, <1>6, <1>7

\* Every step is one of SharedBreaker's, or leaves all it has as it is.
LEMMA StepMaps ==
  ASSUME PlacesOK, [Next]_vars
  PROVE  PlacesOK' /\ [Breaker!Next]_(Breaker!vars)
<1> USE DEF Breaker!Next, Breaker!Call, Breaker!Return
<1>1. ASSUME NEW c \in Requests, Admit(c)
      PROVE  PlacesOK' /\ Breaker!Next
  <2>1. PlacesOK' /\ Place[c] = "idle" /\ Place' = [Place EXCEPT ![c] = "calling"]
    BY <1>1, PlaceMoves DEF Admit
  <2>2. Breaker!Admit(c)
    BY <1>1, <2>1, SameBreaker DEF Admit, Breaker!Admit, Place
  <2> QED
    BY <2>1, <2>2
<1>2. ASSUME NEW c \in Requests, Refuse(c)
      PROVE  PlacesOK' /\ Breaker!Next
  <2>1. pc' = pc /\ Place[c] = "idle" /\ Place' = Place
    BY <1>2 DEF Refuse, requestVars, Place, Active
  <2>2. Breaker!Refuse(c)
    BY <1>2, <2>1, SameBreaker DEF Refuse, historyVars, Breaker!Refuse, Place
  <2> QED
    BY <2>1, <2>2 DEF PlacesOK
<1>3. ASSUME NEW c \in Requests, Succeed(c)
      PROVE  PlacesOK' /\ Breaker!Next
  <2>1. PlacesOK' /\ Place[c] = "calling" /\ Place' = [Place EXCEPT ![c] = "idle"]
    BY <1>3, PlaceMoves DEF Succeed, Active
  <2>2. Breaker!Succeed(c)
    BY <1>3, <2>1, SameBreaker DEF Succeed, Breaker!Succeed, Place
  <2> QED
    BY <2>1, <2>2
<1>4. ASSUME NEW c \in Requests, Fail(c)
      PROVE  PlacesOK' /\ Breaker!Next
  <2>1. PlacesOK' /\ Place[c] = "calling" /\ Place' = [Place EXCEPT ![c] = "idle"]
    BY <1>4, PlaceMoves DEF Fail, Active
  <2>2. Breaker!Fail(c)
    BY <1>4, <2>1, SameBreaker DEF Fail, Breaker!Fail, Place
  <2> QED
    BY <2>1, <2>2
<1>5. ASSUME NEW c \in Requests, Retry(c) \/ Wake(c)
      PROVE  PlacesOK' /\ UNCHANGED Breaker!vars
  <2>1. PlacesOK' /\ Place' = Place
    BY <1>5, PlaceMoves DEF Retry, Wake, Active
  <2> QED
    BY <1>5, <2>1 DEF Retry, Wake, historyVars, breakerVars, Breaker!vars,
       Breaker!breakerVars, Place
<1>6. CASE Tick
  <2>1. pc' = pc /\ Place' = Place
    BY <1>6 DEF Tick, requestVars, Place, Active
  <2>2. Breaker!Tick
    BY <1>6, <2>1, SameBreaker DEF Tick, Breaker!Tick, Place
  <2> QED
    BY <2>1, <2>2 DEF PlacesOK
<1>7. CASE Flap
  <2>1. pc' = pc /\ Place' = Place
    BY <1>7 DEF Flap, requestVars, Place, Active
  <2>2. Breaker!Flap
    BY <1>7, <2>1 DEF Flap, historyVars, breakerVars, Breaker!breakerVars, Breaker!Flap,
       Place
  <2> QED
    BY <2>1, <2>2 DEF PlacesOK
<1>8. CASE UNCHANGED vars
  BY <1>8 DEF vars, requestVars, historyVars, breakerVars, Breaker!vars,
     Breaker!breakerVars, Active, PlacesOK
<1> QED
  BY <1>1, <1>2, <1>3, <1>4, <1>5, <1>6, <1>7, <1>8 DEF Next, Respond

\* With its retries hidden the adapter is a set of callers of the shared breaker.
\* openai_adapter.py:256-258.
THEOREM AdapterImplementsBreaker == Spec => ImplementsSharedBreaker
BY InitMaps, StepMaps, PTL DEF Spec, ImplementsSharedBreaker, Breaker!Spec
-----------------------------------------------------------------------------
(***************************************************************************)
(* What SharedBreakerProofs proves, of the adapter's breaker.  Breaker and *)
(* Proved are the same module with the same places, instantiated with and  *)
(* without its theorems; the steps that say so expand both in full.        *)
(***************************************************************************)
Proved == INSTANCE SharedBreakerProofs WITH
            Callers <- Requests,
            pc <- [c \in Requests |-> IF Active(c) THEN "calling" ELSE "idle"]

\* Hence no request begins within the window after a trip.  resilience.py:38-42.
THEOREM AdapterCoolsOff == Spec => Breaker!CoolOff
<1>1. Proved!BreakerAssumption /\ Proved!CallersAssumption
  BY BreakerAssumption, RetryAssumption DEF Proved!BreakerAssumption, Proved!CallersAssumption
<1>2. Proved!Spec => Proved!CoolOff
  BY <1>1, Proved!CoolOffHolds, PTL
<1>3. Breaker!Init => Proved!Init
  BY
     DEF Breaker!Init, Proved!Init, Breaker!BreakerInit, Proved!BreakerInit,
       Breaker!Closed, Proved!Closed, Breaker!NoFailure, Proved!NoFailure
<1>4. [Breaker!Next]_(Breaker!vars) => [Proved!Next]_(Proved!vars)
  BY
     DEF Breaker!Next, Proved!Next, Breaker!Call, Proved!Call, Breaker!Return,
       Proved!Return, Breaker!Admit, Proved!Admit, Breaker!Refuse, Proved!Refuse,
       Breaker!Succeed, Proved!Succeed, Breaker!SucceedMalformed,
       Proved!SucceedMalformed, Breaker!Fail, Proved!Fail, Breaker!Abandon,
       Proved!Abandon, Breaker!Tick, Proved!Tick, Breaker!Flap, Proved!Flap,
       Breaker!vars, Proved!vars, Breaker!breakerVars, Proved!breakerVars,
       Breaker!AllowPasses, Proved!AllowPasses, Breaker!AllowRefuses,
       Proved!AllowRefuses, Breaker!WindowElapsed, Proved!WindowElapsed,
       Breaker!RecordSuccess, Proved!RecordSuccess, Breaker!RecordFailure,
       Proved!RecordFailure, Breaker!Trips, Proved!Trips, Breaker!BreakerTick,
       Proved!BreakerTick, Breaker!NoteTrip, Proved!NoteTrip, Breaker!NoteOutcome,
       Proved!NoteOutcome, Breaker!Saturate, Proved!Saturate, Breaker!Closed,
       Proved!Closed, Breaker!Open, Proved!Open, Breaker!HalfOpen, Proved!HalfOpen,
       Breaker!NoFailure, Proved!NoFailure
<1>5. [\A c \in Requests : Place[c] = "idle" /\ Place'[c] = "calling"
                           => sinceTrip > OpenTimeout]_(Proved!vars)
      => [\A c \in Requests : Place[c] = "idle" /\ Place'[c] = "calling"
                           => sinceTrip > OpenTimeout]_(Breaker!vars)
  BY DEF Breaker!vars, Proved!vars, Breaker!breakerVars, Proved!breakerVars
<1> QED
  BY <1>2, <1>3, <1>4, <1>5, AdapterImplementsBreaker, PTL
     DEF ImplementsSharedBreaker, Breaker!Spec, Proved!Spec, Breaker!CoolOff,
         Proved!CoolOff, Place
-----------------------------------------------------------------------------
(***************************************************************************)
(* The audited number of attempts.                                         *)
(***************************************************************************)

\* Whoever nobody overlapped is alone; a request sleeps only with an attempt left.
AttemptsInv ==
  /\ PlacesOK
  /\ attempt \in [Requests -> 0 .. MaxRetries]
  /\ overlapped \in [Requests -> BOOLEAN]
  /\ \A c \in Requests : pc[c] = "sleeping" => attempt[c] < MaxRetries
  /\ \A c, d \in Requests : Active(c) /\ ~overlapped[c] /\ Active(d) => c = d

CounterInv == AttemptsInv /\ CounterRightAlone

\* The counter's bound is beyond the retries of one request.
LEMMA BoundIsFar == CountBound \in Nat /\ MaxRetries <= CountBound
<1>1. Cardinality(Requests) \in Nat /\ Cardinality(Requests) # 0
  BY RetryAssumption, FS_CardinalityType, FS_EmptySet
<1>2. ASSUME NEW m \in Nat, NEW k \in Nat \ {0}
      PROVE  m * k \in Nat /\ m <= m * k
  BY <1>2
<1> QED
  BY <1>1, <1>2, RetryAssumption DEF CountBound

\* Every step keeps the attempts, and the counter of a request that is alone.
LEMMA StepCounter ==
  ASSUME CounterInv, [Next]_vars
  PROVE  CounterInv'
<1> USE DEF CounterInv, AttemptsInv, PlacesOK, Active
<1>1. ASSUME NEW c \in Requests, Admit(c)
      PROVE  CounterInv'
  <2>1. /\ pc[c] = "idle" /\ pc' = [pc EXCEPT ![c] = "posting"]
        /\ attempt' = [attempt EXCEPT ![c] = 0] /\ lastRetryCount' = 0
        /\ overlapped' = [d \in Requests |->
              IF d = c THEN \E e \in Requests : Active(e) ELSE overlapped[d] \/ Active(d)]
    BY <1>1 DEF Admit
  <2>2. overlapped' \in [Requests -> BOOLEAN]
    BY <2>1, Zenon
  <2>3. \A d \in Requests \ {c} : Active(d) => overlapped'[d]
    BY <2>1
  <2>4. ~overlapped'[c] => \A e \in Requests : ~Active(e)
    BY <2>1
  <2>5. PlacesOK' /\ attempt' \in [Requests -> 0 .. MaxRetries]
    BY <2>1, RetryAssumption
  <2>6. \A d \in Requests : /\ pc'[d] = "sleeping" => attempt'[d] < MaxRetries
                            /\ Active(d)' => d = c \/ Active(d)
    BY <2>1
  <2>7. \A d, e \in Requests : Active(d)' /\ ~overlapped'[d] /\ Active(e)' => d = e
    BY <2>3, <2>4, <2>6
  <2>8. AttemptsInv'
    BY <2>2, <2>5, <2>6, <2>7
  <2>9. \A d \in Requests : pc'[d] # "idle" /\ ~overlapped'[d]
          => d = c /\ lastRetryCount' = 0 /\ attempt'[d] = 0 /\ pc'[d] # "sleeping"
    BY <2>1, <2>3, <2>6
  <2> QED
    BY <2>8, <2>9 DEF CounterRightAlone
<1>2. ASSUME NEW c \in Requests, Succeed(c) \/ Fail(c)
      PROVE  CounterInv'
  BY <1>2 DEF Succeed, Fail, CounterRightAlone
<1>3. ASSUME NEW c \in Requests, Retry(c)
      PROVE  CounterInv'
  <2>1. AttemptsInv'
    BY <1>3 DEF Retry, historyVars
  <2>2. ~overlapped[c] => lastRetryCount = attempt[c] /\ lastRetryCount < CountBound
    BY <1>3, BoundIsFar, RetryAssumption DEF Retry, CounterRightAlone
  <2>3. ~overlapped[c] => lastRetryCount' = attempt[c] + 1
    BY <1>3, <2>2 DEF Retry, Saturate
  <2> QED
    BY <1>3, <2>1, <2>3 DEF Retry, historyVars, CounterRightAlone
<1>4. ASSUME NEW c \in Requests, Wake(c)
      PROVE  CounterInv'
  <2>1. attempt[c] + 1 \in 0 .. MaxRetries
    BY <1>4, RetryAssumption DEF Wake
  <2> QED
    BY <1>4, <2>1, RetryAssumption DEF Wake, CounterRightAlone
<1>5. CASE Tick \/ Flap \/ (\E c \in Requests : Refuse(c)) \/ UNCHANGED vars
  BY <1>5 DEF Tick, Flap, Refuse, vars, requestVars, historyVars, CounterRightAlone
<1> QED
  BY <1>1, <1>2, <1>3, <1>4, <1>5 DEF Next, Respond

\* The audit of a request that no other one overlapped gives its own number of
\* attempts.  openai_adapter.py:245-247, 293, 320.
THEOREM AuditIsRight == Spec => []CounterRightAlone
<1>1. Init => CounterInv
  BY RetryAssumption DEF Init, CounterInv, AttemptsInv, PlacesOK, Active, CounterRightAlone
<1>2. CounterInv => CounterRightAlone
  BY DEF CounterInv
<1> QED
  BY <1>1, <1>2, StepCounter, PTL DEF Spec
-----------------------------------------------------------------------------
(***************************************************************************)
(* The attempts a backend sees after the trip, and the types.              *)
(***************************************************************************)

\* The retries that those in flight may still begin, each as <<request, attempt>>.
Left == {x \in Requests \X (1 .. MaxRetries) : Active(x[1]) /\ x[2] > attempt[x[1]]}

Bound == MaxRetries * (Cardinality(Requests) - 1)

\* While the breaker is open, the stragglers and what may still become one are
\* within the bound; otherwise there are none.
StragglersInv ==
  /\ AttemptsInv /\ BreakerTypeOK
  /\ stragglers \in Nat
  /\ state # Open => stragglers = 0
  /\ state = Open => stragglers + Cardinality(Left) <= Bound

\* The bound is a number, below the one the counters stop at.
LEMMA BoundIsNear == Bound \in Nat /\ CountBound \in Nat /\ Bound <= CountBound
<1>1. Cardinality(Requests) \in Nat /\ Cardinality(Requests) # 0
  BY RetryAssumption, FS_CardinalityType, FS_EmptySet
<1>2. ASSUME NEW m \in Nat, NEW k \in Nat \ {0}
      PROVE  m * k \in Nat /\ m * (k - 1) \in Nat /\ m * (k - 1) <= m * k
  BY <1>2
<1> QED
  BY <1>1, <1>2, RetryAssumption DEF Bound, CountBound

\* Every request but one has at most MaxRetries retries left.
LEMMA OthersLeft ==
  ASSUME NEW c \in Requests, NEW S \in SUBSET ((Requests \ {c}) \X (1 .. MaxRetries))
  PROVE  IsFiniteSet(S) /\ Cardinality(S) \in Nat /\ Cardinality(S) <= Bound
<1>1. /\ IsFiniteSet(Requests \ {c})
      /\ Cardinality(Requests \ {c}) = Cardinality(Requests) - 1
  BY RetryAssumption, FS_RemoveElement
<1>2. IsFiniteSet(1 .. MaxRetries) /\ Cardinality(1 .. MaxRetries) = MaxRetries
  BY RetryAssumption, FS_Interval
<1>3. Cardinality(Requests) \in Nat
  BY RetryAssumption, FS_CardinalityType
<1>4. /\ IsFiniteSet((Requests \ {c}) \X (1 .. MaxRetries))
      /\ Cardinality((Requests \ {c}) \X (1 .. MaxRetries))
           = (Cardinality(Requests) - 1) * MaxRetries
  <2> DEFINE R == Requests \ {c}
             A == 1 .. MaxRetries
  <2>1. IsFiniteSet(R) /\ IsFiniteSet(A)
    BY <1>1, <1>2
  <2> HIDE DEF R, A
  <2>2. IsFiniteSet(R \X A) /\ Cardinality(R \X A) = Cardinality(R) * Cardinality(A)
    BY <2>1, FS_Product
  <2>3. Cardinality(R) = Cardinality(Requests) - 1 /\ Cardinality(A) = MaxRetries
    BY <1>1, <1>2 DEF R, A
  <2> QED
    BY <2>2, <2>3 DEF R, A
<1>5. /\ IsFiniteSet(S)
      /\ Cardinality(S) <= (Cardinality(Requests) - 1) * MaxRetries
  BY <1>4, FS_Subset
<1>6. ASSUME NEW k \in Nat, NEW m \in Nat
      PROVE  (k - 1) * m = m * (k - 1)
  BY <1>6
<1> QED
  BY <1>3, <1>5, <1>6, RetryAssumption, FS_CardinalityType DEF Bound

\* Any set of retries is finite, and so is what is left.
LEMMA RetriesAreFinite ==
  ASSUME NEW S \in SUBSET (Requests \X (1 .. MaxRetries))
  PROVE  IsFiniteSet(S) /\ Cardinality(S) \in Nat
<1>1. IsFiniteSet(1 .. MaxRetries)
  BY RetryAssumption, FS_Interval
<1>2. IsFiniteSet(Requests \X (1 .. MaxRetries))
  BY <1>1, RetryAssumption, FS_Product
<1> QED
  BY <1>2, FS_Subset, FS_CardinalityType

LEMMA LeftIsFinite == IsFiniteSet(Left) /\ Cardinality(Left) \in Nat
BY RetriesAreFinite DEF Left

\* A step that leaves the breaker open, or makes it open by the failure of a
\* request that ends, keeps the stragglers within the bound.
LEMMA Outcome ==
  ASSUME StragglersInv, AttemptsInv', BreakerTypeOK', NoteTrip, NEW c \in Requests,
         pc' = [pc EXCEPT ![c] = "idle"], attempt' = attempt
  PROVE  StragglersInv'
<1>1. Left' \in SUBSET Left /\ Left' \in SUBSET ((Requests \ {c}) \X (1 .. MaxRetries))
  BY DEF Left, Active, StragglersInv, AttemptsInv, PlacesOK
<1>2. /\ Cardinality(Left') \in Nat /\ Cardinality(Left) \in Nat
      /\ Cardinality(Left') <= Cardinality(Left)
      /\ Cardinality(Left') <= Bound
  BY <1>1, LeftIsFinite, OthersLeft, FS_Subset
<1>3. stragglers' = IF state = Open /\ state' = Open THEN stragglers ELSE 0
  BY DEF NoteTrip
<1>4. CASE state = Open /\ state' = Open
  BY <1>2, <1>3, <1>4, BoundIsNear DEF StragglersInv, Bound
<1>5. CASE ~(state = Open /\ state' = Open)
  BY <1>2, <1>3, <1>5 DEF StragglersInv, Bound
<1> QED
  BY <1>4, <1>5

\* A retry begins: one straggler more, and one retry less that is left.
LEMMA WakesOne ==
  ASSUME StragglersInv, NEW c \in Requests, Wake(c)
  PROVE  /\ Cardinality(Left') = Cardinality(Left) - 1
         /\ attempt[c] < MaxRetries /\ Active(c)
<1> DEFINE x == <<c, attempt[c] + 1>>
<1>1. /\ pc[c] = "sleeping" /\ attempt[c] \in Nat /\ attempt[c] < MaxRetries
      /\ pc' = [pc EXCEPT ![c] = "posting"]
      /\ attempt' = [attempt EXCEPT ![c] = attempt[c] + 1]
  BY RetryAssumption DEF Wake, StragglersInv, AttemptsInv
<1>2. /\ pc \in [Requests -> {"idle", "posting", "sleeping"}]
      /\ attempt \in [Requests -> 0 .. MaxRetries]
  BY DEF StragglersInv, AttemptsInv, PlacesOK
<1>3. x \in Left
  BY <1>1, RetryAssumption DEF Left, Active
<1>4. \A y \in Requests \X (1 .. MaxRetries) :
        (Active(y[1]) /\ y[2] > attempt[y[1]])' <=> (Active(y[1]) /\ y[2] > attempt[y[1]]) /\ y # x
  BY <1>1, <1>2, RetryAssumption DEF Active
<1>5. Left' = Left \ {x}
  BY <1>4 DEF Left
<1> QED
  BY <1>1, <1>3, <1>5, LeftIsFinite, FS_RemoveElement DEF Active

\* Every step keeps the stragglers within the bound.
LEMMA StepStragglers ==
  ASSUME StragglersInv, AttemptsInv', BreakerTypeOK', [Next]_vars
  PROVE  StragglersInv'
<1> USE BoundIsNear, LeftIsFinite
<1>1. ASSUME NEW c \in Requests, Admit(c)
      PROVE  StragglersInv'
  <2>1. state' # Open /\ stragglers' = 0
    BY <1>1 DEF Admit, AllowPasses, NoteTrip, breakerVars, Open, HalfOpen, Closed
  <2> QED
    BY <2>1 DEF StragglersInv
<1>2. ASSUME NEW c \in Requests, Succeed(c) \/ Fail(c)
      PROVE  StragglersInv'
  BY <1>2, Outcome DEF Succeed, Fail
<1>3. ASSUME NEW c \in Requests, Retry(c)
      PROVE  StragglersInv'
  <2>1. Left' = Left
    BY <1>3 DEF Retry, Left, Active, StragglersInv, AttemptsInv, PlacesOK
  <2> QED
    BY <1>3, <2>1 DEF Retry, breakerVars, historyVars, StragglersInv, Bound
<1>4. ASSUME NEW c \in Requests, Wake(c)
      PROVE  StragglersInv'
  <2>1. /\ Cardinality(Left') = Cardinality(Left) - 1
        /\ state' = state
        /\ stragglers' = IF state = Open THEN Saturate(stragglers, CountBound) ELSE stragglers
    BY <1>4, WakesOne DEF Wake, breakerVars
  <2>2. /\ stragglers \in Nat => Saturate(stragglers, CountBound) \in Nat
        /\ stragglers <= Bound => Saturate(stragglers, CountBound) <= stragglers + 1
    BY DEF Saturate, StragglersInv
  <2>3. state = Open => stragglers <= Bound
    BY DEF StragglersInv
  <2> QED
    BY <2>1, <2>2, <2>3 DEF StragglersInv, Bound
<1>5. CASE Tick \/ Flap \/ (\E c \in Requests : Refuse(c)) \/ UNCHANGED vars
  <2>1. /\ pc' = pc /\ attempt' = attempt
        /\ stragglers' = stragglers /\ state' = state
    BY <1>5 DEF Tick, BreakerTick, Flap, Refuse, AllowRefuses, vars, requestVars, historyVars,
       breakerVars
  <2>2. Left' = Left
    BY <2>1 DEF Left, Active
  <2> QED
    BY <2>1, <2>2 DEF StragglersInv, Bound
<1> QED
  BY <1>1, <1>2, <1>3, <1>4, <1>5 DEF Next, Respond

\* The sliding window of outcomes keeps its type and its length.
LEMMA WindowKept ==
  ASSUME TypeOK, NEW o \in {"success", "failure"}, NoteOutcome(o)
  PROVE  outcomes' \in Seq({"success", "failure"}) /\ Len(outcomes') <= FailureThreshold
<1> USE BreakerAssumption DEF TypeOK
<1>1. CASE Len(outcomes) = FailureThreshold
  <2>1. outcomes # <<>>
    BY <1>1
  <2>2. /\ Tail(outcomes) \in Seq({"success", "failure"})
        /\ Len(Tail(outcomes)) = Len(outcomes) - 1
    BY <2>1
  <2>3. outcomes' = Append(Tail(outcomes), o)
    BY <1>1 DEF NoteOutcome
  <2> QED
    BY <1>1, <2>2, <2>3
<1>2. CASE Len(outcomes) # FailureThreshold
  <2>1. outcomes' = Append(outcomes, o)
    BY <1>2 DEF NoteOutcome
  <2> QED
    BY <1>2, <2>1
<1> QED
  BY <1>1, <1>2

\* The methods of the breaker keep its types, and its history's.
LEMMA BreakerKept ==
  ASSUME TypeOK
  PROVE  /\ AllowPasses \/ RecordSuccess \/ RecordFailure \/ BreakerTick => BreakerTypeOK'
         /\ NoteTrip => sinceTrip' \in Ages
         /\ Saturate(sinceTrip, OpenTimeout + 1) \in Ages
         /\ Saturate(lastRetryCount, CountBound) \in 0 .. CountBound
<1> USE BreakerAssumption, BoundIsNear DEF TypeOK, Ages
<1>1. AllowPasses \/ RecordSuccess \/ RecordFailure \/ BreakerTick => BreakerTypeOK'
  BY DEF BreakerTypeOK, AllowPasses, RecordSuccess, RecordFailure, Trips, BreakerTick,
     breakerVars, Saturate, NoFailure, Closed, Open, HalfOpen
<1>2. NoteTrip => sinceTrip' \in Ages
  BY DEF NoteTrip
<1>3. Saturate(sinceTrip, OpenTimeout + 1) \in Ages
  BY DEF Saturate
<1>4. Saturate(lastRetryCount, CountBound) \in 0 .. CountBound
  BY DEF Saturate
<1> QED
  BY <1>1, <1>2, <1>3, <1>4

\* Every step keeps the types; the bound of the stragglers is another invariant's.
LEMMA StepTypes ==
  ASSUME TypeOK, AttemptsInv', [Next]_vars
  PROVE  /\ BreakerTypeOK' /\ sinceTrip' \in Ages /\ up' \in BOOLEAN
         /\ lastRetryCount' \in 0 .. CountBound
         /\ outcomes' \in Seq({"success", "failure"}) /\ Len(outcomes') <= FailureThreshold
<1> DEFINE Kept == /\ BreakerTypeOK' /\ sinceTrip' \in Ages /\ up' \in BOOLEAN
                   /\ lastRetryCount' \in 0 .. CountBound
                   /\ outcomes' \in Seq({"success", "failure"})
                   /\ Len(outcomes') <= FailureThreshold
<1>0. /\ sinceTrip \in Ages /\ up \in BOOLEAN /\ lastRetryCount \in 0 .. CountBound
      /\ outcomes \in Seq({"success", "failure"}) /\ Len(outcomes) <= FailureThreshold
      /\ BreakerTypeOK
  BY DEF TypeOK
<1>1. ASSUME NEW c \in Requests, Admit(c)
      PROVE  Kept
  BY <1>0, <1>1, BreakerKept, BoundIsNear DEF Admit
<1>2. ASSUME NEW c \in Requests, Succeed(c)
      PROVE  Kept
  BY <1>0, <1>2, BreakerKept, WindowKept DEF Succeed
<1>3. ASSUME NEW c \in Requests, Fail(c)
      PROVE  Kept
  BY <1>0, <1>3, BreakerKept, WindowKept DEF Fail
<1>4. ASSUME NEW c \in Requests, Retry(c)
      PROVE  Kept
  BY <1>0, <1>4, BreakerKept DEF Retry, breakerVars, historyVars, BreakerTypeOK
<1>5. ASSUME NEW c \in Requests, Wake(c)
      PROVE  Kept
  BY <1>0, <1>5 DEF Wake, breakerVars, BreakerTypeOK
<1>6. CASE Tick
  BY <1>0, <1>6, BreakerKept DEF Tick, requestVars
<1>7. CASE Flap \/ (\E c \in Requests : Refuse(c)) \/ UNCHANGED vars
  BY <1>0, <1>7 DEF Flap, Refuse, AllowRefuses, vars, requestVars, historyVars, breakerVars,
     BreakerTypeOK
<1> QED
  BY <1>1, <1>2, <1>3, <1>4, <1>5, <1>6, <1>7 DEF Next, Respond

\* Types, the audited counter, and the attempts after the trip: at most MaxRetries
\* for each request other than the one whose failure tripped the breaker.
\* openai_adapter.py:235-330.
THEOREM AdapterKept == Spec => []Inv
<1> DEFINE Kept == TypeOK /\ CounterInv /\ StragglersInv
<1>1. Init => Kept
  BY RetryAssumption, BreakerAssumption, BoundIsNear
     DEF Init, TypeOK, CounterInv, StragglersInv, AttemptsInv, PlacesOK, Active,
         CounterRightAlone, BreakerInit, BreakerTypeOK, Ages, NoFailure, Closed, Open, HalfOpen
<1>2. Kept /\ [Next]_vars => Kept'
  <2> SUFFICES ASSUME Kept, [Next]_vars
               PROVE  Kept'
    OBVIOUS
  <2>1. CounterInv'
    BY StepCounter
  <2>2. AttemptsInv'
    BY <2>1 DEF CounterInv
  <2>3. /\ BreakerTypeOK' /\ sinceTrip' \in Ages /\ up' \in BOOLEAN
        /\ lastRetryCount' \in 0 .. CountBound
        /\ outcomes' \in Seq({"success", "failure"}) /\ Len(outcomes') <= FailureThreshold
    BY <2>2, StepTypes
  <2>4. StragglersInv'
    BY <2>2, <2>3, StepStragglers
  <2>5. stragglers' \in 0 .. CountBound
    <3>1. Left' \in SUBSET (Requests \X (1 .. MaxRetries))
      BY DEF Left
    <3>2. Cardinality(Left') \in Nat
      BY <3>1, RetriesAreFinite
    <3> QED
      BY <2>4, <3>2, BoundIsNear DEF StragglersInv, Bound
  <2>6. TypeOK'
    BY <2>2, <2>3, <2>5 DEF TypeOK, AttemptsInv, PlacesOK
  <2> QED
    BY <2>1, <2>4, <2>6
<1>3. Kept => Inv
  BY BoundIsNear, LeftIsFinite
     DEF Inv, CounterInv, StragglersInv, StragglersBounded, Bound
<1> QED
  BY <1>1, <1>2, <1>3, PTL DEF Spec
=============================================================================
