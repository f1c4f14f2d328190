---------------------------- MODULE FaceSwapProofs ----------------------------
(***************************************************************************)
(* FaceSwap for any number of activations, pipeline threads and processes: *)
(* type correctness, that a dead vendor is not hammered, and that what is  *)
(* reported online swaps and has had its backend started.                  *)
(***************************************************************************)
EXTENDS FaceSwap, SequenceTheorems, TLAPS

(***************************************************************************)
(* Why a thread cannot fail twice: from its first failure until detection  *)
(* clears passthrough, which forgives it, it is either about to set        *)
(* passthrough or passthrough is set, and so it calls no vendor.           *)
(***************************************************************************)
Stopped(w) == todo[w] = Degrade \/ flag["passthrough"]

StormInv ==
  \A w \in Workers :
    failures[w] # 0 => /\ failures[w] = 1
                       /\ worker[w] \in {"none", "ready"}
                       /\ Stopped(w)

IInv == TypeOK /\ StormInv

-----------------------------------------------------------------------------
\* Every list of writes a thread may start on is one of writes of flags.
LEMMA WritesTyped ==
  /\ Found \in Seq(Write) /\ Unavailable \in Seq(Write) /\ Degrade \in Seq(Write)
  /\ \A v \in BOOLEAN : <<Sets("gauge", v)>> \in Seq(Write)
BY DEF Found, Unavailable, Degrade, Sets, Write, Flags

\* Initially the types hold and nobody has failed.
LEMMA InitIInv == Init => IInv
<1> SUFFICES ASSUME Init PROVE IInv
  OBVIOUS
<1>1. flag \in [Flags -> BOOLEAN]
  <2>1. \A f \in Flags : (f \in {"degraded", "passthrough", "gauge"}) \in BOOLEAN
    OBVIOUS
  <2> QED
    BY <2>1, Zenon DEF Init
<1>2. todo \in [Threads \cup Workers -> Seq(Write)]
  BY DEF Init
<1>3. /\ pc \in [Threads -> Steps] /\ worker \in [Workers -> Work]
      /\ failures \in [Workers -> 0..2]
  BY DEF Init, Steps, Work
<1> QED
  BY <1>1, <1>2, <1>3 DEF Init, IInv, TypeOK, StormInv

\* An activation's step other than a write keeps the types.
LEMMA ActivationTyped ==
  ASSUME TypeOK, NEW t \in Threads, Load(t) \/ Speak(t) \/ Advance(t)
  PROVE  TypeOK'
<1>1. CASE Load(t) \/ Speak(t)
  BY <1>1 DEF Load, Speak, Activate, Go, At, TypeOK, Flags, Steps
<1>2. CASE Detect(t)
  <2>1. PICK outcome \in {Found, Unavailable} : Will(t, outcome)
    BY <1>2 DEF Detect
  <2>2. todo' \in [Threads \cup Workers -> Seq(Write)]
    BY <2>1, WritesTyped DEF Will, TypeOK
  <2> QED
    BY <1>2, <2>2 DEF Detect, Go, TypeOK, Steps
<1>3. CASE Release(t) \/ Decide(t)
  BY <1>3 DEF Release, Decide, Go, TypeOK, Steps, adapterVars
<1>4. CASE Spawn(t)
  BY <1>4 DEF Spawn, Go, TypeOK, Steps
<1>5. CASE SpawnFails(t) \/ StartFails(t)
  <2>1. todo' \in [Threads \cup Workers -> Seq(Write)]
    BY <1>5, WritesTyped DEF SpawnFails, StartFails, Will, TypeOK
  <2> QED
    BY <1>5, <2>1 DEF SpawnFails, StartFails, Go, TypeOK, Steps, adapterVars
<1>6. CASE Started(t) \/ Terminate(t) \/ Forget(t)
  BY <1>6 DEF Started, Terminate, Forget, Go, TypeOK, Steps, adapterVars
<1>7. CASE Conclude(t)
  <2>1. todo' \in [Threads \cup Workers -> Seq(Write)]
    BY <1>7, WritesTyped DEF Conclude, Will, TypeOK, Flags
  <2>2. flag' \in [Flags -> BOOLEAN]
    BY <1>7 DEF Conclude, Usable, TypeOK, Flags
  <2> QED
    BY <1>7, <2>1, <2>2 DEF Conclude, Go, TypeOK, Steps, adapterVars
<1>8. CASE Build(t) \/ BuildFails(t) \/ BuildNothing(t)
  BY <1>8 DEF Build, BuildFails, BuildNothing, Go, TypeOK, Steps, Work, adapterVars
<1> QED
  BY <1>1, <1>2, <1>3, <1>4, <1>5, <1>6, <1>7, <1>8 DEF Advance

\* So does a pipeline thread's.
WorkerStep(w) ==
  Swap(w) \/ PassThrough(w) \/ SwapDone(w) \/ SwapFails(w) \/ SourceEnds(w)

LEMMA WorkerTyped ==
  ASSUME TypeOK, NEW w \in Workers, WorkerStep(w)
  PROVE  TypeOK'
<1>1. CASE Swap(w) \/ PassThrough(w) \/ SwapDone(w) \/ SourceEnds(w)
  BY <1>1 DEF Swap, PassThrough, SwapDone, SourceEnds, TypeOK, Work, adapterVars, vars
<1>2. CASE SwapFails(w)
  <2>1. todo' \in [Threads \cup Workers -> Seq(Write)]
    BY <1>2, WritesTyped DEF SwapFails, Will, TypeOK
  <2>2. failures' \in [Workers -> 0..2]
    <3>1. failures \in [Workers -> 0..2] /\ failures[w] \in 0..2
      BY DEF TypeOK
    <3>2. (IF failures[w] = 2 THEN 2 ELSE failures[w] + 1) \in 0..2
      BY <3>1
    <3> QED
      BY <1>2, <3>1, <3>2 DEF SwapFails
  <2> QED
    BY <1>2, <2>1, <2>2 DEF SwapFails, TypeOK, Work, adapterVars
<1> QED
  BY <1>1, <1>2 DEF WorkerStep

\* A write is of a flag, and takes the head off the list.
LEMMA HeadTyped ==
  ASSUME NEW s \in Seq(Write), s # <<>>
  PROVE  /\ Head(s).name \in Flags /\ Head(s).value \in BOOLEAN
         /\ Tail(s) \in Seq(Write)
<1>1. Head(s) \in Write /\ Tail(s) \in Seq(Write)
  BY HeadTailProperties
<1> QED
  BY <1>1 DEF Write

\* Hence a write keeps the types.
LEMMA WriteTyped ==
  ASSUME TypeOK, NEW a \in Threads \cup Workers, WriteFlag(a)
  PROVE  TypeOK'
<1>1. todo[a] \in Seq(Write) /\ todo[a] # <<>>
  BY DEF WriteFlag, TypeOK
<1>2. /\ Head(todo[a]).name \in Flags /\ Head(todo[a]).value \in BOOLEAN
      /\ Tail(todo[a]) \in Seq(Write)
  BY <1>1, HeadTyped
<1>3. flag' \in [Flags -> BOOLEAN]
  BY <1>2 DEF WriteFlag, TypeOK
<1>4. todo' \in [Threads \cup Workers -> Seq(Write)]
  BY <1>2 DEF WriteFlag, TypeOK
<1>5. failures' \in [Workers -> 0..2]
  <2>1. failures' = [v \in Workers |-> 0] \/ failures' = failures
    BY DEF WriteFlag
  <2>2. [v \in Workers |-> 0] \in [Workers -> 0..2]
    OBVIOUS
  <2> QED
    BY <2>1, <2>2 DEF TypeOK
<1> QED
  BY <1>3, <1>4, <1>5 DEF WriteFlag, TypeOK, adapterVars

-----------------------------------------------------------------------------
(***************************************************************************)
(* The storm invariant, step by step.                                      *)
(***************************************************************************)

\* A failed swap sets passthrough first.
LEMMA DegradeFacts ==
  Degrade # <<>> /\ Head(Degrade) = Sets("passthrough", TRUE)
BY DEF Degrade, Sets

\* What leaves failures, passthrough and the worker's own list alone, and starts
\* no swap, keeps it.
LEMMA StormKept ==
  ASSUME StormInv,
         failures' = failures,
         flag'["passthrough"] = flag["passthrough"],
         \A w \in Workers : /\ todo'[w] = todo[w]
                            /\ worker'[w] = worker[w] \/ worker'[w] = "ready"
  PROVE  StormInv'
BY DEF StormInv, Stopped

\* An activation writes no passthrough and no worker's list outside WriteFlag.
LEMMA ActivationStorm ==
  ASSUME TypeOK, StormInv, NEW t \in Threads, Load(t) \/ Speak(t) \/ Advance(t)
  PROVE  StormInv'
<1>1. failures' = failures
  BY DEF Load, Speak, Activate, Advance, Detect, Release, Decide, Spawn, SpawnFails,
         Started, StartFails, Terminate, Forget, Conclude, Build, BuildFails,
         BuildNothing
<1>2. flag'["passthrough"] = flag["passthrough"]
  <2>1. flag' = flag \/ flag' = [flag EXCEPT !["gauge"] = TRUE]
                     \/ flag' = [flag EXCEPT !["active"] = Usable]
    BY DEF Load, Speak, Activate, Advance, Detect, Release, Decide, Spawn, SpawnFails,
           Started, StartFails, Terminate, Forget, Conclude, Build, BuildFails,
           BuildNothing
  <2> QED
    BY <2>1 DEF TypeOK, Flags
<1>3. \A w \in Workers : todo'[w] = todo[w]
  <2>1. todo' = todo \/ \E writes : Will(t, writes)
    BY DEF Load, Speak, Activate, Advance, Detect, Release, Decide, Spawn, SpawnFails,
           Started, StartFails, Terminate, Forget, Conclude, Build, BuildFails,
           BuildNothing
  <2> QED
    BY <2>1, FaceSwapAssumption DEF Will, TypeOK
<1>4. \A w \in Workers : worker'[w] = worker[w] \/ worker'[w] = "ready"
  <2>1. worker' = worker \/ \E v \in Workers : worker' = [worker EXCEPT ![v] = "ready"]
    BY DEF Load, Speak, Activate, Advance, Detect, Release, Decide, Spawn, SpawnFails,
           Started, StartFails, Terminate, Forget, Conclude, Build, BuildFails,
           BuildNothing, adapterVars
  <2> QED
    BY <2>1 DEF TypeOK
<1> QED
  BY <1>1, <1>2, <1>3, <1>4, StormKept

\* A thread that enters a swap has not failed, since it saw no passthrough; so
\* the thread that fails has not either.
LEMMA WorkerStorm ==
  ASSUME TypeOK, StormInv, NEW w \in Workers, WorkerStep(w)
  PROVE  StormInv'
<1>1. CASE Swap(w)
  <2>1. failures[w] = 0
    BY <1>1, DegradeFacts DEF Swap, Ready, StormInv, Stopped
  <2> QED
    BY <1>1, <2>1 DEF Swap, StormInv, Stopped, TypeOK
<1>2. CASE PassThrough(w)
  BY <1>2 DEF PassThrough, vars, StormInv, Stopped
<1>3. CASE SwapDone(w)
  BY <1>3 DEF SwapDone, StormInv, Stopped, TypeOK
<1>4. CASE SwapFails(w)
  <2>1. failures[w] = 0
    BY <1>4 DEF SwapFails, StormInv
  <2>2. CASE worker[w] = "typed"
    <3>1. /\ todo'[w] = Degrade /\ failures'[w] = 1 /\ worker'[w] = "ready"
      BY <1>4, <2>1, <2>2 DEF SwapFails, Will, TypeOK
    <3>2. \A v \in Workers \ {w} : /\ todo'[v] = todo[v] /\ failures'[v] = failures[v]
                                   /\ worker'[v] = worker[v]
      BY <1>4, <2>2 DEF SwapFails, Will, TypeOK
    <3>3. flag' = flag
      BY <1>4 DEF SwapFails
    <3> QED
      BY <3>1, <3>2, <3>3 DEF StormInv, Stopped
  <2>3. CASE worker[w] # "typed"
    BY <1>4, <2>1, <2>3 DEF SwapFails, StormInv, Stopped, TypeOK
  <2> QED
    BY <2>2, <2>3
<1>5. CASE SourceEnds(w)
  BY <1>5 DEF SourceEnds, StormInv, Stopped, TypeOK
<1> QED
  BY <1>1, <1>2, <1>3, <1>4, <1>5 DEF WorkerStep

\* Clearing passthrough forgives every failure; any other write leaves it set,
\* and the first write of a failed swap sets it.
LEMMA WriteStorm ==
  ASSUME TypeOK, StormInv, NEW a \in Threads \cup Workers, WriteFlag(a)
  PROVE  StormInv'
<1> DEFINE head == Head(todo[a])
<1>1. head.name \in Flags /\ head.value \in BOOLEAN
  BY HeadTyped DEF WriteFlag, TypeOK
<1>2. CASE head = Sets("passthrough", FALSE)
  <2>1. failures' = [v \in Workers |-> 0]
    BY <1>2 DEF WriteFlag
  <2> QED
    BY <2>1 DEF StormInv
<1>3. CASE head # Sets("passthrough", FALSE)
  <2>1. failures' = failures /\ worker' = worker
    BY <1>3 DEF WriteFlag
  <2>2. flag' = [flag EXCEPT ![head.name] = head.value]
    BY DEF WriteFlag
  <2>3. ASSUME flag["passthrough"]
        PROVE  flag'["passthrough"]
    <3>1. CASE head.name # "passthrough"
      BY <1>1, <2>2, <2>3, <3>1 DEF TypeOK, Flags
    <3>2. CASE head.name = "passthrough"
      <4>1. head \in Write
        BY HeadTailProperties DEF WriteFlag, TypeOK
      <4>2. head.value
        BY <1>1, <1>3, <3>2, <4>1 DEF Write, Sets
      <4> QED
        BY <2>2, <3>2, <4>2 DEF TypeOK, Flags
    <3> QED
      BY <3>1, <3>2
  <2>4. ASSUME NEW w \in Workers, Stopped(w)
        PROVE  Stopped(w)'
    <3>1. CASE flag["passthrough"]
      BY <2>3, <3>1 DEF Stopped
    <3>2. CASE todo[w] = Degrade /\ w = a
      <4>1. head = Sets("passthrough", TRUE)
        BY <3>2, DegradeFacts
      <4> QED
        BY <2>2, <4>1 DEF Sets, Stopped, TypeOK, Flags
    <3>3. CASE todo[w] = Degrade /\ w # a
      BY <3>3 DEF WriteFlag, Stopped, TypeOK
    <3> QED
      BY <2>4, <3>1, <3>2, <3>3 DEF Stopped
  <2> QED
    BY <2>1, <2>4 DEF StormInv
<1> QED
  BY <1>2, <1>3

-----------------------------------------------------------------------------
\* Every step keeps the invariant.
LEMMA NextIInv == IInv /\ [Next]_vars => IInv'
<1> SUFFICES ASSUME TypeOK, StormInv, [Next]_vars
             PROVE  TypeOK' /\ StormInv'
  BY DEF IInv
<1>1. ASSUME NEW t \in Threads, Load(t) \/ Speak(t) \/ Advance(t)
      PROVE  TypeOK' /\ StormInv'
  BY <1>1, ActivationTyped, ActivationStorm
<1>2. ASSUME NEW w \in Workers, WorkerStep(w)
      PROVE  TypeOK' /\ StormInv'
  BY <1>2, WorkerTyped, WorkerStorm
<1>3. ASSUME NEW a \in Threads \cup Workers, WriteFlag(a)
      PROVE  TypeOK' /\ StormInv'
  BY <1>3, WriteTyped, WriteStorm
<1>4. ASSUME NEW b \in Backends, Exit(b)
      PROVE  TypeOK' /\ StormInv'
  BY <1>4 DEF Exit, TypeOK, StormInv, Stopped
<1>5. CASE UNCHANGED vars
  BY <1>5 DEF vars, TypeOK, StormInv, Stopped
<1> QED
  BY <1>1, <1>2, <1>3, <1>4, <1>5 DEF Next, WorkerStep

\* The strengthening holds in every reachable state.
THEOREM InductiveInvariant == Spec => []IInv
BY InitIInv, NextIInv, PTL DEF Spec

\* Flags, processes, threads and pending writes keep their types.
THEOREM TypeCorrect == Spec => []TypeOK
<1>1. IInv => TypeOK
  BY DEF IInv
<1> QED
  BY <1>1, InductiveInvariant, PTL

\* A dead vendor is not hammered: no pipeline thread fails on it twice until a
\* detection finds the backend again (FaceSwap!NoRetryStorm), for any number of
\* threads, activations and processes.
THEOREM NoStorm == Spec => []NoRetryStorm
<1>1. IInv => NoRetryStorm
  BY DEF IInv, TypeOK, StormInv, NoRetryStorm
<1> QED
  BY <1>1, InductiveInvariant, PTL
-----------------------------------------------------------------------------
(***************************************************************************)
(* What is reported online.  What a thread has still to write, by what it  *)
(* began with.                                                             *)
(***************************************************************************)
Found1 == <<Sets("degraded", FALSE), Sets("passthrough", FALSE)>>
Found2 == <<Sets("passthrough", FALSE)>>
Unavailable1 == <<Sets("degraded", TRUE), Sets("passthrough", TRUE)>>
Unavailable2 == <<Sets("passthrough", TRUE)>>
Degrade1 == <<Sets("degraded", TRUE), Sets("gauge", TRUE)>>
Degrade2 == <<Sets("gauge", TRUE)>>
Gauge(v) == <<Sets("gauge", v)>>

FoundLists == {Found, Found1, Found2}
UnavailableLists == {Unavailable, Unavailable1, Unavailable2}

\* Where a thread may have writes before it, and which.
ShapeInv ==
  /\ \A t \in Threads :
       \/ todo[t] = <<>>
       \/ pc[t] = "detected" /\ todo[t] \in FoundLists \cup UnavailableLists
       \/ pc[t] = "cleaning" /\ todo[t] \in UnavailableLists
       \/ pc[t] = "building" /\ todo[t] \in {Gauge(TRUE), Gauge(FALSE)}
  /\ \A w \in Workers :
       /\ todo[w] \in {<<>>, Degrade, Degrade1, Degrade2}
       /\ worker[w] \in {"typed", "legacy"} => todo[w] = <<>>

\* An activation that nothing raced is the only one.
OneInv ==
  ~raced => \A t, u \in Threads : pc[t] # "idle" /\ pc[u] # "idle" => t = u

\* Once it has begun to mark the backend unavailable, it is, to the clean-up's end.
DownInv ==
  ~raced => \A t \in Threads :
    (\/ todo[t] \in {Unavailable1, Unavailable2}
     \/ pc[t] = "cleaning" /\ todo[t] # Unavailable
     \/ pc[t] = "reaping") => ~flag["available"]

\* What is online and passed through will not be: a detection is about to say so,
\* or a failed swap to degrade it.
HonestInv ==
  ~raced /\ Usable /\ flag["passthrough"] =>
    \/ \E t \in Threads :
         pc[t] = "detecting" \/ todo[t] \in FoundLists \cup {Unavailable}
    \/ \E w \in Workers : todo[w] = Degrade1

\* What is online without a process is about to get one, or not to be.
BackendInv ==
  ~raced /\ Usable /\ process = None =>
    \E t \in Threads : \/ pc[t] \in {"detecting", "detected", "deciding", "spawning"}
                       \/ todo[t] = Unavailable

OnlineInv == ShapeInv /\ OneInv /\ DownInv /\ HonestInv /\ BackendInv

-----------------------------------------------------------------------------
\* The first of three, two or one.
LEMMA Three ==
  ASSUME NEW a, NEW b, NEW c
  PROVE  Head(<<a, b, c>>) = a /\ Tail(<<a, b, c>>) = <<b, c>>
OBVIOUS

LEMMA Two ==
  ASSUME NEW a, NEW b
  PROVE  Head(<<a, b>>) = a /\ Tail(<<a, b>>) = <<b>>
OBVIOUS

LEMMA One ==
  ASSUME NEW a
  PROVE  Head(<<a>>) = a /\ Tail(<<a>>) = <<>>
OBVIOUS

\* The lists are in order, ...
LEMMA FoundOrder ==
  /\ Head(Found) = Sets("available", TRUE) /\ Tail(Found) = Found1
  /\ Head(Found1) = Sets("degraded", FALSE) /\ Tail(Found1) = Found2
  /\ Head(Found2) = Sets("passthrough", FALSE) /\ Tail(Found2) = <<>>
<1>1. Head(Found) = Sets("available", TRUE) /\ Tail(Found) = Found1
  BY Three, Zenon DEF Found, Found1
<1>2. Head(Found1) = Sets("degraded", FALSE) /\ Tail(Found1) = Found2
  BY Two, Zenon DEF Found1, Found2
<1>3. Head(Found2) = Sets("passthrough", FALSE) /\ Tail(Found2) = <<>>
  BY One, Zenon DEF Found2
<1> QED
  BY <1>1, <1>2, <1>3

LEMMA UnavailableOrder ==
  /\ Head(Unavailable) = Sets("available", FALSE) /\ Tail(Unavailable) = Unavailable1
  /\ Head(Unavailable1) = Sets("degraded", TRUE) /\ Tail(Unavailable1) = Unavailable2
  /\ Head(Unavailable2) = Sets("passthrough", TRUE) /\ Tail(Unavailable2) = <<>>
<1>1. Head(Unavailable) = Sets("available", FALSE) /\ Tail(Unavailable) = Unavailable1
  BY Three, Zenon DEF Unavailable, Unavailable1
<1>2. Head(Unavailable1) = Sets("degraded", TRUE) /\ Tail(Unavailable1) = Unavailable2
  BY Two, Zenon DEF Unavailable1, Unavailable2
<1>3. Head(Unavailable2) = Sets("passthrough", TRUE) /\ Tail(Unavailable2) = <<>>
  BY One, Zenon DEF Unavailable2
<1> QED
  BY <1>1, <1>2, <1>3

LEMMA DegradeOrder ==
  /\ Head(Degrade) = Sets("passthrough", TRUE) /\ Tail(Degrade) = Degrade1
  /\ Head(Degrade1) = Sets("degraded", TRUE) /\ Tail(Degrade1) = Degrade2
  /\ Head(Degrade2) = Sets("gauge", TRUE) /\ Tail(Degrade2) = <<>>
<1>1. Head(Degrade) = Sets("passthrough", TRUE) /\ Tail(Degrade) = Degrade1
  BY Three, Zenon DEF Degrade, Degrade1
<1>2. Head(Degrade1) = Sets("degraded", TRUE) /\ Tail(Degrade1) = Degrade2
  BY Two, Zenon DEF Degrade1, Degrade2
<1>3. Head(Degrade2) = Sets("gauge", TRUE) /\ Tail(Degrade2) = <<>>
  BY One, Zenon DEF Degrade2
<1> QED
  BY <1>1, <1>2, <1>3

LEMMA GaugeOrder ==
  \A v : Head(Gauge(v)) = Sets("gauge", v) /\ Tail(Gauge(v)) = <<>>
BY One, Zenon DEF Gauge

\* ... and differ.
LEMMA ListsDiffer ==
  /\ \A l \in FoundLists : l # <<>> /\ l \notin UnavailableLists
  /\ \A l \in UnavailableLists : l # <<>>
  /\ Unavailable \notin {Unavailable1, Unavailable2}
  /\ \A v : Gauge(v) # <<>> /\ Gauge(v) \notin FoundLists \cup UnavailableLists
  /\ Degrade # <<>> /\ Degrade1 # <<>> /\ Degrade2 # <<>>
  /\ Degrade # Degrade1 /\ Degrade2 # Degrade1
BY DEF FoundLists, UnavailableLists, Found, Found1, Found2, Unavailable, Unavailable1,
   Unavailable2, Degrade, Degrade1, Degrade2, Gauge, Sets

-----------------------------------------------------------------------------
(***************************************************************************)
(* Writes.  What a write does to one list and one flag, ...                *)
(***************************************************************************)
Wrote(a, list, f, v, rest) ==
  /\ todo[a] = list
  /\ todo'[a] = rest
  /\ flag'[f] = v
  /\ \A g \in Flags \ {f} : flag'[g] = flag[g]

LEMMA WriteIs ==
  ASSUME TypeOK, NEW a \in Threads \cup Workers, WriteFlag(a),
         NEW f \in Flags, NEW v, Head(todo[a]) = Sets(f, v)
  PROVE  Wrote(a, todo[a], f, v, Tail(todo[a]))
<1>1. flag' = [flag EXCEPT ![f] = v]
  <2>1. flag' = [flag EXCEPT ![Head(todo[a]).name] = Head(todo[a]).value]
    BY DEF WriteFlag
  <2>2. Sets(f, v).name = f /\ Sets(f, v).value = v
    BY DEF Sets
  <2> QED
    BY <2>1, <2>2
<1>2. todo'[a] = Tail(todo[a])
  BY DEF WriteFlag, TypeOK
<1> QED
  BY <1>1, <1>2 DEF Wrote, TypeOK

\* ... and to everything else.
LEMMA WriteFrame ==
  ASSUME TypeOK, NEW a \in Threads \cup Workers, WriteFlag(a)
  PROVE  /\ todo[a] # <<>>
         /\ pc' = pc /\ worker' = worker /\ process' = process /\ raced' = raced
         /\ \A o \in (Threads \cup Workers) \ {a} : todo'[o] = todo[o]
BY DEF WriteFlag, TypeOK, adapterVars

\* The writes of an activation: those of a detection, ...
WritesFound(t) ==
  /\ pc[t] = "detected"
  /\ \/ Wrote(t, Found, "available", TRUE, Found1)
     \/ Wrote(t, Found1, "degraded", FALSE, Found2)
     \/ Wrote(t, Found2, "passthrough", FALSE, <<>>)

WritesUnavailable(t) ==
  /\ pc[t] \in {"detected", "cleaning"}
  /\ \/ Wrote(t, Unavailable, "available", FALSE, Unavailable1)
     \/ Wrote(t, Unavailable1, "degraded", TRUE, Unavailable2)
     \/ Wrote(t, Unavailable2, "passthrough", TRUE, <<>>)

WritesGauge(t) ==
  pc[t] = "building" /\ \E v \in BOOLEAN : Wrote(t, Gauge(v), "gauge", v, <<>>)

\* ... and those of a failed swap.
WritesDegrade(w) ==
  \/ Wrote(w, Degrade, "passthrough", TRUE, Degrade1)
  \/ Wrote(w, Degrade1, "degraded", TRUE, Degrade2)
  \/ Wrote(w, Degrade2, "gauge", TRUE, <<>>)

LEMMA ThreadWrites ==
  ASSUME TypeOK, ShapeInv, NEW t \in Threads, WriteFlag(t)
  PROVE  WritesFound(t) \/ WritesUnavailable(t) \/ WritesGauge(t)
<1>1. todo[t] # <<>>
  BY DEF WriteFlag
<1> USE DEF Flags
<1>2. CASE todo[t] = Found /\ pc[t] = "detected"
  BY <1>2, FoundOrder, WriteIs DEF WritesFound
<1>3. CASE todo[t] = Found1 /\ pc[t] = "detected"
  BY <1>3, FoundOrder, WriteIs DEF WritesFound
<1>4. CASE todo[t] = Found2 /\ pc[t] = "detected"
  BY <1>4, FoundOrder, WriteIs DEF WritesFound
<1>5. CASE todo[t] = Unavailable /\ pc[t] \in {"detected", "cleaning"}
  BY <1>5, UnavailableOrder, WriteIs DEF WritesUnavailable
<1>6. CASE todo[t] = Unavailable1 /\ pc[t] \in {"detected", "cleaning"}
  BY <1>6, UnavailableOrder, WriteIs DEF WritesUnavailable
<1>7. CASE todo[t] = Unavailable2 /\ pc[t] \in {"detected", "cleaning"}
  BY <1>7, UnavailableOrder, WriteIs DEF WritesUnavailable
<1>8. CASE pc[t] = "building" /\ \E v \in BOOLEAN : todo[t] = Gauge(v)
  <2>1. PICK v \in BOOLEAN : todo[t] = Gauge(v)
    BY <1>8
  <2>2. Wrote(t, Gauge(v), "gauge", v, <<>>)
    BY <2>1, GaugeOrder, WriteIs
  <2> QED
    BY <1>8, <2>2 DEF WritesGauge
<1> QED
  BY <1>1, <1>2, <1>3, <1>4, <1>5, <1>6, <1>7, <1>8
     DEF ShapeInv, FoundLists, UnavailableLists

LEMMA WorkerWrites ==
  ASSUME TypeOK, ShapeInv, NEW w \in Workers, WriteFlag(w)
  PROVE  WritesDegrade(w)
<1>1. todo[w] \in {Degrade, Degrade1, Degrade2}
  BY DEF WriteFlag, ShapeInv
<1>2. CASE todo[w] = Degrade
  BY <1>2, DegradeOrder, WriteIs DEF WritesDegrade, Flags
<1>3. CASE todo[w] = Degrade1
  BY <1>3, DegradeOrder, WriteIs DEF WritesDegrade, Flags
<1>4. CASE todo[w] = Degrade2
  BY <1>4, DegradeOrder, WriteIs DEF WritesDegrade, Flags
<1> QED
  BY <1>1, <1>2, <1>3, <1>4

-----------------------------------------------------------------------------
(***************************************************************************)
(* An activation that writes while nothing races it is the only one.       *)
(***************************************************************************)
LEMMA Alone ==
  ASSUME ShapeInv, OneInv, ~raced, NEW t \in Threads, pc[t] # "idle"
  PROVE  \A u \in Threads \ {t} : pc[u] = "idle" /\ todo[u] = <<>>
BY DEF ShapeInv, OneInv

LEMMA ThreadWriteOnline ==
  ASSUME TypeOK, OnlineInv, NEW t \in Threads, WriteFlag(t)
  PROVE  OnlineInv'
<1>1. /\ pc' = pc /\ worker' = worker /\ process' = process /\ raced' = raced
      /\ \A o \in (Threads \cup Workers) \ {t} : todo'[o] = todo[o]
  BY WriteFrame
<1>2. \A w \in Workers : todo'[w] = todo[w]
  BY <1>1, FaceSwapAssumption
<1>3. WritesFound(t) \/ WritesUnavailable(t) \/ WritesGauge(t)
  BY ThreadWrites DEF OnlineInv
<1>4. ShapeInv'
  BY <1>1, <1>2, <1>3 DEF OnlineInv, ShapeInv, WritesFound, WritesUnavailable,
     WritesGauge, Wrote, FoundLists, UnavailableLists
<1>5. OneInv'
  BY <1>1 DEF OnlineInv, OneInv
<1>6. ASSUME ~raced
      PROVE  \A u \in Threads \ {t} : pc[u] = "idle" /\ todo[u] = <<>> /\ todo'[u] = <<>>
  BY <1>1, <1>3, <1>6, Alone
     DEF OnlineInv, WritesFound, WritesUnavailable, WritesGauge
<1>7. ASSUME ~raced, WritesUnavailable(t)
      PROVE  ~flag'["available"]
  <2>1. CASE todo[t] \in {Unavailable1, Unavailable2}
    <3>1. ~flag["available"]
      BY <1>7, <2>1 DEF OnlineInv, DownInv
    <3>2. flag'["available"] = flag["available"] \/ flag'["available"] = FALSE
      BY <1>7 DEF WritesUnavailable, Wrote, Flags
    <3> QED
      BY <3>1, <3>2
  <2> QED
    BY <1>7, <2>1 DEF WritesUnavailable, Wrote
<1>8. DownInv'
  <2> SUFFICES ASSUME ~raced
               PROVE  (\/ todo'[t] \in {Unavailable1, Unavailable2}
                       \/ pc[t] = "cleaning" /\ todo'[t] # Unavailable
                       \/ pc[t] = "reaping") => ~flag'["available"]
    BY <1>1, <1>6, ListsDiffer DEF DownInv, UnavailableLists
  <2>1. CASE WritesFound(t)
    BY <2>1, ListsDiffer DEF WritesFound, Wrote, FoundLists, UnavailableLists
  <2>2. CASE WritesUnavailable(t)
    BY <1>7, <2>2
  <2>3. CASE WritesGauge(t)
    BY <2>3, ListsDiffer DEF WritesGauge, Wrote, UnavailableLists
  <2> QED
    BY <1>3, <2>1, <2>2, <2>3
<1>9. HonestInv'
  <2> SUFFICES ASSUME ~raced, flag'["available"], ~flag'["degraded"],
                      flag'["passthrough"]
               PROVE  \/ todo'[t] \in FoundLists
                      \/ \E w \in Workers : todo'[w] = Degrade1
    BY <1>1 DEF HonestInv, Usable
  <2>1. CASE WritesFound(t)
    BY <2>1 DEF WritesFound, Wrote, FoundLists
  <2>2. CASE WritesGauge(t)
    <3>1. /\ flag["available"] /\ ~flag["degraded"] /\ flag["passthrough"]
          /\ pc[t] = "building" /\ \E v : todo[t] = Gauge(v)
      BY <2>2 DEF WritesGauge, Wrote, Flags
    <3>2. \A u \in Threads : pc[u] # "detecting"
                            /\ todo[u] \notin FoundLists \cup {Unavailable}
      BY <1>6, <3>1, ListsDiffer DEF UnavailableLists
    <3> QED
      BY <1>2, <3>1, <3>2 DEF OnlineInv, HonestInv, Usable
  <2> QED
    BY <1>3, <1>7, <2>1, <2>2
<1>10. BackendInv'
  <2> SUFFICES ASSUME ~raced, flag'["available"], ~flag'["degraded"], process = None
               PROVE  pc[t] \in {"detecting", "detected", "deciding", "spawning"}
    BY <1>1 DEF BackendInv, Usable
  <2>1. CASE WritesGauge(t)
    <3>1. /\ flag["available"] /\ ~flag["degraded"]
          /\ pc[t] = "building" /\ \E v : todo[t] = Gauge(v)
      BY <2>1 DEF WritesGauge, Wrote, Flags
    <3>2. \A u \in Threads :
            /\ pc[u] \notin {"detecting", "detected", "deciding", "spawning"}
            /\ todo[u] # Unavailable
      BY <1>6, <3>1, ListsDiffer DEF UnavailableLists
    <3> QED
      BY <3>1, <3>2 DEF OnlineInv, BackendInv, Usable
  <2> QED
    BY <1>3, <1>7, <2>1 DEF WritesFound
<1> QED
  BY <1>4, <1>5, <1>8, <1>9, <1>10 DEF OnlineInv

\* A failed swap passes through before it degrades, so between the two writes it
\* is what will make the report honest.
LEMMA WorkerWriteOnline ==
  ASSUME TypeOK, OnlineInv, NEW w \in Workers, WriteFlag(w)
  PROVE  OnlineInv'
<1>1. /\ pc' = pc /\ worker' = worker /\ process' = process /\ raced' = raced
      /\ \A o \in (Threads \cup Workers) \ {w} : todo'[o] = todo[o]
  BY WriteFrame
<1>2. \A t \in Threads : todo'[t] = todo[t]
  BY <1>1, FaceSwapAssumption
<1>3. WritesDegrade(w)
  BY WorkerWrites DEF OnlineInv
<1>4. ShapeInv'
  <2>1. /\ todo'[w] \in {<<>>, Degrade, Degrade1, Degrade2}
        /\ worker[w] \notin {"typed", "legacy"}
    BY <1>3, ListsDiffer DEF WritesDegrade, Wrote, OnlineInv, ShapeInv
  <2>2. \A v \in Workers :
            /\ todo'[v] \in {<<>>, Degrade, Degrade1, Degrade2}
            /\ worker[v] \in {"typed", "legacy"} => todo'[v] = <<>>
    BY <1>1, <2>1 DEF OnlineInv, ShapeInv
  <2> QED
    <3>1. \A t \in Threads : pc'[t] = pc[t] /\ todo'[t] = todo[t]
      BY <1>1, <1>2
    <3>2. \A t \in Threads :
            \/ todo'[t] = <<>>
            \/ pc'[t] = "detected" /\ todo'[t] \in FoundLists \cup UnavailableLists
            \/ pc'[t] = "cleaning" /\ todo'[t] \in UnavailableLists
            \/ pc'[t] = "building" /\ todo'[t] \in {Gauge(TRUE), Gauge(FALSE)}
      BY <3>1 DEF OnlineInv, ShapeInv
    <3>3. \A v \in Workers :
            /\ todo'[v] \in {<<>>, Degrade, Degrade1, Degrade2}
            /\ worker'[v] \in {"typed", "legacy"} => todo'[v] = <<>>
      BY <1>1, <2>2
    <3> QED
      BY <3>2, <3>3 DEF ShapeInv
<1>5. OneInv'
  BY <1>1 DEF OnlineInv, OneInv
<1>6. flag'["available"] = flag["available"]
  BY <1>3 DEF WritesDegrade, Wrote, Flags
<1>7. DownInv'
  BY <1>1, <1>2, <1>6 DEF OnlineInv, DownInv
<1>8. ~flag'["degraded"] => ~flag["degraded"]
  BY <1>3 DEF WritesDegrade, Wrote, Flags
<1>9. HonestInv'
  <2>1. CASE todo'[w] = Degrade1
    BY <2>1 DEF HonestInv
  <2>2. CASE flag'["degraded"]
    BY <2>2 DEF HonestInv, Usable
  <2>3. CASE todo[w] = Degrade2 /\ flag'["passthrough"] = flag["passthrough"]
    <3>1. \A v \in Workers : todo[v] = Degrade1 => todo'[v] = Degrade1
      BY <1>1, <2>3, ListsDiffer
    <3> QED
      BY <1>1, <1>2, <1>6, <1>8, <2>3, <3>1 DEF OnlineInv, HonestInv, Usable
  <2> QED
    BY <1>3, <2>1, <2>2, <2>3 DEF WritesDegrade, Wrote, Flags
<1>10. BackendInv'
  BY <1>1, <1>2, <1>6, <1>8 DEF OnlineInv, BackendInv, Usable
<1> QED
  BY <1>4, <1>5, <1>7, <1>9, <1>10 DEF OnlineInv

-----------------------------------------------------------------------------
(***************************************************************************)
(* An activation's other steps.  Each is taken by a thread with nothing    *)
(* left to write, and changes that thread's place and list alone.          *)
(***************************************************************************)
Step(t) == Load(t) \/ Speak(t) \/ Advance(t)

LEMMA StepFrame ==
  ASSUME TypeOK, NEW t \in Threads, Step(t)
  PROVE  /\ todo[t] = <<>>
         /\ \A u \in Threads \ {t} : pc'[u] = pc[u] /\ todo'[u] = todo[u]
         /\ \A w \in Workers :
              /\ todo'[w] = todo[w]
              /\ worker'[w] = worker[w] \/ worker'[w] = "ready"
<1> USE DEF Load, Speak, Activate, Advance, Detect, Release, Decide, Spawn, SpawnFails,
            Started, StartFails, Terminate, Forget, Conclude, Build, BuildFails,
            BuildNothing, Step
<1>1. todo[t] = <<>>
  BY DEF At
<1>2. \E step : Go(t, step)
  OBVIOUS
<1>3. todo' = todo \/ \E writes : Will(t, writes)
  BY DEF adapterVars
<1>4. worker' = worker \/ \E v \in Workers : worker' = [worker EXCEPT ![v] = "ready"]
  BY DEF adapterVars
<1>5. \A u \in Threads \ {t} : pc'[u] = pc[u] /\ todo'[u] = todo[u]
  BY <1>2, <1>3 DEF Go, Will, TypeOK
<1>6. \A w \in Workers : todo'[w] = todo[w]
  BY <1>3, FaceSwapAssumption DEF Will, TypeOK
<1>7. \A w \in Workers : worker'[w] = worker[w] \/ worker'[w] = "ready"
  BY <1>4 DEF TypeOK
<1> QED
  BY <1>1, <1>5, <1>6, <1>7

\* Where it goes, and with what to write.
LEMMA StepShape ==
  ASSUME TypeOK, NEW t \in Threads, Step(t)
  PROVE  \/ todo'[t] = <<>>
         \/ pc'[t] = "detected" /\ todo'[t] \in {Found, Unavailable}
         \/ pc'[t] = "cleaning" /\ todo'[t] = Unavailable
         \/ pc'[t] = "building" /\ todo'[t] \in {Gauge(TRUE), Gauge(FALSE)}
<1>1. CASE Detect(t)
  BY <1>1 DEF Detect, Will, Go, TypeOK
<1>2. CASE SpawnFails(t) \/ StartFails(t)
  BY <1>2 DEF SpawnFails, StartFails, Will, Go, TypeOK
<1>3. CASE Conclude(t)
  <2>1. flag["degraded"] \in BOOLEAN
    BY DEF TypeOK, Flags
  <2> QED
    BY <1>3, <2>1 DEF Conclude, Will, Go, TypeOK, Gauge
<1>4. CASE ~(Detect(t) \/ SpawnFails(t) \/ StartFails(t) \/ Conclude(t))
  <2>1. todo' = todo
    BY <1>4 DEF Step, Load, Speak, Activate, Advance, Release, Decide, Spawn, Started,
       Terminate, Forget, Build, BuildFails, BuildNothing
  <2> QED
    BY <2>1, StepFrame
<1> QED
  BY <1>1, <1>2, <1>3, <1>4

LEMMA StepShapeInv ==
  ASSUME TypeOK, ShapeInv, NEW t \in Threads, Step(t)
  PROVE  ShapeInv'
<1>1. \A u \in Threads :
        \/ todo'[u] = <<>>
        \/ pc'[u] = "detected" /\ todo'[u] \in FoundLists \cup UnavailableLists
        \/ pc'[u] = "cleaning" /\ todo'[u] \in UnavailableLists
        \/ pc'[u] = "building" /\ todo'[u] \in {Gauge(TRUE), Gauge(FALSE)}
  BY StepFrame, StepShape DEF ShapeInv, FoundLists, UnavailableLists
<1>2. \A w \in Workers :
        /\ todo'[w] \in {<<>>, Degrade, Degrade1, Degrade2}
        /\ worker'[w] \in {"typed", "legacy"} => todo'[w] = <<>>
  BY StepFrame DEF ShapeInv
<1> QED
  BY <1>1, <1>2 DEF ShapeInv

\* An activation begins alone, or the last ones overlapped.
LEMMA BeginOnline ==
  ASSUME TypeOK, OnlineInv, NEW t \in Threads, Load(t) \/ Speak(t)
  PROVE  OnlineInv'
<1>1. Step(t)
  BY DEF Step
<1>2. /\ pc'[t] = "detecting" /\ todo'[t] = <<>>
      /\ raced' = (\E u \in Threads \ {t} : pc[u] # "idle")
  BY DEF Load, Speak, Activate, Go, At, TypeOK
<1>3. ShapeInv'
  BY <1>1, StepShapeInv DEF OnlineInv
<1>4. OneInv'
  BY <1>1, <1>2, StepFrame DEF OneInv
<1>5. DownInv'
  <2> SUFFICES ASSUME ~raced', NEW u \in Threads
               PROVE  /\ todo'[u] \notin {Unavailable1, Unavailable2}
                      /\ pc'[u] \notin {"cleaning", "reaping"}
    BY DEF DownInv
  <2>1. CASE u = t
    BY <1>2, <2>1, ListsDiffer DEF UnavailableLists
  <2>2. CASE u # t
    <3>1. pc[u] = "idle" /\ pc'[u] = "idle" /\ todo'[u] = todo[u]
      BY <1>1, <1>2, <2>2, StepFrame
    <3>2. todo[u] = <<>>
      BY <3>1 DEF OnlineInv, ShapeInv
    <3> QED
      BY <3>1, <3>2, ListsDiffer DEF UnavailableLists
  <2> QED
    BY <2>1, <2>2
<1>6. HonestInv' /\ BackendInv'
  BY <1>2 DEF HonestInv, BackendInv
<1> QED
  BY <1>3, <1>4, <1>5, <1>6 DEF OnlineInv

\* An activation that has begun is not idle, and outside WriteFlag it writes no
\* flag but "active".
LEMMA AdvanceFrame ==
  ASSUME TypeOK, NEW t \in Threads, Advance(t)
  PROVE  /\ pc[t] # "idle" /\ raced' = raced
         /\ \A f \in Flags \ {"active"} : flag'[f] = flag[f]
<1> USE DEF Advance, Detect, Release, Decide, Spawn, SpawnFails, Started, StartFails,
            Terminate, Forget, Conclude, Build, BuildFails, BuildNothing
<1>1. pc[t] # "idle"
  BY DEF At
<1>2. raced' = raced
  OBVIOUS
<1>3. flag' = flag \/ flag' = [flag EXCEPT !["active"] = Usable]
  OBVIOUS
<1>4. \A f \in Flags \ {"active"} : flag'[f] = flag[f]
  BY <1>3 DEF TypeOK, Flags
<1> QED
  BY <1>1, <1>2, <1>4

LEMMA AdvanceDown ==
  ASSUME TypeOK, OnlineInv, NEW t \in Threads, Advance(t)
  PROVE  DownInv'
<1>1. /\ raced' = raced /\ flag'["available"] = flag["available"]
      /\ pc[t] # "idle" /\ todo[t] = <<>>
  BY AdvanceFrame, StepFrame DEF Step, Flags
<1>2. SUFFICES ASSUME ~raced, \/ todo'[t] \in {Unavailable1, Unavailable2}
                              \/ pc'[t] = "cleaning" /\ todo'[t] # Unavailable
                              \/ pc'[t] = "reaping"
               PROVE  ~flag["available"]
  BY <1>1, StepFrame DEF DownInv, OnlineInv, Step
<1>3. todo'[t] \notin {Unavailable1, Unavailable2}
  BY StepShape, ListsDiffer DEF Step, UnavailableLists, FoundLists
<1>4. CASE pc'[t] = "cleaning" /\ todo'[t] # Unavailable
  BY <1>4 DEF Advance, Detect, Release, Decide, Spawn, SpawnFails, Started, StartFails,
     Terminate, Forget, Conclude, Build, BuildFails, BuildNothing, Go, Will, TypeOK
<1>5. CASE pc'[t] = "reaping"
  <2>1. Terminate(t)
    BY <1>5 DEF Advance, Detect, Release, Decide, Spawn, SpawnFails, Started, StartFails,
       Terminate, Forget, Conclude, Build, BuildFails, BuildNothing, Go, TypeOK
  <2>2. pc[t] = "cleaning" /\ todo[t] # Unavailable
    BY <1>1, <2>1, ListsDiffer DEF Terminate, At, UnavailableLists
  <2> QED
    BY <1>2, <2>2 DEF OnlineInv, DownInv
<1> QED
  BY <1>2, <1>3, <1>4, <1>5

\* Only the end of a detection leaves a flag for an activation to clear.
LEMMA AdvanceHonest ==
  ASSUME TypeOK, OnlineInv, NEW t \in Threads, Advance(t)
  PROVE  HonestInv'
<1>1. /\ raced' = raced
      /\ Usable' = Usable /\ flag'["passthrough"] = flag["passthrough"]
  BY AdvanceFrame DEF Usable, Flags
<1>2. /\ todo[t] = <<>>
      /\ \A u \in Threads \ {t} : pc'[u] = pc[u] /\ todo'[u] = todo[u]
      /\ \A w \in Workers : todo'[w] = todo[w]
  BY StepFrame DEF Step
<1>3. CASE Detect(t)
  <2>1. todo'[t] \in FoundLists \cup {Unavailable}
    BY <1>3 DEF Detect, Will, TypeOK, FoundLists
  <2> QED
    BY <2>1 DEF HonestInv
<1>4. CASE ~Detect(t)
  <2>1. pc[t] # "detecting"
    BY <1>4 DEF Advance, Release, Decide, Spawn, SpawnFails, Started, StartFails,
       Terminate, Forget, Conclude, Build, BuildFails, BuildNothing, At
  <2>2. todo[t] \notin FoundLists \cup {Unavailable}
    BY <1>2, ListsDiffer DEF UnavailableLists
  <2> QED
    BY <1>1, <1>2, <2>1, <2>2 DEF OnlineInv, HonestInv
<1> QED
  BY <1>3, <1>4

\* Only a clean-up forgets the process, and only of a backend that is down; only a
\* detection that found it leads to spawning.
LEMMA AdvanceBackend ==
  ASSUME TypeOK, OnlineInv, NEW t \in Threads, Advance(t)
  PROVE  BackendInv'
<1>1. raced' = raced /\ Usable' = Usable
  BY AdvanceFrame DEF Usable, Flags
<1>2. /\ todo[t] = <<>>
      /\ \A u \in Threads \ {t} : pc'[u] = pc[u] /\ todo'[u] = todo[u]
  BY StepFrame DEF Step
<1> SUFFICES ASSUME ~raced, Usable, process' = None
             PROVE  \E u \in Threads :
                      \/ pc'[u] \in {"detecting", "detected", "deciding", "spawning"}
                      \/ todo'[u] = Unavailable
  BY <1>1 DEF BackendInv
<1>3. ~Forget(t)
  BY DEF Forget, At, OnlineInv, DownInv, Usable
<1>4. ~Spawn(t)
  BY FaceSwapAssumption DEF Spawn
<1>5. process = None
  BY <1>3, <1>4 DEF Advance, Detect, Release, Decide, SpawnFails, Started, StartFails,
     Terminate, Conclude, Build, BuildFails, BuildNothing, adapterVars
<1>6. PICK u \in Threads :
        \/ pc[u] \in {"detecting", "detected", "deciding", "spawning"}
        \/ todo[u] = Unavailable
  BY <1>5 DEF OnlineInv, BackendInv
<1>7. CASE u # t
  BY <1>2, <1>6, <1>7
<1>8. CASE u = t
  <2>1. pc[t] \in {"detecting", "detected", "deciding", "spawning"}
    BY <1>2, <1>6, <1>8, ListsDiffer DEF UnavailableLists
  <2>2. \/ pc'[t] \in {"detected", "deciding", "spawning"}
        \/ todo'[t] = Unavailable
    BY <1>4, <2>1 DEF Advance, Detect, Release, Decide, SpawnFails, Started, StartFails,
       Terminate, Forget, Conclude, Build, BuildFails, BuildNothing, At, Go, Will, TypeOK
  <2> QED
    BY <2>2
<1> QED
  BY <1>7, <1>8

LEMMA AdvanceOnline ==
  ASSUME TypeOK, OnlineInv, NEW t \in Threads, Advance(t)
  PROVE  OnlineInv'
<1>1. ShapeInv'
  BY StepShapeInv DEF OnlineInv, Step
<1>2. OneInv'
  <2>1. \A u \in Threads : pc'[u] # "idle" => pc[u] # "idle"
    BY AdvanceFrame, StepFrame DEF Step
  <2> QED
    BY <2>1, AdvanceFrame DEF OnlineInv, OneInv
<1> QED
  BY <1>1, <1>2, AdvanceDown, AdvanceHonest, AdvanceBackend DEF OnlineInv

-----------------------------------------------------------------------------
(***************************************************************************)
(* A pipeline thread's other steps leave what the report depends on alone: *)
(* a swap that fails only puts its writes down.                            *)
(***************************************************************************)
LEMMA WorkerFrame ==
  ASSUME TypeOK, ShapeInv, NEW w \in Workers, WorkerStep(w)
  PROVE  /\ flag' = flag /\ pc' = pc /\ process' = process /\ raced' = raced
         /\ \A t \in Threads : todo'[t] = todo[t]
         /\ \A v \in Workers : todo[v] # <<>> => todo'[v] = todo[v]
<1> USE DEF WorkerStep, Swap, PassThrough, SwapDone, SwapFails, SourceEnds
<1>1. flag' = flag /\ pc' = pc /\ process' = process /\ raced' = raced
  BY DEF adapterVars, vars
<1>2. todo' = todo \/ (todo[w] = <<>> /\ \E writes : Will(w, writes))
  <2>1. CASE SwapFails(w) /\ worker[w] = "typed"
    <3>1. todo[w] = <<>>
      BY <2>1 DEF ShapeInv
    <3> QED
      BY <2>1, <3>1
  <2>2. CASE SwapFails(w) /\ worker[w] # "typed"
    BY <2>2
  <2>3. CASE Swap(w) \/ PassThrough(w) \/ SwapDone(w) \/ SourceEnds(w)
    <3>1. todo' = todo
      BY <2>3 DEF vars
    <3> QED
      BY <3>1
  <2> QED
    BY <2>1, <2>2, <2>3
<1>3. \A t \in Threads : todo'[t] = todo[t]
  BY <1>2, FaceSwapAssumption DEF Will, TypeOK
<1>4. \A v \in Workers : todo[v] # <<>> => todo'[v] = todo[v]
  BY <1>2 DEF Will, TypeOK
<1> QED
  BY <1>1, <1>3, <1>4

LEMMA WorkerShape ==
  ASSUME TypeOK, ShapeInv, NEW w \in Workers, WorkerStep(w)
  PROVE  \A v \in Workers :
           /\ todo'[v] \in {<<>>, Degrade, Degrade1, Degrade2}
           /\ worker'[v] \in {"typed", "legacy"} => todo'[v] = <<>>
<1>1. CASE Swap(w)
  BY <1>1 DEF Swap, Ready, ShapeInv, TypeOK
<1>2. CASE SwapFails(w)
  <2>1. todo' = todo \/ todo' = [todo EXCEPT ![w] = Degrade]
    BY <1>2 DEF SwapFails, Will
  <2>2. worker' = [worker EXCEPT ![w] = "ready"]
    BY <1>2 DEF SwapFails
  <2> QED
    BY <2>1, <2>2 DEF ShapeInv, TypeOK
<1>3. CASE PassThrough(w) \/ SwapDone(w) \/ SourceEnds(w)
  BY <1>3 DEF PassThrough, SwapDone, SourceEnds, vars, ShapeInv, TypeOK
<1> QED
  BY <1>1, <1>2, <1>3 DEF WorkerStep

LEMMA WorkerOnline ==
  ASSUME TypeOK, OnlineInv, NEW w \in Workers, WorkerStep(w)
  PROVE  OnlineInv'
<1>1. /\ flag' = flag /\ pc' = pc /\ process' = process /\ raced' = raced
      /\ \A t \in Threads : todo'[t] = todo[t]
      /\ \A v \in Workers : todo[v] # <<>> => todo'[v] = todo[v]
  BY WorkerFrame DEF OnlineInv
<1>2. ShapeInv'
  <2>1. \A t \in Threads :
          \/ todo'[t] = <<>>
          \/ pc'[t] = "detected" /\ todo'[t] \in FoundLists \cup UnavailableLists
          \/ pc'[t] = "cleaning" /\ todo'[t] \in UnavailableLists
          \/ pc'[t] = "building" /\ todo'[t] \in {Gauge(TRUE), Gauge(FALSE)}
    BY <1>1 DEF OnlineInv, ShapeInv
  <2> QED
    BY <2>1, WorkerShape DEF OnlineInv, ShapeInv
<1>3. OneInv' /\ DownInv' /\ BackendInv'
  BY <1>1 DEF OnlineInv, OneInv, DownInv, BackendInv, Usable
<1>4. HonestInv'
  <2>1. \A v \in Workers : todo[v] = Degrade1 => todo'[v] = Degrade1
    BY <1>1, ListsDiffer
  <2> QED
    BY <1>1, <2>1 DEF OnlineInv, HonestInv, Usable
<1> QED
  BY <1>2, <1>3, <1>4 DEF OnlineInv

-----------------------------------------------------------------------------
\* At the start nothing is online.
LEMMA InitOnline == Init => OnlineInv
<1> SUFFICES ASSUME Init PROVE OnlineInv
  OBVIOUS
<1>1. /\ \A t \in Threads : todo[t] = <<>> /\ pc[t] = "idle"
      /\ \A w \in Workers : todo[w] = <<>>
  BY DEF Init
<1>2. ~Usable
  <2>1. flag["available"] = ("available" \in {"degraded", "passthrough", "gauge"})
    BY DEF Init, Flags
  <2> QED
    BY <2>1 DEF Usable
<1>3. ShapeInv
  BY <1>1, ListsDiffer DEF ShapeInv, Init
<1>4. OneInv /\ DownInv
  BY <1>1, ListsDiffer DEF OneInv, DownInv, UnavailableLists
<1> QED
  BY <1>2, <1>3, <1>4 DEF OnlineInv, HonestInv, BackendInv

LEMMA NextOnline == TypeOK /\ OnlineInv /\ [Next]_vars => OnlineInv'
<1> SUFFICES ASSUME TypeOK, OnlineInv, [Next]_vars
             PROVE  OnlineInv'
  OBVIOUS
<1>1. ASSUME NEW t \in Threads, Load(t) \/ Speak(t) \/ Advance(t)
      PROVE  OnlineInv'
  BY <1>1, BeginOnline, AdvanceOnline
<1>2. ASSUME NEW w \in Workers, WorkerStep(w)
      PROVE  OnlineInv'
  BY <1>2, WorkerOnline
<1>3. ASSUME NEW a \in Threads \cup Workers, WriteFlag(a)
      PROVE  OnlineInv'
  BY <1>3, ThreadWriteOnline, WorkerWriteOnline
<1>4. CASE \/ \E b \in Backends : Exit(b)
           \/ UNCHANGED vars
  <2>1. /\ flag' = flag /\ pc' = pc /\ process' = process /\ raced' = raced
        /\ todo' = todo /\ worker' = worker
    BY <1>4 DEF Exit, vars
  <2>2. ShapeInv'
    BY <2>1 DEF OnlineInv, ShapeInv
  <2>3. OneInv' /\ DownInv' /\ HonestInv' /\ BackendInv'
    BY <2>1 DEF OnlineInv, OneInv, DownInv, HonestInv, BackendInv, Usable
  <2> QED
    BY <2>2, <2>3 DEF OnlineInv
<1> QED
  BY <1>1, <1>2, <1>3, <1>4 DEF Next, WorkerStep

\* The second strengthening holds in every reachable state.
THEOREM OnlineInvariant == Spec => []OnlineInv
BY InitOnline, NextOnline, TypeCorrect, PTL DEF Spec

\* What is reported online is not passed through, whichever of an activation's
\* writes the writes of failing swaps come between (FaceSwap!HonestHealth).
THEOREM HonestlyOnline == Spec => []HonestHealth
<1>1. OnlineInv => HonestHealth
  <2> SUFFICES ASSUME OnlineInv, AtRest, ~raced, Usable, flag["passthrough"]
               PROVE  FALSE
    BY DEF HonestHealth
  <2>1. \A t \in Threads : pc[t] = "idle" /\ todo[t] = <<>>
    BY DEF AtRest, At
  <2>2. \A w \in Workers : todo[w] = <<>>
    BY DEF AtRest
  <2> QED
    BY <2>1, <2>2, ListsDiffer DEF OnlineInv, HonestInv, UnavailableLists
<1> QED
  BY <1>1, OnlineInvariant, PTL

\* What is reported online has had its process started and not cleaned up, and the
\* types hold (FaceSwap!Inv, OnlineHasBackend).
THEOREM OnlineBacked == Spec => []Inv
<1>1. OnlineInv => OnlineHasBackend
  <2> SUFFICES ASSUME OnlineInv, AtRest, ~raced, Usable, process = None
               PROVE  FALSE
    BY DEF OnlineHasBackend
  <2>1. \A t \in Threads : pc[t] = "idle" /\ todo[t] = <<>>
    BY DEF AtRest, At
  <2> QED
    BY <2>1, ListsDiffer DEF OnlineInv, BackendInv, UnavailableLists
<1>2. TypeOK /\ OnlineHasBackend => Inv
  BY DEF Inv
<1> QED
  BY <1>1, <1>2, OnlineInvariant, TypeCorrect, PTL
=============================================================================
