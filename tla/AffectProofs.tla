----------------------------- MODULE AffectProofs -----------------------------
(***************************************************************************)
(* AffectRuntime for any number of calls in flight and any durations: time *)
(* is counted once however they overlap, but for two orders of their steps *)
(* that repeat it, and the recovering avatar is earned, but for a state    *)
(* that a frame overtook.                                                  *)
(***************************************************************************)
EXTENDS AffectRuntime, TLAPS

Alone(c) == \A d \in Calls \ {c} : call[d] = Idle

\* What a tick at this moment counts.
Countable == IF sinceTick = Never THEN 0 ELSE Least(sinceTick, FadeTime)

\* Whoever is alone finds an empty accumulator, and a tick puts no more into it
\* than has passed since the last one: every call zeroes it at its end.
CountedInv ==
  /\ Quiet => acc = 0
  /\ \A c \in Calls : Alone(c) /\ call[c].at = "begun" =>
       acc <= IF call[c].kind = "tick" THEN Countable ELSE 0

\* As long as nothing was counted or read twice, one tick at most has counted and
\* not built, one call at most has read and not published, and what is there to read
\* is what that tick has counted.
NoReader == \A c \in Calls : ~Reading(c)
SomeCounts == \E c \in Calls : Counting(c)

OnceInv == ~again =>
  /\ \A c, d \in Calls : Counting(c) /\ Counting(d) => c = d
  /\ \A c, d \in Calls : Reading(c) /\ Reading(d) => c = d
  /\ NoReader => acc <= IF SomeCounts THEN Countable ELSE 0

\* What a fade can still be given of the time up to now: what a tick has counted, if
\* it has not been read yet, or what the next tick will count.
Elapsing == IF sinceTick = Never THEN 0 ELSE sinceTick

ToCome == IF SomeCounts THEN IF NoReader THEN acc ELSE 0 ELSE Elapsing

\* What a fade has been given and what it can still be given have passed since the
\* tick before it began.
FedInv ==
  /\ fade # 0 => fed = elapsed
  /\ ~again /\ fade # 0 => room = FadeTime \/ fed + ToCome <= room

\* A state built to recover was built from a stale face, which only a later frame
\* can have replaced.
EarnedInv ==
  \A c \in Calls : Reading(c) /\ call[c].shows = "recovering" /\ c \notin overtaken
                     => user.age > StaleAfter

IInv == Inv /\ CountedInv /\ OnceInv /\ FedInv /\ EarnedInv /\ RecoveringIsEarned

-----------------------------------------------------------------------------
\* The durations are numbers of at least one.
LEMMA Durations ==
  /\ FadeTime \in Nat \ {0} /\ TweakTime \in Nat \ {0} /\ Dwell \in Nat \ {0}
  /\ StaleAfter \in Nat \ {0} /\ PollGap \in Nat \ {0}
  /\ TweakTime <= FadeTime /\ Dwell <= PollGap
BY TimeAssumption

\* What a call in flight looks like.
LEMMA CallShapes ==
  ASSUME NEW s \in CallStates
  PROVE  /\ s.at \in {"idle", "begun", "built"}
         /\ s.at = "idle" <=> s = Idle
         /\ s.at = "begun" => s.kind \in {"tick", "heartbeat", "consume"}
         /\ s.at = "built" => s.shows \in {"live", "recovering"}
BY DEF CallStates, Idle

\* The table answers with an affect and an intensity.
LEMMA TargetTyped ==
  ASSUME NEW since
  PROVE  Target(since) \in [affect : Affects, intensity : 0 .. 100]
<1>1. ASSUME NEW e, NEW m
      PROVE  AvatarAffectFor(e, m) \in [affect : Affects, intensity : 0 .. 100]
  BY DEF AvatarAffectFor, Affects
<1> QED
  BY <1>1 DEF Target, Affects

\* What everything starts from, and starts over from, is typed.
LEMMA StartTyped ==
  /\ [affect |-> "neutral", intensity |-> 50] \in [affect : Affects, intensity : 0 .. 100]
  /\ Idle \in CallStates /\ "neutral" \in Affects
  /\ Never \in 0 .. Never /\ -Never \in -Never .. Dwell
  /\ NoFrame \in -PollGap .. NoFrame /\ 0 \in 0 .. FadeTime
<1>1. /\ Never \in 0 .. Never /\ -Never \in -Never .. Dwell
      /\ NoFrame \in -PollGap .. NoFrame /\ 0 \in 0 .. FadeTime
  BY Durations DEF Never, NoFrame, OldFrame
<1>2. "neutral" \in Affects
  BY DEF Affects
<1> QED
  BY <1>1, <1>2 DEF CallStates

\* Nothing has been counted at first, and nobody calls.
LEMMA InitIInv == Init => IInv
<1> SUFFICES ASSUME Init PROVE IInv
  OBVIOUS
<1>1. TypeOK
  BY StartTyped DEF Init, TypeOK
<1>2. TimeCountedOnce /\ RecoveringIsEarned
  BY DEF Init, TimeCountedOnce, RecoveringIsEarned
<1>3. CountedInv /\ OnceInv /\ FedInv /\ EarnedInv
  BY DEF Init, CountedInv, OnceInv, FedInv, EarnedInv, Idle, Counting, Reading, NoReader,
     SomeCounts
<1> QED
  BY <1>1, <1>2, <1>3 DEF IInv, Inv

-----------------------------------------------------------------------------
(***************************************************************************)
(* Types.                                                                  *)
(***************************************************************************)

Opening(c) == Tick(c) \/ Heartbeat(c) \/ Frame(c) \/ OtherEvent(c)

\* The beginning of a call.
LEMMA OpeningTyped ==
  ASSUME TypeOK, NEW c \in Calls, Opening(c)
  PROVE  TypeOK'
<1>1. call' \in [Calls -> CallStates]
  BY DEF Opening, Tick, Heartbeat, Frame, OtherEvent, Begin, TypeOK, CallStates
<1>2. user' \in [expression : Expressions \cup {"neutral"}, age : -PollGap .. NoFrame]
  BY TimeAssumption, Durations DEF Opening, Tick, Heartbeat, Frame, OtherEvent, UpdateFace,
     userVars, TypeOK, NoFrame, OldFrame
<1>3. mode' = mode
  BY DEF Opening, Tick, Heartbeat, Frame, OtherEvent, UpdateFace, userVars
<1>4. acc' \in 0 .. FadeTime
  BY Durations DEF Opening, Tick, Heartbeat, Frame, OtherEvent, TypeOK, Least, Never
<1>5. again' \in BOOLEAN /\ overtaken' \subseteq Calls
  BY DEF Opening, Tick, Heartbeat, Frame, OtherEvent, TypeOK
<1>6. UNCHANGED <<sinceTick, blenderVars, latchVars, avatar, fed, room, late>>
  BY DEF Opening, Tick, Heartbeat, Frame, OtherEvent, Begin
<1> QED
  BY <1>1, <1>2, <1>3, <1>4, <1>5, <1>6 DEF TypeOK, blenderVars, latchVars

\* What the build's parts leave behind.
LEMMA BlendTyped ==
  ASSUME TypeOK, NEW t \in [affect : Affects, intensity : 0 .. 100], Blend(t)
  PROVE  /\ target' \in [affect : Affects, intensity : 0 .. 100]
         /\ fade' \in {0, TweakTime, FadeTime}
         /\ elapsed' \in 0 .. FadeTime /\ (elapsed' < fade' \/ elapsed' = 0)
         /\ fed' \in 0 .. FadeTime
<1> DEFINE length == IF t.affect # target.affect THEN FadeTime
                     ELSE IF Begins(t) THEN TweakTime ELSE fade
           passed == (IF Begins(t) THEN 0 ELSE elapsed) + acc
<1>1. length \in {0, TweakTime, FadeTime} /\ length \in Nat /\ length <= FadeTime
  BY Durations DEF TypeOK
<1>2. passed \in Nat
  BY Durations DEF TypeOK
<1>3. /\ fade' = IF passed >= length THEN 0 ELSE length
      /\ elapsed' = IF passed >= length THEN 0 ELSE passed
      /\ fed' = IF length = 0 THEN fed ELSE Least(passed, FadeTime)
      /\ target' = t
  BY DEF Blend
<1> HIDE DEF length, passed
<1> QED
  BY <1>1, <1>2, <1>3, Durations DEF TypeOK, Least

\* The build.
LEMMA BuildTyped ==
  ASSUME TypeOK, NEW c \in Calls, Build(c)
  PROVE  TypeOK'
<1> DEFINE since == IF call[c].kind = "consume" THEN sinceTick ELSE 0
           t == Target(since)
<1>1. since \in 0 .. Never
  BY Durations DEF TypeOK, Never
<1>2. t \in [affect : Affects, intensity : 0 .. 100]
  BY TargetTyped
<1>3. /\ Blend(t) /\ TrySwitch(t.affect, since) /\ sinceTick' = since
      /\ call' = [call EXCEPT ![c] =
             [at |-> "built", shows |-> IF Stale(since) THEN "recovering" ELSE "live"]]
      /\ UNCHANGED <<userVars, acc, avatar, overtaken, late>>
  BY DEF Build
<1>4. /\ room' = IF Begins(t) THEN Countable ELSE room
      /\ again' \in BOOLEAN
  BY DEF Build, Countable
<1> HIDE DEF since, t
<1>5. call' \in [Calls -> CallStates]
  BY <1>3 DEF TypeOK, CallStates
<1>6. emote' \in Affects /\ lockLeft' \in -Never .. Dwell
  BY <1>1, <1>2, <1>3, Durations DEF TrySwitch, TypeOK, latchVars, Never
<1>7. room' \in 0 .. FadeTime
  <2>1. Countable \in 0 .. FadeTime
    BY Durations DEF TypeOK, Countable, Least, Never
  <2> QED
    BY <1>4, <2>1 DEF TypeOK
<1> QED
  BY <1>1, <1>2, <1>3, <1>4, <1>5, <1>6, <1>7, BlendTyped DEF TypeOK, userVars

\* The clock.
LEMMA ClockTyped ==
  ASSUME TypeOK, Clock
  PROVE  TypeOK'
<1>1. sinceTick' \in 0 .. Never /\ lockLeft' \in -Never .. Dwell
  BY Durations DEF Clock, TypeOK, Never
<1>2. user' \in [expression : Expressions \cup {"neutral"}, age : -PollGap .. NoFrame]
  <2>1. user.age \in -PollGap .. NoFrame
    BY DEF TypeOK
  <2>2. (IF user.age < OldFrame THEN user.age + 1 ELSE user.age) \in -PollGap .. NoFrame
    BY <2>1, Durations DEF NoFrame, OldFrame
  <2>3. user' = [user EXCEPT !.age = IF user.age < OldFrame THEN user.age + 1 ELSE user.age]
    BY DEF Clock
  <2> QED
    BY <2>2, <2>3 DEF TypeOK
<1>3. room' \in 0 .. FadeTime
  BY Durations DEF Clock, TypeOK, Least
<1> QED
  BY <1>1, <1>2, <1>3 DEF Clock, TypeOK, blenderVars

\* Every step keeps the types.
LEMMA StepTyped ==
  ASSUME TypeOK, [Next]_vars
  PROVE  TypeOK'
<1>1. ASSUME NEW c \in Calls, Publish(c)
      PROVE  TypeOK'
  <2>1. call[c].shows \in {"live", "recovering"}
    BY <1>1, CallShapes DEF Publish, TypeOK
  <2>2. call' \in [Calls -> CallStates]
    BY <1>1 DEF Publish, TypeOK, CallStates
  <2> QED
    BY <1>1, <2>1, <2>2, Durations DEF Publish, TypeOK, userVars, blenderVars, latchVars
<1>2. CASE SetMode
  BY <1>2 DEF SetMode, TypeOK, blenderVars, latchVars, historyVars
<1>3. CASE Replace \/ Reload
  <2>1. user' \in [expression : Expressions \cup {"neutral"}, age : -PollGap .. NoFrame]
    <3>1. NoFrame \in -PollGap .. NoFrame
      BY Durations DEF NoFrame, OldFrame
    <3> QED
      BY <1>3, <3>1 DEF Replace, Reload, TypeOK
  <2>2. mode' \in {"mirror", "reflect"} /\ avatar' \in {"live", "recovering"}
    BY <1>3 DEF Replace, Reload, TypeOK
  <2>3. Fresh
    BY <1>3 DEF Replace, Reload
  <2> QED
    BY <2>1, <2>2, <2>3, StartTyped DEF Fresh, TypeOK
<1>4. CASE UNCHANGED vars
  BY <1>4 DEF vars, TypeOK, userVars, blenderVars, latchVars, historyVars
<1> QED
  BY <1>1, <1>2, <1>3, <1>4, OpeningTyped, BuildTyped, ClockTyped DEF Next, Opening

-----------------------------------------------------------------------------
(***************************************************************************)
(* Steps of a call.                                                        *)
(***************************************************************************)

\* What a beginning changes.
LEMMA OpeningFacts ==
  ASSUME TypeOK, NEW c \in Calls, Opening(c)
  PROVE  /\ call[c] = Idle
         /\ \A d \in Calls \ {c} : call'[d] = call[d]
         /\ call'[c].at = "begun"
         /\ \/ call'[c].kind # "tick" /\ acc' = acc /\ again' = again
            \/ /\ call'[c].kind = "tick"
               /\ acc' = acc \/ acc' <= acc + Countable
               /\ ~again' => ~again /\ ~SomeCounts
         /\ UNCHANGED <<sinceTick, fade, elapsed, avatar, fed, room, late>>
<1>1. /\ call[c] = Idle
      /\ \A d \in Calls \ {c} : call'[d] = call[d]
      /\ call'[c].at = "begun"
  BY DEF Opening, Tick, Heartbeat, Frame, OtherEvent, Begin, TypeOK
<1>2. UNCHANGED <<sinceTick, fade, elapsed, avatar, fed, room, late>>
  BY DEF Opening, Tick, Heartbeat, Frame, OtherEvent, Begin, blenderVars
<1>3. ASSUME Tick(c)
      PROVE  /\ call'[c].kind = "tick"
             /\ acc' = acc \/ acc' <= acc + Countable
             /\ ~again' => ~again /\ ~SomeCounts
  <2>1. call'[c].kind = "tick"
    BY <1>3 DEF Tick, Begin, TypeOK
  <2>2. acc' = acc \/ acc' <= acc + Countable
    BY <1>3, Durations DEF Tick, TypeOK, Countable, Least, Never
  <2>3. ~again' => ~again /\ ~SomeCounts
    BY <1>3 DEF Tick, SomeCounts
  <2> QED
    BY <2>1, <2>2, <2>3
<1>4. ASSUME ~Tick(c)
      PROVE  call'[c].kind # "tick" /\ acc' = acc /\ again' = again
  BY <1>4 DEF Opening, Heartbeat, Frame, OtherEvent, Begin, TypeOK
<1> QED
  BY <1>1, <1>2, <1>3, <1>4

\* What a build changes.
LEMMA BuildFacts ==
  ASSUME TypeOK, NEW c \in Calls, Build(c)
  PROVE  /\ call[c].at = "begun" /\ call[c] # Idle
         /\ \A d \in Calls \ {c} : call'[d] = call[d]
         /\ call'[c].at = "built"
         /\ call'[c].shows = "recovering" => user.age > StaleAfter
         /\ user' = user /\ acc' = acc /\ avatar' = avatar
         /\ overtaken' = overtaken /\ late' = late
<1>1. /\ call[c].at = "begun"
      /\ \A d \in Calls \ {c} : call'[d] = call[d]
      /\ call'[c].at = "built"
      /\ user' = user /\ acc' = acc /\ avatar' = avatar
      /\ overtaken' = overtaken /\ late' = late
  BY DEF Build, TypeOK, userVars
<1>2. ASSUME call'[c].shows = "recovering" PROVE user.age > StaleAfter
  <2> DEFINE since == IF call[c].kind = "consume" THEN sinceTick ELSE 0
  <2>1. since \in Nat
    BY Durations DEF TypeOK, Never
  <2>2. call'[c].shows = IF Stale(since) THEN "recovering" ELSE "live"
    BY DEF Build, TypeOK
  <2>3. Stale(since)
    BY <1>2, <2>2
  <2>4. user.age \in Int
    BY Durations DEF TypeOK, NoFrame, OldFrame
  <2> HIDE DEF since
  <2> QED
    BY <2>1, <2>3, <2>4, Durations DEF Stale
<1> QED
  BY <1>1, <1>2 DEF Idle

\* What a publication changes.
LEMMA PublishFacts ==
  ASSUME TypeOK, NEW c \in Calls, Publish(c)
  PROVE  /\ call[c].at = "built" /\ call[c] # Idle
         /\ \A d \in Calls \ {c} : call'[d] = call[d]
         /\ call'[c] = Idle
         /\ acc' = 0 /\ avatar' = call[c].shows
         /\ late' = (c \in overtaken) /\ overtaken' = overtaken \ {c}
         /\ UNCHANGED <<user, sinceTick, fade, elapsed, fed, room, again>>
BY DEF Publish, TypeOK, userVars, blenderVars, Idle

\* What a tick counts is a time.
LEMMA CountableTyped ==
  ASSUME TypeOK
  PROVE  /\ Countable \in 0 .. FadeTime /\ Elapsing \in Nat
         /\ Countable = Least(Elapsing, FadeTime)
BY Durations DEF TypeOK, Countable, Elapsing, Least, Never

-----------------------------------------------------------------------------
(***************************************************************************)
(* Overlaps and the accumulator.                                           *)
(***************************************************************************)

\* Every step keeps what the accumulator may hold.
LEMMA StepCounted ==
  ASSUME TypeOK, CountedInv, [Next]_vars
  PROVE  CountedInv'
<1>1. ASSUME NEW c \in Calls, Opening(c)
      PROVE  CountedInv'
  <2>1. ~Quiet'
    BY <1>1, OpeningFacts DEF Quiet, Idle
  <2>2. ASSUME NEW d \in Calls, Alone(d)', call'[d].at = "begun"
        PROVE  acc' <= IF call'[d].kind = "tick" THEN Countable' ELSE 0
    <3>1. d = c
      BY <1>1, <2>2, OpeningFacts DEF Alone, Idle
    <3>2. Quiet
      BY <1>1, <2>2, <3>1, OpeningFacts DEF Alone, Quiet
    <3>3. acc = 0 /\ Countable' = Countable
      BY <1>1, <3>2, OpeningFacts DEF CountedInv, Countable
    <3>4. Countable \in Nat
      BY CountableTyped
    <3> QED
      BY <1>1, <3>1, <3>3, <3>4, OpeningFacts
  <2> QED
    BY <2>1, <2>2 DEF CountedInv
<1>2. ASSUME NEW c \in Calls, Build(c)
      PROVE  CountedInv'
  <2>1. ~Quiet'
    BY <1>2, BuildFacts DEF Quiet, Idle
  <2>2. \A d \in Calls : ~(Alone(d)' /\ call'[d].at = "begun")
    BY <1>2, BuildFacts DEF Alone, Idle
  <2> QED
    BY <2>1, <2>2 DEF CountedInv
<1>3. ASSUME NEW c \in Calls, Publish(c)
      PROVE  CountedInv'
  <2>1. acc' = 0 /\ sinceTick' = sinceTick
    BY <1>3, PublishFacts
  <2>2. Countable' \in Nat
    BY <2>1, Durations DEF Countable, TypeOK, Least, Never
  <2> QED
    BY <2>1, <2>2 DEF CountedInv
<1>4. CASE Replace \/ Reload
  BY <1>4 DEF Replace, Reload, Fresh, CountedInv, Idle
<1>5. CASE Clock
  <2>1. Quiet /\ acc' = acc /\ call' = call
    BY <1>5 DEF Clock
  <2> QED
    BY <2>1 DEF Quiet, CountedInv, Idle
<1>6. CASE SetMode \/ UNCHANGED vars
  BY <1>6 DEF SetMode, vars, CountedInv, Quiet, Alone, Countable
<1> QED
  BY <1>1, <1>2, <1>3, <1>4, <1>5, <1>6 DEF Next, Opening

\* A call that begins counts if it is a tick, and reads nothing.
LEMMA OpeningCalls ==
  ASSUME TypeOK, NEW c \in Calls, Opening(c)
  PROVE  /\ \A d \in Calls \ {c} : Counting(d)' = Counting(d)
         /\ \A d \in Calls : Reading(d)' = Reading(d)
         /\ ~Counting(c)
         /\ Counting(c)' = (call'[c].kind = "tick")
         /\ NoReader' = NoReader
BY OpeningFacts DEF Counting, Reading, NoReader, Idle

\* A call that builds counts no more and reads.
LEMMA BuildCalls ==
  ASSUME TypeOK, NEW c \in Calls, Build(c)
  PROVE  /\ \A d \in Calls \ {c} : Counting(d)' = Counting(d) /\ Reading(d)' = Reading(d)
         /\ ~Counting(c)' /\ Reading(c)'
         /\ ~again' => NoReader /\ (~again \/ Alone(c))
         /\ ~NoReader'
<1>1. ~again' => NoReader /\ (~again \/ Alone(c))
  BY DEF Build, NoReader, Overlapping, Alone
<1> QED
  BY <1>1, BuildFacts DEF Counting, Reading, NoReader

\* A call that publishes neither counts nor reads any more.
LEMMA PublishCalls ==
  ASSUME TypeOK, NEW c \in Calls, Publish(c)
  PROVE  /\ \A d \in Calls \ {c} : Counting(d)' = Counting(d) /\ Reading(d)' = Reading(d)
         /\ ~Counting(c) /\ Reading(c) /\ ~Counting(c)' /\ ~Reading(c)'
         /\ SomeCounts' = SomeCounts /\ ~NoReader
BY PublishFacts DEF Counting, Reading, NoReader, SomeCounts, Idle

\* What a build reads, unless it or something before was read twice: what a tick
\* that has not built has counted.
LEMMA BuildReads ==
  ASSUME TypeOK, CountedInv, OnceInv, NEW c \in Calls, Build(c), ~again'
  PROVE  NoReader /\ acc <= IF SomeCounts THEN Countable ELSE 0
<1>1. NoReader /\ (~again \/ Alone(c))
  BY BuildCalls
<1>2. CASE ~again
  BY <1>1, <1>2 DEF OnceInv
<1>3. CASE Alone(c)
  <2>1. SomeCounts <=> call[c].kind = "tick"
    BY <1>3, BuildFacts DEF SomeCounts, Counting, Alone, Idle
  <2> QED
    BY <1>1, <1>3, <2>1, BuildFacts DEF CountedInv
<1> QED
  BY <1>1, <1>2, <1>3

\* Every step notes what is counted or read twice.
LEMMA StepOnce ==
  ASSUME TypeOK, CountedInv, OnceInv, [Next]_vars
  PROVE  OnceInv'
<1>1. ASSUME NEW c \in Calls, Opening(c)
      PROVE  OnceInv'
  <2> SUFFICES ASSUME ~again' PROVE OnceInv'
    BY DEF OnceInv
  <2>1. Countable' = Countable /\ Countable \in Nat
    BY <1>1, OpeningFacts, CountableTyped DEF Countable
  <2>2. CASE call'[c].kind # "tick"
    <3>1. ~again /\ acc' = acc
      BY <1>1, <2>2, OpeningFacts
    <3>2. /\ \A d \in Calls : (Counting(d)' <=> Counting(d)) /\ (Reading(d)' <=> Reading(d))
          /\ NoReader' <=> NoReader
      BY <1>1, <2>2, OpeningCalls
    <3>3. SomeCounts' <=> SomeCounts
      BY <3>2 DEF SomeCounts
    <3> QED
      BY <2>1, <3>1, <3>2, <3>3 DEF OnceInv
  <2>3. CASE call'[c].kind = "tick"
    <3>1. ~again /\ ~SomeCounts /\ (acc' = acc \/ acc' <= acc + Countable)
      BY <1>1, <2>3, OpeningFacts
    <3>2. /\ \A d \in Calls : Counting(d)' => d = c
          /\ \A d \in Calls : Reading(d)' = Reading(d)
          /\ SomeCounts' /\ NoReader' = NoReader
      BY <1>1, <2>3, <3>1, OpeningCalls DEF SomeCounts
    <3>3. NoReader => acc <= 0
      BY <3>1 DEF OnceInv
    <3>4. acc \in Nat
      BY DEF TypeOK
    <3>5. NoReader' => acc' <= Countable'
      BY <2>1, <3>1, <3>2, <3>3, <3>4
    <3> QED
      BY <3>1, <3>2, <3>5 DEF OnceInv
  <2> QED
    BY <2>2, <2>3
<1>2. ASSUME NEW c \in Calls, Build(c)
      PROVE  OnceInv'
  <2> SUFFICES ASSUME ~again' PROVE OnceInv'
    BY DEF OnceInv
  <2>1. NoReader /\ (~again \/ Alone(c)) /\ ~NoReader'
    BY <1>2, BuildCalls
  <2>2. \A d, e \in Calls : Reading(d)' /\ Reading(e)' => d = e
    BY <1>2, <2>1, BuildCalls DEF NoReader
  <2>3. \A d, e \in Calls : Counting(d)' /\ Counting(e)' => d = e
    <3>1. CASE ~again
      BY <1>2, <3>1, BuildCalls DEF OnceInv
    <3>2. CASE Alone(c)
      BY <1>2, <3>2, BuildCalls DEF Alone, Counting, Idle
    <3> QED
      BY <2>1, <3>1, <3>2
  <2> QED
    BY <2>1, <2>2, <2>3 DEF OnceInv
<1>3. ASSUME NEW c \in Calls, Publish(c)
      PROVE  OnceInv'
  <2>1. acc' = 0 /\ again' = again /\ Countable' = Countable /\ Countable \in Nat
    BY <1>3, PublishFacts, CountableTyped DEF Countable
  <2> QED
    BY <1>3, <2>1, PublishCalls DEF OnceInv
<1>4. CASE Replace \/ Reload
  BY <1>4 DEF Replace, Reload, Fresh, OnceInv, Counting, Reading, SomeCounts, Idle
<1>5. CASE Clock
  <2>1. Quiet /\ acc' = acc /\ call' = call
    BY <1>5 DEF Clock
  <2> QED
    BY <2>1 DEF Quiet, CountedInv, OnceInv, Counting, Reading, SomeCounts, Idle
<1>6. CASE SetMode \/ UNCHANGED vars
  BY <1>6 DEF SetMode, vars, historyVars, OnceInv, Counting, Reading, NoReader, SomeCounts,
     Countable
<1> QED
  BY <1>1, <1>2, <1>3, <1>4, <1>5, <1>6 DEF Next, Opening

-----------------------------------------------------------------------------
(***************************************************************************)
(* The time a fade is given.                                               *)
(***************************************************************************)

\* A build gives a fade what has passed since the tick before it, and no more.
LEMMA BuildFed ==
  ASSUME TypeOK, CountedInv, OnceInv, FedInv, TimeCountedOnce, NEW c \in Calls, Build(c)
  PROVE  FedInv' /\ TimeCountedOnce'
<1> DEFINE since == IF call[c].kind = "consume" THEN sinceTick ELSE 0
           t == Target(since)
           begins == Begins(t)
           length == IF t.affect # target.affect THEN FadeTime
                     ELSE IF begins THEN TweakTime ELSE fade
           passed == (IF begins THEN 0 ELSE elapsed) + acc
<1>1. /\ fade' = IF passed >= length THEN 0 ELSE length
      /\ elapsed' = IF passed >= length THEN 0 ELSE passed
      /\ fed' = IF length = 0 THEN fed ELSE Least(passed, FadeTime)
  BY DEF Build, Blend
<1>2. /\ sinceTick' = since
      /\ room' = IF begins THEN Countable ELSE room
      /\ begins \/ (~again' => ~again)
  BY DEF Build, Countable
<1>3. ~again' => NoReader /\ acc <= IF SomeCounts THEN Countable ELSE 0
  BY BuildReads
<1>4. /\ length \in Nat /\ length <= FadeTime
      /\ begins => length # 0
      /\ ~begins => length = fade
  BY Durations DEF Begins, TypeOK
<1>5. /\ sinceTick \in Nat /\ acc \in Nat /\ elapsed \in Nat /\ fed \in 0 .. FadeTime
      /\ room \in 0 .. FadeTime /\ Never \in Nat /\ Never # 0 /\ FadeTime \in Nat
  BY Durations DEF TypeOK, Never
<1>6. /\ Countable \in 0 .. FadeTime /\ Elapsing \in Nat
      /\ Countable = Least(Elapsing, FadeTime)
  BY CountableTyped
\* what can still come: nothing, or, after a consume that no tick met, what could
<1>7. ToCome' = 0 \/ (ToCome' = Elapsing /\ ~SomeCounts)
  <2>1. ~NoReader'
    BY BuildCalls
  <2>2. CASE SomeCounts'
    BY <2>1, <2>2 DEF ToCome
  <2>3. CASE ~SomeCounts' /\ call[c].kind = "consume"
    <3>1. ToCome' = Elapsing
      BY <1>2, <2>3 DEF ToCome, Elapsing
    <3>2. \A d \in Calls : ~Counting(d)
      BY <2>3, BuildCalls DEF SomeCounts, Counting
    <3> QED
      BY <3>1, <3>2 DEF SomeCounts
  <2>4. CASE ~SomeCounts' /\ call[c].kind # "consume"
    BY <1>2, <2>4 DEF ToCome, Elapsing
  <2> QED
    BY <2>2, <2>3, <2>4
<1> HIDE DEF since, t, begins, length
<1>8. CASE begins
  <2>1. passed = acc /\ room' = Countable /\ length # 0
    BY <1>2, <1>4, <1>5, <1>8
  <2>2. fed' = Least(acc, FadeTime)
    BY <1>1, <2>1
  <2>3. ~again' => acc <= Countable
    BY <1>3, <1>5, <1>6
  <2>4. ~again' => room' = FadeTime \/ acc + ToCome' <= room'
    BY <1>3, <1>5, <1>6, <1>7, <2>1, <2>3 DEF Least
  <2>5. fade' # 0 => fed' = acc /\ elapsed' = acc
    BY <1>1, <1>4, <1>5, <2>1, <2>2 DEF Least
  <2>6. ~again' => fed' <= room'
    BY <1>5, <1>6, <2>1, <2>2, <2>3 DEF Least
  <2> QED
    BY <2>4, <2>5, <2>6 DEF FedInv, TimeCountedOnce
<1>9. CASE ~begins
  <2>1. /\ passed = elapsed + acc /\ room' = room /\ length = fade
        /\ ~again' => ~again
    BY <1>2, <1>4, <1>9
  <2>2. CASE fade = 0
    <3>1. fade' = 0 /\ fed' = fed
      BY <1>1, <1>5, <2>1, <2>2
    <3> QED
      BY <2>1, <3>1 DEF FedInv, TimeCountedOnce
  <2>3. CASE fade # 0
    <3>1. fed' = Least(fed + acc, FadeTime) /\ passed = fed + acc
      BY <1>1, <2>1, <2>3 DEF FedInv
    <3>2. fade' # 0 => fed' = elapsed'
      BY <1>1, <1>4, <1>5, <2>1, <3>1 DEF Least
    <3>3. ~again' => room = FadeTime \/ fed + ToCome <= room
      BY <2>1, <2>3 DEF FedInv
    <3>4. ~again' /\ room # FadeTime => fed + acc + ToCome' <= room
      <4>1. ASSUME ~again', SomeCounts
            PROVE  ToCome = acc /\ ToCome' = 0
        BY <1>3, <1>7, <4>1 DEF ToCome
      <4>2. ASSUME ~again', ~SomeCounts
            PROVE  acc = 0 /\ ToCome = Elapsing /\ (ToCome' = 0 \/ ToCome' = Elapsing)
        BY <1>3, <1>5, <1>7, <4>2 DEF ToCome
      <4> QED
        BY <1>5, <1>6, <3>3, <4>1, <4>2
    <3>5. ~again' => fed' <= room
      BY <1>5, <1>6, <1>7, <3>1, <3>4 DEF Least
    <3>6. ~again' /\ room # FadeTime => fed' + ToCome' <= room
      BY <1>5, <1>6, <1>7, <3>1, <3>4 DEF Least
    <3> HIDE DEF passed
    <3> QED
      BY <2>1, <3>2, <3>5, <3>6 DEF FedInv, TimeCountedOnce
  <2> QED
    BY <2>2, <2>3
<1> QED
  BY <1>8, <1>9

\* A call that begins or ends leaves as much to come, or less.
LEMMA OthersFed ==
  ASSUME TypeOK, OnceInv, NEW c \in Calls, Opening(c) \/ Publish(c), ~again'
  PROVE  ~again /\ ToCome' <= ToCome /\ ToCome' \in Nat /\ ToCome \in Nat
<1>1. acc \in Nat /\ Elapsing \in Nat
  BY CountableTyped DEF TypeOK
<1>2. CASE Opening(c) /\ call'[c].kind # "tick"
  <2>1. ~again /\ acc' = acc /\ Elapsing' = Elapsing
    BY <1>2, OpeningFacts DEF Elapsing
  <2>2. SomeCounts' = SomeCounts /\ NoReader' = NoReader
    BY <1>2, OpeningCalls DEF SomeCounts
  <2> QED
    BY <1>1, <2>1, <2>2 DEF ToCome
<1>3. CASE Opening(c) /\ call'[c].kind = "tick"
  <2>1. ~again /\ ~SomeCounts /\ SomeCounts' /\ NoReader' = NoReader
    BY <1>3, OpeningFacts, OpeningCalls DEF SomeCounts
  <2>2. NoReader => acc = 0
    BY <1>1, <2>1 DEF OnceInv
  <2>3. acc' = acc \/ acc' <= acc + Countable
    BY <1>3, OpeningFacts
  <2>4. Countable <= Elapsing /\ Countable \in Nat
    BY Durations, CountableTyped DEF Least
  <2>5. acc' \in Nat
    BY <1>3, OpeningTyped DEF TypeOK
  <2>6. NoReader => acc' <= Elapsing
    BY <1>1, <2>2, <2>3, <2>4, <2>5
  <2> QED
    BY <1>1, <2>1, <2>5, <2>6 DEF ToCome
<1>4. CASE Publish(c)
  <2>1. ~again /\ acc' = 0 /\ Elapsing' = Elapsing
    BY <1>4, PublishFacts DEF Elapsing
  <2>2. SomeCounts' = SomeCounts /\ ~NoReader
    BY <1>4, PublishCalls
  <2> QED
    BY <1>1, <2>1, <2>2 DEF ToCome
<1> QED
  BY <1>2, <1>3, <1>4

\* So does every step.
LEMMA StepFed ==
  ASSUME TypeOK, CountedInv, OnceInv, FedInv, TimeCountedOnce, [Next]_vars
  PROVE  FedInv' /\ TimeCountedOnce'
<1>1. ASSUME NEW c \in Calls, Opening(c) \/ Publish(c)
      PROVE  FedInv' /\ TimeCountedOnce'
  <2>1. UNCHANGED <<fade, elapsed, fed, room>>
    BY <1>1, OpeningFacts, PublishFacts
  <2>2. ~again' => ~again /\ ToCome' <= ToCome /\ ToCome' \in Nat /\ ToCome \in Nat
    BY <1>1, OthersFed
  <2>3. fed \in Nat /\ room \in Nat
    BY DEF TypeOK
  <2>4. ~again' /\ fade # 0 => room = FadeTime \/ fed + ToCome' <= room
    BY <2>2, <2>3 DEF FedInv
  <2> QED
    BY <2>1, <2>2, <2>4 DEF FedInv, TimeCountedOnce
<1>2. CASE Replace \/ Reload
  BY <1>2 DEF Replace, Reload, Fresh, FedInv, TimeCountedOnce
<1>3. CASE Clock
  <2>1. /\ fade' = fade /\ elapsed' = elapsed /\ fed' = fed /\ again' = again
        /\ sinceTick' = IF sinceTick = Never THEN Never ELSE sinceTick + 1
        /\ room' = IF fade = 0 THEN room ELSE Least(room + 1, FadeTime)
    BY <1>3 DEF Clock, blenderVars
  <2>2. /\ sinceTick \in Nat /\ fed \in 0 .. FadeTime /\ room \in 0 .. FadeTime
    BY Durations DEF TypeOK, Never
  <2>3. ~SomeCounts /\ ~SomeCounts'
    BY <1>3 DEF Clock, Quiet, SomeCounts, Counting, Idle
  <2>4. ToCome = Elapsing /\ ToCome' = Elapsing'
    BY <2>3 DEF ToCome
  <2>5. ~again /\ fade # 0 => room' = FadeTime \/ fed + Elapsing' <= room'
    BY <2>1, <2>2, <2>4, Durations DEF FedInv, Elapsing, Least, Never
  <2>6. TimeCountedOnce'
    BY <2>1, <2>2, Durations DEF TimeCountedOnce, Least
  <2> QED
    BY <2>1, <2>4, <2>5, <2>6 DEF FedInv
<1>4. CASE SetMode \/ UNCHANGED vars
  <2>1. /\ UNCHANGED <<fade, elapsed, fed, room, again, acc, sinceTick, call>>
    BY <1>4 DEF SetMode, vars, blenderVars, historyVars
  <2>2. ToCome' = ToCome
    BY <2>1 DEF ToCome, SomeCounts, NoReader, Counting, Reading, Elapsing
  <2> QED
    BY <2>1, <2>2 DEF FedInv, TimeCountedOnce
<1> QED
  BY <1>1, <1>2, <1>3, <1>4, BuildFed DEF Next, Opening

-----------------------------------------------------------------------------
\* Every step earns the recovery it shows.
LEMMA StepEarned ==
  ASSUME TypeOK, EarnedInv, RecoveringIsEarned, [Next]_vars
  PROVE  EarnedInv' /\ RecoveringIsEarned'
<1>1. ASSUME NEW c \in Calls, Opening(c)
      PROVE  EarnedInv' /\ RecoveringIsEarned'
  <2>1. ~Quiet'
    BY <1>1, OpeningFacts DEF Quiet, Idle
  <2>2. CASE Frame(c)
    \* whatever was built to recover is overtaken
    <3>1. overtaken' = {d \in Calls : Reading(d) /\ call[d].shows = "recovering"}
      BY <2>2 DEF Frame
    <3> QED
      BY <1>1, <2>1, <3>1, OpeningFacts DEF EarnedInv, RecoveringIsEarned, Reading, Idle
  <2>3. CASE ~Frame(c)
    <3>1. user' = user /\ overtaken' = overtaken
      BY <1>1, <2>3 DEF Opening, Tick, Heartbeat, OtherEvent, userVars
    <3> QED
      BY <1>1, <2>1, <3>1, OpeningFacts DEF EarnedInv, RecoveringIsEarned, Reading, Idle
  <2> QED
    BY <2>2, <2>3
<1>2. ASSUME NEW c \in Calls, Build(c)
      PROVE  EarnedInv' /\ RecoveringIsEarned'
  <2>1. ~Quiet'
    BY <1>2, BuildFacts DEF Quiet, Idle
  <2>2. EarnedInv'
    BY <1>2, BuildFacts DEF EarnedInv, Reading
  <2> QED
    BY <2>1, <2>2 DEF RecoveringIsEarned
<1>3. ASSUME NEW c \in Calls, Publish(c)
      PROVE  EarnedInv' /\ RecoveringIsEarned'
  <2>1. EarnedInv'
    BY <1>3, PublishFacts DEF EarnedInv, Reading, Idle
  <2>2. RecoveringIsEarned'
    BY <1>3, PublishFacts DEF EarnedInv, RecoveringIsEarned, Reading
  <2> QED
    BY <2>1, <2>2
<1>4. CASE Replace \/ Reload
  <2>1. \A c \in Calls : call'[c] = Idle
    BY <1>4 DEF Replace, Reload, Fresh
  <2>2. avatar' = "live" \/ user'.age > StaleAfter
    BY <1>4, Durations DEF Replace, Reload, NoFrame, OldFrame, TypeOK
  <2> QED
    BY <2>1, <2>2 DEF EarnedInv, RecoveringIsEarned, Reading, Idle
<1>5. CASE Clock
  <2>1. /\ Quiet /\ call' = call /\ avatar' = avatar
        /\ late' = late /\ overtaken' = overtaken
        /\ user'.age = IF user.age < OldFrame THEN user.age + 1 ELSE user.age
    BY <1>5 DEF Clock, TypeOK
  <2>2. user.age \in Int
    BY Durations DEF TypeOK, NoFrame, OldFrame
  <2> QED
    BY <2>1, <2>2, Durations DEF EarnedInv, RecoveringIsEarned, Quiet, Reading, Idle
<1>6. CASE SetMode \/ UNCHANGED vars
  BY <1>6 DEF SetMode, vars, userVars, historyVars, EarnedInv, RecoveringIsEarned, Quiet,
     Reading
<1> QED
  BY <1>1, <1>2, <1>3, <1>4, <1>5, <1>6 DEF Next, Opening

\* In every reachable state IInv holds.
THEOREM InductiveInvariant == Spec => []IInv
<1>1. IInv /\ [Next]_vars => IInv'
  BY StepTyped, StepCounted, StepOnce, StepFed, StepEarned DEF IInv, Inv
<1> QED
  BY InitIInv, <1>1, PTL DEF Spec

\* Types, and no time is counted twice, however calls overlap, but in the two orders
\* that repeat the accumulator.  policy.py:256-263, 320.
THEOREM CountedOnce == Spec => []Inv
<1>1. IInv => Inv
  BY DEF IInv
<1> QED
  BY <1>1, InductiveInvariant, PTL

\* Nobody is shown the recovering avatar while the face is fresh, unless the state
\* shown was overtaken by a frame.  policy.py:271-274, 321.
THEOREM Earned == Spec => []RecoveringIsEarned
<1>1. IInv => RecoveringIsEarned
  BY DEF IInv
<1> QED
  BY <1>1, InductiveInvariant, PTL
=============================================================================
