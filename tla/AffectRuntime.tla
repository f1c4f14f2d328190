---------------------------- MODULE AffectRuntime ----------------------------
(***************************************************************************)
(* AffectRuntime, with its blender and its expression latch: what the user *)
(* shows, what the avatar answers, and the time that passes between them.  *)
(*                                                                         *)
(* Every request and hook of the demo calls it, from worker threads and    *)
(* from the event loop, and it takes no lock.  A call is three steps: it   *)
(* counts time or takes in a frame, it builds a state from what the fields *)
(* then hold, it publishes that state and zeroes the time counted.  Each   *)
(* step is one stretch of code; the races are those between the steps.     *)
(*                                                                         *)
(* Time.  The code keeps absolute milliseconds; here every time is its     *)
(* distance from the clock now, as far as a comparison can tell it.  The   *)
(* unit is coarser than a call: the clock stands while a call is in        *)
(* flight.  PollGap bounds how long nobody ticks the runtime.              *)
(*                                                                         *)
(* The smoothed pose and arousal, the gaze point and the interpolated      *)
(* intensity are outputs nothing here reads again, and are left out.  No   *)
(* fade preset names an affect the runtime uses, so all fades are alike.   *)
(***************************************************************************)
EXTENDS Integers, FiniteSets

CONSTANTS
  Calls,         \* calls in flight at once
  Expressions,   \* the user's expressions
  FrameAges,     \* how old a frame is by its own timestamp (a browser's clock)
  FadeTime,      \* default_fade_ms
  TweakTime,     \* the fade of a change of intensity alone
  Dwell,         \* min_dwell_ms
  StaleAfter,    \* stale_after_ms, which UserAffectState fixes at 2 s
  AmbientAfter,  \* affect.ambient_after_ms of the configuration, 0 to disable
                 \* recovery; the code reads it nowhere, so only properties do
  PollGap        \* BOUND: longest time between two ticks

ASSUME TimeAssumption ==
  /\ {FadeTime, TweakTime, Dwell, StaleAfter, PollGap} \subseteq Nat \ {0}
  /\ TweakTime <= FadeTime /\ Dwell <= PollGap
  /\ FrameAges \subseteq -PollGap .. PollGap
  /\ AmbientAfter \in Nat

VARIABLES
  user,          \* [expression, age]; the age is NoFrame before the first frame
  mode,          \* mirror or reflect
  sinceTick,     \* time since _last_tick_ms; Never before the first tick
  acc,           \* _dt_accumulator_ms, as far as a fade can use it
  target,        \* the blender's current affect and intensity
  fade,          \* how long the fade under way takes; 0 when there is none
  elapsed,       \* how much of it has passed
  emote,         \* the latch's current emote
  lockLeft,      \* how far in the future the latch's lock ends
  avatar,        \* the mode of the published state
  call,          \* each call in flight
  fed,           \* history: the time the last fade was given
  room,          \* history: the time since the tick before it began
  again,         \* history: some of that time was counted or read twice
  overtaken,     \* history: the calls that built recovery before the last frame
  late           \* history: the state published last is one of those

userVars == <<user, mode>>
blenderVars == <<target, fade, elapsed>>
latchVars == <<emote, lockLeft>>
historyVars == <<fed, room, again, overtaken, late>>
vars == <<userVars, sinceTick, acc, blenderVars, latchVars, avatar, call, historyVars>>

Never == PollGap + 1
OldFrame == StaleAfter + PollGap + 1     \* older can not be told apart
NoFrame == OldFrame + 1

Least(a, b) == IF a < b THEN a ELSE b

Affects == {"neutral", "small_delayed_smile", "warm_acknowledging", "calm_attentive",
            "grounded_concern_soft_brow", "validating_grounded", "soft_concern",
            "warm_steady_consoling", "patient_low_energy"}

Idle == [at |-> "idle"]
CallStates ==
  {Idle}
  \cup [at : {"begun"}, kind : {"tick", "heartbeat", "consume"}]
  \cup [at : {"built"}, shows : {"live", "recovering"}]

TypeOK ==
  /\ user \in [expression : Expressions \cup {"neutral"},
               age : -PollGap .. NoFrame]
  /\ mode \in {"mirror", "reflect"}
  /\ sinceTick \in 0 .. Never
  /\ acc \in 0 .. FadeTime
  /\ target \in [affect : Affects, intensity : 0 .. 100]
  /\ fade \in {0, TweakTime, FadeTime}
  /\ elapsed \in 0 .. FadeTime /\ (elapsed < fade \/ elapsed = 0)
  /\ emote \in Affects
  /\ lockLeft \in -Never .. Dwell
  /\ avatar \in {"live", "recovering"}
  /\ call \in [Calls -> CallStates]
  /\ fed \in 0 .. FadeTime
  /\ room \in 0 .. FadeTime
  /\ again \in BOOLEAN
  /\ overtaken \subseteq Calls
  /\ late \in BOOLEAN

Init ==
  /\ user = [expression |-> "neutral", age |-> NoFrame]
  /\ mode = "reflect"
  /\ sinceTick = Never
  /\ acc = 0
  /\ target = [affect |-> "neutral", intensity |-> 50]
  /\ elapsed = 0
  /\ fade = 0
  /\ emote = "neutral"
  /\ lockLeft = -Never
  /\ avatar = "live"
  /\ call = [c \in Calls |-> Idle]
  /\ fed = 0
  /\ room = 0
  /\ again = FALSE
  /\ overtaken = {}
  /\ late = FALSE

-----------------------------------------------------------------------------
(***************************************************************************)
(* What the avatar answers: _classify_affect and _avatar_affect_for, with  *)
(* intensities in hundredths.                                              *)
(***************************************************************************)

Counter == {"angry", "frustrated", "annoyed", "irritated", "enraged"}
Validate == {"sad", "disappointed", "grief", "hurt", "lonely"}
Calm == {"calm", "content", "interested", "curious"}

AvatarAffectFor(e, m) ==
  LET Answer(affect, mirrored, reflected) ==
        [affect |-> affect, intensity |-> IF m = "mirror" THEN mirrored ELSE reflected]
  IN CASE e \in {"excited", "joy"} -> Answer("warm_acknowledging", 85, 70)
       [] e = "happy" -> Answer("small_delayed_smile", 75, 65)
       [] e = "surprised_positive" -> Answer("warm_acknowledging", 75, 75)
       [] e = "amused" -> Answer("small_delayed_smile", 70, 60)
       [] e \in Calm -> Answer("calm_attentive", 60, 50)
       [] e \in Counter /\ m = "mirror" -> Answer("grounded_concern_soft_brow", 35, 35)
       [] e \in Counter /\ m # "mirror" -> Answer("validating_grounded", 45, 45)
       [] e \in Validate /\ m = "mirror" -> Answer("soft_concern", 50, 50)
       [] e \in Validate /\ m # "mirror" -> Answer("warm_steady_consoling", 55, 55)
       [] OTHER -> Answer("patient_low_energy", 35, 40)

-----------------------------------------------------------------------------
(***************************************************************************)
(* The parts of _build_state.  since is how long ago its now_ms is: no     *)
(* time for a tick or a heartbeat, the last tick for a consume.            *)
(***************************************************************************)

\* Mutated forms of Stale.
\* measured from the last tick, not from the last frame
StaleByTick(since) == user.age # NoFrame /\ since > StaleAfter

\* at the limit already
StaleReached(since) == user.age # NoFrame /\ user.age - since >= StaleAfter

Stale(since) == user.age # NoFrame /\ user.age - since > StaleAfter

Target(since) ==
  IF Stale(since) THEN [affect |-> "neutral", intensity |-> 10]
  ELSE AvatarAffectFor(user.expression, mode)

\* A fade begins on a new affect; on a new intensity alone only when no other is
\* under way.
Begins(t) ==
  \/ t.affect # target.affect
  \/ t.intensity # target.intensity /\ fade = 0

\* A tick that has counted its time, and a call that has read what was counted.
Counting(c) == call[c].at = "begun" /\ call[c].kind = "tick"
Reading(c) == call[c].at = "built"

Overlapping(c) == \E d \in Calls \ {c} : call[d] # Idle

Quiet == \A c \in Calls : call[c] = Idle

-----------------------------------------------------------------------------
\* Mutated forms of the definitions below.

\* a locked latch locks again
TrySwitchRelocks(desired, since) ==
  /\ emote' = IF -since < lockLeft THEN emote ELSE desired
  /\ lockLeft' = Dwell - since

\* the time counted is not taken back
PublishKeepsTime(c) ==
  /\ call[c].at = "built"
  /\ avatar' = call[c].shows
  /\ call' = [call EXCEPT ![c] = Idle]
  /\ late' = (c \in overtaken)
  /\ overtaken' = overtaken \ {c}
  /\ UNCHANGED <<userVars, sinceTick, acc, blenderVars, latchVars, fed, room, again>>

-----------------------------------------------------------------------------
\* The blender takes a target and the time counted.
Blend(t) ==
  LET length == IF t.affect # target.affect THEN FadeTime
                ELSE IF Begins(t) THEN TweakTime ELSE fade
      passed == (IF Begins(t) THEN 0 ELSE elapsed) + acc
  IN /\ target' = t
     /\ fade' = IF passed >= length THEN 0 ELSE length
     /\ elapsed' = IF passed >= length THEN 0 ELSE passed
     /\ fed' = IF length = 0 THEN fed ELSE Least(passed, FadeTime)

\* The latch does nothing while it is locked; otherwise it follows, and locks.
TrySwitch(desired, since) ==
  IF -since < lockLeft THEN UNCHANGED latchVars
  ELSE emote' = desired /\ lockLeft' = Dwell - since

-----------------------------------------------------------------------------
(***************************************************************************)
(* The calls.  Each begins with what it reads or writes before the build.  *)
(***************************************************************************)

Begin(c, kind) ==
  /\ call[c] = Idle
  /\ call' = [call EXCEPT ![c] = [at |-> "begun", kind |-> kind]]
  /\ UNCHANGED <<sinceTick, blenderVars, latchVars, avatar, fed, room, late>>

\* tick(now): the time since the last tick, whichever kind that was, is counted.
\* _last_tick_ms is written only when the state is built: two ticks that overlap
\* here count the same time.
Tick(c) ==
  /\ Begin(c, "tick")
  /\ acc' = IF sinceTick = Never THEN acc ELSE Least(acc + sinceTick, FadeTime)
  /\ again' = (again \/ \E d \in Calls : Counting(d))
  /\ UNCHANGED <<userVars, overtaken>>

\* tick(now, accumulate_dt=False), from status().
Heartbeat(c) ==
  /\ Begin(c, "heartbeat")
  /\ UNCHANGED <<acc, userVars, again, overtaken>>

UpdateFace(e, a) == user' = [expression |-> e, age |-> a] /\ UNCHANGED mode

\* consume of a perception.frame.
Frame(c) ==
  /\ Begin(c, "consume")
  /\ \E e \in Expressions, a \in FrameAges : UpdateFace(e, a)
  /\ overtaken' = {d \in Calls : Reading(d) /\ call[d].shows = "recovering"}
  /\ UNCHANGED <<acc, again>>

\* consume of anything else.
OtherEvent(c) ==
  /\ Begin(c, "consume")
  /\ UNCHANGED <<acc, userVars, again, overtaken>>

\* _build_state.  A tick has set the last tick to now; a consume uses the last
\* tick as its now.  History: a new fade has room for the time since the last tick;
\* what another build has read and not yet taken back is read again.
Build(c) ==
  /\ call[c].at = "begun"
  /\ LET consumes == call[c].kind = "consume"
         since == IF consumes THEN sinceTick ELSE 0
         t == Target(since)
         countable == IF sinceTick = Never THEN 0 ELSE Least(sinceTick, FadeTime)
     IN /\ Blend(t)
        /\ TrySwitch(t.affect, since)
        /\ sinceTick' = since
        /\ call' = [call EXCEPT ![c] =
             [at |-> "built", shows |-> IF Stale(since) THEN "recovering" ELSE "live"]]
        /\ room' = IF Begins(t) THEN countable ELSE room
        /\ again' = \/ again /\ ~(Begins(t) /\ ~Overlapping(c))
                    \/ \E d \in Calls : Reading(d)
  /\ UNCHANGED <<userVars, acc, avatar, overtaken, late>>

Publish(c) ==
  /\ call[c].at = "built"
  /\ acc' = 0
  /\ avatar' = call[c].shows
  /\ call' = [call EXCEPT ![c] = Idle]
  /\ late' = (c \in overtaken)
  /\ overtaken' = overtaken \ {c}
  /\ UNCHANGED <<userVars, sinceTick, blenderVars, latchVars, fed, room, again>>

SetMode ==
  /\ mode' \in {"mirror", "reflect"}
  /\ UNCHANGED <<user, sinceTick, acc, blenderVars, latchVars, avatar, call, historyVars>>

\* A new runtime.  Calls in flight end on the old one, which nobody sees again.
Fresh ==
  /\ sinceTick' = Never
  /\ acc' = 0
  /\ target' = [affect |-> "neutral", intensity |-> 50]
  /\ elapsed' = 0
  /\ fade' = 0
  /\ emote' = "neutral"
  /\ lockLeft' = -Never
  /\ call' = [c \in Calls |-> Idle]
  /\ fed' = 0
  /\ room' = 0
  /\ again' = FALSE
  /\ overtaken' = {}
  /\ late' = FALSE

\* set_character and reset start over ...
Replace ==
  /\ Fresh
  /\ user' = [expression |-> "neutral", age |-> NoFrame]
  /\ mode' = "reflect"
  /\ avatar' = "live"

\* ... reload_config carries the user, the mode and the avatar over, but not the
\* count of frames: an old expression is not stale before a new frame.
Reload ==
  /\ Fresh
  /\ user' = [user EXCEPT !.age = NoFrame]
  /\ UNCHANGED <<mode, avatar>>

\* Time passes, as long as the last tick is not too old.
Clock ==
  /\ Quiet
  /\ sinceTick # PollGap
  /\ sinceTick' = IF sinceTick = Never THEN Never ELSE sinceTick + 1
  /\ lockLeft' = IF sinceTick = Never \/ lockLeft = -Never THEN lockLeft ELSE lockLeft - 1
  /\ user' = [user EXCEPT !.age = IF @ < OldFrame THEN @ + 1 ELSE @]
  /\ room' = IF fade = 0 THEN room ELSE Least(room + 1, FadeTime)
  /\ UNCHANGED <<mode, acc, blenderVars, emote, avatar, call, fed, again, overtaken, late>>

Next ==
  \/ \E c \in Calls :
       Tick(c) \/ Heartbeat(c) \/ Frame(c) \/ OtherEvent(c) \/ Build(c) \/ Publish(c)
  \/ SetMode \/ Replace \/ Reload
  \/ Clock

\* The browser polls the status, and a poll gets a thread even when Calls others
\* come and go; calls end; time passes, a call being shorter than its unit.
Fairness ==
  /\ SF_vars(\E c \in Calls : Heartbeat(c))
  /\ \A c \in Calls : WF_vars(Build(c)) /\ WF_vars(Publish(c))
  /\ []<>Quiet /\ SF_vars(Clock)

Spec == Init /\ [][Next]_vars

FairSpec == Spec /\ Fairness

-----------------------------------------------------------------------------
(***************************************************************************)
(* Properties.                                                             *)
(***************************************************************************)

\* No time is counted twice: a fade has been given no more time than has passed
\* since the tick before it began, however calls overlap, but for the two orders in
\* which the unlocked accumulator repeats itself: a tick counts between another's
\* counting and its build, or a call builds between another's build and its
\* publication.  policy.py:256-263, 320.
TimeCountedOnce == ~again => fed <= room

\* Types, and time is counted once.
Inv == TypeOK /\ TimeCountedOnce

\* Nobody is shown the recovering avatar while the face is fresh: between calls it
\* means that the last frame, by its own timestamp, is older than stale_after_ms,
\* unless the state shown was built before that frame came and published after it.
\* policy.py:271-274, 321.
RecoveringIsEarned == Quiet /\ ~late /\ avatar = "recovering" => user.age > StaleAfter

\* When the frames stop for good, the heartbeat alone brings the avatar to its
\* recovery, whatever other calls go on, where the configuration wants one.
\* demo_orchestrator.py:322-328: it is "the heartbeat that converts" staleness "into
\* an ambient-recovery" state.
AmbientRecovery ==
  AmbientAfter # 0 => (<>[](user.age = OldFrame) => <>[](avatar = "recovering"))

\* The latch delays a change of emote but never loses one: once the blender's
\* affect stays, the emote shown gets there.  policy.py:40-51.
EmoteFollows ==
  <>[][target'.affect = target.affect]_vars => <>[](emote = target.affect)

-----------------------------------------------------------------------------
\* config/schema.py:46-52: ambient_after_ms is the "Staleness threshold for the
\* ambient-recovery fallback", and "0 disables the ambient fallback"; test_affect_
\* ambient.py:133-157 says the same.  The code compares with stale_after_ms alone.
RecoversAsConfigured ==
  Quiet /\ ~late /\ avatar = "recovering"
    => AmbientAfter # 0 /\ user.age > AmbientAfter
=============================================================================
