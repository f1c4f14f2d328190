------------------------------ MODULE Perception ------------------------------
(***************************************************************************)
(* The face tracker.  Browsers post webcam frames stamped by their own     *)
(* clocks; worker threads process them at once, over one MediaPipe         *)
(* landmarker in VIDEO mode, which takes frames only in the order of their *)
(* stamps, and four rolling buffers no lock guards.  Each frame's signals  *)
(* then go to the affect runtime (AffectRuntime).                          *)
(*                                                                         *)
(* Of an image the model knows whether it can be read and shows a face; of *)
(* the buffers, how many frames they hold.                                 *)
(***************************************************************************)
EXTENDS Naturals, Sequences, FiniteSets

CONSTANTS
  FrameThreads,  \* worker threads that may process frames at once
  StampMax,      \* bound: stamps are 1 .. StampMax
  Window         \* frames a buffer holds

ASSUME PerceptionAssumption ==
  /\ StampMax \in Nat \ {0} /\ Window \in Nat \ {0}
  /\ IsFiniteSet(FrameThreads)

VARIABLES
  tracking,    \* is_available(): the library and its model were found
  lastStamp,   \* of the landmarker: the last frame it took
  buffers,     \* lengths of _yaw_buffer, _pitch_buffer, _ear_buffer, _blink_window
  frames,      \* the frame each thread has, and what it has still to do with it
  report,      \* the signals last returned: a face, or none
  newest       \* history: the last stamp of a frame posted so far

perceptionVars == <<tracking, lastStamp, buffers, frames, report, newest>>

Stamps == 1 .. StampMax
Pose == {"yaw", "pitch", "ear"}
Buffers == Pose \cup {"blink"}
Pictures == {"face", "noface", "unreadable"}
NoFrame == [stamp |-> 0, image |-> "noface", rival |-> FALSE, todo |-> <<>>]

\* (BuffersAligned types the buffers.)
PerceptionTypeOK ==
  /\ tracking \in BOOLEAN /\ lastStamp \in 0 .. StampMax
  /\ \A w \in FrameThreads :
        /\ frames[w].stamp \in 0 .. StampMax /\ frames[w].image \in Pictures
        /\ frames[w].rival \in BOOLEAN
  /\ report \in [image : Pictures, rival : BOOLEAN, detected : BOOLEAN]
  /\ newest \in 0 .. StampMax

PerceptionInit ==
  /\ tracking \in BOOLEAN /\ lastStamp = 0
  /\ buffers = [b \in Buffers |-> 0]
  /\ frames = [w \in FrameThreads |-> NoFrame]
  /\ report = [image |-> "noface", rival |-> FALSE, detected |-> FALSE]
  /\ newest = 0

Free(w) == frames[w] = NoFrame
Todo(w) == frames[w].todo
Due(w, op) == ~Free(w) /\ Todo(w) # <<>> /\ Todo(w)[1] = op
Do(w, ops) == frames' = [frames EXCEPT ![w].todo = ops]

Report(w, detected) ==
  /\ report' = [image |-> frames[w].image, rival |-> frames[w].rival, detected |-> detected]
  /\ frames' = [frames EXCEPT ![w] = NoFrame]

-----------------------------------------------------------------------------
\* Mutated forms of the definitions below.
\* the landmarker is given seconds
NewerBySecond(s) == s \div 2 > lastStamp \div 2

\* the window is tested before the frame is in all three buffers
TestsAtOnce == << <<"push", "yaw">>, <<"test", "yaw">>, <<"push", "pitch">>, <<"push", "ear">>,
                  <<"push", "blink">>, <<"test", "blink">> >>

-----------------------------------------------------------------------------
Pushes == << <<"push", "yaw">>, <<"push", "pitch">>, <<"push", "ear">>, <<"test", "yaw">>,
             <<"push", "blink">>, <<"test", "blink">> >>

Pops(b) == IF b = "blink" THEN << <<"pop", "blink">> >>
           ELSE << <<"pop", "yaw">>, <<"pop", "pitch">>, <<"pop", "ear">> >>

\* detect_for_video in VIDEO mode.
Newer(s) == s > lastStamp

PostFrame(w, s, image) ==
  /\ Free(w)
  /\ frames' = [v \in FrameThreads |->
       IF v = w THEN [stamp |-> s, image |-> image, rival |-> s <= newest,
                      todo |-> << <<"detect">> >>]
       ELSE [frames[v] EXCEPT !.rival = ~Free(v) /\ (@ \/ frames[v].stamp <= s)]]
  /\ newest' = IF s > newest THEN s ELSE newest
  /\ UNCHANGED <<tracking, lastStamp, buffers, report>>

\* Not available, not a picture, or detect_for_video raises because the stamp
\* has not increased: empty signals, as for a frame with nobody in it.
Refuses(w) ==
  LET f == frames[w] IN
  /\ Due(w, <<"detect">>)
  /\ ~tracking \/ f.image = "unreadable" \/ ~Newer(f.stamp)
  /\ Report(w, FALSE)
  /\ UNCHANGED <<tracking, lastStamp, buffers, newest>>

Detects(w) ==
  LET f == frames[w] IN
  /\ Due(w, <<"detect">>)
  /\ tracking /\ f.image # "unreadable" /\ Newer(f.stamp)
  /\ lastStamp' = f.stamp
  /\ IF f.image = "face" THEN Do(w, Pushes) /\ UNCHANGED report ELSE Report(w, FALSE)
  /\ UNCHANGED <<tracking, buffers, newest>>

\* _signals_from_results and _blink_rate, one access of a buffer at a time.
Roll(w) ==
  /\ ~Free(w) /\ Todo(w) # <<>> /\ Todo(w)[1] # <<"detect">>
  /\ LET op == Todo(w)[1][1]
         b == Todo(w)[1][2] IN
     /\ Do(w, (IF op = "test" /\ buffers[b] > Window THEN Pops(b) ELSE <<>>) \o Tail(Todo(w)))
     /\ buffers' = CASE op = "push" -> [buffers EXCEPT ![b] = @ + 1]
                     [] op = "pop"  -> [buffers EXCEPT ![b] = @ - 1]
                     [] op = "test" -> buffers
  /\ UNCHANGED <<tracking, lastStamp, report, newest>>

Signals(w) ==
  /\ ~Free(w) /\ Todo(w) = <<>>
  /\ Report(w, TRUE)
  /\ UNCHANGED <<tracking, lastStamp, buffers, newest>>

PerceptionNext ==
  \E w \in FrameThreads :
     \/ \E s \in Stamps, image \in Pictures : PostFrame(w, s, image)
     \/ Refuses(w) \/ Detects(w) \/ Roll(w) \/ Signals(w)

PerceptionSpec == PerceptionInit /\ [][PerceptionNext]_perceptionVars

-----------------------------------------------------------------------------
\* A frame that shows a face is reported without one only if another frame,
\* before it or while it was processed, was stamped no earlier: one the network
\* overtook, one of a second browser, or one of a clock that was ahead, after
\* which every frame is lost until time has caught up with it.
SeenInOrder ==
  tracking /\ report.image = "face" /\ ~report.detected => report.rival

\* However many threads roll the buffers at once, none is popped empty, and when
\* none does each pose buffer has as many frames, at most a window.
BuffersAligned ==
  /\ buffers \in [Buffers -> Nat]
  /\ (\A w \in FrameThreads : frames[w].todo \in {<<>>, << <<"detect">> >>}) =>
        /\ \A b \in Pose : buffers[b] = buffers["yaw"]
        /\ \A b \in Buffers : buffers[b] <= Window
=============================================================================
