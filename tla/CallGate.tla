------------------------------ MODULE CallGate ------------------------------
(***************************************************************************)
(* What a breaker promises the dependency behind it, with nothing said of  *)
(* counts, probes or failure times: calls start and end; the gate may shut *)
(* when a call ends, and a shut gate stays shut for more than Window ticks. *)
(* SharedBreaker is checked, and proved, to implement it.                  *)
(***************************************************************************)
EXTENDS Integers

CONSTANTS
  Callers,
  Window

VARIABLES
  shut,        \* no call may start
  shutFor,     \* ticks since the gate last shut, saturating past the window
  inFlight     \* the callers whose call has started and not ended

gateVars == <<shut, shutFor, inFlight>>

Init ==
  /\ shut = FALSE
  /\ shutFor = Window + 1
  /\ inFlight = {}

\* A call starts, through an open gate or by re-opening one that has rested.
Start(c) ==
  /\ c \notin inFlight
  /\ shut => shutFor > Window
  /\ shut' = FALSE
  /\ inFlight' = inFlight \cup {c}
  /\ UNCHANGED shutFor

\* A call in flight makes progress: it may end, and it may shut the gate.
Progress(c) ==
  /\ c \in inFlight
  /\ inFlight' \in {inFlight, inFlight \ {c}}
  /\ \/ UNCHANGED <<shut, shutFor>>
     \/ /\ ~shut
        /\ shut' = TRUE
        /\ shutFor' = 0

Tick ==
  /\ shutFor' = IF shutFor > Window THEN shutFor ELSE shutFor + 1
  /\ UNCHANGED <<shut, inFlight>>

Next ==
  \/ \E c \in Callers : Start(c) \/ Progress(c)
  \/ Tick

Spec == Init /\ [][Next]_gateVars
=============================================================================
