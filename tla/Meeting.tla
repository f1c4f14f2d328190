------------------------------- MODULE Meeting -------------------------------
(***************************************************************************)
(* MeetingJoinService: the avatar joins a meeting through the renderer, or *)
(* failing that through a browser, and leaves it.  Requests run in worker  *)
(* threads with no lock; the renderer's answer takes up to seconds.  Every *)
(* write goes to whatever session is current, which may not be the one the *)
(* request began.                                                          *)
(***************************************************************************)
EXTENDS FiniteSets

CONSTANTS
  Workers,     \* worker threads that may serve requests at once
  Browsers,    \* browser processes that may exist at once
  NoBrowser    \* the browser process of a service that has none

ASSUME MeetingAssumption == NoBrowser \notin Browsers

VARIABLES
  session,     \* self.session.status
  browser,     \* self.browser_process: a browser, or NoBrowser
  running,     \* the browsers that run, known to the service or not
  told,        \* those it has terminated, which need not have exited yet
  hook,        \* the renderer has join_meeting and leave_meeting
  attending,   \* the renderer's avatar is in the meeting
  step,        \* where each worker's join or leave is
  meetingRaced,\* history: the last meeting request overlapped another
  lost,        \* history: the last leave did not reach the renderer
  doubled,     \* history: why the avatar may be in the meeting twice
  replaced     \* history: browsers overwritten while they ran

meetingVars == <<session, browser, running, told, hook, attending, step,
                 meetingRaced, lost, doubled, replaced>>

Steps == {"idle", "asking", "joined", "refused", "opened", "leaving"}
Live == {"launching", "joined", "waiting_for_admission"}
Sessions == Live \cup {"idle", "renderer_unavailable", "left", "closed"}

MeetingTypeOK ==
  /\ session \in Sessions
  /\ browser \in Browsers \cup {NoBrowser}
  /\ running \subseteq Browsers /\ told \subseteq running
  /\ hook \in BOOLEAN /\ attending \in BOOLEAN
  /\ step \in [Workers -> Steps]
  /\ meetingRaced \in BOOLEAN /\ lost \in BOOLEAN /\ doubled \in BOOLEAN
  /\ replaced \subseteq running

MeetingInit ==
  /\ session = "idle"
  /\ browser = NoBrowser
  /\ running = {} /\ told = {} /\ replaced = {}
  /\ hook \in BOOLEAN
  /\ attending = FALSE
  /\ step = [w \in Workers |-> "idle"]
  /\ meetingRaced = FALSE /\ lost = FALSE /\ doubled = FALSE

Overlaps(w) == \E v \in Workers \ {w} : step[v] # "idle"
Goes(w, s) == step[w] = "idle" /\ step' = [step EXCEPT ![w] = s]

\* status() as it ends each request, and as every status poll calls it: a
\* session that looks live is closed when the browser has exited, whether or
\* not that browser is how it was joined.
Polled(s) ==
  IF s \in Live /\ browser # NoBrowser /\ browser \notin running
  THEN "closed" ELSE s

-----------------------------------------------------------------------------
\* Mutated forms of the definitions below.
\* the browser is opened although the renderer has joined
OpensAnyway(w, b) ==
  /\ step[w] \in {"refused", "joined"}
  /\ b \notin running /\ b # browser
  /\ browser' = b
  /\ running' = running \cup {b}
  /\ replaced' = replaced \cup ({browser} \cap (running \ told))
  /\ step' = [step EXCEPT ![w] = "opened"]
  /\ UNCHANGED <<session, told, hook, attending, meetingRaced, lost, doubled>>

\* leave() ends with the renderer
LeaveForgetsBrowser(w) ==
  /\ step[w] = "leaving"
  /\ session' = "left"
  /\ step' = [step EXCEPT ![w] = "idle"]
  /\ UNCHANGED <<browser, running, told, hook, attending, meetingRaced, lost, doubled, replaced>>

-----------------------------------------------------------------------------
JoinStarts(w) ==
  /\ Goes(w, "asking")
  /\ session' = "launching"
  /\ meetingRaced' = Overlaps(w)
  /\ doubled' = (attending \/ running \ told # {} \/ Overlaps(w))
  /\ UNCHANGED <<browser, running, told, hook, attending, lost, replaced>>

\* The request to the renderer ends: it may have taken effect although its
\* answer was lost, and then counts as refused.
RendererAnswers(w) ==
  /\ step[w] = "asking"
  /\ \/ /\ hook
        /\ attending' = TRUE
        /\ \E answered \in BOOLEAN :
              /\ step' = [step EXCEPT ![w] = IF answered THEN "joined" ELSE "refused"]
              /\ doubled' = (doubled \/ ~answered)
     \/ /\ step' = [step EXCEPT ![w] = "refused"]
        /\ UNCHANGED <<attending, doubled>>
  /\ UNCHANGED <<session, browser, running, told, hook, meetingRaced, lost, replaced>>

Joined(w) ==
  /\ step[w] = "joined"
  /\ session' = Polled("joined")
  /\ step' = [step EXCEPT ![w] = "idle"]
  /\ UNCHANGED <<browser, running, told, hook, attending, meetingRaced, lost, doubled, replaced>>

\* _launch_browser overwrites the process it holds.
OpenBrowser(w, b) ==
  /\ step[w] = "refused"
  /\ b \notin running /\ b # browser
  /\ browser' = b
  /\ running' = running \cup {b}
  /\ replaced' = replaced \cup ({browser} \cap (running \ told))
  /\ step' = [step EXCEPT ![w] = "opened"]
  /\ UNCHANGED <<session, told, hook, attending, meetingRaced, lost, doubled>>

BrowserOpened(w) ==
  /\ step[w] = "opened"
  /\ session' = Polled("waiting_for_admission")
  /\ step' = [step EXCEPT ![w] = "idle"]
  /\ UNCHANGED <<browser, running, told, hook, attending, meetingRaced, lost, doubled, replaced>>

NoBrowserFound(w) ==
  /\ step[w] = "refused"
  /\ session' = "renderer_unavailable"
  /\ step' = [step EXCEPT ![w] = "idle"]
  /\ UNCHANGED <<browser, running, told, hook, attending, meetingRaced, lost, doubled, replaced>>

\* The browser is there and cannot be started: the request ends, and the session
\* stays as it is.
LaunchFails(w) ==
  /\ step[w] = "refused"
  /\ step' = [step EXCEPT ![w] = "idle"]
  /\ UNCHANGED <<session, browser, running, told, hook, attending, meetingRaced, lost, doubled, replaced>>

LeaveStarts(w) ==
  /\ Goes(w, "leaving")
  /\ \E reached \in IF hook THEN BOOLEAN ELSE {FALSE} :
        /\ attending' = (attending /\ ~reached)
        /\ lost' = (hook /\ ~reached)
  /\ meetingRaced' = Overlaps(w)
  /\ UNCHANGED <<session, browser, running, told, hook, doubled, replaced>>

LeaveEnds(w) ==
  /\ step[w] = "leaving"
  /\ told' = told \cup ({browser} \cap running)
  /\ session' = "left"
  /\ step' = [step EXCEPT ![w] = "idle"]
  /\ UNCHANGED <<browser, running, hook, attending, meetingRaced, lost, doubled, replaced>>

\* What any status poll does to the meeting.
MeetingPoll ==
  /\ session' = Polled(session)
  /\ session' # session
  /\ UNCHANGED <<browser, running, told, hook, attending, step, meetingRaced, lost, doubled, replaced>>

BrowserExits(b) ==
  /\ b \in running
  /\ running' = running \ {b}
  /\ told' = told \ {b} /\ replaced' = replaced \ {b}
  /\ UNCHANGED <<session, browser, hook, attending, step, meetingRaced, lost, doubled>>

\* The host ends the meeting.
RendererDropped ==
  /\ attending /\ attending' = FALSE
  /\ UNCHANGED <<session, browser, running, told, hook, step, meetingRaced, lost, doubled, replaced>>

MeetingNext ==
  \/ \E w \in Workers :
        \/ JoinStarts(w) \/ RendererAnswers(w) \/ Joined(w)
        \/ \E b \in Browsers : OpenBrowser(w, b)
        \/ BrowserOpened(w) \/ NoBrowserFound(w) \/ LaunchFails(w)
        \/ LeaveStarts(w) \/ LeaveEnds(w)
  \/ MeetingPoll
  \/ \E b \in Browsers : BrowserExits(b)
  \/ RendererDropped

MeetingSpec == MeetingInit /\ [][MeetingNext]_meetingVars

-----------------------------------------------------------------------------
\* The avatar attends through the renderer and a browser at once only after a
\* join whose answer was lost, or one that began while it was there already or
\* while another request was running: the fallback of join() is one.
OneAvatar == attending /\ running \ told # {} => doubled

\* When leave() has ended and nothing overlapped it, nobody is left in the
\* meeting but what it could not reach: browsers an earlier join overwrote, and
\* a renderer that did not get the request.
LeftMeansOut ==
  session = "left" /\ ~meetingRaced /\ (\A w \in Workers : step[w] = "idle") =>
    /\ running \ told \subseteq replaced
    /\ attending => lost
=============================================================================
