---------------------------- MODULE Conversation ----------------------------
(***************************************************************************)
(* Who is speaking.  The orchestrator keeps one turn state and one set of  *)
(* speech tags, and everybody writes them: each voice relay (VoiceLoop-    *)
(* Client.relay and the on_voice_* hooks), each speak_test in progress,    *)
(* and the requests served by worker threads (trigger, set_character,      *)
(* reload_config, apply_event).                                            *)
(*                                                                         *)
(* Relays and speaks are coroutines of one event loop: between two awaits  *)
(* no other coroutine runs, but a worker thread may run between any two    *)
(* writes.  So a handler is one step per shared write, and a coroutine     *)
(* starts a handler only when the loop is free.                            *)
(*                                                                         *)
(* The affect a tag stands for and what a tick makes of it are left out    *)
(* here; the tags keep only who wrote them.                                *)
(***************************************************************************)
EXTENDS FiniteSets

CONSTANTS
  Relays,      \* browser voice sessions that may be open at once
  Speaks       \* speak requests that may be in progress at once

VARIABLES
  turn,        \* runtime.conversation.turn_state
  tags,        \* runtime.hermes_tags: what wrote them, or "none"
  relay,       \* each relay: its session, or the handler it is in
  speaking,    \* each relay's speaking flag
  speak,       \* where each speak_test is
  reload,      \* where reload_config is
  saved,       \* what reload_config carries over to the new runtime
  raced,       \* history: something ran during the last reload
  leftBy       \* history: why the turn stands although nobody is behind it

conversationVars == <<turn, tags, relay, speaking, speak, reload, saved, raced, leftBy>>

Turns == {"idle", "user_turn", "user_speaking", "assistant_thinking",
          "assistant_speaking", "interrupted"}
Writers == {"none", "relay", "agent", "event"}

\* "deaf": the pump from the pipeline has ended, the browser is still there.
\* "starting", "ending": in a hook, between its write of the turn and the tags.
RelayStates == {"closed", "open", "deaf", "starting", "ending"}

\* "answered": the tags are written; "voicing": in the synthesis, which holds
\* the event loop.
SpeakStates == {"idle", "awaiting", "answered", "voicing"}

ConversationTypeOK ==
  /\ turn \in Turns
  /\ tags \in Writers
  /\ relay \in [Relays -> RelayStates]
  /\ speaking \in [Relays -> BOOLEAN]
  /\ speak \in [Speaks -> SpeakStates]
  /\ reload \in {"idle", "saved", "swapped"}
  /\ saved \in [turn : Turns \cup {"shared"}, tags : Writers]
  /\ raced \in BOOLEAN
  /\ leftBy \in {"nobody", "cut", "raised", "button", "reload"}

ConversationInit ==
  /\ turn = "idle"
  /\ tags = "none"
  /\ relay = [r \in Relays |-> "closed"]
  /\ speaking = [r \in Relays |-> FALSE]
  /\ speak = [s \in Speaks |-> "idle"]
  /\ reload = "idle"
  /\ saved = [turn |-> "shared", tags |-> "none"]
  /\ raced = FALSE
  /\ leftBy = "nobody"

LoopFree ==
  /\ \A r \in Relays : relay[r] \notin {"starting", "ending"}
  /\ \A s \in Speaks : speak[s] \in {"idle", "awaiting"}

Turn(t) == turn' = t /\ leftBy' = "nobody"

\* History: a step of anything but the reload itself.
Racing == raced' = (raced \/ reload # "idle")

-----------------------------------------------------------------------------
\* Mutated forms of the definitions below.
\* the end of the voice does not end the turn
EndKeepsTurn(r) ==
  /\ relay[r] = "open" /\ LoopFree
  /\ speaking[r]
  /\ speaking' = [speaking EXCEPT ![r] = FALSE]
  /\ relay' = [relay EXCEPT ![r] = "ending"]
  /\ Racing
  /\ UNCHANGED <<turn, leftBy, tags, speak, reload, saved>>

\* the end of the voice does not clear the tags
EndKeepsTags(r) ==
  /\ relay[r] = "ending"
  /\ relay' = [relay EXCEPT ![r] = "open"]
  /\ Racing
  /\ UNCHANGED <<turn, leftBy, tags, speaking, speak, reload, saved>>

\* an empty answer does not end the turn
NothingKeepsTurn(s) ==
  /\ speak[s] = "answered"
  /\ speak' = [speak EXCEPT ![s] = "idle"]
  /\ Racing
  /\ UNCHANGED <<turn, leftBy, tags, relay, speaking, reload, saved>>

-----------------------------------------------------------------------------
(***************************************************************************)
(* Voice relays.                                                           *)
(***************************************************************************)

Connect(r) ==
  /\ relay[r] = "closed" /\ LoopFree
  /\ relay' = [relay EXCEPT ![r] = "open"]
  /\ speaking' = [speaking EXCEPT ![r] = FALSE]
  /\ Racing
  /\ UNCHANGED <<turn, leftBy, tags, speak, reload, saved>>

\* A transcript of the user's turn; it may come while the reply is playing.
UserTranscript(r) ==
  /\ relay[r] = "open" /\ LoopFree
  /\ Turn("user_turn")
  /\ Racing
  /\ UNCHANGED <<tags, relay, speaking, speak, reload, saved>>

\* The first audio of a reply calls on_voice_speaking_start.
SpeakingStart(r) ==
  /\ relay[r] = "open" /\ LoopFree
  /\ ~speaking[r]
  /\ speaking' = [speaking EXCEPT ![r] = TRUE]
  /\ relay' = [relay EXCEPT ![r] = "starting"]
  /\ Turn("assistant_speaking")
  /\ Racing
  /\ UNCHANGED <<tags, speak, reload, saved>>

SpeakingStartTags(r) ==
  /\ relay[r] = "starting"
  /\ relay' = [relay EXCEPT ![r] = "open"]
  /\ tags' = "relay"
  /\ Racing
  /\ UNCHANGED <<turn, leftBy, speaking, speak, reload, saved>>

\* The end of a reply calls on_voice_speaking_end, if one was playing.
SpeakingEnd(r) ==
  /\ relay[r] = "open" /\ LoopFree
  /\ speaking[r]
  /\ speaking' = [speaking EXCEPT ![r] = FALSE]
  /\ relay' = [relay EXCEPT ![r] = "ending"]
  /\ Turn("idle")
  /\ Racing
  /\ UNCHANGED <<tags, speak, reload, saved>>

SpeakingEndTags(r) ==
  /\ relay[r] = "ending"
  /\ relay' = [relay EXCEPT ![r] = "open"]
  /\ tags' = "none"
  /\ Racing
  /\ UNCHANGED <<turn, leftBy, speaking, speak, reload, saved>>

\* No more events reach the hooks: the flag is simply dropped.
CutOff(r, s) ==
  /\ LoopFree
  /\ relay' = [relay EXCEPT ![r] = s]
  /\ speaking' = [speaking EXCEPT ![r] = FALSE]
  /\ leftBy' = IF speaking[r] /\ turn = "assistant_speaking" THEN "cut" ELSE leftBy
  /\ Racing
  /\ UNCHANGED <<turn, tags, speak, reload, saved>>

\* The pipeline closes, or sends what is not an event: the pump ends, and the
\* relay goes on waiting for the browser.
PumpEnds(r) == relay[r] = "open" /\ CutOff(r, "deaf")

\* The browser closes or is lost, or writes to a pipeline that is gone.
Disconnect(r) == relay[r] \in {"open", "deaf"} /\ CutOff(r, "closed")

-----------------------------------------------------------------------------
(***************************************************************************)
(* speak_test.                                                             *)
(***************************************************************************)

AskAgent(s) ==
  /\ speak[s] = "idle" /\ LoopFree
  /\ speak' = [speak EXCEPT ![s] = "awaiting"]
  /\ Turn("assistant_thinking")
  /\ Racing
  /\ UNCHANGED <<tags, relay, speaking, reload, saved>>

AgentAnswers(s) ==
  /\ speak[s] = "awaiting" /\ LoopFree
  /\ speak' = [speak EXCEPT ![s] = "answered"]
  /\ tags' = "agent"
  /\ Racing
  /\ UNCHANGED <<turn, leftBy, relay, speaking, reload, saved>>

\* History: a speak_test ends in an exception, which leaves the turn t it wrote.
Raised(t) == leftBy' = IF turn = t THEN "raised" ELSE leftBy

\* The agent raises, an answer of a shape its adapter does not expect for one, or
\* what makes the tags of the answer does.
AgentRaises(s) ==
  /\ speak[s] = "awaiting" /\ LoopFree
  /\ speak' = [speak EXCEPT ![s] = "idle"]
  /\ Raised("assistant_thinking")
  /\ Racing
  /\ UNCHANGED <<turn, tags, relay, speaking, reload, saved>>

\* The empty answer's behaviour is shown, and the turn ends ...
NothingToSay(s) ==
  /\ speak[s] = "answered"
  /\ speak' = [speak EXCEPT ![s] = "idle"]
  /\ Turn("idle")
  /\ Racing
  /\ UNCHANGED <<tags, relay, speaking, reload, saved>>

\* ... unless the renderer raises when it is shown one, as the face swap's always
\* does: then the turn is not ended.
NothingRaises(s) ==
  /\ speak[s] = "answered"
  /\ speak' = [speak EXCEPT ![s] = "idle"]
  /\ Raised("assistant_thinking")
  /\ Racing
  /\ UNCHANGED <<turn, tags, relay, speaking, reload, saved>>

Voice(s) ==
  /\ speak[s] = "answered"
  /\ speak' = [speak EXCEPT ![s] = "voicing"]
  /\ Turn("assistant_speaking")
  /\ Racing
  /\ UNCHANGED <<tags, relay, speaking, reload, saved>>

\* The audio is with the renderer.  The turn ends; the request then fails on
\* the neutral avatar state it cannot build, which touches nothing here.
Voiced(s) ==
  /\ speak[s] = "voicing"
  /\ speak' = [speak EXCEPT ![s] = "idle"]
  /\ Turn("idle")
  /\ Racing
  /\ UNCHANGED <<tags, relay, speaking, reload, saved>>

\* The voice raises (ElevenLabs and Fish Audio do), or the renderer does.
VoiceRaises(s) ==
  /\ speak[s] = "voicing"
  /\ speak' = [speak EXCEPT ![s] = "idle"]
  /\ Raised("assistant_speaking")
  /\ Racing
  /\ UNCHANGED <<turn, tags, relay, speaking, reload, saved>>

-----------------------------------------------------------------------------
(***************************************************************************)
(* Worker threads: they need not wait for the event loop.                  *)
(***************************************************************************)

\* trigger(state); an interrupt the renderer rejects leaves all as it was.
Trigger ==
  /\ \E t \in {"interrupted", "idle", "user_speaking", "assistant_thinking"} :
       turn' = t
  /\ leftBy' = "button"
  /\ Racing
  /\ UNCHANGED <<tags, relay, speaking, speak, reload, saved>>

\* apply_event with an llm.tags event.
TagsEvent ==
  /\ tags' = "event"
  /\ Racing
  /\ UNCHANGED <<turn, leftBy, relay, speaking, speak, reload, saved>>

\* set_character: a new runtime, with a new conversation and no tags.  (The
\* request then fails on the neutral avatar state, with the runtime replaced.)
NewRuntime ==
  /\ Turn("idle")
  /\ tags' = "none"
  /\ saved' = IF reload = "saved" /\ saved.turn = "shared"
              THEN [saved EXCEPT !.turn = turn]
              ELSE saved
  /\ Racing
  /\ UNCHANGED <<relay, speaking, speak, reload>>

\* reload_config: keep the conversation object and the tags, ...
ReloadSaves ==
  /\ reload = "idle"
  /\ reload' = "saved"
  /\ saved' = [turn |-> "shared", tags |-> tags]
  /\ raced' = FALSE
  /\ UNCHANGED <<turn, leftBy, tags, relay, speaking, speak>>

\* ... replace the runtime, ...
ReloadSwaps ==
  /\ reload = "saved"
  /\ reload' = "swapped"
  /\ saved' = [saved EXCEPT !.turn = IF @ = "shared" THEN turn ELSE @]
  /\ turn' = "idle"
  /\ tags' = "none"
  /\ UNCHANGED <<leftBy, relay, speaking, speak, raced>>

\* ... and put them into the new one, over what was written to it meanwhile.
ReloadRestores ==
  /\ reload = "swapped"
  /\ reload' = "idle"
  /\ turn' = saved.turn
  /\ tags' = saved.tags
  /\ saved' = [turn |-> "shared", tags |-> "none"]
  /\ leftBy' = IF raced THEN "reload" ELSE leftBy
  /\ UNCHANGED <<relay, speaking, speak, raced>>

-----------------------------------------------------------------------------
RelayStep(r) ==
  \/ Connect(r) \/ UserTranscript(r)
  \/ SpeakingStart(r) \/ SpeakingStartTags(r)
  \/ SpeakingEnd(r) \/ SpeakingEndTags(r)
  \/ PumpEnds(r) \/ Disconnect(r)

SpeakStep(s) ==
  \/ AskAgent(s) \/ AgentAnswers(s) \/ AgentRaises(s)
  \/ NothingToSay(s) \/ NothingRaises(s)
  \/ Voice(s) \/ Voiced(s) \/ VoiceRaises(s)

ConversationNext ==
  \/ \E r \in Relays : RelayStep(r)
  \/ \E s \in Speaks : SpeakStep(s)
  \/ Trigger \/ TagsEvent \/ NewRuntime
  \/ ReloadSaves \/ ReloadSwaps \/ ReloadRestores

ConversationSpec == ConversationInit /\ [][ConversationNext]_conversationVars

-----------------------------------------------------------------------------
(***************************************************************************)
(* Properties.                                                             *)
(***************************************************************************)

VoiceActive ==
  \/ \E r \in Relays : speaking[r]
  \/ \E s \in Speaks : speak[s] = "voicing"

\* The avatar is in its speaking turn only while a voice is active, whatever
\* the relays, the speaks and the threads do to each other's turns.  The three
\* exceptions are a voice cut off mid-reply, whose end is never noted, a speak_test
\* that raised while it was speaking, and a turn put back by a reload that raced.
\* demo_orchestrator.py:284-310, 459-475.
SpeakingHasVoice ==
  turn = "assistant_speaking" => VoiceActive \/ leftBy \in {"cut", "raised", "reload"}

\* It is in its thinking turn only while an agent's answer is awaited or dealt
\* with, or the thinking button was pressed, or a speak_test raised before it ended
\* the turn, or a reload that raced put it back.  demo_orchestrator.py:415-457,
\* 545-546.
ThinkingHasAgent ==
  turn = "assistant_thinking" =>
    \/ \E s \in Speaks : speak[s] \in {"awaiting", "answered"}
    \/ leftBy \in {"button", "raised", "reload"}

\* The affect a relay gives the avatar for its voice does not outlive the voice:
\* the relays' tags lose their last speaker only in the hook that clears them,
\* when that speaker is cut off, or when a reload puts them back.
\* demo_orchestrator.py:298-310.
RelayHasVoice == \E r \in Relays : speaking[r] \/ relay[r] = "ending"

TagsEndWithVoice ==
  [][ (tags' = "relay" /\ ~RelayHasVoice' /\ (tags # "relay" \/ RelayHasVoice))
      => \/ \E r \in Relays : PumpEnds(r) \/ Disconnect(r)
         \/ ReloadRestores ]_conversationVars

-----------------------------------------------------------------------------
\* demo_orchestrator.py:246-251: the relay calls the hooks "so the avatar
\* animates in lockstep with the spoken conversation".
Lockstep == turn = "assistant_speaking" => VoiceActive
=============================================================================
