-------------------------- MODULE ConversationProofs --------------------------
(***************************************************************************)
(* Conversation for any number of relays and speak requests: the avatar    *)
(* speaks and thinks only on somebody's behalf, and a relay's tags end     *)
(* with its voice.                                                         *)
(***************************************************************************)
EXTENDS Conversation, TLAPS

\* What a turn t needs behind it.
Justified(t) ==
  /\ t = "assistant_speaking" => VoiceActive \/ leftBy \in {"cut", "raised", "reload"}
  /\ t = "assistant_thinking" =>
       \/ \E s \in Speaks : speak[s] \in {"awaiting", "answered"}
       \/ leftBy \in {"button", "raised", "reload"}

\* A session that is closed plays nothing, one whose start hook runs does.
RelayInv ==
  \A r \in Relays : /\ relay[r] = "closed" => ~speaking[r]
                    /\ relay[r] = "starting" => speaking[r]

\* What a reload carries over is the conversation itself until the runtime is
\* replaced, and a turn from then on; if nothing ran meanwhile, that turn still
\* has behind it what it had.
SavedInv ==
  /\ reload = "saved" /\ ~raced => saved.turn = "shared"
  /\ reload = "swapped" => /\ saved.turn \in Turns
                           /\ ~raced => Justified(saved.turn)

ConversationInv == ConversationTypeOK /\ Justified(turn) /\ RelayInv /\ SavedInv

-----------------------------------------------------------------------------
\* Nobody speaks at first.
LEMMA ConversationStarts == ConversationInit => ConversationInv
<1> SUFFICES ASSUME ConversationInit PROVE ConversationInv
  OBVIOUS
<1>1. ConversationTypeOK
  BY DEF ConversationInit, ConversationTypeOK, Turns, Writers, RelayStates, SpeakStates
<1> QED
  BY <1>1 DEF ConversationInit, ConversationInv, Justified, RelayInv, SavedInv

\* Every step keeps the types, given what a reload carries over.
LEMMA StepTyped ==
  ASSUME ConversationInv, [ConversationNext]_conversationVars
  PROVE  ConversationTypeOK'
<1> USE DEF ConversationInv, ConversationTypeOK, Turn, Raised, Racing, Turns, Writers, RelayStates, SpeakStates
<1>1. ASSUME NEW r \in Relays, RelayStep(r)
      PROVE  ConversationTypeOK'
  BY <1>1 DEF RelayStep, Connect, UserTranscript, SpeakingStart, SpeakingStartTags,
     SpeakingEnd, SpeakingEndTags, PumpEnds, Disconnect, CutOff
<1>2. ASSUME NEW s \in Speaks, SpeakStep(s)
      PROVE  ConversationTypeOK'
  BY <1>2 DEF SpeakStep, AskAgent, AgentAnswers, AgentRaises, NothingToSay, NothingRaises, Voice,
     Voiced, VoiceRaises
<1>3. CASE Trigger \/ TagsEvent \/ NewRuntime
  BY <1>3 DEF Trigger, TagsEvent, NewRuntime
<1>4. CASE ReloadSaves
  BY <1>4 DEF ReloadSaves
<1>5. CASE ReloadSwaps
  <2>1. saved' \in [turn : Turns \cup {"shared"}, tags : Writers]
    BY <1>5 DEF ReloadSwaps
  <2> QED
    BY <1>5, <2>1 DEF ReloadSwaps
<1>6. CASE ReloadRestores
  BY <1>6 DEF ReloadRestores, SavedInv
<1>7. CASE UNCHANGED conversationVars
  BY <1>7 DEF conversationVars
<1> QED
  BY <1>1, <1>2, <1>3, <1>4, <1>5, <1>6, <1>7 DEF ConversationNext

\* Every step but a reload's notes that it ran during one.
LEMMA OthersRace ==
  ASSUME ConversationTypeOK, ConversationNext
  PROVE  ReloadSaves \/ ReloadSwaps \/ ReloadRestores \/ (Racing /\ reload' = reload)
BY DEF ConversationNext, RelayStep, Connect, UserTranscript, SpeakingStart, SpeakingStartTags,
   SpeakingEnd, SpeakingEndTags, PumpEnds, Disconnect, CutOff, SpeakStep, AskAgent,
   AgentAnswers, AgentRaises, NothingToSay, NothingRaises, Voice, Voiced, VoiceRaises, Trigger,
   TagsEvent, NewRuntime

\* Every step leaves the turn with somebody behind it.
LEMMA StepJustified ==
  ASSUME ConversationInv, [ConversationNext]_conversationVars
  PROVE  Justified(turn)'
<1> USE DEF ConversationInv, ConversationTypeOK, Turn, Raised, Justified, VoiceActive
<1>1. ASSUME NEW r \in Relays, RelayStep(r)
      PROVE  Justified(turn)'
  <2>1. CASE Connect(r)
    BY <1>1, <2>1 DEF Connect, RelayInv
  <2>2. CASE UserTranscript(r) \/ SpeakingStartTags(r) \/ SpeakingEndTags(r)
    BY <2>2 DEF UserTranscript, SpeakingStartTags, SpeakingEndTags
  <2>3. CASE SpeakingStart(r) \/ SpeakingEnd(r)
    BY <2>3 DEF SpeakingStart, SpeakingEnd
  <2>4. CASE PumpEnds(r) \/ Disconnect(r)
    BY <2>4 DEF PumpEnds, Disconnect, CutOff
  <2> QED
    BY <1>1, <2>1, <2>2, <2>3, <2>4 DEF RelayStep
<1>2. ASSUME NEW s \in Speaks, SpeakStep(s)
      PROVE  Justified(turn)'
  <2>1. CASE AskAgent(s) \/ AgentAnswers(s) \/ AgentRaises(s)
    BY <2>1 DEF AskAgent, AgentAnswers, AgentRaises
  <2>2. CASE NothingToSay(s) \/ NothingRaises(s) \/ Voice(s) \/ Voiced(s) \/ VoiceRaises(s)
    BY <2>2 DEF NothingToSay, NothingRaises, Voice, Voiced, VoiceRaises
  <2> QED
    BY <1>2, <2>1, <2>2 DEF SpeakStep
<1>3. CASE Trigger \/ TagsEvent \/ NewRuntime
  BY <1>3 DEF Trigger, TagsEvent, NewRuntime
<1>4. CASE ReloadSaves \/ ReloadSwaps
  BY <1>4 DEF ReloadSaves, ReloadSwaps
<1>5. CASE ReloadRestores
  BY <1>5 DEF ReloadRestores, SavedInv
<1>6. CASE UNCHANGED conversationVars
  BY <1>6 DEF conversationVars
<1> QED
  BY <1>1, <1>2, <1>3, <1>4, <1>5, <1>6 DEF ConversationNext

\* Every step leaves closed sessions silent, and starting ones speaking.
LEMMA StepRelays ==
  ASSUME ConversationInv, [ConversationNext]_conversationVars
  PROVE  RelayInv'
<1> USE DEF ConversationInv, ConversationTypeOK, RelayInv
<1>1. ASSUME NEW r \in Relays, RelayStep(r)
      PROVE  RelayInv'
  BY <1>1 DEF RelayStep, Connect, UserTranscript, SpeakingStart, SpeakingStartTags,
     SpeakingEnd, SpeakingEndTags, PumpEnds, Disconnect, CutOff
<1>2. ASSUME NEW s \in Speaks, SpeakStep(s)
      PROVE  RelayInv'
  BY <1>2 DEF SpeakStep, AskAgent, AgentAnswers, AgentRaises, NothingToSay, NothingRaises, Voice,
     Voiced, VoiceRaises
<1>3. CASE Trigger \/ TagsEvent \/ NewRuntime \/ ReloadSaves \/ ReloadSwaps
           \/ ReloadRestores
  BY <1>3 DEF Trigger, TagsEvent, NewRuntime, ReloadSaves, ReloadSwaps, ReloadRestores
<1>4. CASE UNCHANGED conversationVars
  BY <1>4 DEF conversationVars
<1> QED
  BY <1>1, <1>2, <1>3, <1>4 DEF ConversationNext

\* Only NewRuntime changes what a reload carries over, besides the reload.
LEMMA OthersKeepSaved ==
  ASSUME ConversationTypeOK, ConversationNext
  PROVE  \/ ReloadSaves \/ ReloadSwaps \/ ReloadRestores
         \/ saved' = saved
         \/ reload = "saved" /\ saved'.turn \in Turns
<1>1. ASSUME NewRuntime
      PROVE  saved' = saved \/ (reload = "saved" /\ saved'.turn \in Turns)
  BY <1>1 DEF NewRuntime, ConversationTypeOK
<1> QED
  BY <1>1 DEF ConversationNext, RelayStep, Connect, UserTranscript, SpeakingStart, SpeakingStartTags,
     SpeakingEnd, SpeakingEndTags, PumpEnds, Disconnect, CutOff, SpeakStep, AskAgent,
     AgentAnswers, AgentRaises, NothingToSay, NothingRaises, Voice, Voiced, VoiceRaises, Trigger,
     TagsEvent

\* Every step keeps what a reload carries over fit to be put back.
LEMMA StepSaved ==
  ASSUME ConversationInv, [ConversationNext]_conversationVars
  PROVE  SavedInv'
<1>1. CASE ReloadSaves
  BY <1>1 DEF ReloadSaves, SavedInv
<1>2. CASE ReloadSwaps
  <2>1. /\ saved.turn \in Turns \cup {"shared"}
        /\ saved'.turn = IF saved.turn = "shared" THEN turn ELSE saved.turn
        /\ turn \in Turns
    BY <1>2 DEF ReloadSwaps, ConversationInv, ConversationTypeOK
  <2>2. ~raced => saved'.turn = turn
    BY <1>2, <2>1 DEF ReloadSwaps, ConversationInv, SavedInv
  <2>3. ~raced => Justified(turn) /\ UNCHANGED <<leftBy, speaking, speak>>
    BY <1>2 DEF ReloadSwaps, ConversationInv
  <2>4. ~raced => Justified(saved.turn)'
    BY <2>2, <2>3 DEF Justified, VoiceActive
  <2> QED
    BY <1>2, <2>1, <2>4 DEF ReloadSwaps, SavedInv
<1>3. CASE ReloadRestores
  BY <1>3 DEF ReloadRestores, SavedInv
<1>4. CASE ConversationNext /\ Racing /\ reload' = reload /\ ~(ReloadSaves \/ ReloadSwaps \/ ReloadRestores)
  <2>1. reload # "idle" => raced'
    BY <1>4 DEF Racing, ConversationInv, ConversationTypeOK
  <2>2. saved' = saved \/ reload = "saved"
    BY <1>4, OthersKeepSaved DEF ConversationInv
  <2> QED
    BY <1>4, <2>1, <2>2 DEF SavedInv, ConversationInv
<1>5. CASE UNCHANGED conversationVars
  BY <1>5 DEF conversationVars, ConversationInv, SavedInv, Justified, VoiceActive
<1> QED
  BY <1>1, <1>2, <1>3, <1>4, <1>5, OthersRace DEF ConversationInv

\* In every reachable state ConversationInv holds.
THEOREM ConversationKept == ConversationSpec => []ConversationInv
<1>1. ConversationInv /\ [ConversationNext]_conversationVars => ConversationInv'
  BY StepTyped, StepJustified, StepRelays, StepSaved DEF ConversationInv
<1> QED
  BY ConversationStarts, <1>1, PTL DEF ConversationSpec

\* Types, and the avatar thinks only while an agent is awaited, or a button was
\* pressed, a speak_test raised, or a reload raced.  demo_orchestrator.py:415-457,
\* 545-546.
THEOREM ThinkingIsFor == ConversationSpec => [](ConversationTypeOK /\ ThinkingHasAgent)
<1>1. ConversationInv => ConversationTypeOK /\ ThinkingHasAgent
  BY DEF ConversationInv, Justified, ThinkingHasAgent
<1> QED
  BY <1>1, ConversationKept, PTL

\* The avatar speaks only while there is a voice, or one was cut off, or a
\* speak_test raised while it spoke, or a reload raced.  demo_orchestrator.py:284-310, 456-476, 619-637.
THEOREM SpeakingIsFor == ConversationSpec => []SpeakingHasVoice
<1>1. ConversationInv => SpeakingHasVoice
  BY DEF ConversationInv, Justified, SpeakingHasVoice
<1> QED
  BY <1>1, ConversationKept, PTL

-----------------------------------------------------------------------------
\* A relay's tags do not outlive its voice, but when it is cut off or a reload
\* puts them back.  demo_orchestrator.py:298-310.
THEOREM TagsEnd == ConversationSpec => TagsEndWithVoice
<1> DEFINE Outlive == tags' = "relay" /\ ~RelayHasVoice' /\ (tags # "relay" \/ RelayHasVoice)
           Excused == \/ \E r \in Relays : PumpEnds(r) \/ Disconnect(r)
                      \/ ReloadRestores
<1>1. ASSUME ConversationInv, [ConversationNext]_conversationVars, Outlive
      PROVE  Excused
  <2> USE <1>1 DEF RelayHasVoice
  <2>1. ASSUME NEW r \in Relays, RelayStep(r)
        PROVE  Excused
    <3>1. CASE Connect(r) \/ UserTranscript(r) \/ SpeakingStart(r)
      BY <3>1 DEF Connect, UserTranscript, SpeakingStart, ConversationInv, ConversationTypeOK, RelayInv
    <3>2. CASE SpeakingStartTags(r)
      BY <3>2 DEF SpeakingStartTags, ConversationInv, ConversationTypeOK, RelayInv
    <3>3. CASE SpeakingEnd(r) \/ SpeakingEndTags(r)
      BY <3>3 DEF SpeakingEnd, SpeakingEndTags, ConversationInv, ConversationTypeOK
    <3> QED
      BY <2>1, <3>1, <3>2, <3>3 DEF RelayStep
  <2>2. ASSUME NEW s \in Speaks, SpeakStep(s)
        PROVE  FALSE
    BY <2>2 DEF SpeakStep, AskAgent, AgentAnswers, AgentRaises, NothingToSay, NothingRaises, Voice,
       Voiced, VoiceRaises
  <2>3. ASSUME Trigger \/ TagsEvent \/ NewRuntime \/ ReloadSaves \/ ReloadSwaps
               \/ UNCHANGED conversationVars
        PROVE  FALSE
    BY <2>3 DEF Trigger, TagsEvent, NewRuntime, ReloadSaves, ReloadSwaps, conversationVars
  <2> QED
    BY <2>1, <2>2, <2>3 DEF ConversationNext
<1>2. ConversationInv /\ [ConversationNext]_conversationVars => [Outlive => Excused]_conversationVars
  BY <1>1
<1> QED
  BY <1>2, ConversationKept, PTL DEF ConversationSpec, TagsEndWithVoice
=============================================================================
