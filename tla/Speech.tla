-------------------------------- MODULE Speech --------------------------------
(***************************************************************************)
(* The second half of speak_test: a clip is made by the voice backend, or  *)
(* found on disk, a lip-synced video is made of it, and the renderer is    *)
(* given one or the other.  All of it blocks the event loop, so there is   *)
(* one utterance at a time; but it takes minutes, in which the process may *)
(* end, or a worker thread may reload the configuration and replace the    *)
(* adapter under the call.  Only the clips survive that.                   *)
(*                                                                         *)
(* LuxTTS answers whatever happens, with a clip of its own if need be; the *)
(* remote backends (ElevenLabs and Fish Audio have the same shape) raise.  *)
(* The breaker variables are those of the voice adapter; Lip's are those   *)
(* of Wav2Lip's.  A tick is the unit of the budget, of the breakers'       *)
(* windows and of the vendors' time.                                       *)
(***************************************************************************)
EXTENDS CircuitBreaker

CONSTANTS
  Remotes,       \* the remote backends
  Looks,         \* voice style and reference asked for, of one text
  Caps,          \* values LUXTTS_COST_CAP_SECONDS_PER_MINUTE may have
  CapFloor,      \* HARD_FLOOR_SECONDS
  BudgetWindow,  \* window_seconds
  VendorMax,     \* the vendor's timeout, _vendor_max_seconds
  LipThreshold, LipTimeout   \* Wav2Lip's breaker

ASSUME SpeechAssumption ==
  /\ CapFloor \in Nat \ {0} /\ \A c \in Caps : c \in Nat /\ c >= CapFloor
  /\ BudgetWindow \in Nat \ {0} /\ VendorMax \in Nat \ {0}
  /\ LipThreshold \in Nat \ {0} /\ LipTimeout \in Nat
  /\ "luxtts" \notin Remotes /\ {"none", "cut", "local"} \cap Looks = {}

VARIABLES
  voice,       \* which backend this program was started with
  command,     \* LUXTTS_COMMAND is set
  cap,         \* cost_cap.cap_seconds
  spent,       \* cost_cap._samples: seconds recorded, by how long ago
  blocked,     \* cost_cap.calls_blocked > 0
  disk,        \* the clip under each name, over restarts
  call,        \* where the utterance is, under which name, for how long
  orphan,      \* the call's adapter is no longer the program's
  lipOn,       \* Wav2Lip is enabled and installed
  lipState, lipCount, lipAge,  \* its breaker
  rendered,    \* what the renderer was last given to speak
  torn         \* history: names whose clip was cut by a full disk or the end of the
               \* process, or left so by a vendor that exited with status 0

voiceVars == <<voice, command, cap>>
budgetVars == <<spent, blocked>>
lipVars == <<lipState, lipCount, lipAge>>
speechVars == <<breakerVars, voiceVars, budgetVars, disk, call, orphan, lipOn,
                lipVars, rendered, torn>>

Lip == INSTANCE CircuitBreaker WITH
         FailureThreshold <- LipThreshold, OpenTimeout <- LipTimeout,
         state <- lipState, failureCount <- lipCount, failureAge <- lipAge

\* path_for: LuxTTS names a clip after its text, style and reference, the
\* remote backends after its text alone.
Name(v, look) == IF v = "luxtts" THEN <<v, look>> ELSE <<v>>
LuxNames == {Name("luxtts", look) : look \in Looks}
Names == LuxNames \cup {<<v>> : v \in Remotes}
Clips == {"none", "cut", "local"} \cup Looks    \* a vendor's clip is its look
Idle == [at |-> "idle", name |-> <<>>, look |-> "", took |-> 0]

SpeechTypeOK ==
  /\ BreakerTypeOK /\ Lip!BreakerTypeOK
  /\ voice \in Remotes \cup {"luxtts"} /\ command \in BOOLEAN /\ cap \in Caps
  /\ spent \in [0 .. BudgetWindow -> 0 .. BudgetWindow] /\ blocked \in BOOLEAN
  /\ disk \in [Names -> Clips]
  /\ call = Idle \/ call \in [at : {"vendor", "spoken", "lips"}, name : Names,
                              look : Looks, took : 0 .. VendorMax]
  /\ orphan \in BOOLEAN /\ lipOn \in BOOLEAN
  /\ rendered \in {"nothing", "face", "audio"} \cup Looks
  /\ torn \subseteq Names

\* A new adapter, with a breaker and a budget of its own.
FreshVoice ==
  /\ state' = Closed /\ failureCount' = 0 /\ failureAge' = NoFailure
  /\ spent' = [t \in 0 .. BudgetWindow |-> 0] /\ blocked' = FALSE

SpeechInit ==
  /\ BreakerInit /\ Lip!BreakerInit
  /\ voice \in Remotes \cup {"luxtts"} /\ command \in BOOLEAN /\ cap \in Caps
  /\ spent = [t \in 0 .. BudgetWindow |-> 0] /\ blocked = FALSE
  /\ disk = [n \in Names |-> "none"]
  /\ call = Idle /\ orphan = FALSE
  /\ lipOn \in BOOLEAN
  /\ rendered = "nothing"
  /\ torn = {}

Keep(name, clip) == disk' = [disk EXCEPT ![name] = clip]

\* CostWindow: the samples no older than each age, and all within the window.
Sums(samples) ==
  LET sum[age \in 0 .. BudgetWindow] ==
        IF age = 0 THEN samples[0] ELSE sum[age - 1] + samples[age]
  IN  sum
Used == Sums(spent)[BudgetWindow]

-----------------------------------------------------------------------------
\* Mutated forms of the definitions below.
\* the local clip is made only if the vendor has left no file at all
LocalIfNone(name) ==
  Keep(name, IF disk[name] = "none" THEN "local" ELSE disk[name]) /\ UNCHANGED torn

\* the preflight asks only whether the budget is used up
WouldBlockWhenUsed == Used > cap

-----------------------------------------------------------------------------
WouldBlock == Used + VendorMax > cap
Record(took) ==
  spent' = [spent EXCEPT ![0] = @ + (IF took < BudgetWindow THEN took ELSE BudgetWindow)]

Stays == UNCHANGED <<voiceVars, orphan, lipOn, lipVars>>

\* The clip is there: what the breaker says does not matter.  LuxTTS measures
\* the clip, and raises if it was cut before its header.
Hit(look) ==
  LET name == Name(voice, look) IN
  /\ call = Idle /\ disk[name] # "none"
  /\ \/ call' = [at |-> "spoken", name |-> name, look |-> look, took |-> 0]
     \/ voice = "luxtts" /\ disk[name] = "cut" /\ UNCHANGED call
  /\ UNCHANGED <<breakerVars, budgetVars, disk, rendered, torn>> /\ Stays

\* _write_parametric_voice; the disk may be full.
Local(name) ==
  \/ Keep(name, "local") /\ torn' = torn
  \/ Keep(name, "cut") /\ torn' = torn \cup {name}

\* LuxTTS without asking the vendor: none configured, the breaker refuses, or
\* the budget would be exceeded, which a breaker that let the call through is
\* not told.
SpeakLocally(look) ==
  LET name == Name("luxtts", look) IN
  /\ call = Idle /\ voice = "luxtts" /\ disk[name] = "none"
  /\ \/ ~command /\ UNCHANGED <<breakerVars, blocked>>
     \/ command /\ AllowRefuses /\ UNCHANGED blocked
     \/ command /\ AllowPasses /\ WouldBlock /\ blocked' = TRUE
  /\ Local(name)
  /\ call' = IF disk'[name] = "cut" THEN Idle
             ELSE [at |-> "spoken", name |-> name, look |-> look, took |-> 0]
  /\ UNCHANGED <<spent, rendered>> /\ Stays

AskVendor(look) ==
  /\ call = Idle /\ disk[Name(voice, look)] = "none"
  /\ AllowPasses
  /\ voice = "luxtts" => command /\ ~WouldBlock
  /\ call' = [at |-> "vendor", name |-> Name(voice, look), look |-> look, took |-> 0]
  /\ UNCHANGED <<budgetVars, disk, rendered, torn>> /\ Stays

RemoteRefused(look) ==
  /\ call = Idle /\ voice # "luxtts" /\ disk[Name(voice, look)] = "none"
  /\ AllowRefuses
  /\ UNCHANGED speechVars

\* The outcome goes to the adapter that made the call.
Success == IF orphan THEN UNCHANGED breakerVars ELSE RecordSuccess
Failure == IF orphan THEN UNCHANGED breakerVars ELSE RecordFailure
Spend == IF orphan \/ call.name \notin LuxNames THEN UNCHANGED spent ELSE Record(call.took)
Adopted == orphan' = FALSE /\ UNCHANGED <<voiceVars, lipOn, lipVars, blocked, rendered>>

\* LuxTTS's vendor writes its output in place.
VendorWrites ==
  /\ call.at = "vendor" /\ call.name \in LuxNames /\ disk[call.name] = "none"
  /\ Keep(call.name, "cut")
  /\ UNCHANGED <<breakerVars, budgetVars, call, rendered, torn>> /\ Stays

VendorDone ==
  /\ call.at = "vendor"
  /\ Keep(call.name, call.look)
  /\ Spend /\ Success /\ Adopted
  /\ call' = [call EXCEPT !.at = "spoken"]
  /\ UNCHANGED torn

\* The command exits with status 0 and leaves a file that is not whole: only
\* whether it is empty is looked at.  Its duration is not known then, or raises.
VendorSpoils ==
  /\ call.at = "vendor" /\ call.name \in LuxNames /\ disk[call.name] = "cut"
  /\ Spend /\ Success /\ Adopted
  /\ call' \in {Idle, [call EXCEPT !.at = "spoken"]}
  /\ torn' = torn \cup {call.name}
  /\ UNCHANGED disk

\* The vendor raises, times out or leaves no file: LuxTTS speaks by itself, over
\* whatever the vendor has left.
LuxFails ==
  /\ call.at = "vendor" /\ call.name \in LuxNames
  /\ Spend /\ Failure /\ Adopted
  /\ Local(call.name)
  /\ call' = IF disk'[call.name] = "cut" THEN Idle ELSE [call EXCEPT !.at = "spoken"]

\* After its retries a remote backend has failed; the last attempt may have
\* failed in writing the clip.
RemoteFails ==
  /\ call.at = "vendor" /\ call.name \notin LuxNames
  /\ Spend /\ Failure /\ Adopted
  /\ \/ UNCHANGED <<disk, torn>>
     \/ Keep(call.name, "cut") /\ torn' = torn \cup {call.name}
  /\ call' = Idle

\* synthesize_lip_sync, and renderer.speak: a call passed through gives it the
\* face, or the clip when the character has no canonical image.
Still == {"face", "audio"}
Rest == UNCHANGED <<breakerVars, voiceVars, budgetVars, disk, orphan, lipOn, torn>>

LipsRefused ==
  /\ call.at = "spoken"
  /\ IF lipOn THEN Lip!AllowRefuses ELSE UNCHANGED lipVars
  /\ rendered' \in Still
  /\ call' = Idle
  /\ Rest

LipsStart ==
  /\ call.at = "spoken" /\ lipOn /\ Lip!AllowPasses
  /\ call' = [call EXCEPT !.at = "lips"]
  /\ UNCHANGED rendered /\ Rest

LipsEnd ==
  /\ call.at = "lips"
  /\ \/ Lip!RecordSuccess /\ rendered' = call.look
     \/ Lip!RecordFailure /\ rendered' \in Still
  /\ call' = Idle
  /\ Rest

\* Voice settings have changed: a new adapter over the same clips, with the call
\* in progress going on in the old one.
ReloadVoice ==
  /\ FreshVoice
  /\ orphan' = (orphan \/ call.at = "vendor")
  /\ UNCHANGED <<voiceVars, disk, call, lipOn, lipVars, rendered, torn>>

\* The process ends and is started again, perhaps with another backend.  The
\* clip being written, by the vendor or by LuxTTS itself, is left as it is.
Restart(name) ==
  /\ \/ /\ UNCHANGED disk
        /\ torn' = IF call.at = "vendor" /\ disk[call.name] = "cut" THEN torn \cup {call.name}
                   ELSE torn
     \/ /\ \/ call.at = "vendor" /\ name = call.name
           \/ call = Idle /\ voice = "luxtts" /\ name \in LuxNames
        /\ disk[name] = "none"
        /\ Keep(name, "cut") /\ torn' = torn \cup {name}
  /\ FreshVoice
  /\ lipState' = Closed /\ lipCount' = 0 /\ lipAge' = NoFailure
  /\ voice' \in Remotes \cup {"luxtts"} /\ command' \in BOOLEAN
  /\ call' = Idle /\ orphan' = FALSE /\ rendered' = "nothing"
  /\ UNCHANGED <<cap, lipOn>>

\* Time passes, for the call too until its timeout.
SpeechTick ==
  /\ BreakerTick /\ Lip!BreakerTick
  /\ spent' = [t \in DOMAIN spent |-> IF t = 0 THEN 0 ELSE spent[t - 1]]
  /\ call.at = "vendor" => call.took < VendorMax
  /\ call' = IF call.at = "vendor" THEN [call EXCEPT !.took = @ + 1] ELSE call
  /\ UNCHANGED <<voiceVars, blocked, disk, orphan, lipOn, rendered, torn>>

SpeechNext ==
  \/ \E look \in Looks :
        Hit(look) \/ SpeakLocally(look) \/ AskVendor(look) \/ RemoteRefused(look)
  \/ VendorWrites \/ VendorDone \/ VendorSpoils \/ LuxFails \/ RemoteFails
  \/ LipsRefused \/ LipsStart \/ LipsEnd
  \/ ReloadVoice \/ \E name \in Names : Restart(name)
  \/ SpeechTick

SpeechSpec == SpeechInit /\ [][SpeechNext]_speechVars

-----------------------------------------------------------------------------
\* LuxTTS keeps no clip its vendor was cut off in: however the vendor fails, it
\* goes over the file.  A cut clip is one that a vendor is writing, or that the end
\* of the process, a full disk or a vendor that claims success has left under that
\* very name.  luxtts_adapter.py, synthesize.
LuxWhole ==
  \A name \in LuxNames : disk[name] = "cut" =>
     name \in torn \/ (call.at = "vendor" /\ call.name = name)

\* The seconds recorded in any window stay within the budget: whatever a call
\* may take was asked for before it was made.  And since there is one utterance
\* at a time, and a record is clamped to the window, they never exceed two
\* windows: a cap that leaves room for one call above that, as the default does,
\* never blocks one.
WithinBudget ==
  /\ Used <= cap
  /\ cap >= VendorMax + 2 * BudgetWindow => ~blocked
=============================================================================
