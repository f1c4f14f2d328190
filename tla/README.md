# Formal models of Hermes Avatar

TLA+ specifications of the stateful parts of this repository, the TLC
configurations that check them on small instances, and proofs that TLAPS checks
for every instance. Paths are relative to the repository root; unless they say
otherwise, to `src/packages/hermes_avatar/`.

Contents: [inventory](#inventory) · [modules](#modules) · [runs](#runs) ·
[what the violations show](#what-the-violations-show) ·
[what else modelling showed](#what-else-modelling-showed) · [proofs](#proofs) ·
[limits](#limits) · [plan](#plan)

## Inventory

The program is a demo server (FastAPI) that animates an avatar. Its routes are of
two sorts, and most of what can go wrong follows from it: `async def` handlers
(speak, the voice WebSocket, transcribe) are coroutines of one event loop, `def`
handlers (status, event, trigger, character, style, config reload, perception
frames) run in worker threads at the same time. One `DemoOrchestrator` object
serves them all and takes no lock.

| Component | State it keeps | Operations | Hard part | Correct when | Module |
|---|---|---|---|---|---|
| Circuit breaker (`util/resilience.py`) | state, failure count, time of last failure | allow, record_success, record_failure | outcomes of overlapping calls arrive in any order | it trips on a streak and only then, rests for its window, recovers | CircuitBreaker, SharedBreaker, CallGate |
| OpenAI adapter (`protocol/openai_adapter.py`) | breaker, shared retry counter | generate_response | retries that outlive a trip; a counter shared by requests; an object amid prose, fences and braces | one outcome per request, every request answered, the reply's object found | OpenAIAdapter, ReplyParsing |
| LiveTalking renderer (`renderer/livetalking_adapter.py`) | breaker, last error | _request and its callers | a success that turns into a failure | as for the breaker | SharedBreaker, Stage |
| Voice pipeline manager (`src/sidecar/voice_loop/app.py`) | process, drain tasks, last error and exit code | start, stop, _drain | overlapping starts and stops, the exit raced by the drain | no orphan, output read, errors belong to what they say | PipelineManager |
| Voice relay (`voice/voice_loop.py`) | speaking flag per session, cached health | relay, its pumps, capability_status | either side lost in mid-reply; a probe under a lock | the avatar speaks while there is a voice; answers are fresh | Conversation, Probes |
| Orchestrator (`demo/demo_orchestrator.py`) | runtime, character, style, background, renderer, agent, voice, configuration | voice hooks, speak_test, trigger, set_character, set_style, set_background, apply_workflow, reload_config | unlocked read-modify-write across awaits and threads | turn and tags say who is speaking; style belongs to character; parts are built from the configuration in force | Conversation, Stage, ConfigReload, Speech |
| Affect runtime (`affect/policy.py`, `affect_blender.py`, `gaze_policy.py`) | user, last tick, accumulated time, fade, latch | consume, tick, heartbeat, set_mode | time counted by unsynchronised callers; lost frames | recovers on lost signal, time counted once, emote follows | AffectRuntime |
| LuxTTS (`voice/luxtts_adapter.py`, `voice_cache.py`) | breaker, cost window, clips | synthesize | clips survive restarts, the budget does not | the cap holds, a hit is a whole clip | Speech |
| ElevenLabs, Fish Audio, Wav2Lip | breaker, clips | synthesize, synthesize_lip_sync | a clip written in place; a reload under a call | as above | Speech |
| Face-swap adapter (`renderer/facefusion_adapter.py`) | process, flags, pipeline thread | activate, swap, speak | activation repeated over a running backend | "online" means swapping, with a process; no retry storm | FaceSwap |
| Vendored daemons (`renderer/base_daemon.py`, `*_daemon.py`) | loaded, a cached face per role | swap | the cache shared by pipeline threads | a swap uses the faces it was asked for | VendorFaces |
| Sidecar and its daemon (`renderer/facefusion_sidecar_daemon.py`, `src/sidecar/`) | counters; what the sidecar has loaded, its queue | swap, warm-up | time-outs the sidecar does not learn of; crashes | a frame in each case, counted once, on time | SidecarSwap |
| Meeting join (`demo/meeting_join.py`) | session, browser process | join, leave, status | overlapping requests while the renderer is asked | the avatar attends once, and leaves | Meeting |
| Perception (`perception/mediapipe_tracker.py`) | rolling buffers, landmarker | process_frame | unlocked buffers, the order of stamps | a face is seen, buffers stay in step | Perception |
| Diarizer (`voice/moss_diarizer.py`) | cached probe | capability_status | as for the voice loop's | as for the voice loop's | Probes |
| Configuration (`config/schema.py`) | none | load_config, reload_config | overlapping reloads, an edit between two | every part has been built from what is in force | ConfigReload |
| Character library (`character/ingest.py`) | none | build_asset_index | made-up identifiers, overlapping sources | each emote once, under its own name, or an error with a cause | CharacterIndex, Stage |
| Health (`src/apps/demo_server/routes.py`) | none | health | answers that change or raise under the question | the report is that of the worst part | Health |
| Retry delay, agent bridge, legacy affect policies, emotion tags, audit, tracing, scripts, browser client | little or none | pure functions, one-shot jobs | | | not modelled |

`PROJECT.json` lists each component with its sources and what of it is left out,
and the hazards by line with the properties that cover them.

## Modules

### `CircuitBreaker`, `SharedBreaker`, `CallGate`

`CircuitBreaker` is the object: `state`, `failureCount`, `failureAge` are
`_state`, `_failure_count`, `_last_failure_time`, and there is one operator per
method, split where the method returns different answers (`AllowPasses`,
`AllowRefuses`). The code runs each method under a lock, so each is one step.
Absolute time is replaced by the age of the last failure, saturating one tick
past the window, since the code only compares that age with the window.

`SharedBreaker` has any number of callers using one breaker the way
`LiveTalkingAdapter._request` and `LuxTTSAdapter.synthesize` do: ask, work with no
lock held, report. `SucceedMalformed` is the JSON answer that is not an object:
recorded as a success, then raising, then recorded as a failure. `Abandon` is
LuxTTS giving up to its cost cap after the breaker let it in. `up` is the
environment: admitted calls reach the dependency and are answered correctly.

`CallGate` is what a breaker promises the dependency, with no counts or probes:
calls start and end, the gate may shut when a call makes progress, and a shut
gate stays shut for more than the window. `SharedBreaker` implements it.

### `OpenAIAdapter`

`generate_response`: overlapping coroutines, with the two awaits (`posting`,
`sleeping`) as the only points where they interleave. The breaker is asked once,
attempts are counted per request, the retry counter is shared. With the retries
hidden it implements `SharedBreaker`, so the properties checked and proved there
hold of it too.

### `ReplyParsing`

`_extract_json_block`, which takes the object out of what the model wrote: the
shortest fenced block, if it is an object, else a scan that counts braces. A reply
is a sequence of braces, quotes, fences and words, written sign by sign (`Write`)
and read once (`Read`). What is JSON (`IsObject`) respects strings, and the scan
(`Candidates`) does not: what follows from that is the question. Names, commas,
colons, whitespace and escapes are left out; a word outside a string stands for
anything JSON does not allow there.

### `PipelineManager`

The manager of the speech-to-speech process. A step is what runs between two awaits:
`Start` is the check, `Spawned` what follows `create_subprocess_exec`, `Stop` the
check and `terminate`, then `TimeoutKill` or `TimeoutRaises`, then `WaitDone`. Every
drain is a task of its own that reads `self.proc` when it *starts* and again when
its output *ends*, which is the point: `drain[p]` says which output the task created
for `p` is reading. The process has an exit the loop does not know of yet (`exited`)
and one it does (`reaped`): asyncio sets `returncode` only when its child watcher
runs. A drain may also end while its process lives (`DrainFails`): a line longer
than the stream's limit of 64 KiB raises in `async for`, and nothing handles it;
`overlong` remembers whose. A new task runs before the loop polls again, hence
`Polled`. Process slots are reused when nothing refers to them; that bounds the
pipelines alive at once, not how many there ever are.

### `Conversation`

Who is speaking: one `turn_state` and one `hermes_tags`, written by voice relays,
speak requests and worker threads. A relay's hook is two steps, the turn and
then the tags, since a thread may come between them; a coroutine starts a hook
only when the loop is free. `speak_test` writes `assistant_thinking`, awaits the
agent, and then holds the loop through the synthesis to its end. `reload_config`
is three steps (save, swap, restore); what it saves is the conversation *object*,
shared until the runtime is replaced, and a *copy* of the reference to the tags.
A speak may raise in the agent, in the synthesis, or where there is nothing to say:
the renderer is shown the behaviour (`demo_orchestrator.py:455`) before the turn is
ended, and the face swap's `set_behavior` always raises (`NothingRaises`). `leftBy`
and `raced` are history: why a turn may stand with nobody behind it ("cut",
"button", "raised", "reload").
The code cannot build its neutral avatar state (`AvatarBehaviorState` has no
field `affect`, so `demo_orchestrator.py:218` raises `TypeError`); the requests
that reach it end there, after the writes modelled here.

### `AffectRuntime`

`consume`, `tick` and the heartbeat over the blender (`target`, `fade`,
`elapsed`), the latch (`emote`, `lockLeft`) and the user's last face. Each call is
three steps: what it writes before the build (`Tick`, `Heartbeat`, `Frame`,
`OtherEvent`), the build, and the publication that zeroes the accumulator.
`sinceTick` is the age of `_last_tick_ms`, `user.age` that of the frame *by its
own timestamp*, which the browser sets; `FrameAges` are the clock differences.
A tick is built with the time now, a consume with the time of the last tick:
`Stale(since)` and `TrySwitch(_, since)` take that difference. Fades all last
`FadeTime`: none of the presets of `affect_blender.py` names a pair of affects
that the runtime's table produces.

The limit that `heartbeat` compares with is `StaleAfter`, the fixed
`UserState.stale_after_ms`; `AmbientAfter`, the configuration's `ambient_after_ms`,
is read by nothing in the code and so by no action: only a property names it.
`again`, `overtaken` and `late` are history, and narrow: a tick counted between
another's counting and its build, or a call was built between another's build and
its publication; which calls built recovery before the last frame came; that one
of them published last.

`Replace` and `Reload` are the two ways the orchestrator gets a new runtime.

### `FaceSwap`

The face-swap renderer, when it is enabled. An activation (`Load` for
`load_character` and `set_theme`, `Speak` for `speak`) walks through
`_activate`: detection under the lock, spawn, wait, clean-up, pipeline. Worker
threads may overlap in all of it but detection. `flag` holds the fields that
several threads write with no lock (`available`, `degraded`, `passthrough`,
`replacement_active` as `active`) and the Prometheus gauge; `todo` is what a thread
is going to write, in the order of the source, one flag a step, so that a failing
swap's writes fall between any two of a detection's. `process` is the manager's,
`alive` the operating system's: the slot of a process nobody refers to is used
again, running or not. A pipeline's thread goes on after the next activation has
replaced the pipeline, and ends only with its source: `shutdown` has no caller,
and `interrupt` and `set_behavior` raise on fields `AvatarBehaviorState` does not
have before they change anything (so the renderer never learns of an emote).
A pipeline that cannot be built leaves the old one in place or none (`BuildFails`).
A vendor may raise, as `VendorDaemon` allows and the tests' one does; the daemons
of this repository catch their own errors.

### `Stage`

The orchestrator's switches and the renderer they tell. A request is the list
(`todo`) of the accesses to shared fields it has still to make, in the order of
the source, so that another request can come between any two; a renderer call is
two of them, the reading of its arguments and its arrival, which may fail.
`chosen` is the index with the active style and background, which the three
setters write one after the other; `roots` and `catalog` are the two dictionaries
that the route adding a character writes in turn. `Library` says what
`build_asset_index` made of each character. `renderer` may be replaced by a reload,
while calls to the old object are still under way. `crossed` and `excused` are
history: a switch of character met another request; the renderer has a reason to
lag behind.

### `Meeting`

`MeetingJoinService`: join asks the renderer (`asking`, seconds, no lock), and
falls back to a browser, which may not start (`LaunchFails`: `Popen` raises, and the
session stays "launching"); leave tells both. Every write goes to whatever session and
process are current, which may not be the request's. Browsers run on when their
handle is overwritten (`replaced`) and for a time after they are terminated
(`told`); `attending` is the renderer's side, of which an answer may be lost.

### `CharacterIndex`

`build_asset_index` as one loop over the emotes: those of the profile with their
variants merged, then the files of `emotes/` that the profile does not name;
`counters` and `references` make up identifiers and training references as the code
does. A profile's fields are functions on the fields it gives, so that "lacks" and
"gives" are told apart as `dict.get` does. `Cause` lists what a refusal may be for.

### `ConfigReload`

`load_config`'s layers (defaults, file, environment, tuning of small machines),
validation, and `reload_config` in four steps: load, compare, publish, rebuild.
A key stands for its section. `uses` is what each part was built from, and
`Section(part)` from which section; a face-swap renderer is built from another
section than the one the comparison looks at. Building a voice or a renderer may
raise (`RebuildFails`), which ends the request with the configuration published and
the rest unbuilt. `set_character` makes a runtime from the configuration it finds
and puts it in place later (`SwitchReads`, `SwitchWrites`), perhaps over that of a
reload. `missed` is history: the parts left behind in one of these two ways and not
built since.

### `Health`

The report of `/health`: one question at a time in the source's order, each answer
chosen when it is asked, or an exception; then the statuses and the worst of them.

### `Speech`

The blocking half of `speak_test`: LuxTTS or a remote backend, then Wav2Lip, then
the renderer. `disk` holds the clips under the names the adapters make, over
restarts. A vendor of LuxTTS writes its file in place (`VendorWrites`), and may exit
with status 0 and leave it cut (`VendorSpoils`), since the adapter looks at the
status and at the size being above zero only; `torn` are the names cut in this way,
by the end of the process or by a full disk. `spent` is the cost window; the breaker
variables are the adapter's, and `Lip` is a second instance of `CircuitBreaker`. One
utterance at a time holds the event loop, but a reload in a worker thread may
replace the adapter under it (`orphan`: what it then records is seen by nobody).

### `Probes`

The cached probe of `VoiceLoopClient` and `MossDiarizer`, which are the same code.
A caller reads the clock, takes the lock, and answers from the cache or probes;
on the event loop it cannot probe but waits for the lock all the same. `behind`
counts the probes a caller has waited for.

### `VendorFaces`, `SidecarSwap`, `Perception`

`VendorFaces`: `swap` of the in-process daemons; the cache of a role is a path and
a face, read and written apart (`Look`, `Test`, `Take`, `Extract`, `Store`,
`Stamp`). `SidecarSwap`: the daemon that posts a frame and gives up after its
timeout, and the sidecar, which serves its backlog in order, also for those who
gave up, and loses what it has loaded when it crashes. `Perception`: worker threads
over one landmarker and four buffers; a frame's work is the list of its accesses,
as in `Stage`; what the model keeps of a buffer is its length.

### `MCDemo`, `MCServices`

These twelve modules share no state with one another, so each is explored by itself:
`scene` is chosen at the start and says which one moves. `MCDemo` has the demo
server's own parts (`Conversation`, `Stage`, `Meeting`, `CharacterIndex`, `ConfigReload`,
`Health`), `MCServices` those that ask vendors, models and sidecars (`Speech`,
`Probes`, `VendorFaces`, `Perception`, `SidecarSwap`) and the search of a model's
reply (`ReplyParsing`).

## Runs

| Run | Module, bounds | Question |
|---|---|---|
| `breaker` | SharedBreaker: 3 callers, threshold 3, window 2 | does it trip exactly on a streak, rest for its window, implement the gate, recover? |
| `breaker_wedge` | 3 callers, threshold 2, window 2 | *violated*: an open breaker knows when its window ends |
| `openai` | OpenAIAdapter: 3 requests, 2 retries, threshold 2, window 1 | one outcome per request; is the audit right, how many attempts still go to a broken backend; is everybody answered? |
| `pipeline` | PipelineManager: 2 requests, 2 processes | is a live pipeline ever abandoned, blamed or left unread; is everybody answered? |
| `pipeline_exit` | 1 request, 2 processes | *violated*: the exit status of a dead pipeline is known |
| `conversation_lockstep` | 1 relay | *violated*: the avatar speaks only while there is a voice |
| `affect` | AffectRuntime: 2 calls, fade 2, tweak 1, latch 2, staleness 2, gap 2 | is time counted once; is a lost signal noticed, and only then; does the emote follow? |
| `affect_ambient` | as `affect`, with `AmbientAfter` = 0 | *violated*: recovery waits for the configured `ambient_after_ms`, and 0 disables it |
| `faceswap` | FaceSwap: 2 activations, 2 pipeline threads, 2 process slots, symmetric | is a dead vendor hammered; does "online" mean swapping, with a process? |
| `faceswap_owner` | 1 activation at a time | *violated*: no backend runs but the manager's |
| `demo` | MCDemo: 2 voice relays and 2 speaks; 2 worker threads; 2 characters, styles, backgrounds and renderer objects; 3 browsers; 3 files, up to 2 entries of up to 2 variants; 1 edited section | does the avatar speak or think for nobody; do a relay's tags outlive its voice; does the style belong to the character, the renderer show what is chosen, the avatar attend once and leave, the library index everything, a reload reach every part, the report say what was answered? |
| `services` | MCServices: 3 probing threads and the event loop; 2 clips of LuxTTS and 1 remote one, caps below, at and above what one call needs; 2 swapping pipelines over 3 images; 3 frames with 3 stamps; 2 senders to the sidecar, 4 swaps; replies of up to 7 signs | are clips whole, the budget kept, answers fresh, faces the right ones, buffers in step, swaps counted once and answered on time, a reply's object found? |

The invariant `Inv` of a module is its `TypeOK` with one safety invariant, which is
stated by itself too: `CounterRightAlone` and `StragglersBounded` in
`OpenAIAdapter`, `ErrorMeansDown` in `PipelineManager`, `TimeCountedOnce` in
`AffectRuntime`, `OnlineHasBackend` in `FaceSwap`, `BuffersAligned` (of
`Perception`) in `MCServices`. The largest runs are `faceswap` with 2.9 million
distinct states, `demo` with 1.25 million, `services` with 990 000 and `affect` with
520 000; each takes one to three minutes with two workers.

Why these bounds. The breaker hazards need a caller admitted before a trip, the
callers that trip it and one more: three, with a threshold of two or three so that a
streak is longer than one. A window of two ticks tells "before", "at" and "after"
its end apart. Two overlapping requests are enough for each pair of handlers to
interleave at each access or await; three for the OpenAI adapter so that the
stragglers are not all one request, and for the landmarker so that a frame can be
overtaken by two. Two process slots let a process be replaced under a request while
it lives, which is all that any request of the manager can see; three browsers are
one known, one overwritten and one terminated. Two characters are the one left and
the one switched to, and the second's rule names a style it does not have. One
edited section per run is enough for a reload to see a difference or none in each;
`MCDemo` gives the agent's URL by hand, has the small machine and has the face swap
only where the section that they bear on is the one edited.
The lifetime of the probe cache is longer than a probe (2 and 1), as the code's is.
The caps are the floor, which no call fits, the least that never blocks one and the
one below it; the sidecar's timeout of 5 is just above two requests of 2, so that
`OnTime` is about the last moment at which its condition holds. Seven signs hold an
object with a brace in a string and another inside it, or one before a fence.

`Requests`, `Callers`, `Calls`, `Relays`, `Speaks`, `Threads`, `Workers` bound what
is in flight at once; the code has no such bound below the server's own. The
counters of `OpenAIAdapter` stop at `CountBound`, which they cannot exceed.
`PollGap` bounds the time between two ticks of the runtime: the browser polls every
1.5 seconds. `StampMax`, `SwapMax` and `MaxLength` end a run of `Perception`,
`SidecarSwap` and `ReplyParsing`, which is why `services` does not check for
deadlock; every other run does (a folder is read once: `Read` in `MCDemo` is the
program going on).

Symmetry is used where no liveness property is checked and nothing tells the
members apart: activations, pipeline threads and processes of `FaceSwap`, worker
threads, browsers and renderer objects of `MCDemo` (all its configured constants of
that sort; relays and speaks go by the names of threads and renderers), frame
threads of `MCServices`.

Fairness:

* `SharedBreaker`: time passes, users keep calling, a call returns (each adapter
  gives its attempts a timeout). `Recovers` assumes in its own statement that the
  dependency stays up and that the breaker does not wedge. Half-open calls that
  LuxTTS abandons are impossible then: `up` includes the budget.
* `OpenAIAdapter`: an attempt ends (client timeout), a sleep ends. Nothing makes
  the backend come back or a user ask.
* `PipelineManager`: a spawn ends, a timer fires, ready tasks run, a killed
  process dies, and the loop eventually reaps an exited child: strong fairness,
  as it polls in each turn while new drain tasks may come and go between turns.
  Nothing makes a live pipeline exit.
* `AffectRuntime`: the browser polls and its poll gets a thread (strong fairness:
  in the model only, `Calls` others can take all the slots), calls end, and there
  are moments between calls in which time passes.
* `FaceSwap`, `MCDemo` and `MCServices` have no liveness property and no fairness.

## What the violations show

* `breaker_wedge`. `record_success` clears the failure time in every state, and
  leaves OPEN alone. A call admitted while closed that succeeds after two others
  have tripped the breaker leaves it open with no failure time: `allow()` has
  nothing to measure its window from and refuses for ever. The docstring of the
  class promises half-open once the window is over.
* `pipeline_exit`. The drain notes `returncode` when it sees the end of the
  output, before asyncio has reaped the child, so a crash is usually recorded as
  neither exit code nor error; the class says it tracks the exit state so that
  /health can say why it is down.
* `conversation_lockstep`. A relay that loses its pipeline or its browser in
  mid-reply drops its flag without calling the end hook. The turn stays
  `assistant_speaking`, with no voice, until something else writes it.
* `affect_ambient`. `config/schema.py:46-55`, the comment at
  `demo_orchestrator.py:322-324` and `tests/test_affect_ambient.py:142` say that the
  heartbeat compares with `ambient_after_ms` (1500) and that 0 disables it. The
  runtime compares with `stale_after_ms`, 2000 always: nothing reads the setting.
  `AmbientRecovery` and `RecoveringIsEarned` are about the limit the code has.
* `faceswap_owner`. `start()` overwrites `self.process`, and each switch of
  character, style or background activates again: the backend before it runs on
  for as long as it likes. Startup alone activates twice.

## What else modelling showed

The models follow the code in these points too, and the properties are stated so
that they hold of it; a reader of the code may not expect them.

* Breaker: half-open admits every caller, not the single probe of
  `resilience.py:40-42`. Affect: `tick()` sets `_last_tick_ms` in the heartbeat
  too, against the comment at `demo_orchestrator.py:330-333`, so frames and events
  between polls count no time.
* Speech: ElevenLabs does not import `logging`, so a `NameError` replaces the
  vendor's error. A truncated clip is served as a hit and raises `EOFError` each
  time; a remote clip is named after its text alone. LuxTTS keeps its fallback
  under the vendor's key for ever, and reports a hit of a vendor clip as
  "local-parametric". A cap below 120 seconds means no vendor call at all, and the
  default of 240 never blocks one utterance after another (`WithinBudget`). When
  Wav2Lip passes through, `renderer.speak` is given the face image
  (`demo_orchestrator.py:469-475`). `speak_test` leaves its tags behind. A vendor of
  LuxTTS that exits with status 0 and a truncated file has it kept under the name of
  its text, and each later utterance of it is a hit (`luxtts_adapter.py:282-284`,
  `_wav_duration_ms` swallows the error): `LuxWhole` names this exception.
* Turn: with the face swap as the renderer, a speak that the agent answers with
  nothing to say raises before the turn is ended (`demo_orchestrator.py:455`,
  `facefusion_adapter.py:1152`), and the avatar stays `assistant_thinking`; so it does
  when the agent raises. `ThinkingHasAgent` excuses what a speak that raised has left.
* Sidecar swap: a 200 reply that passed the frame through counts as succeeded; a
  malformed URL counts as passed through and not attempted; the sidecar's health is
  ok while its swap core cannot be imported; requests given up stay in its backlog.
  MOSS's `_runner_error` lasts until a restart, its health is 503 until the first
  transcription, and nobody calls `/warmup`.
* Meeting: the status is "closed" although the avatar joined through the renderer;
  after a reload the service still tells the old renderer.
* Reload: the agent URL of the command line and a `--config` file are dropped; the
  `faceswap` section is not compared; the last expression is carried over and the
  frame count is not; a switch of character under way puts a runtime made from the
  old affect section over the new one. The new configuration is published before
  anything is built from it: if the voice cannot make its cache directory
  (`voice_cache.py:18`), the parts after it are not built either, and the next reload
  compares with what is published, sees no difference, and reports success with the
  old parts in place. `ReloadApplies` names what was so missed.
* Pipeline: a line longer than 64 KiB ends the drain with an exception that nobody
  sees (`app.py:168`). The log tail stands still, the pipeline blocks when its pipe is
  full, and /health says it runs. `OutputIsRead` names this exception.
* Perception: a frame stamped in the future, or a second browser whose clock lags,
  makes later frames report no face; a still face with a closed mouth is "tired";
  `_ear_buffer` is never read.
* Health and status: `/health` never says "error"; a renderer whose face swap is
  not enabled, and a diarizer nobody configured, degrade it; on the event loop
  `status()` calls an uncached probe skipped. A pipeline that ends sends the
  browser no error event, and a start during a stop is answered as running.
* Agents: without a URL the external agent is "available", an unknown mode is the
  fake one, and an answer that is JSON but no object raises.
* Replies: the scan counts braces in strings too. An unfenced object whose text has
  one without its counterpart, as in `smile :-}`, is given up, and the scan returns
  None or an object inside it, such as the tags: the avatar then stays silent
  though the model spoke (`openai_adapter.py:131-140`, against its docstring, "Find
  the first {...} JSON object"). `FindsObject` names this exception; an object in
  a fence is not affected.
* Library: an identifier made up for a file may be one the profile gives, and a
  parent's identifier is given to all its variants: both end in a `ValueError`
  (`Cause`). A profile with styles of its own keeps built-in rules that name styles
  it lacks; a default style without a background is never shown.

## Proofs

Eight modules hold proofs, for any value of the constants that the named
assumptions allow. Each states an inductive strengthening and shows: it holds
initially, every action keeps it (one lemma per conjunct, one step per action), and
the properties follow.

| Module | Theorem | States |
|---|---|---|
| `SharedBreakerProofs` | `TypeCorrect`, `InductiveInvariant` | `[]TypeOK`, `[]IInv` |
| | `ClosedEarned` | `[]ClosedIsEarned`: no closed breaker after a full streak of failures |
| | `CoolOffHolds` | `CoolOff`: no call starts within the window after a trip |
| | `TripEarned` | `TripIsEarned`: it opens only on a full streak over all callers |
| | `BreakerImplementsGate` | `ImplementsGate`: the refinement of `CallGate` |
| `OpenAIProofs` | `AdapterImplementsBreaker` | `ImplementsSharedBreaker` |
| | `AdapterCoolsOff` | `Breaker!CoolOff` of the adapter |
| | `AuditIsRight` | `[]CounterRightAlone` |
| | `AdapterKept` | `[]Inv`: types, `CounterRightAlone` and `StragglersBounded` |
| `PipelineProofs` | `ErrorsAreOfTheDown` | `[]Inv`: types and `ErrorMeansDown` |
| | `Abandoned` | `AbandonedOnlyWhenOvertaken` |
| | `Read` | `OutputIsRead` |
| `ConversationProofs` | `ThinkingIsFor` | `[](ConversationTypeOK /\ ThinkingHasAgent)` |
| | `SpeakingIsFor` | `[]SpeakingHasVoice` |
| | `TagsEnd` | `TagsEndWithVoice` |
| `AffectProofs` | `CountedOnce` | `[]Inv`: types and `TimeCountedOnce` |
| | `Earned` | `[]RecoveringIsEarned` |
| `FaceSwapProofs` | `TypeCorrect`, `NoStorm` | `[]TypeOK`, `[]NoRetryStorm` |
| | `HonestlyOnline` | `[]HonestHealth` |
| | `OnlineBacked` | `[]Inv`: types and `OnlineHasBackend` |
| `DemoProofs` | `Belongs` | `[](StageTypeOK /\ ThemeBelongs)`, for any library |
| | `Shows` | `[]ShownIsChosen` |
| | `Once`, `LeavesNobody` | `[]OneAvatar`, `[]LeftMeansOut` |
| | `Applies` | `[](ConfigTypeOK /\ ReloadApplies)` |
| | `Exact` | `[](HealthTypeOK /\ HealthExact)` |
| | `Indexed` | `[](IndexTypeOK /\ IndexesAll)`, for any folder and profile |
| | `TypeCorrect` | `[]TypeOK` of `MCDemo` |
| `ServicesProofs` | `Fresher`, `Little` | `[](ProbesTypeOK /\ AnswersFresh)`; `[]LoopWaitsLittle` if `Ttl >= ProbeMax` |
| | `Faced` | `[](FacesTypeOK /\ OwnFace)` |
| | `Seen` | `[]SeenInOrder` |
| | `Aligned` | `[](PerceptionTypeOK /\ BuffersAligned)` |
| | `Counted`, `Timely` | `[](SidecarTypeOK /\ CountsAddUp)`, `[]OnTime` |
| | `Whole`, `Thrifty` | `[]LuxWhole`, `[](SpeechTypeOK /\ WithinBudget)` |
| | `Found` | `[](ReplyTypeOK /\ FindsObject)`, for replies of any length |
| | `InStep` | `[]Inv` of `MCServices`: types and `BuffersAligned` |

`DemoProofs` and `ServicesProofs` prove about several components each, which share
no state: the theorems are of the components' own specifications (`StageSpec`,
`ProbesSpec`, ...; `ConversationSpec` in a module of its own), the runs explore the
same ones behind `scene`. `TypeCorrect` of the first and `InStep` are of what the
runs explore: a behaviour of `MCDemo` or `MCServices` is one of each component, and
all but one of them stand still.

Why the strengthenings are needed:

* `SharedBreaker`: `StreakInv` (the count is the length of the run of failures that
  ends the recorded outcomes, so a success that clears the count also ends the run)
  and `GateInv` (an open breaker's last failure is no older than its trip; one that
  is not open tripped longer ago than its window). The refinement maps shut to OPEN
  and needs `GateInv` where a probe re-opens the gate. This `IInv` is an invariant
  of the run `breaker` too.
* `OpenAIAdapter`: the refinement needs the types of the requests' places alone: each
  step is one of `SharedBreaker`'s or, for a retry, leaves all it has as it is, and
  `AdapterCoolsOff` instantiates `SharedBreakerProofs` with that mapping. `AuditIsRight`
  adds `AttemptsInv`, how many attempts a request may be at in each place.
  `AdapterKept` adds `StragglersInv`: the stragglers seen so far and those that may
  still come are within the bound. What may still come is counted as the set
  `Left` of pairs of a request and one of its further attempts, so that a retry
  takes one element out of it and no sum over the requests is needed.
* `PipelineManager`: `OvertakenInv`, what a request that nobody overtook still knows
  from its check: nothing runs under its spawn, and what the manager holds is what
  its stop waits for.
* `Conversation`: `RelayInv` (a closed session plays nothing, one whose start hook
  runs does) and `SavedInv` (what a reload is going to put back has behind it what
  the present turn must have, if nothing raced).
* `AffectRuntime`: `CountedInv` (whoever is alone finds the accumulator empty, and
  puts no more into it than has passed), `OnceInv` (unless time was counted or read
  twice, one call at most has counted and not built, one at most has built and not
  published, and with no reader the accumulator holds what the one that counted put
  there), `FedInv` (what a fade was given and what may still come, `ToCome`, fit into
  the time since it began), `EarnedInv` (a state built to recover, which no frame has
  come after, was built from a face that is still too old).
* `FaceSwap`: `StormInv`, why a thread that failed will not again: from its first
  failure until a detection clears `passthrough`, either it has that failure's
  writes before it, of which the first sets `passthrough`, or `passthrough` is set.
  And `OnlineInv`, in five parts: where a thread may have which writes before it;
  an unraced activation is the only one; once it has begun to mark the backend
  unavailable it is; what is online and passed through is about to be found or to
  be degraded; what is online without a process is about to get one or not to be.
* `Meeting`: `DoubledInv` (a join that nothing doubles is the only one, and falls
  back to a browser only if the renderer is not there) and `LeaveInv` (every
  running browser is known or was overwritten; a leave that is alone has done its
  half; under a join that is alone the session is not one that was left).
* `Stage`: a request is the list of accesses it has still to make, so most of
  `StageInv` says what such a list can be: the end of one of three plans
  (`Planned`). `BelongsInv`: unless a switch has crossed another request, what is
  still to be written was checked against the character that is chosen, and what is
  chosen is its own too or a switch is about to write its defaults. `ShownInv`:
  one request at a time, what it has read is still so, and the renderer shows what
  is chosen or the request ends by telling it.
* `ConfigReload`: `AppliedInv`: until a reload has published, every part is as the
  last one left it; from then on a part that is not as it should be is one it has
  still to build and, having seen a difference in its section, will, or one that was
  missed before. `SwitchInv`: a switch that no reload has overtaken makes its runtime
  from what is in force.
* `Health`: `HealthInv`, the report so far as a function of the answers so far.
* `CharacterIndex`: `IndexInv`: what is added and what is left are all emotes in
  their order, what is added was added as given, and every number up to a state's
  counter is in use. Hence a number made up is no greater than the position of its
  emote (`NumberIs`, by counting: as many identifiers as emotes), which is what
  `Cause` says of the identifiers that may collide. That the list of all emotes has
  each once is shown apart: `Found` and `FlattenSeq` are recursive functions, of
  which `FoundIs` and `Flattened` say what they hold by a bijection with the files
  and with the positions in the lists. `IndexTypeOK` is inductive beside it: the
  fields of an emote are traced to the profile (`GivenFields`).
* `Probes`: `AgesInv`: a cache is no older than it says, and who has waited for the
  lock finds what has just been observed. `ProbesTyped` leaves the number of probes a
  caller waits for unbounded, since without a lifetime there is no bound; with one
  no shorter than a probe, `QueueInv` says who can still wait when the lock is free:
  one that has just asked, or that the cache serves.
* `VendorFaces`: `SlotInv`, for a role whose cache no swaps of other images share:
  all in it want the same image, whoever found its path there will find its own face
  or none, and a face that does not go with the path is about to be stamped;
  `ExtractInv` and `LoadedInv` say what a swap has in hand.
* `Perception`: `OrderInv`: a frame that no rival has met is the newest in hand, and
  newer than what the landmarker took. `RollingInv`: a buffer is ahead of those that
  follow it by the threads between the two, and beyond its window by no more than
  the threads that will still test or pop it. Threads are counted as sets
  (`Having`), of which a step moves one element, so that no sum is needed.
* `SidecarSwap`: `BacklogInv` (a sender that waits has one request that is not given
  up) makes the counts add up, and `FewInv` bounds what is passed through;
  `AwaitedInv` and `TimelyInv` (the i-th in the backlog has waited no longer than what
  was before it may have taken) make it timely.
* `Speech`: `BudgetInv`. While a call is out none is recorded, so every sample is
  older than the call; what is in a window that ended `age` ago grew by one second
  in a second at most (`Within`); and what the call may take was left of the budget
  when it was made. Hence also no tick gets more than a window (`RestTyped`,
  `SpendsLittle`). `LuxWhole` is inductive with the types: what cuts a clip is the
  vendor at it or tears its name. `Used` is a recursive function, `Sums`, and its facts
  (`SumsExist`, `AllSums`, ...) are shown by least counterexamples.
* `ReplyParsing`: no strengthening, since the search is one step: the indices
  that `FindsObject` compares are least elements, which exist (`Smallest`).

What a recursive function is at each number is proved without induction over an
operator: the set of numbers at which the fact fails is a set of naturals, and its
least element, if it had one, would have a predecessor at which the fact holds
(`Least`, `Upwards`, `Recursion` in `DemoProofs`; `Smallest` in `ServicesProofs`).

The assumptions are named in the modules of the constants. Beyond types they ask
for markers that are no values (`None`, `Null`, `Unasked`, ...), for finite sets of
senders, of requests and of frame threads, and in `CharacterIndex` for profiles whose
lists are lists and whose states and priorities, where they are given, are states and
integers (the code applies `int`); `build_asset_index` is called
with what YAML has parsed, and files are numbered in their sorted order.

## Limits

Only model-checked: all liveness (`Recovers`, `Answered`, `AmbientRecovery`,
`EmoteFollows`), for which the proof system has no rule. Every invariant and every
action property of a passing run is a theorem. The violations are counterexamples,
and need no proof.

`LoopWaitsLittle` needs a lifetime of the cache no shorter than a probe (the
program's: 3 seconds, and 1.5 for each phase of a probe), in the theorem as in the
run; with a shorter one the event loop waits for as many as there are threads.

What the invariants except. Code without locks keeps few promises when calls
overlap, and an exception that a property names is what the code does, not what it
should: `crossed` and `excused` (`Stage`), `raced` and `leftBy` (`Conversation`),
`again` and `late` (`AffectRuntime`), `mixed` (`VendorFaces`), `doubled` and `meetingRaced`
(`Meeting`), `missed` and `overlapped` (`ConfigReload`), `torn` (`Speech`), `overlong`
(`PipelineManager`). Each is set by one situation, described where it is declared;
the hazards in `PROJECT.json` that lie within an exception have a note to say so.

Abstracted: payloads, transcripts, images, affect values beyond what the table
tells apart, logs and metrics, exact delays. A worker thread's handler is a few
steps (one per shared write or read that others can see), not one per bytecode;
`x += 1` on an attribute is one step, since CPython from 3.10 on, and the
repository's images have 3.11, does not switch threads inside it, which
`CountsAddUp` rests on. The wall clock is assumed not to go back. A remote voice
backend without a key raises before it touches anything, and is left out. The
outputs of the affect runtime that nothing reads back (gaze, pose, breathing,
interpolated intensity) are left out. `SidecarSwap` leaves out an empty 200 reply,
on which decoding raises outside the `try` of
`facefusion_sidecar_daemon.py:236` and the swap is counted nowhere: the sidecar of
this repository never sends one.

A user transcript during a reply sets `user_turn` and the audio that follows does
not take the turn back; what a barge-in is to do is not documented, so no property
is about it. A remote clip cut by a crash or a full disk is modelled
(`RemoteFails`, `Restart`), and nothing in the code would make a property of it
true.

### Not modelled

| Part | Why |
|---|---|
| Retry delay, emotion tags, legacy affect policies, geometry of landmarks | arithmetic on reals, no state that outlives a call |
| Agent bridge, no-op backend, fake agent | dispatch; they keep nothing |
| Audit log, tracing | append-only; nothing reads them back but a detail of /health |
| Payload builders, prompt building, the fields of a reply | data only |
| `shutdown` of the face swap, `health()` of the sidecar's daemon | without a caller in the program |
| `set_behavior` and `interrupt` of the face swap, the neutral avatar state | they raise before they change anything |
| Scripts and the browser client | one-shot tools; the client draws what it polls |

## Plan

What would add most from here:

1. The MOSS daemon's lazy loading and the sidecar's warm-up under one model of a
   worker that latches its first error.
2. An abstract specification of what a swap promises (a frame in each case, counted
   once), of which `VendorFaces` and `SidecarSwap` are shown to be implementations.
3. Lemmas that the liveness arguments rest on, as step properties: what `AffectRuntime`
   and `OpenAIAdapter` make progress on, and that no other step undoes it.
