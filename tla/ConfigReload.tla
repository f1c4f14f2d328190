----------------------------- MODULE ConfigReload -----------------------------
(***************************************************************************)
(* The configuration: load_config lays a file over defaults.yaml, the      *)
(* environment over both, and on a small machine tunes what nobody gave;   *)
(* reload_config of the orchestrator loads it again (without the file),    *)
(* compares it section by section with the one in force, and replaces the  *)
(* voice, the renderer, the agent and the runtime.  Reloads are requests   *)
(* in worker threads with no lock, and defaults.yaml may be edited at any  *)
(* time.  A part may raise when it is built, which ends the request.       *)
(* set_character, in a thread of its own, replaces the runtime too.        *)
(*                                                                         *)
(* A key stands for the keys of its section, one of the affect section for *)
(* those that may be tuned.  A value says where it is from.                *)
(***************************************************************************)
EXTENDS Naturals, FiniteSets

CONSTANTS
  Reloaders,   \* worker threads that may reload, or switch character, at once
  Edits,       \* what a key may be in defaults.yaml
  Shipped,     \* what it is at first
  Editable,    \* bound: the sets of keys of which one run edits
  Bad,         \* a value that validation refuses
  Unset        \* a key the file or the environment does not give

ASSUME ConfigAssumption ==
  /\ Bad \in Edits /\ Shipped \in Edits \ {Bad}
  /\ {"file", "env", "tuned", "argument", Unset} \cap Edits = {}

VARIABLES
  defaults,    \* defaults.yaml
  editable,    \* keys this run edits
  given,       \* keys the environment gives, and keys the file of the first load
  lowSpec,     \* a small machine, and HERMES_DISABLE_HW_AWARE is not set
  config,      \* self.config
  uses,        \* what each part was built from
  swapping,    \* the renderer is a FaceSwapAdapter
  reloads,     \* where each reload is, what it loaded, what it saw changed
  switches,    \* what each set_character makes its runtime from; old: a reload
               \* has published since it looked
  overlapped,  \* history: two reloads ran at once
  missed       \* history: parts a reload that raised has left to be built, and
               \* not built since; or a runtime made from what was old by then

configVars == <<defaults, editable, given, lowSpec, config, uses, swapping, reloads,
                switches, overlapped, missed>>

Keys == {"affect", "agent", "renderer", "voice", "faceswap"}
\* The section a part of the program is built from.
Section(part) == CASE part = "voice"    -> {"voice"}
                   [] part = "agent"    -> {"agent"}
                   [] part = "renderer" -> IF swapping THEN {"faceswap"} ELSE {"renderer"}
                   [] part = "runtime"  -> {"affect"}
Parts == {"voice", "renderer", "agent", "runtime"}
Values == Edits \cup {"file", "env", "tuned"}

NoSwitch == [from |-> Unset, old |-> FALSE]
NoReload == [at |-> "idle", loaded |-> [k \in Keys |-> Unset], changed |-> {}]

ConfigTypeOK ==
  /\ defaults \in [Keys -> Edits]
  /\ given.env \subseteq Keys /\ given.file \subseteq Keys
  /\ config \in [Keys -> Values \ {Bad}]
  /\ DOMAIN uses = Parts
  /\ \A w \in Reloaders :
        /\ reloads[w].at \in {"idle", "loaded", "compared"} \cup Parts
        /\ reloads[w].changed \subseteq Keys
  /\ switches \in [Reloaders -> [from : Values \cup {Unset}, old : BOOLEAN]]
  /\ lowSpec \in BOOLEAN /\ swapping \in BOOLEAN /\ overlapped \in BOOLEAN
  /\ missed \subseteq Parts

-----------------------------------------------------------------------------
\* Mutated forms of the definitions below.
\* the new configuration is compared with itself
ComparedAfter(w) ==
  /\ reloads[w].at = "loaded"
  /\ reloads' = [reloads EXCEPT ![w].at = "compared", ![w].changed = {}]
  /\ UNCHANGED <<defaults, editable, given, lowSpec, config, uses, swapping, switches, overlapped, missed>>

-----------------------------------------------------------------------------
\* What was given by hand goes before what the machine would be better with.
Overridden(file) == given.env \cup file

\* deep_merge, the overlay of the environment, the tuning.
Load(d, file) ==
  [k \in Keys |->
     IF k = "affect" /\ lowSpec /\ k \notin Overridden(file) THEN "tuned"
     ELSE IF k \in given.env THEN "env"
     ELSE IF k \in file THEN "file"
     ELSE d[k]]

Valid(c) == \A k \in Keys : c[k] # Bad
Built(part, c) == [k \in Section(part) |-> c[k]]

ConfigInit ==
  /\ defaults = [k \in Keys |-> Shipped]
  /\ editable \in Editable
  /\ given \in {[env |-> e, file |-> f] : e \in {{}, {"affect", "voice"}}, f \in {{}, {"affect"}}}
  /\ lowSpec \in BOOLEAN /\ swapping \in BOOLEAN
  /\ config = Load(defaults, given.file)
  \* the command line may give the agent's URL, instead of the section
  /\ \E url \in {config["agent"], "argument"} :
        uses = [part \in Parts |-> IF part = "agent" THEN [k \in {"agent"} |-> url]
                                   ELSE Built(part, config)]
  /\ reloads = [w \in Reloaders |-> NoReload]
  /\ switches = [w \in Reloaders |-> NoSwitch]
  /\ overlapped = FALSE /\ missed = {}

EditDefaults(k, v) ==
  /\ k \in editable
  /\ defaults' = [defaults EXCEPT ![k] = v]
  /\ UNCHANGED <<editable, given, lowSpec, config, uses, swapping, reloads, switches, overlapped, missed>>

Go(w, at) == reloads' = [reloads EXCEPT ![w].at = at]

\* The file is not read again.  What does not validate raises before anything
\* has changed.
LoadAgain(w) ==
  LET c == Load(defaults, {}) IN
  /\ reloads[w].at = "idle" /\ switches[w] = NoSwitch
  /\ IF Valid(c) THEN reloads' = [reloads EXCEPT ![w] = [NoReload EXCEPT !.at = "loaded", !.loaded = c]]
     ELSE UNCHANGED reloads
  /\ overlapped' = (overlapped \/ \E v \in Reloaders \ {w} : reloads[v].at # "idle")
  /\ UNCHANGED <<defaults, editable, given, lowSpec, config, uses, swapping, switches, missed>>

Compare(w) ==
  /\ reloads[w].at = "loaded"
  /\ reloads' = [reloads EXCEPT ![w].at = "compared",
                                ![w].changed = {k \in Keys : reloads[w].loaded[k] # config[k]}]
  /\ UNCHANGED <<defaults, editable, given, lowSpec, config, uses, swapping, switches, overlapped, missed>>

Publish(w) ==
  /\ reloads[w].at = "compared"
  /\ config' = reloads[w].loaded
  /\ Go(w, "voice")
  /\ switches' = [v \in Reloaders |-> IF switches[v] = NoSwitch THEN NoSwitch
                                     ELSE [switches[v] EXCEPT !.old = TRUE]]
  /\ UNCHANGED <<defaults, editable, given, lowSpec, uses, swapping, overlapped, missed>>

\* Each part in its turn is built from the configuration in force by then, if its
\* section has changed.  The renderer's section decides for a face swap too,
\* which is built from another.  The runtime is always built again.
Due(w, part) == part = "runtime" \/ part \in reloads[w].changed
Left(part) == CASE part = "voice"    -> Parts
                [] part = "renderer" -> {"renderer", "agent", "runtime"}
                [] part = "agent"    -> {"agent", "runtime"}
                [] OTHER             -> {part} \cap Parts

Rebuild(w) ==
  LET part == reloads[w].at IN
  /\ part \in Parts
  /\ IF Due(w, part) THEN /\ uses' = [uses EXCEPT ![part] = Built(part, config)]
                         /\ missed' = missed \ {part}
     ELSE UNCHANGED <<uses, missed>>
  /\ IF part = "runtime" THEN reloads' = [reloads EXCEPT ![w] = NoReload]
     ELSE Go(w, CASE part = "voice" -> "renderer" [] part = "renderer" -> "agent"
                  [] part = "agent" -> "runtime")
  /\ UNCHANGED <<defaults, editable, given, lowSpec, config, swapping, switches, overlapped>>

\* A voice cannot make its cache directory, or a renderer cannot be made, or be
\* told the character or its theme once it is in place.  The configuration is
\* published, and what was left to build is not built.
RebuildFails(w) ==
  LET part == reloads[w].at IN
  /\ part \in {"voice", "renderer"} /\ Due(w, part)
  /\ \E made \in SUBSET ({part} \cap {"renderer"}) :
        /\ uses' = [q \in Parts |-> IF q \in made THEN Built(q, config) ELSE uses[q]]
        /\ missed' = (missed \cup {q \in Left(part) : Due(w, q)}) \ made
  /\ reloads' = [reloads EXCEPT ![w] = NoReload]
  /\ UNCHANGED <<defaults, editable, given, lowSpec, config, swapping, switches, overlapped>>

\* set_character makes a new runtime from the configuration, and puts it in place.
SwitchReads(w) ==
  /\ reloads[w].at = "idle" /\ switches[w] = NoSwitch
  /\ switches' = [switches EXCEPT ![w] = [from |-> config["affect"], old |-> FALSE]]
  /\ UNCHANGED <<defaults, editable, given, lowSpec, config, uses, swapping, reloads, overlapped, missed>>

SwitchWrites(w) ==
  /\ switches[w] # NoSwitch
  /\ uses' = [uses EXCEPT !["runtime"] = [k \in {"affect"} |-> switches[w].from]]
  /\ missed' = IF switches[w].old THEN missed \cup {"runtime"} ELSE missed \ {"runtime"}
  /\ switches' = [switches EXCEPT ![w] = NoSwitch]
  /\ UNCHANGED <<defaults, editable, given, lowSpec, config, swapping, reloads, overlapped>>

ConfigNext ==
  \/ \E k \in Keys, v \in Edits : EditDefaults(k, v)
  \/ \E w \in Reloaders : LoadAgain(w) \/ Compare(w) \/ Publish(w) \/ Rebuild(w) \/ RebuildFails(w)
  \/ \E w \in Reloaders : SwitchReads(w) \/ SwitchWrites(w)

ConfigSpec == ConfigInit /\ [][ConfigNext]_configVars

-----------------------------------------------------------------------------
\* What a reload promises of a part: it was built from the configuration in force.
\* Not so for a face swap, whose section nobody compares, and perhaps for the
\* agent, given by the command line.
Applied(part) ==
  \/ uses[part] = Built(part, config)
  \/ part = "agent" /\ uses[part] = [k \in {"agent"} |-> "argument"]
Promised == Parts \ (IF swapping THEN {"renderer"} ELSE {})

\* Between reloads that did not overlap, every part has been built from the
\* configuration in force, but those that a reload which raised has left to be
\* built and a runtime that a switch had begun to make before a reload published.
\* demo_orchestrator.py, reload_config.
ReloadApplies ==
  (\A w \in Reloaders : reloads[w].at = "idle") /\ ~overlapped =>
     \A part \in Promised \ missed : Applied(part)
=============================================================================
