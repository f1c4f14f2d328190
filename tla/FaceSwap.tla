------------------------------- MODULE FaceSwap -------------------------------
(***************************************************************************)
(* The face-swap renderer: FaceSwapAdapter, its BackendManager and its     *)
(* FaceSwapPipelines.  Worker threads activate it (a character or a theme  *)
(* is set, or somebody speaks while there is no pipeline); each activation *)
(* detects the backend, spawns its process, waits for it and builds a      *)
(* pipeline, whose thread swaps one frame after another.  Only detection   *)
(* is under a lock.  The program never calls shutdown(), and interrupt()   *)
(* and set_behavior() raise before they change anything, so nothing stops  *)
(* a pipeline but the end of its source.                                   *)
(*                                                                         *)
(* The renderer is enabled: otherwise an activation does nothing.  Frames, *)
(* characters and the faces they are grounded in are left out, but for     *)
(* whether there is a source face at all, which selects the swap path.     *)
(* A thread writes one flag at a time; a test of two flags is one step.    *)
(***************************************************************************)
EXTENDS Naturals, Sequences

CONSTANTS
  Threads,     \* activations that may be in progress at once
  Workers,     \* pipeline threads that may be alive at once
  Backends,    \* process slots, reused once nothing refers to them
  None

ASSUME FaceSwapAssumption ==
  /\ None \notin Backends \cup Workers \cup Threads
  /\ Threads \cap Workers = {}

VARIABLES
  flag,        \* the manager's and the adapter's status flags, and the gauge
  lock,        \* who holds BackendManager._lock
  process,     \* manager.process
  alive,       \* the backend processes that are running
  pipeline,    \* adapter.pipeline is set
  source,      \* source_image_path: not set yet, missing, or a face
  pc,          \* where each activation is
  worker,      \* what each pipeline thread is doing
  todo,        \* the flags a thread is going to write, in order
  failures,    \* history: failed typed swaps since passthrough was last cleared
  raced        \* history: the last activations overlapped

vars == <<flag, lock, process, alive, pipeline, source, pc, worker, todo,
          failures, raced>>

adapterVars == <<lock, process, alive, pipeline, source>>

Flags == {"available", "degraded", "passthrough", "gauge", "active"}

Steps == {"idle", "detecting", "detected", "deciding", "spawning", "waiting",
          "cleaning", "reaping", "concluding", "building"}

\* "typed": in swap_with_request; "legacy": in swap, which has no source face.
Work == {"none", "ready", "typed", "legacy"}

Write == [name : Flags, value : BOOLEAN]

TypeOK ==
  /\ flag \in [Flags -> BOOLEAN]
  /\ lock \in Threads \cup {None}
  /\ process \in Backends \cup {None}
  /\ alive \subseteq Backends
  /\ pipeline \in BOOLEAN
  /\ source \in {"unset", "missing", "face"}
  /\ pc \in [Threads -> Steps]
  /\ worker \in [Workers -> Work]
  /\ todo \in [Threads \cup Workers -> Seq(Write)]
  /\ failures \in [Workers -> 0..2]
  /\ raced \in BOOLEAN

Init ==
  /\ flag = [f \in Flags |-> f \in {"degraded", "passthrough", "gauge"}]
  /\ lock = None
  /\ process = None
  /\ alive = {}
  /\ pipeline = FALSE
  /\ source = "unset"
  /\ pc = [t \in Threads |-> "idle"]
  /\ worker = [w \in Workers |-> "none"]
  /\ todo = [a \in Threads \cup Workers |-> <<>>]
  /\ failures = [w \in Workers |-> 0]
  /\ raced = FALSE

Sets(f, v) == [name |-> f, value |-> v]

\* The end of detect().
Found == <<Sets("available", TRUE), Sets("degraded", FALSE), Sets("passthrough", FALSE)>>

\* Mutated forms of Degrade: a failed swap that only reports, and one that writes
\* its flags the other way round.
DegradeReportsOnly == <<Sets("degraded", TRUE), Sets("gauge", TRUE)>>

DegradeReportsFirst ==
  <<Sets("degraded", TRUE), Sets("passthrough", TRUE), Sets("gauge", TRUE)>>

\* _mark_unavailable().
Unavailable == <<Sets("available", FALSE), Sets("degraded", TRUE), Sets("passthrough", TRUE)>>

\* The handler of a failed swap.
Degrade == <<Sets("passthrough", TRUE), Sets("degraded", TRUE), Sets("gauge", TRUE)>>

At(t, step) == pc[t] = step /\ todo[t] = <<>>
Go(t, step) == pc' = [pc EXCEPT ![t] = step]
Will(a, writes) == todo' = [todo EXCEPT ![a] = writes]

Usable == flag["available"] /\ ~flag["degraded"]

-----------------------------------------------------------------------------
(***************************************************************************)
(* Activations.                                                            *)
(***************************************************************************)

\* _activate() begins: the gauge says degraded until it is known better.
Activate(t) ==
  /\ flag' = [flag EXCEPT !["gauge"] = TRUE]
  /\ raced' = (\E u \in Threads \ {t} : pc[u] # "idle")
  /\ Go(t, "detecting")
  /\ UNCHANGED <<lock, process, alive, pipeline, worker, todo, failures>>

\* load_character(), set_theme(): the new character may have no face on disk.
Load(t) ==
  /\ At(t, "idle")
  /\ source' \in {"missing", "face"}
  /\ Activate(t)

\* speak() activates when there is no pipeline; a missing face is looked for again.
Speak(t) ==
  /\ At(t, "idle") /\ source # "unset"
  /\ ~pipeline
  /\ source' \in {source, "face"}
  /\ Activate(t)

Detect(t) ==
  /\ At(t, "detecting")
  /\ lock = None
  /\ lock' = t
  /\ \E outcome \in {Found, Unavailable} : Will(t, outcome)
  /\ Go(t, "detected")
  /\ UNCHANGED <<flag, process, alive, pipeline, source, worker, failures, raced>>

\* A thread makes its next write.
WriteFlag(a) ==
  /\ todo[a] # <<>>
  /\ LET w == Head(todo[a])
     IN /\ flag' = [flag EXCEPT ![w.name] = w.value]
        /\ failures' = IF w = Sets("passthrough", FALSE)
                       THEN [v \in Workers |-> 0] ELSE failures
  /\ todo' = [todo EXCEPT ![a] = Tail(@)]
  /\ UNCHANGED <<adapterVars, pc, worker, raced>>

Release(t) ==
  /\ At(t, "detected")
  /\ lock' = None
  /\ Go(t, "deciding")
  /\ UNCHANGED <<flag, process, alive, pipeline, source, worker, todo, failures, raced>>

\* start() goes on only with a usable backend.
Decide(t) ==
  /\ At(t, "deciding")
  /\ Go(t, IF Usable THEN "spawning" ELSE "concluding")
  /\ UNCHANGED <<flag, adapterVars, worker, todo, failures, raced>>

\* manager.process is overwritten, whatever it holds.
Spawn(t) ==
  /\ At(t, "spawning")
  /\ \E b \in Backends \ {process} :
       /\ process' = b
       /\ alive' = alive \cup {b}
  /\ Go(t, "waiting")
  /\ UNCHANGED <<flag, lock, pipeline, source, worker, todo, failures, raced>>

SpawnFails(t) ==
  /\ At(t, "spawning")
  /\ Will(t, Unavailable)
  /\ Go(t, "cleaning")
  /\ UNCHANGED <<flag, adapterVars, worker, failures, raced>>

\* _wait_for_startup() polls whatever manager.process is, until its deadline.
Started(t) ==
  /\ At(t, "waiting")
  /\ process \in alive
  /\ Go(t, "concluding")
  /\ UNCHANGED <<flag, adapterVars, worker, todo, failures, raced>>

\* Mutated form of StartFails: the failure is not marked.
StartFailsUnmarked(t) ==
  /\ At(t, "waiting")
  /\ process \notin alive
  /\ Go(t, "cleaning")
  /\ UNCHANGED <<flag, adapterVars, worker, todo, failures, raced>>

StartFails(t) ==
  /\ At(t, "waiting")
  /\ process \notin alive
  /\ Will(t, Unavailable)
  /\ Go(t, "cleaning")
  /\ UNCHANGED <<flag, adapterVars, worker, failures, raced>>

\* _cleanup_process(): terminate and await whatever manager.process is, ...
Terminate(t) ==
  /\ At(t, "cleaning")
  /\ alive' = alive \ {process}
  /\ Go(t, IF process = None THEN "concluding" ELSE "reaping")
  /\ UNCHANGED <<flag, lock, process, pipeline, source, worker, todo, failures, raced>>

\* ... then forget whatever it is by then.
Forget(t) ==
  /\ At(t, "reaping")
  /\ process' = None
  /\ Go(t, "concluding")
  /\ UNCHANGED <<flag, lock, alive, pipeline, source, worker, todo, failures, raced>>

\* replacement_active is set, and the gauge to what is read here.
Conclude(t) ==
  /\ At(t, "concluding")
  /\ flag' = [flag EXCEPT !["active"] = Usable]
  /\ Will(t, <<Sets("gauge", flag["degraded"])>>)
  /\ Go(t, "building")
  /\ UNCHANGED <<adapterVars, worker, failures, raced>>

\* _build_pipeline(): a new pipeline with a thread of its own; the old one's
\* thread goes on.
Build(t) ==
  /\ At(t, "building")
  /\ flag["active"]
  /\ \E w \in Workers :
       /\ worker[w] = "none" /\ todo[w] = <<>>
       /\ worker' = [worker EXCEPT ![w] = "ready"]
  /\ pipeline' = TRUE
  /\ Go(t, "idle")
  /\ UNCHANGED <<flag, lock, process, alive, source, todo, failures, raced>>

\* The source or the sink cannot be made, which leaves the pipeline that another
\* activation may have built by then; or does not open.
BuildFails(t) ==
  /\ At(t, "building")
  /\ flag["active"]
  /\ pipeline' \in {pipeline, FALSE}
  /\ Go(t, "idle")
  /\ UNCHANGED <<flag, lock, process, alive, source, worker, todo, failures, raced>>

\* No pipeline is built for a backend that cannot be used.
BuildNothing(t) ==
  /\ At(t, "building")
  /\ ~flag["active"]
  /\ Go(t, "idle")
  /\ UNCHANGED <<flag, adapterVars, worker, todo, failures, raced>>

\* A backend process ends by itself.
Exit(b) ==
  /\ b \in alive
  /\ alive' = alive \ {b}
  /\ UNCHANGED <<flag, lock, process, pipeline, source, pc, worker, todo, failures, raced>>

-----------------------------------------------------------------------------
(***************************************************************************)
(* Pipeline threads.                                                       *)
(***************************************************************************)

Ready(w) == worker[w] = "ready" /\ todo[w] = <<>>

\* A frame goes to the vendor unless the flags read here say to pass it through.
Swap(w) ==
  /\ Ready(w)
  /\ flag["available"] /\ ~flag["passthrough"]
  /\ worker' = [worker EXCEPT ![w] = IF source = "face" THEN "typed" ELSE "legacy"]
  /\ UNCHANGED <<flag, adapterVars, pc, todo, failures, raced>>

PassThrough(w) ==
  /\ Ready(w)
  /\ ~flag["available"] \/ flag["passthrough"]
  /\ UNCHANGED vars

SwapDone(w) ==
  /\ worker[w] \in {"typed", "legacy"}
  /\ worker' = [worker EXCEPT ![w] = "ready"]
  /\ UNCHANGED <<flag, adapterVars, pc, todo, failures, raced>>

\* swap_with_request() degrades the manager on the first error; swap() does not.
SwapFails(w) ==
  /\ worker[w] \in {"typed", "legacy"}
  /\ worker' = [worker EXCEPT ![w] = "ready"]
  /\ IF worker[w] = "typed"
     THEN /\ Will(w, Degrade)
          /\ failures' = [failures EXCEPT ![w] = IF @ = 2 THEN 2 ELSE @ + 1]
     ELSE UNCHANGED <<todo, failures>>
  /\ UNCHANGED <<flag, adapterVars, pc, raced>>

\* The source has no more frames.
SourceEnds(w) ==
  /\ Ready(w)
  /\ worker' = [worker EXCEPT ![w] = "none"]
  /\ UNCHANGED <<flag, adapterVars, pc, todo, failures, raced>>

-----------------------------------------------------------------------------
Advance(t) ==
  \/ Detect(t) \/ Release(t) \/ Decide(t)
  \/ Spawn(t) \/ SpawnFails(t) \/ Started(t) \/ StartFails(t)
  \/ Terminate(t) \/ Forget(t)
  \/ Conclude(t) \/ Build(t) \/ BuildFails(t) \/ BuildNothing(t)

Next ==
  \/ \E t \in Threads : Load(t) \/ Speak(t) \/ Advance(t)
  \/ \E w \in Workers :
       Swap(w) \/ PassThrough(w) \/ SwapDone(w) \/ SwapFails(w) \/ SourceEnds(w)
  \/ \E a \in Threads \cup Workers : WriteFlag(a)
  \/ \E b \in Backends : Exit(b)

Spec == Init /\ [][Next]_vars

-----------------------------------------------------------------------------
(***************************************************************************)
(* Properties.                                                             *)
(***************************************************************************)

AtRest ==
  /\ \A t \in Threads : At(t, "idle")
  /\ \A w \in Workers : todo[w] = <<>>

\* A dead vendor is not hammered: until a detection finds the backend again, no
\* pipeline thread fails on it twice, however many threads are swapping and
\* whatever detections end in between.  facefusion_adapter.py:500-537.
NoRetryStorm == \A w \in Workers : failures[w] <= 1

\* A backend that is reported online is not being passed through: whichever of
\* an activation's writes the writes of failing swaps come between, what is left
\* is degraded whenever it is passthrough.  facefusion_adapter.py:340-343,
\* 529-531; capabilities() reports available and not degraded as online.
HonestHealth ==
  AtRest /\ ~raced /\ Usable => ~flag["passthrough"]

\* A backend that is reported online has had its process started and not cleaned
\* up, even if a swap failed while it was being started.
\* facefusion_adapter.py:398-457.
OnlineHasBackend ==
  AtRest /\ ~raced /\ Usable => process # None

\* Types, and what is online has its backend.
Inv == TypeOK /\ OnlineHasBackend

-----------------------------------------------------------------------------
\* facefusion_adapter.py:193: the manager "owns the face-swap backend process":
\* when nothing is going on, no backend runs but the one it can stop.
OwnsTheBackend == AtRest => alive \subseteq {process}
=============================================================================
