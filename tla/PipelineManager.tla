--------------------------- MODULE PipelineManager ---------------------------
(***************************************************************************)
(* The supervisor of the speech-to-speech pipeline, sidecar/voice_loop:    *)
(* overlapping HTTP requests to start and stop the pipeline, the drain     *)
(* task that follows each pipeline's output, and the processes themselves. *)
(* One event loop runs the requests and the drains, so a step is what runs *)
(* between two awaits; the manager takes no lock across an await.          *)
(***************************************************************************)
EXTENDS FiniteSets

CONSTANTS
  Requests,     \* the requests the control plane may be serving at once
  Pids,         \* process slots, reused once nothing refers to them
  NoPid

ASSUME PidAssumption == {NoPid, "none", "created"} \cap Pids = {}

VARIABLES
  proc,         \* self.proc
  readers,      \* self._readers, the drain tasks stop() cancels
  lastError,    \* self.last_error is set
  lastExit,     \* self.last_exit_code
  pc,           \* where each request is
  waitsFor,     \* the process a stop awaits
  drain,        \* each process's drain task: its state, or the slot it reads
  os,           \* the processes; "reaped" once the loop knows the exit status
  code,         \* the exit status of a process that has exited
  overtaken,    \* history: a start installed a process during this request
  overlong      \* history: the processes that wrote a line over the limit

vars == <<proc, readers, lastError, lastExit, pc, waitsFor, drain, os, code,
          overtaken, overlong>>

processVars == <<os, code>>
managerVars == <<proc, readers, lastError, lastExit>>

RequestStates == {"idle", "spawning", "terminating", "killing"}
Codes == {"zero", "nonzero"}

TypeOK ==
  /\ proc \in Pids \cup {NoPid}
  /\ readers \subseteq Pids
  /\ lastError \in BOOLEAN
  /\ lastExit \in Codes \cup {"none"}
  /\ pc \in [Requests -> RequestStates]
  /\ waitsFor \in [Requests -> Pids \cup {NoPid}]
  /\ drain \in [Pids -> Pids \cup {"none", "created"}]
  /\ os \in [Pids -> {"alive", "killed", "exited", "reaped"}]
  /\ code \in [Pids -> Codes]
  /\ overtaken \in [Requests -> BOOLEAN]
  /\ overlong \subseteq Pids

Init ==
  /\ proc = NoPid
  /\ readers = {}
  /\ lastError = FALSE
  /\ lastExit = "none"
  /\ pc = [r \in Requests |-> "idle"]
  /\ waitsFor = [r \in Requests |-> NoPid]
  /\ drain = [p \in Pids |-> "none"]
  /\ os = [p \in Pids |-> "reaped"]
  /\ code = [p \in Pids |-> "zero"]
  /\ overtaken = [r \in Requests |-> FALSE]
  /\ overlong = {}

-----------------------------------------------------------------------------
\* running: a process is managed and its exit status is not known.
Running == proc # NoPid /\ os[proc] # "reaped"

\* A slot nothing refers to any more.
Reusable(p) ==
  /\ os[p] = "reaped"
  /\ proc # p
  /\ drain[p] = "none"
  /\ \A q \in Pids : drain[q] # p
  /\ \A r \in Requests : waitsFor[r] # p

\* A new drain task takes its first step before the loop polls for events, so
\* before any new request or exit status is seen.
Polled == \A p \in Pids : drain[p] # "created"

Finish(r) ==
  /\ pc' = [pc EXCEPT ![r] = "idle"]
  /\ waitsFor' = [waitsFor EXCEPT ![r] = NoPid]

-----------------------------------------------------------------------------
\* Mutated forms of the definitions below.
\* start() clears the error before the spawn instead of after it
SpawnedKeepsError(r) ==
  /\ pc[r] = "spawning"
  /\ \E p \in Pids :
       /\ Reusable(p)
       /\ proc' = p
       /\ readers' = {p}
       /\ drain' = [drain EXCEPT ![p] = "created"]
       /\ os' = [os EXCEPT ![p] = "alive"]
       /\ code' = [code EXCEPT ![p] = "zero"]
       /\ overlong' = overlong \ {p}
  /\ overtaken' = [s \in Requests |-> overtaken[s] \/ (s # r /\ pc[s] # "idle")]
  /\ Finish(r)
  /\ UNCHANGED <<lastError, lastExit>>

\* stop() does not wait for the process to end
WaitNot(r) ==
  /\ pc[r] \in {"terminating", "killing"}
  /\ drain' = [p \in Pids |-> IF p \in readers THEN "none" ELSE drain[p]]
  /\ readers' = {}
  /\ proc' = NoPid
  /\ Finish(r)
  /\ UNCHANGED <<lastError, lastExit, processVars, overtaken, overlong>>

\* the drain gives up at once
DrainNeverStarts(p) ==
  /\ drain[p] = "created"
  /\ drain' = [drain EXCEPT ![p] = "none"]
  /\ UNCHANGED <<managerVars, pc, waitsFor, processVars, overtaken, overlong>>

\* the timeout leaves the process alone
TimeoutWaitsOn(r) ==
  /\ pc[r] = "terminating"
  /\ proc # NoPid
  /\ pc' = [pc EXCEPT ![r] = "killing"]
  /\ waitsFor' = [waitsFor EXCEPT ![r] = proc]
  /\ UNCHANGED <<managerVars, drain, processVars, overtaken, overlong>>

-----------------------------------------------------------------------------
(***************************************************************************)
(* start().                                                                *)
(***************************************************************************)

\* Nothing is running: the request goes on to spawn, and awaits it.
Start(r) ==
  /\ pc[r] = "idle" /\ Polled
  /\ ~Running
  /\ pc' = [pc EXCEPT ![r] = "spawning"]
  /\ overtaken' = [overtaken EXCEPT ![r] = FALSE]
  /\ UNCHANGED <<managerVars, waitsFor, drain, processVars, overlong>>

\* A pipeline is running, or is being stopped: the request is answered at once.
StartRunning(r) ==
  /\ pc[r] = "idle" /\ Polled
  /\ Running
  /\ UNCHANGED vars

\* The spawn is done.  self.proc is overwritten, whatever it holds by now.
Spawned(r) ==
  /\ pc[r] = "spawning"
  /\ \E p \in Pids :
       /\ Reusable(p)
       /\ proc' = p
       /\ readers' = {p}
       /\ drain' = [drain EXCEPT ![p] = "created"]
       /\ os' = [os EXCEPT ![p] = "alive"]
       /\ code' = [code EXCEPT ![p] = "zero"]
       /\ overlong' = overlong \ {p}
  /\ lastError' = FALSE
  /\ overtaken' = [s \in Requests |-> overtaken[s] \/ (s # r /\ pc[s] # "idle")]
  /\ Finish(r)
  /\ UNCHANGED lastExit

SpawnFailed(r) ==
  /\ pc[r] = "spawning"
  /\ lastError' = TRUE
  /\ proc' = NoPid
  /\ Finish(r)
  /\ UNCHANGED <<readers, lastExit, drain, processVars, overtaken, overlong>>

-----------------------------------------------------------------------------
(***************************************************************************)
(* stop().                                                                 *)
(***************************************************************************)

StopIdle(r) ==
  /\ pc[r] = "idle" /\ Polled
  /\ ~Running
  /\ lastError' = FALSE
  /\ UNCHANGED <<proc, readers, lastExit, pc, waitsFor, drain, processVars,
                 overtaken, overlong>>

\* terminate(), then a bounded wait for the process self.proc is now.
Stop(r) ==
  /\ pc[r] = "idle" /\ Polled
  /\ Running
  /\ pc' = [pc EXCEPT ![r] = "terminating"]
  /\ waitsFor' = [waitsFor EXCEPT ![r] = proc]
  /\ overtaken' = [overtaken EXCEPT ![r] = FALSE]
  /\ UNCHANGED <<managerVars, drain, processVars, overlong>>

\* The wait timed out: kill and await whatever self.proc is by now.
TimeoutKill(r) ==
  /\ pc[r] = "terminating"
  /\ proc # NoPid
  /\ os' = [os EXCEPT ![proc] = IF @ = "alive" THEN "killed" ELSE @]
  /\ pc' = [pc EXCEPT ![r] = "killing"]
  /\ waitsFor' = [waitsFor EXCEPT ![r] = proc]
  /\ UNCHANGED <<managerVars, drain, code, overtaken, overlong>>

\* The same, but there is no process left to kill: the request raises.
TimeoutRaises(r) ==
  /\ pc[r] = "terminating"
  /\ ~Running
  /\ Finish(r)
  /\ UNCHANGED <<managerVars, drain, processVars, overtaken, overlong>>

\* The awaited process has ended.  What is cancelled and forgotten is what the
\* manager holds now, not what this request was waiting for.
WaitDone(r) ==
  /\ pc[r] \in {"terminating", "killing"}
  /\ os[waitsFor[r]] = "reaped"
  /\ drain' = [p \in Pids |-> IF p \in readers THEN "none" ELSE drain[p]]
  /\ readers' = {}
  /\ proc' = NoPid
  /\ Finish(r)
  /\ UNCHANGED <<lastError, lastExit, processVars, overtaken, overlong>>

-----------------------------------------------------------------------------
(***************************************************************************)
(* _drain(), the task of process p.                                        *)
(***************************************************************************)

\* It reads the output of whatever self.proc is by then, and fails if there is
\* none or if another task is already reading that output.
DrainStarts(p) ==
  /\ drain[p] = "created"
  /\ drain' = [drain EXCEPT ![p] =
                 IF proc = NoPid \/ \E q \in Pids : drain[q] = proc
                 THEN "none" ELSE proc]
  /\ UNCHANGED <<managerVars, pc, waitsFor, processVars, overtaken, overlong>>

\* The output it reads has ended.  The exit status it notes is that of
\* self.proc: unknown when the end of the output is seen before the exit, or
\* another process's, or a failure when there is none.
DrainEnds(p) ==
  /\ drain[p] \in Pids
  /\ os[drain[p]] \in {"exited", "reaped"}
  /\ drain' = [drain EXCEPT ![p] = "none"]
  /\ lastExit' = IF proc = NoPid THEN lastExit
                 ELSE IF os[proc] = "reaped" THEN code[proc] ELSE "none"
  /\ lastError' = (lastError \/ (lastExit' = "nonzero" /\ proc # NoPid))
  /\ UNCHANGED <<proc, readers, pc, waitsFor, processVars, overtaken, overlong>>

\* It reads a line longer than the stream holds (64 KiB): the task ends with a
\* ValueError nobody sees, whether or not the process goes on.
DrainFails(p) ==
  /\ drain[p] \in Pids
  /\ drain' = [drain EXCEPT ![p] = "none"]
  /\ overlong' = overlong \cup {drain[p]}
  /\ UNCHANGED <<managerVars, pc, waitsFor, processVars, overtaken>>

-----------------------------------------------------------------------------
(***************************************************************************)
(* The operating system.                                                   *)
(***************************************************************************)

\* A pipeline ends: by itself, on a signal, or because its port is taken.
Exit(p) ==
  /\ os[p] \in {"alive", "killed"}
  /\ os' = [os EXCEPT ![p] = "exited"]
  /\ \E c \in Codes : code' = [code EXCEPT ![p] = c]
  /\ UNCHANGED <<managerVars, pc, waitsFor, drain, overtaken, overlong>>

\* The loop learns the exit status.
Reap(p) ==
  /\ os[p] = "exited" /\ Polled
  /\ os' = [os EXCEPT ![p] = "reaped"]
  /\ UNCHANGED <<managerVars, pc, waitsFor, drain, code, overtaken, overlong>>

StopEnds(r) == TimeoutKill(r) \/ TimeoutRaises(r) \/ WaitDone(r)

Next ==
  \/ \E r \in Requests :
       \/ Start(r) \/ StartRunning(r) \/ Spawned(r) \/ SpawnFailed(r)
       \/ StopIdle(r) \/ Stop(r) \/ StopEnds(r)
  \/ \E p \in Pids :
         DrainStarts(p) \/ DrainEnds(p) \/ DrainFails(p) \/ Exit(p) \/ Reap(p)

\* A spawn ends, a timer fires, the loop runs what is ready, and a killed
\* process dies.  The loop polls in each of its turns, so an exit status cannot
\* be put off for ever by new drain tasks: strong fairness.  Nothing makes a live
\* pipeline exit or a request arrive.
Fairness ==
  /\ \A r \in Requests :
       /\ WF_vars(Spawned(r) \/ SpawnFailed(r))
       /\ WF_vars(StopEnds(r))
  /\ \A p \in Pids :
       /\ WF_vars(DrainStarts(p)) /\ WF_vars(DrainEnds(p)) /\ SF_vars(Reap(p))
       /\ WF_vars(os[p] = "killed" /\ Exit(p))

Spec == Init /\ [][Next]_vars

FairSpec == Spec /\ Fairness

-----------------------------------------------------------------------------
(***************************************************************************)
(* Properties.                                                             *)
(***************************************************************************)

Live(p) == os[p] \in {"alive", "killed"}

\* A pipeline that is running is never abandoned (left alive, no longer
\* self.proc, where no stop can reach it), except by a request that a start
\* overtook between its check and its last step.  start 149-163, stop 181-194.
AbandonedOnlyWhenOvertaken ==
  [][ (proc # NoPid /\ Live(proc) /\ proc' # proc /\ os'[proc] \in {"alive", "killed"})
      => \E r \in Requests : pc[r] # "idle" /\ pc'[r] = "idle" /\ overtaken[r] ]_vars

\* An error the status page shows belongs to a pipeline that is down: no drain
\* or failed spawn of an earlier pipeline leaves its error on a running one.
\* app.py:254 reports a running pipeline degraded while last_error is set.
ErrorMeansDown == lastError => ~Running

\* Types, and the status page shows no error of a pipeline that is gone.
Inv == TypeOK /\ ErrorMeansDown

\* A running pipeline whose output nobody reads blocks when the pipe fills.  As
\* long as there is no other pipeline, nothing the manager does (app.py:166-195)
\* leaves the managed one unread: only a line its stream does not hold ends its
\* drain, against which there is no handler (app.py:168).
Alone == \A p \in Pids : p # proc => os[p] = "reaped" /\ drain[p] = "none"

IsRead == drain[proc] \in {proc, "created"}

OutputIsRead ==
  [][ (Alone /\ proc # NoPid /\ os[proc] = "alive" /\ IsRead)
      => \/ proc' # proc
         \/ os'[proc] # "alive"
         \/ IsRead'
         \/ proc \in overlong' ]_vars

\* Every request is answered, whatever becomes of the process under it.
Answered == \A r \in Requests : pc[r] # "idle" ~> pc[r] = "idle"

-----------------------------------------------------------------------------
\* app.py:129-130, the manager "tracks exit state so /health can say why it is
\* down": once the managed pipeline has exited and its drain is done, the exit
\* status noted is its own, also where no line was too long for the drain.
ExitTracked ==
  (/\ proc # NoPid /\ os[proc] = "reaped" /\ proc \notin overlong
   /\ \A p \in Pids : drain[p] = "none")
    => lastExit = code[proc]
=============================================================================
