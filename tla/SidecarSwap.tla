----------------------------- MODULE SidecarSwap -----------------------------
(***************************************************************************)
(* The face swap in a process of its own.  The daemon in the renderer's    *)
(* process posts a frame and waits for its timeout; the sidecar serves one *)
(* request at a time, also those whose sender has given up, and passes the *)
(* frame through when it cannot swap; what it has loaded is lost when it   *)
(* crashes.  The daemon returns its frame unchanged whatever goes wrong.   *)
(*                                                                         *)
(* A tick is the unit of the timeout and of the sidecar's work.            *)
(***************************************************************************)
EXTENDS Naturals, Sequences, FiniteSets

CONSTANTS
  Senders,      \* pipeline threads that may swap at once
  Timeout,      \* sidecar_request_timeout_s
  HealthTimeout,\* sidecar_connect_timeout_s, which only its health probe has
  WorkMax,      \* the longest the sidecar works on one request
  SwapMax       \* bound: swaps, attempted or passed through

ASSUME SidecarAssumption ==
  /\ Senders # {} /\ IsFiniteSet(Senders)
  /\ {Timeout, HealthTimeout, WorkMax, SwapMax} \subseteq Nat \ {0}

VARIABLES
  configured,  \* base_url could be made of the sidecar's URL
  refusing,    \* it does not take this daemon's key: 401, 403, 503
  vendor,      \* the sidecar's checkout: "missing", "broken", "whole"
  up,          \* the sidecar runs
  runner,      \* what it has loaded, and HealthSnapshot.healthy
  backlog,     \* requests it has: whose, and whether they still wait
  worked,      \* ticks it has worked on the first
  waiting,     \* ticks each sender has waited for its answer
  results,     \* what each sender last got
  counts       \* _swaps_attempted, _swaps_succeeded, _passthrough_count

sidecarVars == <<configured, refusing, vendor, up, runner, backlog, worked,
                 waiting, results, counts>>

Away == Timeout + 1                  \* a sender that waits for nothing
Cold == [analyser |-> FALSE, core |-> FALSE, healthy |-> FALSE]

SidecarTypeOK ==
  /\ configured \in BOOLEAN /\ refusing \in BOOLEAN /\ up \in BOOLEAN
  /\ vendor \in {"missing", "broken", "whole"}
  /\ runner \in [analyser : BOOLEAN, core : BOOLEAN, healthy : BOOLEAN]
  /\ \A i \in DOMAIN backlog : backlog[i] \in [by : Senders, gone : BOOLEAN]
  /\ worked \in 0 .. WorkMax
  /\ waiting \in [Senders -> 0 .. Away]
  /\ results \in [Senders -> {"none", "frame", "reply"}]
  /\ counts \in [attempted : 0 .. SwapMax, succeeded : 0 .. SwapMax, passed : 0 .. SwapMax]

-----------------------------------------------------------------------------
\* Mutated forms of the definitions below.
\* a request that fails is not counted
TakesUncounted(s, replied) ==
  /\ waiting' = [waiting EXCEPT ![s] = Away]
  /\ results' = [results EXCEPT ![s] = IF replied THEN "reply" ELSE "frame"]
  /\ counts' = IF replied THEN [counts EXCEPT !.succeeded = @ + 1] ELSE counts

\* the timeout of the health probe
LateForHealth(s) == waiting[s] = HealthTimeout

-----------------------------------------------------------------------------
\* warmup: what has been imported once can be again; the health it leaves when
\* it fails half way is what it was.
Warm(r) ==
  IF vendor = "missing" THEN [r EXCEPT !.healthy = FALSE]
  ELSE IF vendor = "whole" \/ r.analyser THEN [r EXCEPT !.analyser = TRUE, !.healthy = TRUE]
  ELSE r

SidecarInit ==
  /\ configured \in BOOLEAN /\ refusing \in BOOLEAN
  /\ vendor \in {"missing", "broken", "whole"}
  /\ up = TRUE /\ runner = Warm(Cold)
  /\ backlog = <<>> /\ worked = 0
  /\ waiting = [s \in Senders |-> Away]
  /\ results = [s \in Senders |-> "none"]
  /\ counts = [attempted |-> 0, succeeded |-> 0, passed |-> 0]

\* The answer of a sender: a picture, or nothing it can use.
Takes(s, replied) ==
  /\ waiting' = [waiting EXCEPT ![s] = Away]
  /\ results' = [results EXCEPT ![s] = IF replied THEN "reply" ELSE "frame"]
  /\ counts' = IF replied THEN [counts EXCEPT !.succeeded = @ + 1]
               ELSE [counts EXCEPT !.passed = @ + 1]

-----------------------------------------------------------------------------
(***************************************************************************)
(* The daemon: swap.                                                       *)
(***************************************************************************)

\* Without a URL nothing is attempted.
PassThrough(s) ==
  /\ waiting[s] = Away /\ ~configured /\ counts.passed < SwapMax
  /\ results' = [results EXCEPT ![s] = "frame"]
  /\ counts' = [counts EXCEPT !.passed = @ + 1]
  /\ UNCHANGED <<configured, refusing, vendor, up, runner, backlog, worked, waiting>>

\* No source face, no picture, or nobody listens.
NothingSent(s) ==
  /\ waiting[s] = Away /\ configured /\ counts.attempted < SwapMax
  /\ results' = [results EXCEPT ![s] = "frame"]
  /\ counts' = [counts EXCEPT !.attempted = @ + 1, !.passed = @ + 1]
  /\ UNCHANGED <<configured, refusing, vendor, up, runner, backlog, worked, waiting>>

Send(s) ==
  /\ waiting[s] = Away /\ configured /\ up /\ counts.attempted < SwapMax
  /\ waiting' = [waiting EXCEPT ![s] = 0]
  /\ counts' = [counts EXCEPT !.attempted = @ + 1]
  /\ backlog' = Append(backlog, [by |-> s, gone |-> FALSE])
  /\ UNCHANGED <<configured, refusing, vendor, up, runner, worked, results>>

Late(s) == waiting[s] = Timeout

\* The sidecar is not told.
TimesOut(s) ==
  /\ Late(s)
  /\ Takes(s, FALSE)
  /\ backlog' = [i \in DOMAIN backlog |->
       IF backlog[i].by = s THEN [backlog[i] EXCEPT !.gone = TRUE] ELSE backlog[i]]
  /\ UNCHANGED <<configured, refusing, vendor, up, runner, worked>>

-----------------------------------------------------------------------------
(***************************************************************************)
(* The sidecar: swap of the app, extract_face and swap of the runner.      *)
(***************************************************************************)

\* extract_face warms what is not loaded; a face it finds is swapped if the core
\* can be imported.  The vendor may fail at each.
Worked(r) ==
  LET warm == IF r.analyser THEN r ELSE Warm(r) IN
  {warm} \cup IF warm.analyser /\ (r.core \/ vendor = "whole")
              THEN {[warm EXCEPT !.core = TRUE]} ELSE {}

\* A frame is answered with a picture, swapped or not; a request with a wrong
\* key, a picture that cannot be read, or encoded, with an error.
Serve ==
  /\ up /\ backlog # <<>>
  /\ LET first == backlog[1] IN
     \E replied \in {FALSE} \cup {~refusing} :
        /\ IF first.gone THEN UNCHANGED <<waiting, results, counts>> ELSE Takes(first.by, replied)
        /\ IF replied THEN runner' \in Worked(runner)
           ELSE runner' \in {runner} \cup IF refusing THEN {} ELSE Worked(runner)
  /\ backlog' = Tail(backlog) /\ worked' = 0
  /\ UNCHANGED <<configured, refusing, vendor, up>>

\* The endpoint; also what the app does first of all.
Warmup ==
  /\ up /\ worked = 0
  /\ runner' = Warm(runner)
  /\ UNCHANGED <<configured, refusing, vendor, up, backlog, worked, waiting, results, counts>>

\* Every request it has fails, and what it has loaded is gone.
Crash ==
  /\ up /\ up' = FALSE
  /\ runner' = Cold /\ backlog' = <<>> /\ worked' = 0
  /\ LET failed == {s \in Senders : waiting[s] # Away} IN
     /\ waiting' = [s \in Senders |-> Away]
     /\ results' = [s \in Senders |-> IF s \in failed THEN "frame" ELSE results[s]]
     /\ counts' = [counts EXCEPT !.passed = @ + Cardinality(failed)]
  /\ UNCHANGED <<configured, refusing, vendor>>

Restarted ==
  /\ ~up /\ up' = TRUE
  /\ runner' = Warm(Cold)
  /\ UNCHANGED <<configured, refusing, vendor, backlog, worked, waiting, results, counts>>

VendorReplaced ==
  /\ vendor' \in {"missing", "broken", "whole"} \ {vendor}
  /\ UNCHANGED <<configured, refusing, up, runner, backlog, worked, waiting, results, counts>>

\* The sidecar works while it has a request; senders give up in time.
SidecarTick ==
  /\ \A s \in Senders : waiting[s] # Timeout
  /\ backlog # <<>> => worked < WorkMax
  /\ worked' = IF backlog # <<>> THEN worked + 1 ELSE 0
  /\ waiting' = [s \in Senders |-> IF waiting[s] = Away THEN Away ELSE waiting[s] + 1]
  /\ UNCHANGED <<configured, refusing, vendor, up, runner, backlog, results, counts>>

SidecarNext ==
  \/ \E s \in Senders : PassThrough(s) \/ NothingSent(s) \/ Send(s) \/ TimesOut(s)
  \/ Serve \/ Warmup \/ Crash \/ Restarted \/ VendorReplaced \/ SidecarTick

SidecarSpec == SidecarInit /\ [][SidecarNext]_sidecarVars

-----------------------------------------------------------------------------
\* Every swap attempted is counted once, as succeeded or as passed through,
\* however it ends: an answer, an error, a timeout, a crash of the sidecar.
CountsAddUp ==
  IF configured
  THEN counts.attempted = counts.succeeded + counts.passed
                          + Cardinality({s \in Senders : waiting[s] # Away})
  ELSE counts.attempted = 0

\* As long as the sidecar can serve all senders within one timeout, nobody gives
\* up on it, and it never works for nobody.  (Otherwise it may: the requests
\* given up stay before the next.)
OnTime ==
  Cardinality(Senders) * WorkMax < Timeout =>
    \A i \in DOMAIN backlog : ~backlog[i].gone
=============================================================================
