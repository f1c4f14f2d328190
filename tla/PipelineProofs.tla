---------------------------- MODULE PipelineProofs ----------------------------
(***************************************************************************)
(* PipelineManager for any number of requests and processes: types, that   *)
(* an error belongs to a pipeline that is down, that only an overtaken     *)
(* request abandons a live pipeline, and that the managed one is read.     *)
(***************************************************************************)
EXTENDS PipelineManager, TLAPS

(***************************************************************************)
(* Why an overtaken request is the only one to abandon a pipeline: until a *)
(* start installs another process, what a request found at its check       *)
(* stays so.  Nothing runs under a spawn, and a stop waits for what the    *)
(* manager holds, or for what another stop has taken from it.              *)
(***************************************************************************)
CheckHolds(r) ==
  /\ pc[r] = "spawning" => ~Running
  /\ pc[r] \in {"terminating", "killing"} => proc \in {NoPid, waitsFor[r]}

OvertakenInv == \A r \in Requests : ~overtaken[r] => CheckHolds(r)

IInv == Inv /\ OvertakenInv

-----------------------------------------------------------------------------
\* Nothing runs at first, and no error is noted.
LEMMA InitIInv == Init => IInv
<1> SUFFICES ASSUME Init PROVE IInv
  OBVIOUS
<1>1. TypeOK
  BY DEF Init, TypeOK, RequestStates, Codes
<1>2. ErrorMeansDown
  BY DEF Init, ErrorMeansDown, Running
<1>3. OvertakenInv
  BY DEF Init, OvertakenInv, CheckHolds, Running
<1> QED
  BY <1>1, <1>2, <1>3 DEF IInv, Inv

\* Every step of the manager, of its requests and of the drains keeps the types.
LEMMA StepTyped ==
  ASSUME TypeOK, [Next]_vars
  PROVE  TypeOK'
<1> USE DEF TypeOK, Finish, managerVars, processVars
<1>1. ASSUME NEW r \in Requests, Start(r) \/ StartRunning(r) \/ StopIdle(r) \/ Stop(r)
      PROVE  TypeOK'
  BY <1>1 DEF Start, StartRunning, StopIdle, Stop, vars, RequestStates
<1>2. ASSUME NEW r \in Requests, Spawned(r) \/ SpawnFailed(r)
      PROVE  TypeOK'
  BY <1>2 DEF Spawned, SpawnFailed, RequestStates, Codes
<1>3. ASSUME NEW r \in Requests, StopEnds(r)
      PROVE  TypeOK'
  BY <1>3 DEF StopEnds, TimeoutKill, TimeoutRaises, WaitDone, RequestStates
<1>4. ASSUME NEW p \in Pids, DrainStarts(p) \/ DrainEnds(p) \/ DrainFails(p)
      PROVE  TypeOK'
  BY <1>4 DEF DrainStarts, DrainEnds, DrainFails, Codes
<1>5. ASSUME NEW p \in Pids, Exit(p) \/ Reap(p)
      PROVE  TypeOK'
  BY <1>5 DEF Exit, Reap
<1>6. CASE UNCHANGED vars
  BY <1>6 DEF vars
<1> QED
  BY <1>1, <1>2, <1>3, <1>4, <1>5, <1>6 DEF Next

\* Every step keeps errors to pipelines that are down: a spawn clears them, and a
\* drain notes one only of a managed process whose exit status is known.
LEMMA StepError ==
  ASSUME TypeOK, ErrorMeansDown, [Next]_vars
  PROVE  ErrorMeansDown'
<1> USE DEF TypeOK, ErrorMeansDown, Running, managerVars, processVars
<1>1. ASSUME NEW r \in Requests, Start(r) \/ StartRunning(r) \/ StopIdle(r) \/ Stop(r)
      PROVE  ErrorMeansDown'
  BY <1>1 DEF Start, StartRunning, StopIdle, Stop, vars
<1>2. ASSUME NEW r \in Requests, Spawned(r) \/ SpawnFailed(r)
      PROVE  ErrorMeansDown'
  BY <1>2 DEF Spawned, SpawnFailed
<1>3. ASSUME NEW r \in Requests, StopEnds(r)
      PROVE  ErrorMeansDown'
  BY <1>3 DEF StopEnds, TimeoutKill, TimeoutRaises, WaitDone
<1>4. ASSUME NEW p \in Pids, DrainStarts(p) \/ DrainEnds(p) \/ DrainFails(p)
      PROVE  ErrorMeansDown'
  BY <1>4 DEF DrainStarts, DrainEnds, DrainFails
<1>5. ASSUME NEW p \in Pids, Exit(p) \/ Reap(p)
      PROVE  ErrorMeansDown'
  BY <1>5 DEF Exit, Reap
<1>6. CASE UNCHANGED vars
  BY <1>6 DEF vars
<1> QED
  BY <1>1, <1>2, <1>3, <1>4, <1>5, <1>6 DEF Next

\* Every step leaves the requests it does not overtake what they found.
LEMMA StepOvertaken ==
  ASSUME TypeOK, OvertakenInv, [Next]_vars
  PROVE  OvertakenInv'
<1> USE DEF TypeOK, OvertakenInv, CheckHolds, Running, Finish, managerVars, processVars
<1>1. ASSUME NEW r \in Requests, Start(r) \/ StartRunning(r) \/ StopIdle(r) \/ Stop(r)
      PROVE  OvertakenInv'
  BY <1>1 DEF Start, StartRunning, StopIdle, Stop, vars
<1>2. ASSUME NEW r \in Requests, Spawned(r)
      PROVE  OvertakenInv'
  \* whoever was under way is overtaken, and r is done
  <2>1. \A s \in Requests : ~overtaken'[s] => pc'[s] \notin {"spawning", "terminating", "killing"}
    BY <1>2 DEF Spawned, RequestStates
  <2> QED
    BY <2>1
<1>3. ASSUME NEW r \in Requests, SpawnFailed(r)
      PROVE  OvertakenInv'
  BY <1>3 DEF SpawnFailed
<1>4. ASSUME NEW r \in Requests, StopEnds(r)
      PROVE  OvertakenInv'
  BY <1>4 DEF StopEnds, TimeoutKill, TimeoutRaises, WaitDone
<1>5. ASSUME NEW p \in Pids, DrainStarts(p) \/ DrainEnds(p) \/ DrainFails(p) \/ Exit(p) \/ Reap(p)
      PROVE  OvertakenInv'
  BY <1>5 DEF DrainStarts, DrainEnds, DrainFails, Exit, Reap
<1>6. CASE UNCHANGED vars
  BY <1>6 DEF vars
<1> QED
  BY <1>1, <1>2, <1>3, <1>4, <1>5, <1>6 DEF Next, StopEnds

\* In every reachable state IInv holds.
THEOREM InductiveInvariant == Spec => []IInv
<1>1. IInv /\ [Next]_vars => IInv'
  BY StepTyped, StepError, StepOvertaken DEF IInv, Inv
<1> QED
  BY InitIInv, <1>1, PTL DEF Spec

\* Types, and the status page shows no error of a pipeline that is gone.
\* app.py:149-181, 254.
THEOREM ErrorsAreOfTheDown == Spec => []Inv
<1>1. IInv => Inv
  BY DEF IInv
<1> QED
  BY <1>1, InductiveInvariant, PTL

-----------------------------------------------------------------------------
\* Only a request that a start has overtaken leaves a live pipeline behind.
\* app.py:149-194.
THEOREM Abandoned == Spec => AbandonedOnlyWhenOvertaken
<1> DEFINE Leaves == /\ proc # NoPid /\ Live(proc) /\ proc' # proc
                     /\ os'[proc] \in {"alive", "killed"}
           Overtook == \E r \in Requests : pc[r] # "idle" /\ pc'[r] = "idle" /\ overtaken[r]
<1>1. ASSUME IInv, [Next]_vars, Leaves
      PROVE  Overtook
  <2> USE <1>1 DEF IInv, Inv, TypeOK, OvertakenInv, CheckHolds, Running, Live, Finish
  <2>1. ASSUME NEW r \in Requests, Spawned(r) \/ SpawnFailed(r)
        PROVE  Overtook
    BY <2>1 DEF Spawned, SpawnFailed
  <2>2. ASSUME NEW r \in Requests, WaitDone(r)
        PROVE  Overtook
    BY <2>2 DEF WaitDone
  <2>3. \/ \E r \in Requests : Spawned(r) \/ SpawnFailed(r) \/ WaitDone(r)
        \/ proc' = proc
    BY DEF Next, Start, StartRunning, StopIdle, Stop, StopEnds, TimeoutKill,
       TimeoutRaises, DrainStarts, DrainEnds, DrainFails, Exit, Reap, vars, managerVars, processVars
  <2> QED
    BY <2>1, <2>2, <2>3
<1>2. IInv /\ [Next]_vars => [Leaves => Overtook]_vars
  BY <1>1
<1> QED
  BY <1>2, InductiveInvariant, PTL DEF Spec, AbandonedOnlyWhenOvertaken

\* A pipeline that runs alone is read by its own drain until it ends, another
\* takes its place, or it writes a line too long for the drain.  app.py:166-195.
THEOREM Read == Spec => OutputIsRead
<1> DEFINE Reads == Alone /\ proc # NoPid /\ os[proc] = "alive" /\ IsRead
           StaysRead == \/ proc' # proc
                        \/ os'[proc] # "alive"
                        \/ IsRead'
                        \/ proc \in overlong'
<1>1. ASSUME IInv, [Next]_vars, Reads
      PROVE  StaysRead
  <2> USE <1>1, PidAssumption
          DEF IInv, Inv, TypeOK, Alone, IsRead, managerVars, processVars
  <2>1. ASSUME NEW r \in Requests, Spawned(r) \/ WaitDone(r)
        PROVE  StaysRead
    BY <2>1 DEF Spawned, WaitDone, Reusable
  <2>2. ASSUME NEW p \in Pids, DrainStarts(p)
        PROVE  StaysRead
    BY <2>2 DEF DrainStarts
  <2>3. ASSUME NEW p \in Pids, DrainEnds(p)
        PROVE  StaysRead
    BY <2>3 DEF DrainEnds
  <2>4. ASSUME NEW p \in Pids, DrainFails(p)
        PROVE  StaysRead
    \* it is the managed pipeline's own drain, since there is no other
    <3>1. p = proc /\ drain[p] = proc
      BY <2>4 DEF DrainFails
    <3> QED
      BY <2>4, <3>1 DEF DrainFails
  <2>5. \/ \E r \in Requests : Spawned(r) \/ WaitDone(r)
        \/ \E p \in Pids : DrainStarts(p) \/ DrainEnds(p) \/ DrainFails(p)
        \/ drain' = drain
    BY DEF Next, Start, StartRunning, SpawnFailed, StopIdle, Stop, StopEnds,
       TimeoutKill, TimeoutRaises, Exit, Reap, vars
  <2> QED
    BY <2>1, <2>2, <2>3, <2>4, <2>5
<1>2. IInv /\ [Next]_vars => [Reads => StaysRead]_vars
  BY <1>1
<1> QED
  BY <1>2, InductiveInvariant, PTL DEF Spec, OutputIsRead
=============================================================================
