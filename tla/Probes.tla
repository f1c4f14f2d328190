-------------------------------- MODULE Probes --------------------------------
(***************************************************************************)
(* The cached probe of a sidecar: capability_status() of VoiceLoopClient   *)
(* and of MossDiarizer, which are the same.  Status requests call it from  *)
(* worker threads; speak_test's status() calls it on the event loop, where *)
(* it cannot probe, but does wait for the lock.  The time is read before   *)
(* the lock is taken, and dates the probe that may follow.                 *)
(***************************************************************************)
EXTENDS Naturals

CONSTANTS
  Callers,     \* threads that may ask at once
  EventLoop,   \* the one of them that runs the event loop
  Ttl,         \* PROBE_CACHE_TTL_S
  ProbeMax,    \* a probe's timeout
  Nobody       \* who holds a free lock

ASSUME ProbesAssumption ==
  /\ EventLoop \in Callers /\ Nobody \notin Callers
  /\ Ttl \in Nat /\ ProbeMax \in Nat \ {0}

VARIABLES
  holder,      \* _probe_lock
  cache,       \* _probe_cache and _probe_ts, by how long ago
  asks,        \* where each caller is
  answers      \* what each was last given: how old, and after how many probes

probesVars == <<holder, cache, asks, answers>>

\* Ages saturate where they can no longer be told apart.
AgeLimit == Ttl + 2 * ProbeMax + 2
ProbeAges == 0 .. AgeLimit
Older(n) == IF n < AgeLimit THEN n + 1 ELSE n
Empty == [seen |-> AgeLimit, at |-> AgeLimit, full |-> FALSE]
Resting == [at |-> "idle", now |-> 0, took |-> 0, behind |-> 0]

ProbesTypeOK ==
  /\ holder \in Callers \cup {Nobody}
  /\ cache \in [seen : ProbeAges, at : ProbeAges, full : BOOLEAN]
  /\ asks \in [Callers -> [at : {"idle", "waiting", "probing"}, now : ProbeAges,
                           took : 0 .. ProbeMax, behind : Nat]]
  /\ answers \in [Callers -> [seen : ProbeAges, behind : Nat]]

ProbesInit ==
  /\ holder = Nobody
  /\ cache = Empty
  /\ asks = [c \in Callers |-> Resting]
  /\ answers = [c \in Callers |-> [seen |-> 0, behind |-> 0]]

\* c is given what was observed so long ago.
Answer(c, seen) ==
  /\ asks' = [asks EXCEPT ![c] = Resting]
  /\ answers' = [answers EXCEPT ![c] = [seen |-> seen, behind |-> asks[c].behind]]

-----------------------------------------------------------------------------
\* Mutated forms of the definitions below.
\* the cache is dated when the probe ends
DatedAtEnd(c) ==
  /\ asks[c].at = "probing"
  /\ cache' = [seen |-> asks[c].took, at |-> 0, full |-> TRUE]
  /\ holder' = Nobody
  /\ Answer(c, asks[c].took)

\* a probe that fails is not kept
KeptIfReachable(c) ==
  /\ asks[c].at = "probing"
  /\ \E reachable \in BOOLEAN :
        cache' = IF reachable THEN [seen |-> asks[c].took, at |-> asks[c].now, full |-> TRUE]
                 ELSE cache
  /\ holder' = Nobody
  /\ Answer(c, asks[c].took)

-----------------------------------------------------------------------------
Asks(c) ==
  /\ asks[c].at = "idle"
  /\ asks' = [asks EXCEPT ![c] = [Resting EXCEPT !.at = "waiting"]]
  /\ UNCHANGED <<holder, cache, answers>>

\* now - _probe_ts <= PROBE_CACHE_TTL_S; a date after now counts too.
Fresh(c) == cache.full /\ cache.at <= asks[c].now + Ttl

Turn(c) == asks[c].at = "waiting" /\ holder = Nobody

Cached(c) ==
  /\ Turn(c) /\ Fresh(c)
  /\ Answer(c, cache.seen)
  /\ UNCHANGED <<holder, cache>>

\* "probe skipped (loop running)", which is not kept.
Skipped(c) ==
  /\ Turn(c) /\ ~Fresh(c) /\ c = EventLoop
  /\ Answer(c, 0)
  /\ UNCHANGED <<holder, cache>>

Probe(c) ==
  /\ Turn(c) /\ ~Fresh(c) /\ c # EventLoop
  /\ holder' = c
  /\ asks' = [d \in Callers |->
       IF d = c THEN [asks[c] EXCEPT !.at = "probing"]
       ELSE IF asks[d].at = "waiting" THEN [asks[d] EXCEPT !.behind = @ + 1]
       ELSE asks[d]]
  /\ UNCHANGED <<cache, answers>>

\* The sidecar was observed at some time since the probe began: at worst then.
Probed(c) ==
  /\ asks[c].at = "probing"
  /\ cache' = [seen |-> asks[c].took, at |-> asks[c].now, full |-> TRUE]
  /\ holder' = Nobody
  /\ Answer(c, asks[c].took)

Aged(ask) ==
  CASE ask.at = "idle"    -> Resting
    [] ask.at = "waiting" -> [ask EXCEPT !.now = Older(@)]
    [] ask.at = "probing" -> [ask EXCEPT !.now = Older(@), !.took = @ + 1]

\* Only probes take time: a free lock is taken at once.
ProbesTick ==
  /\ \A c \in Callers :
        /\ asks[c].at = "waiting" => holder # Nobody
        /\ asks[c].at = "probing" => asks[c].took < ProbeMax
  /\ cache' = [cache EXCEPT !.seen = Older(@), !.at = Older(@)]
  /\ asks' = [c \in Callers |-> Aged(asks[c])]
  /\ UNCHANGED <<holder, answers>>

ProbesNext ==
  \/ \E c \in Callers :
        Asks(c) \/ Cached(c) \/ Skipped(c) \/ Probe(c) \/ Probed(c)
  \/ ProbesTick

ProbesSpec == ProbesInit /\ [][ProbesNext]_probesVars

-----------------------------------------------------------------------------
\* Nobody is told of a sidecar as it was longer ago than the cache may live,
\* however long they and the probe before them waited for the lock.
AnswersFresh == \A c \in Callers : answers[c].seen <= IF Ttl > ProbeMax THEN Ttl ELSE ProbeMax

\* The event loop stands still for the probe it finds running and at most one
\* more, however many threads ask.
LoopWaitsLittle == answers[EventLoop].behind <= 1
=============================================================================
