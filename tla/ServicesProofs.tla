--------------------------- MODULE ServicesProofs ----------------------------
(***************************************************************************)
(* What the program asks of vendors, models and sidecars, for any number of *)
(* threads, callers and senders and any timeouts.  The parts share no state: *)
(* each has its own invariant.                                             *)
(***************************************************************************)
EXTENDS MCServices, FiniteSetTheorems, SequenceTheorems, WellFoundedInduction,
        TLAPS

-----------------------------------------------------------------------------
(***************************************************************************)
(* Probes: nobody is told of a sidecar as it was longer ago than a probe may *)
(* take or the cache may live, however the lock is handed on.              *)
(***************************************************************************)

\* What a caller is about.  (With a lifetime of zero the probes it may wait for
\* have no bound.)
ProbeAsk == [at : {"idle", "waiting", "probing"}, now : ProbeAges,
             took : 0 .. ProbeMax, behind : Nat]

ProbesTyped ==
  /\ holder \in Callers \cup {Nobody}
  /\ cache \in [seen : ProbeAges, at : ProbeAges, full : BOOLEAN]
  /\ asks \in [Callers -> ProbeAsk]
  /\ answers \in [Callers -> [seen : ProbeAges, behind : Nat]]

\* A probe begins after its date, so the cache is no older than it says; and who
\* has waited at all finds, once the lock is free, what has just been observed.
AgesInv ==
  /\ cache.seen <= cache.at
  /\ \A c \in Callers :
       /\ asks[c].at = "waiting" => asks[c].took = 0
       /\ asks[c].at = "probing" => asks[c].took <= asks[c].now
       /\ asks[c].at = "waiting" /\ asks[c].now > 0 /\ holder = Nobody
             => cache.seen <= ProbeMax

ProbesInv == ProbesTyped /\ AgesInv /\ AnswersFresh

-----------------------------------------------------------------------------
\* Ages grow together, to the limit.
LEMMA OlderGrows ==
  /\ AgeLimit \in Nat /\ ProbeMax <= AgeLimit
  /\ \A n \in Nat : Older(n) \in Nat
  /\ \A n \in ProbeAges : Older(n) \in ProbeAges
  /\ \A m, n \in Nat : m <= n => Older(m) <= Older(n)
  /\ \A n \in ProbeAges, t \in 0 .. ProbeMax - 1 : t <= n => t + 1 <= Older(n)
BY ProbesAssumption DEF Older, AgeLimit, ProbeAges

\* A tick ages what a caller waits with, and does not let a probe be older than
\* its date.
LEMMA AgedKeeps ==
  ASSUME NEW a \in ProbeAsk, a.at = "waiting" => a.took = 0,
         a.at = "probing" => a.took <= a.now /\ a.took < ProbeMax
  PROVE  /\ Aged(a) \in ProbeAsk /\ Aged(a).at = a.at
         /\ a.at = "waiting" => Aged(a).took = 0
         /\ a.at = "probing" => Aged(a).took <= Aged(a).now
<1>1. Older(a.now) \in ProbeAges
  BY OlderGrows DEF ProbeAsk
<1>2. CASE a.at = "idle"
  BY <1>2, ProbesAssumption, OlderGrows DEF ProbeAsk, Aged, Resting, ProbeAges
<1>3. CASE a.at = "waiting"
  <2>1. Aged(a) = [a EXCEPT !.now = Older(@)]
    BY <1>3 DEF Aged
  <2> QED
    BY <1>1, <1>3, <2>1 DEF ProbeAsk
<1>4. CASE a.at = "probing"
  <2>1. Aged(a) = [a EXCEPT !.now = Older(@), !.took = @ + 1]
    BY <1>4 DEF Aged
  <2>2. a.now \in ProbeAges /\ a.took \in 0 .. ProbeMax - 1
    BY <1>4, ProbesAssumption DEF ProbeAsk
  <2>3. a.took + 1 \in 0 .. ProbeMax /\ a.took + 1 <= Older(a.now)
    BY <1>4, <2>2, ProbesAssumption, OlderGrows
  <2> QED
    BY <1>1, <1>4, <2>1, <2>3 DEF ProbeAsk
<1> QED
  BY <1>2, <1>3, <1>4 DEF ProbeAsk

\* Nobody has asked at first, and the cache is empty.
LEMMA InitProbes == ProbesInit => ProbesInv
<1> SUFFICES ASSUME ProbesInit PROVE ProbesInv
  OBVIOUS
<1>1. ProbesTyped
  BY ProbesAssumption, OlderGrows DEF ProbeAsk, ProbesInit, ProbesTyped, Empty, Resting, ProbeAges
<1>2. AgesInv
  BY OlderGrows DEF ProbesInit, AgesInv, Empty, Resting
<1>3. AnswersFresh
  BY ProbesAssumption DEF ProbesInit, AnswersFresh
<1> QED
  BY <1>1, <1>2, <1>3 DEF ProbesInv

\* An answer as recent as the promise keeps the answers and the other callers.
LEMMA AnswerFresh ==
  ASSUME ProbesInv, NEW c \in Callers, NEW seen \in Nat,
         seen <= Ttl \/ seen <= ProbeMax, Answer(c, seen)
  PROVE  /\ asks' = [asks EXCEPT ![c] = Resting]
         /\ asks' \in [Callers -> ProbeAsk]
         /\ answers' \in [Callers -> [seen : ProbeAges, behind : Nat]]
         /\ AnswersFresh'
<1>1. asks[c].behind \in Nat
  BY DEF ProbeAsk, ProbesInv, ProbesTyped
<1>2. Resting \in ProbeAsk
  BY ProbesAssumption, OlderGrows DEF ProbeAsk, Resting, ProbeAges
<1>3. answers' \in [Callers -> [seen : ProbeAges, behind : Nat]]
  <2>1. seen \in ProbeAges
    BY ProbesAssumption DEF ProbeAges, AgeLimit
  <2> QED
    BY <1>1, <2>1 DEF Answer, ProbesInv, ProbesTyped
<1>4. AnswersFresh'
  BY <1>1, <1>3, ProbesAssumption DEF Answer, ProbesInv, ProbesTyped, AnswersFresh
<1> QED
  BY <1>2, <1>3, <1>4 DEF Answer, ProbesInv, ProbesTyped

\* The cached answer is fresh: either the caller has not waited, and the cache is
\* no older than its lifetime, or what it holds was observed by the probe it
\* waited for.
LEMMA CachedIsFresh ==
  ASSUME ProbesInv, NEW c \in Callers, Cached(c)
  PROVE  cache.seen \in Nat /\ (cache.seen <= Ttl \/ cache.seen <= ProbeMax)
<1>1. asks[c].now \in Nat /\ cache.at \in Nat /\ cache.seen \in Nat
  BY OlderGrows DEF ProbeAsk, ProbesInv, ProbesTyped, ProbeAges
<1>2. CASE asks[c].now = 0
  BY <1>1, <1>2, ProbesAssumption DEF Cached, Fresh, ProbesInv, AgesInv
<1>3. CASE asks[c].now > 0
  BY <1>1, <1>3 DEF Cached, Turn, ProbesInv, AgesInv
<1> QED
  BY <1>1, <1>2, <1>3

\* Every step keeps ProbesInv.
LEMMA StepProbes ==
  ASSUME ProbesInv, [ProbesNext]_probesVars
  PROVE  ProbesInv'
<1> USE DEF ProbesTyped, AgesInv
<1>1. ASSUME NEW c \in Callers, Asks(c)
      PROVE  ProbesInv'
  <2>1. ProbesTyped'
    BY <1>1, ProbesAssumption, OlderGrows DEF ProbeAsk, Asks, ProbesInv, Resting, ProbeAges
  <2> QED
    BY <1>1, <2>1 DEF Asks, ProbesInv, AnswersFresh, Resting
<1>2. ASSUME NEW c \in Callers, Cached(c)
      PROVE  ProbesInv'
  <2>1. /\ asks' = [asks EXCEPT ![c] = Resting] /\ ProbesTyped' /\ AnswersFresh'
    BY <1>2, CachedIsFresh, AnswerFresh DEF Cached, ProbesInv
  <2> QED
    BY <1>2, <2>1 DEF Cached, ProbesInv, Resting
<1>3. ASSUME NEW c \in Callers, Skipped(c)
      PROVE  ProbesInv'
  <2>1. 0 \in Nat /\ 0 <= ProbeMax
    BY ProbesAssumption
  <2>2. /\ asks' = [asks EXCEPT ![c] = Resting] /\ ProbesTyped' /\ AnswersFresh'
    BY <1>3, <2>1, AnswerFresh DEF Skipped, ProbesInv
  <2> QED
    BY <1>3, <2>2 DEF Skipped, ProbesInv, Resting
<1>4. ASSUME NEW c \in Callers, Probe(c)
      PROVE  ProbesInv'
  <2>1. \A d \in Callers :
          /\ asks[d] \in ProbeAsk
          /\ asks'[d].now = asks[d].now /\ asks'[d].took = asks[d].took
          /\ asks'[d].at = IF d = c THEN "probing" ELSE asks[d].at
    BY <1>4 DEF Probe, Turn, ProbesInv
  <2>2. asks' \in [Callers -> ProbeAsk]
    <3>1. \A d \in Callers : asks'[d] \in ProbeAsk
      BY <1>4, <2>1 DEF Probe, ProbeAsk
    <3> QED
      BY <1>4, <3>1 DEF Probe
  <2>3. ProbesTyped'
    BY <1>4, <2>2 DEF Probe, ProbesInv
  <2>4. AgesInv'
    BY <1>4, <2>1, ProbesAssumption, OlderGrows DEF Probe, Turn, ProbesInv, ProbeAsk, ProbeAges
  <2> QED
    BY <1>4, <2>3, <2>4 DEF Probe, ProbesInv, AnswersFresh
<1>5. ASSUME NEW c \in Callers, Probed(c)
      PROVE  ProbesInv'
  <2>1. /\ asks[c].took \in Nat /\ asks[c].took <= ProbeMax
        /\ asks[c].took \in ProbeAges /\ asks[c].now \in ProbeAges
        /\ asks[c].now \in Nat /\ asks[c].took <= asks[c].now
    BY <1>5, ProbesAssumption, OlderGrows DEF ProbeAsk, Probed, ProbesInv, ProbeAges
  <2>2. /\ asks' = [asks EXCEPT ![c] = Resting] /\ ProbesTyped' /\ AnswersFresh'
    BY <1>5, <2>1, AnswerFresh DEF Probed, ProbesInv
  <2> QED
    BY <1>5, <2>1, <2>2 DEF Probed, ProbesInv, Resting
<1>6. CASE ProbesTick
  <2>1. cache' = [cache EXCEPT !.seen = Older(@), !.at = Older(@)] /\ UNCHANGED <<holder, answers>>
    BY <1>6 DEF ProbesTick
  <2>2. \A c \in Callers : asks[c].at = "waiting" => holder # Nobody
    BY <1>6 DEF ProbesTick
  <2>3. \A c \in Callers :
          /\ asks'[c] \in ProbeAsk /\ asks'[c].at = asks[c].at
          /\ asks[c].at = "waiting" => asks'[c].took = 0
          /\ asks[c].at = "probing" => asks'[c].took <= asks'[c].now
    <3> SUFFICES ASSUME NEW c \in Callers
                 PROVE  /\ Aged(asks[c]) \in ProbeAsk /\ Aged(asks[c]).at = asks[c].at
                        /\ asks[c].at = "waiting" => Aged(asks[c]).took = 0
                        /\ asks[c].at = "probing" => Aged(asks[c]).took <= Aged(asks[c]).now
      BY <1>6 DEF ProbesTick
    <3>1. /\ asks[c] \in ProbeAsk
          /\ asks[c].at = "waiting" => asks[c].took = 0
          /\ asks[c].at = "probing" => asks[c].took <= asks[c].now /\ asks[c].took < ProbeMax
      BY <1>6 DEF ProbesInv, ProbesTick
    <3> QED
      BY <3>1, AgedKeeps
  <2>4. asks' \in [Callers -> ProbeAsk]
    BY <1>6, <2>3 DEF ProbesTick
  <2>5. ProbesTyped'
    <3>1. cache \in [seen : ProbeAges, at : ProbeAges, full : BOOLEAN]
      BY DEF ProbesInv
    <3>2. Older(cache.seen) \in ProbeAges /\ Older(cache.at) \in ProbeAges
      BY <3>1, OlderGrows
    <3> QED
      BY <2>1, <2>4, <3>1, <3>2 DEF ProbesInv
  <2>a. /\ cache.seen \in Nat /\ cache.at \in Nat /\ cache.seen <= cache.at
        /\ cache'.seen = Older(cache.seen) /\ cache'.at = Older(cache.at)
    BY <2>1, OlderGrows DEF ProbesInv, ProbeAges
  <2>6. AgesInv'
    BY <2>1, <2>2, <2>3, <2>a, OlderGrows DEF ProbesInv
  <2> QED
    BY <2>1, <2>5, <2>6 DEF ProbesInv, AnswersFresh
<1>7. CASE UNCHANGED probesVars
  BY <1>7 DEF probesVars, ProbesInv, AnswersFresh
<1> QED
  BY <1>1, <1>2, <1>3, <1>4, <1>5, <1>6, <1>7 DEF ProbesNext

\* What is answered is never older than the cache's lifetime, or than a probe.
\* voice_loop.py:140-163, moss_diarizer.py.
THEOREM Fresher == ProbesSpec => [](ProbesTypeOK /\ AnswersFresh)
<1>1. ProbesInv => ProbesTypeOK /\ AnswersFresh
  BY DEF ProbesInv, ProbesTyped, ProbesTypeOK, ProbeAsk
<1> QED
  BY InitProbes, StepProbes, <1>1, PTL DEF ProbesSpec

-----------------------------------------------------------------------------
(***************************************************************************)
(* How many probes a caller waits for, if the cache lives no shorter than  *)
(* a probe takes.                                                          *)
(***************************************************************************)

\* The cache serves whoever is waiting.
Serves == cache.full /\ cache.at <= Ttl

\* No time passes while the lock is free and somebody waits for it: who waits
\* then has only just asked, or is served by the probe that has just ended.  So a
\* probe is begun only by one that has not waited, it is dated when it begins,
\* and who has seen one begin while waiting sees no other.
QueueInv ==
  /\ \A c \in Callers :
       /\ asks[c].at = "probing" => holder = c /\ asks[c].now <= asks[c].took
       /\ asks[c].at # "idle" => asks[c].behind <= 1
       /\ asks[c].at = "waiting" /\ holder = Nobody
             => Serves \/ (asks[c].now = 0 /\ asks[c].behind = 0)
  /\ \A c \in Callers : answers[c].behind <= 1

\* At first nobody waits.
LEMMA InitQueue == ProbesInit => QueueInv
BY DEF ProbesInit, QueueInv, Resting

\* An answer leaves the others where they are.
LEMMA AnswerQueue ==
  ASSUME ProbesTyped, QueueInv, NEW c \in Callers, NEW seen, asks[c].at # "idle", Answer(c, seen)
  PROVE  /\ \A d \in Callers : answers'[d].behind <= 1
         /\ \A d \in Callers : asks'[d] = IF d = c THEN Resting ELSE asks[d]
BY DEF Answer, ProbesTyped, QueueInv, ProbeAsk

\* Every step keeps QueueInv, if the cache lives at least as long as a probe.
LEMMA StepQueue ==
  ASSUME Ttl >= ProbeMax, ProbesTyped, QueueInv, [ProbesNext]_probesVars
  PROVE  QueueInv'
<1>0. \A c \in Callers : asks[c] \in ProbeAsk /\ asks[c].now \in Nat /\ asks[c].behind \in Nat
                         /\ asks[c].took \in Nat /\ asks[c].took <= ProbeMax
  BY ProbesAssumption, OlderGrows DEF ProbesTyped, ProbeAsk, ProbeAges
<1>1. ASSUME NEW c \in Callers, Asks(c)
      PROVE  QueueInv'
  <2>1. \A d \in Callers : asks'[d] = IF d = c THEN [Resting EXCEPT !.at = "waiting"] ELSE asks[d]
    BY <1>1 DEF Asks, ProbesTyped
  <2> QED
    BY <1>1, <2>1 DEF Asks, QueueInv, Serves, Resting
<1>2. ASSUME NEW c \in Callers, Cached(c) \/ Skipped(c)
      PROVE  QueueInv'
  <2>1. /\ \A d \in Callers : answers'[d].behind <= 1
        /\ \A d \in Callers : asks'[d] = IF d = c THEN Resting ELSE asks[d]
        /\ UNCHANGED <<holder, cache>>
    BY <1>2, AnswerQueue DEF Cached, Skipped, Turn
  <2> QED
    BY <2>1 DEF QueueInv, Serves, Resting
<1>3. ASSUME NEW c \in Callers, Probe(c)
      PROVE  QueueInv'
  <2>1. /\ asks[c].at = "waiting" /\ holder = Nobody /\ holder' = c /\ ~Fresh(c)
        /\ UNCHANGED <<cache, answers>>
    BY <1>3 DEF Probe, Turn
  <2>2. ~Serves
    <3>1. cache.at \in Nat
      BY OlderGrows DEF ProbesTyped, ProbeAges
    <3> QED
      BY <1>0, <2>1, <3>1, ProbesAssumption DEF Fresh, Serves
  <2>3. asks[c].now = 0 /\ asks[c].behind = 0
    BY <2>1, <2>2 DEF QueueInv
  <2>4. \A d \in Callers : asks[d].at # "probing"
    BY <2>1, ProbesAssumption DEF QueueInv
  <2>5. \A d \in Callers : asks[d].at = "waiting" => asks[d].behind = 0
    BY <2>1, <2>2 DEF QueueInv
  <2>6. asks'[c].at = "probing" /\ asks'[c].now = 0 /\ asks'[c].behind = 0 /\ asks'[c].took \in Nat
    BY <1>0, <1>3, <2>3 DEF Probe, ProbeAsk
  <2>7. \A d \in Callers \ {c} : /\ asks'[d].at = asks[d].at
                                 /\ asks[d].at = "waiting" => asks'[d].behind = 1
                                 /\ asks[d].at # "waiting" => asks'[d] = asks[d]
    BY <1>0, <1>3, <2>5 DEF Probe, ProbeAsk
  <2> QED
    BY <1>0, <2>1, <2>4, <2>6, <2>7, ProbesAssumption DEF QueueInv
<1>4. ASSUME NEW c \in Callers, Probed(c)
      PROVE  QueueInv'
  <2>1. /\ \A d \in Callers : answers'[d].behind <= 1
        /\ \A d \in Callers : asks'[d] = IF d = c THEN Resting ELSE asks[d]
        /\ cache' = [seen |-> asks[c].took, at |-> asks[c].now, full |-> TRUE]
        /\ holder = c /\ asks[c].now <= asks[c].took
    BY <1>4, AnswerQueue DEF Probed, QueueInv
  <2>2. Serves'
    BY <1>0, <2>1, ProbesAssumption DEF Serves
  <2> QED
    BY <2>1, <2>2 DEF QueueInv, Resting
<1>5. CASE ProbesTick
  <2>1. \A c \in Callers : asks[c].at = "waiting" => holder # Nobody
    BY <1>5 DEF ProbesTick
  <2>2. \A c \in Callers : asks'[c] = Aged(asks[c])
    BY <1>5 DEF ProbesTick
  <2>3. \A c \in Callers :
          /\ asks[c].at # "idle" => asks'[c].behind = asks[c].behind
          /\ asks'[c].at = asks[c].at
          /\ asks[c].at = "probing" => asks'[c].now = Older(asks[c].now) /\ asks'[c].took = asks[c].took + 1
    <3> SUFFICES ASSUME NEW c \in Callers
                 PROVE  /\ asks[c].at # "idle" => Aged(asks[c]).behind = asks[c].behind
                        /\ Aged(asks[c]).at = asks[c].at
                        /\ asks[c].at = "probing" => /\ Aged(asks[c]).now = Older(asks[c].now)
                                                     /\ Aged(asks[c]).took = asks[c].took + 1
      BY <2>2
    <3>1. CASE asks[c].at = "idle"
      BY <3>1 DEF Aged, Resting
    <3>2. CASE asks[c].at = "waiting"
      <4>1. Aged(asks[c]) = [asks[c] EXCEPT !.now = Older(@)]
        BY <3>2 DEF Aged
      <4> QED
        BY <1>0, <3>2, <4>1 DEF ProbeAsk
    <3>3. CASE asks[c].at = "probing"
      <4>1. Aged(asks[c]) = [asks[c] EXCEPT !.now = Older(@), !.took = @ + 1]
        BY <3>3 DEF Aged
      <4> QED
        BY <1>0, <3>3, <4>1 DEF ProbeAsk
    <3> QED
      BY <1>0, <3>1, <3>2, <3>3 DEF ProbeAsk
  <2>4. \A n, t \in Nat : n <= t => Older(n) <= t + 1
    BY OlderGrows DEF Older
  <2>5. UNCHANGED <<holder, answers>>
    BY <1>5 DEF ProbesTick
  <2> QED
    BY <1>0, <2>1, <2>3, <2>4, <2>5 DEF QueueInv
<1>6. CASE UNCHANGED probesVars
  BY <1>6 DEF probesVars, QueueInv, Serves
<1> QED
  BY <1>1, <1>2, <1>3, <1>4, <1>5, <1>6 DEF ProbesNext

\* With a cache that lives at least as long as a probe may take, the event loop
\* stands still for the probe it finds running and at most one more.
\* voice_loop.py:140-163, moss_diarizer.py.
THEOREM Little ==
  ASSUME Ttl >= ProbeMax
  PROVE  ProbesSpec => []LoopWaitsLittle
<1>1. ProbesInit => ProbesInv /\ QueueInv
  BY InitProbes, InitQueue
<1>2. ProbesInv /\ QueueInv /\ [ProbesNext]_probesVars => ProbesInv' /\ QueueInv'
  BY StepProbes, StepQueue DEF ProbesInv
<1>3. QueueInv => LoopWaitsLittle
  BY ProbesAssumption DEF QueueInv, LoopWaitsLittle
<1> QED
  BY <1>1, <1>2, <1>3, PTL DEF ProbesSpec

-----------------------------------------------------------------------------
(***************************************************************************)
(* VendorFaces: each pipeline swaps the faces of its own images.           *)
(***************************************************************************)

Swap == [at : Points \cup {"idle", "apply"}, role : Roles,
         want : [Roles -> Images \cup {NoImage}], got : [Roles -> Faces]]
Slot == [path : Images \cup {NoImage}, face : Faces]

\* p has looked at the slot of r, and is not done with it; and has the face it
\* will use.
Inside(p, r) == Busy(p, r) /\ swaps[p].at # "look"
Done(p, r) == At(p, "apply") \/ (swaps[p].at \in Points /\ swaps[p].role = "target" /\ r = "source")
Own(face, image) == face = NoFace \/ face = image

SlotInv(r) ==
  /\ \A p, q \in Pipelines : Inside(p, r) /\ Inside(q, r) => swaps[p].want[r] = swaps[q].want[r]
  /\ \A p \in Pipelines : Busy(p, r) /\ swaps[p].at \in {"test", "take"} =>
        slots[r].path = swaps[p].want[r]
  /\ \A q \in Pipelines : At(q, "stamp") /\ swaps[q].role = r => Own(slots[r].face, swaps[q].want[r])
  /\ \/ Own(slots[r].face, slots[r].path)
     \/ \E q \in Pipelines : At(q, "stamp") /\ swaps[q].role = r
  /\ \A p \in Pipelines : Done(p, r) => Own(swaps[p].got[r], swaps[p].want[r])

ExtractInv == \A p \in Pipelines : swaps[p].at \in {"store", "stamp"} =>
                Own(swaps[p].got[Role(p)], Wants(p))
LoadedInv == \A p \in Pipelines : ~At(p, "idle") => loaded /\ \A r \in Roles : swaps[p].want[r] \in Images

FacesInv ==
  FacesTypeOK /\ LoadedInv /\ ExtractInv /\ \A r \in Roles : ~mixed[r] => SlotInv(r)

-----------------------------------------------------------------------------
FacesTyped ==
  /\ slots \in [Roles -> Slot] /\ swaps \in [Pipelines -> Swap] /\ mixed \in [Roles -> BOOLEAN]

\* What a swap does to itself.
LEMMA SwapOps ==
  ASSUME NEW s \in Swap, NEW point \in Points \cup {"idle", "apply"}
  PROVE  /\ s.at \in Points \cup {"idle", "apply"} /\ s.role \in Roles
         /\ s.want \in [Roles -> Images \cup {NoImage}] /\ s.got \in [Roles -> Faces]
         /\ [s EXCEPT !.at = point] \in Swap
         /\ [s EXCEPT !.at = point].at = point /\ [s EXCEPT !.at = point].role = s.role
         /\ [s EXCEPT !.at = point].want = s.want /\ [s EXCEPT !.at = point].got = s.got
BY DEF Swap

\* The fields of a pipeline's swap.
LEMMA SwapFields ==
  ASSUME NEW s \in Swap
  PROVE  /\ s.role \in Roles /\ \A r \in Roles : s.got[r] \in Faces /\ s.want[r] \in Images \cup {NoImage}
         /\ s.at \in Points \cup {"idle", "apply"}
BY DEF Swap

\* A pipeline goes on, and no other.
LEMMA GoIs ==
  ASSUME FacesTyped, NEW p \in Pipelines, NEW s \in Swap, Go(p, s)
  PROVE  /\ swaps' \in [Pipelines -> Swap] /\ swaps'[p] = s
         /\ \A q \in Pipelines : q # p => swaps'[q] = swaps[q]
BY DEF FacesTyped, Go

\* It goes on to a point, with all it has.
LEMMA GoToIs ==
  ASSUME FacesTyped, NEW p \in Pipelines, NEW point \in Points \cup {"idle", "apply"}, GoTo(p, point)
  PROVE  /\ swaps' \in [Pipelines -> Swap]
         /\ swaps'[p].at = point /\ swaps'[p].role = swaps[p].role
         /\ swaps'[p].want = swaps[p].want /\ swaps'[p].got = swaps[p].got
         /\ \A q \in Pipelines : q # p => swaps'[q] = swaps[q]
<1>1. swaps[p] \in Swap
  BY DEF FacesTyped
<1>2. [swaps[p] EXCEPT !.at = point] \in Swap /\ Go(p, [swaps[p] EXCEPT !.at = point])
  BY <1>1, SwapOps DEF GoTo
<1>3. swaps'[p] = [swaps[p] EXCEPT !.at = point]
  BY <1>2, GoIs
<1> QED
  BY <1>1, <1>2, <1>3, GoIs, SwapOps

\* It has the face of one role, and goes on to the other or to the swap.
LEMMA GotIs ==
  ASSUME FacesTyped, NEW p \in Pipelines, NEW face \in Faces, Got(p, face)
  PROVE  /\ swaps' \in [Pipelines -> Swap]
         /\ IF swaps[p].role = "source"
            THEN swaps'[p].at = "look" /\ swaps'[p].role = "target"
            ELSE swaps'[p].at = "apply" /\ swaps'[p].role = swaps[p].role
         /\ swaps'[p].want = swaps[p].want
         /\ swaps'[p].got[swaps[p].role] = face
         /\ \A r \in Roles : r # swaps[p].role => swaps'[p].got[r] = swaps[p].got[r]
         /\ \A q \in Pipelines : q # p => swaps'[q] = swaps[q]
<1> DEFINE s == [swaps[p] EXCEPT !.got[Role(p)] = face]
<1>1. swaps[p] \in Swap
  BY DEF FacesTyped
<1>2. /\ s \in Swap /\ s.role = swaps[p].role /\ s.want = swaps[p].want
      /\ s.got = [swaps[p].got EXCEPT ![swaps[p].role] = face]
  BY <1>1 DEF Swap, Role
<1>3. /\ s.got[swaps[p].role] = face
      /\ \A r \in Roles : r # swaps[p].role => s.got[r] = swaps[p].got[r]
  <2>1. swaps[p].role \in Roles /\ swaps[p].got \in [Roles -> Faces]
    BY <1>1 DEF Swap
  <2> QED
    BY <1>2, <2>1
<1>4. Go(p, IF s.role = "source" THEN [s EXCEPT !.at = "look", !.role = "target"]
            ELSE [s EXCEPT !.at = "apply"])
  BY DEF Got, Role
<1> HIDE DEF s
<1>5. CASE s.role = "source"
  <2> DEFINE t == [s EXCEPT !.at = "look", !.role = "target"]
  <2>1. t \in Swap /\ t.at = "look" /\ t.role = "target" /\ t.want = s.want /\ t.got = s.got
    BY <1>2 DEF Swap, Points, Roles
  <2>2. Go(p, t)
    BY <1>4, <1>5
  <2> HIDE DEF t
  <2>3. /\ swaps' \in [Pipelines -> Swap] /\ swaps'[p] = t
        /\ \A q \in Pipelines : q # p => swaps'[q] = swaps[q]
    BY <2>1, <2>2, GoIs
  <2> QED
    BY <1>2, <1>3, <1>5, <2>1, <2>3
<1>6. CASE s.role # "source"
  <2>1. "apply" \in Points \cup {"idle", "apply"}
    OBVIOUS
  <2>2. Go(p, [s EXCEPT !.at = "apply"])
    BY <1>4, <1>6
  <2>3. [s EXCEPT !.at = "apply"] \in Swap
    BY <1>2, <2>1, SwapOps
  <2>4. swaps'[p] = [s EXCEPT !.at = "apply"]
    BY <2>2, <2>3, GoIs
  <2> QED
    BY <1>2, <1>3, <1>6, <2>1, <2>2, <2>3, <2>4, GoIs, SwapOps
<1> QED
  BY <1>5, <1>6

\* The types, with those of the swaps and slots named.
LEMMA FacesTypes ==
  FacesTypeOK <=> /\ FacesTyped /\ vendorThere \in BOOLEAN /\ loaded \in BOOLEAN
                  /\ modules \subseteq {"analyser", "swapper"} /\ (modules # {} => loaded)
BY DEF FacesTypeOK, FacesTyped, Swap, Slot

\* A pipeline at rest, and one that has just been given its images.
LEMMA RestIs ==
  /\ AtRest \in Swap /\ AtRest.at = "idle" /\ AtRest.role = "source"
  /\ \A req \in Requests :
       LET s == [AtRest EXCEPT !.at = "look", !.want = req] IN
       /\ s \in Swap /\ s.at = "look" /\ s.role = "source"
       /\ \A r \in Roles : s.want[r] \in Images
<1>1. AtRest \in Swap /\ AtRest.at = "idle" /\ AtRest.role = "source"
  BY DEF AtRest, Swap, Roles, Faces
<1>2. ASSUME NEW req \in Requests
      PROVE  LET s == [AtRest EXCEPT !.at = "look", !.want = req] IN
             /\ s \in Swap /\ s.at = "look" /\ s.role = "source"
             /\ \A r \in Roles : s.want[r] \in Images
  <2>1. req \in [Roles -> Images \cup {NoImage}] /\ \A r \in Roles : req[r] \in Images
    BY VendorFacesAssumption DEF Roles
  <2> QED
    BY <1>1, <2>1 DEF Swap, AtRest, Points
<1> QED
  BY <1>1, <1>2

\* Writing the face of a slot, and its path.
LEMMA SlotOps ==
  ASSUME NEW x \in Slot, NEW face \in Faces, NEW path \in Images \cup {NoImage}
  PROVE  /\ x.face \in Faces /\ x.path \in Images \cup {NoImage}
         /\ [x EXCEPT !.face = face] \in Slot /\ [x EXCEPT !.face = face].face = face
         /\ [x EXCEPT !.face = face].path = x.path
         /\ [x EXCEPT !.path = path] \in Slot /\ [x EXCEPT !.path = path].path = path
         /\ [x EXCEPT !.path = path].face = x.face
BY DEF Slot

-----------------------------------------------------------------------------
\* What each action does, field by field.
Others(p) == \A q \in Pipelines : q # p => swaps'[q] = swaps[q]
Rests(p) ==
  /\ swaps[p].at \in {"idle", "apply"} /\ swaps'[p].role = "source"
  /\ swaps'[p].at = "idle" \/ (swaps'[p].at = "look" /\ loaded' /\ \A r \in Roles : swaps'[p].want[r] \in Images)
  /\ Others(p) /\ UNCHANGED <<slots, mixed>>
Moves(p, point) ==
  /\ swaps'[p].at = point /\ swaps'[p].role = swaps[p].role
  /\ swaps'[p].want = swaps[p].want /\ Others(p)
Gets(p, face) ==
  /\ IF swaps[p].role = "source"
     THEN swaps'[p].at = "look" /\ swaps'[p].role = "target"
     ELSE swaps'[p].at = "apply" /\ swaps'[p].role = swaps[p].role
  /\ swaps'[p].want = swaps[p].want
  /\ swaps'[p].got[swaps[p].role] = face
  /\ \A r \in Roles : r # swaps[p].role => swaps'[p].got[r] = swaps[p].got[r]
  /\ Others(p)

\* What NotLoaded, Apply and StartSwap do to the slots' pipelines.
LEMMA RestsIs ==
  ASSUME FacesTyped, NEW p \in Pipelines,
         NotLoaded(p) \/ Apply(p) \/ \E req \in Requests : StartSwap(p, req)
  PROVE  FacesTyped' /\ Rests(p)
<1>1. CASE NotLoaded(p)
  <2>1. Go(p, AtRest) /\ swaps[p].at = "idle" /\ UNCHANGED <<slots, mixed>>
    BY <1>1 DEF NotLoaded, Through, At
  <2>2. swaps'[p] = AtRest /\ swaps' \in [Pipelines -> Swap] /\ Others(p)
    BY <2>1, RestIs, GoIs DEF Others
  <2> QED
    BY <2>1, <2>2, RestIs DEF Rests, FacesTyped
<1>2. CASE Apply(p)
  <2>1. Go(p, AtRest) /\ swaps[p].at = "apply" /\ UNCHANGED <<slots, mixed>>
    BY <1>2 DEF Apply, Through, At
  <2>2. swaps'[p] = AtRest /\ swaps' \in [Pipelines -> Swap] /\ Others(p)
    BY <2>1, RestIs, GoIs DEF Others
  <2> QED
    BY <2>1, <2>2, RestIs DEF Rests, FacesTyped
<1>3. ASSUME NEW req \in Requests, StartSwap(p, req) PROVE FacesTyped' /\ Rests(p)
  <2>1. swaps[p].at = "idle" /\ UNCHANGED <<slots, mixed>> /\ loaded'
    BY <1>3 DEF StartSwap, At
  <2>2. Go(p, AtRest) \/ Go(p, [AtRest EXCEPT !.at = "look", !.want = req])
    BY <1>3 DEF StartSwap, Through
  <2> QED
    BY <2>1, <2>2, RestIs, GoIs DEF Rests, Others, FacesTyped
<1> QED
  BY <1>1, <1>2, <1>3

\* Nothing is said of a slot by who is not inside.
LEMMA SlotKept ==
  ASSUME FacesTyped, NEW p \in Pipelines, NEW r \in Roles, Rests(p), SlotInv(r)
  PROVE  SlotInv(r)'
BY DEF Rests, Others, SlotInv, Inside, Busy, Done, At, Points

\* A swap begins, ends or is refused.
LEMMA StepRests ==
  ASSUME FacesInv, NEW p \in Pipelines,
         NotLoaded(p) \/ Apply(p) \/ \E req \in Requests : StartSwap(p, req)
  PROVE  FacesInv'
<1>1. FacesTyped' /\ Rests(p) /\ FacesTyped
  BY RestsIs, FacesTypes DEF FacesInv
<1>2. FacesTypeOK'
  <2>1. /\ vendorThere' \in BOOLEAN /\ loaded' \in BOOLEAN /\ (loaded => loaded')
        /\ modules' \subseteq {"analyser", "swapper"} /\ (modules' # {} => modules # {} \/ swaps[p].at = "apply")
    BY FacesTypes DEF FacesInv, NotLoaded, Apply, StartSwap, At
  <2> QED
    <3>1. loaded' \/ modules' = {}
      BY <2>1, FacesTypes DEF FacesInv, LoadedInv, At
    <3> QED
      BY <1>1, <2>1, <3>1 DEF FacesTypeOK, FacesTyped, Swap, Slot
<1>3. LoadedInv'
  <2>1. loaded => loaded'
    BY DEF NotLoaded, Apply, StartSwap
  <2> QED
    BY <1>1, <2>1 DEF FacesInv, LoadedInv, Rests, Others, At
<1>4. ExtractInv'
  BY <1>1 DEF FacesInv, ExtractInv, Rests, Others, Role, Wants
<1>5. ASSUME NEW r \in Roles, ~mixed'[r] PROVE SlotInv(r)'
  BY <1>1, <1>5, SlotKept DEF FacesInv, Rests
<1> QED
  BY <1>2, <1>3, <1>4, <1>5 DEF FacesInv

\* A pipeline moves within a slot.
LEMMA MovesIs ==
  ASSUME FacesTyped, NEW p \in Pipelines, NEW point \in Points, GoTo(p, point)
  PROVE  /\ swaps' \in [Pipelines -> Swap] /\ Moves(p, point)
         /\ swaps'[p].got = swaps[p].got
BY GoToIs DEF Moves, Others, Points

\* A swap that neither joins nor leaves those inside, and no slot that changes.
LEMMA StepLook ==
  ASSUME FacesInv, NEW p \in Pipelines, Look(p)
  PROVE  FacesInv'
<1>0. FacesTyped
  BY FacesTypes DEF FacesInv
<1> DEFINE point == IF slots[Role(p)].path = Wants(p) THEN "test" ELSE "extract"
<1>1. /\ swaps' \in [Pipelines -> Swap] /\ Moves(p, point)
      /\ swaps'[p].got = swaps[p].got /\ swaps[p].at = "look"
      /\ UNCHANGED <<vendorThere, loaded, modules, slots>>
      /\ mixed' = [mixed EXCEPT ![Role(p)] = @ \/ Meets(p)]
  BY <1>0, MovesIs DEF Look, Points, At
<1> HIDE DEF point
<1>2. FacesTypeOK'
  BY <1>0, <1>1 DEF FacesInv, FacesTypeOK, FacesTyped, Swap, Slot
<1>3. LoadedInv'
  BY <1>1 DEF FacesInv, LoadedInv, Moves, Others, At
<1>4. ExtractInv'
  BY <1>1 DEF FacesInv, ExtractInv, Moves, Others, Role, Wants, point
<1>5. ASSUME NEW r \in Roles, ~mixed'[r] PROVE SlotInv(r)'
  <2>1. ~mixed[r] /\ SlotInv(r) /\ (Role(p) = r => ~Meets(p))
    BY <1>0, <1>1, <1>5 DEF FacesInv, FacesTyped
  <2>2. CASE swaps[p].role # r
    BY <1>1, <2>1, <2>2 DEF SlotInv, Inside, Busy, Done, At, Points, Moves, Others, point
  <2>3. CASE swaps[p].role = r
    BY <1>1, <2>1, <2>3 DEF SlotInv, Inside, Busy, Done, At, Points, Moves, Others, Meets, Role, Wants, point
  <2> QED
    BY <2>2, <2>3
<1> QED
  BY <1>2, <1>3, <1>4, <1>5 DEF FacesInv

\* The path is compared, and the face tested for None.
LEMMA StepTest ==
  ASSUME FacesInv, NEW p \in Pipelines, Test(p)
  PROVE  FacesInv'
<1>0. FacesTyped
  BY FacesTypes DEF FacesInv
<1> DEFINE point == IF slots[Role(p)].face # NoFace THEN "take" ELSE "extract"
<1>1. /\ swaps' \in [Pipelines -> Swap] /\ Moves(p, point)
      /\ swaps'[p].got = swaps[p].got /\ swaps[p].at = "test"
      /\ UNCHANGED <<vendorThere, loaded, modules, slots, mixed>>
  BY <1>0, MovesIs DEF Test, Points, At
<1>p. point \in {"take", "extract"}
  OBVIOUS
<1> HIDE DEF point
<1>2. FacesTypeOK'
  BY <1>0, <1>1 DEF FacesInv, FacesTypeOK, FacesTyped, Swap, Slot
<1>3. LoadedInv'
  BY <1>1, <1>p DEF FacesInv, LoadedInv, Moves, Others, At
<1>4. ExtractInv'
  BY <1>1, <1>p DEF FacesInv, ExtractInv, Moves, Others, Role, Wants
<1>5. ASSUME NEW r \in Roles, ~mixed'[r] PROVE SlotInv(r)'
  <2>1. SlotInv(r)
    BY <1>1, <1>5 DEF FacesInv
  <2> QED
    BY <1>1, <1>p, <2>1 DEF SlotInv, Inside, Busy, Done, At, Points, Moves, Others
<1> QED
  BY <1>2, <1>3, <1>4, <1>5 DEF FacesInv

\* A pipeline gets a face.
LEMMA GetsIs ==
  ASSUME FacesTyped, NEW p \in Pipelines, NEW face \in Faces, Got(p, face)
  PROVE  swaps' \in [Pipelines -> Swap] /\ Gets(p, face)
BY GotIs DEF Gets, Others

\* The face a swap gets is its image's: what follows is the same whether it was
\* taken or extracted.
LEMMA SlotGets ==
  ASSUME FacesTyped, NEW p \in Pipelines, NEW face \in Faces, Gets(p, face),
         swaps[p].at \in Points, NEW r \in Roles, SlotInv(r),
         swaps[p].role = r => Own(face, swaps[p].want[r]),
         \/ swaps[p].at # "stamp" /\ slots' = slots
         \/ /\ slots'[r].face = slots[r].face
            /\ slots'[r].path = IF swaps[p].role = r THEN swaps[p].want[r] ELSE slots[r].path
            /\ swaps[p].role = r => ~Meets(p)
            /\ swaps[p].at = "stamp"
  PROVE  SlotInv(r)'
<1>r. Roles = {"source", "target"} /\ swaps[p].role \in Roles
  BY SwapOps DEF FacesTyped, Roles
<1>1. \A q \in Pipelines : Inside(q, r)' => q # p /\ Inside(q, r) /\ swaps'[q] = swaps[q]
  BY <1>r DEF Gets, Others, Inside, Busy, Points
<1>2. \A q \in Pipelines : Done(q, r)' => Own(swaps'[q].got[r], swaps'[q].want[r])
  <2> SUFFICES ASSUME NEW q \in Pipelines, Done(q, r)'
               PROVE  Own(swaps'[q].got[r], swaps'[q].want[r])
    OBVIOUS
  <2>1. CASE q # p
    BY <2>1 DEF Gets, Others, Done, At, SlotInv
  <2>2. CASE q = p /\ swaps[p].role = r
    BY <2>2 DEF Gets
  <2>3. CASE q = p /\ swaps[p].role # r
    <3>1. swaps[p].role = "target" /\ r = "source"
      BY <1>r, <2>3 DEF Gets, Done, At, Points
    <3>2. Done(p, r)
      BY <3>1 DEF Done
    <3> QED
      BY <2>3, <3>2 DEF Gets, SlotInv
  <2> QED
    BY <2>1, <2>2, <2>3
<1>3. \A q \in Pipelines : Busy(q, r)' /\ swaps'[q].at \in {"test", "take"} =>
         slots'[r].path = swaps'[q].want[r]
  <2> SUFFICES ASSUME NEW q \in Pipelines, Busy(q, r)', swaps'[q].at \in {"test", "take"}
               PROVE  slots'[r].path = swaps'[q].want[r]
    OBVIOUS
  <2>1. Inside(q, r)'
    BY DEF Inside
  <2>2. q # p /\ Inside(q, r) /\ swaps'[q] = swaps[q]
    BY <1>1, <2>1
  <2>3. slots[r].path = swaps[q].want[r]
    BY <2>2 DEF Inside, SlotInv
  <2>4. swaps[p].role = r /\ swaps[p].at = "stamp" => swaps[p].want[r] = swaps[q].want[r]
    BY <2>2, <1>r DEF SlotInv, Inside, Busy, Points
  <2> QED
    BY <2>2, <2>3, <2>4
<1>4. \/ Own(slots'[r].face, slots'[r].path)
      \/ \E q \in Pipelines : At(q, "stamp")' /\ swaps'[q].role = r
  <2>1. CASE swaps[p].role = r /\ swaps[p].at = "stamp"
    <3>1. Own(slots[r].face, swaps[p].want[r])
      BY <2>1 DEF SlotInv, At
    <3> QED
      BY <2>1, <3>1
  <2>2. CASE ~(swaps[p].role = r /\ swaps[p].at = "stamp")
    BY <2>2 DEF SlotInv, Gets, Others, At
  <2> QED
    BY <2>1, <2>2
<1>5. \A q, t \in Pipelines : Inside(q, r)' /\ Inside(t, r)' => swaps'[q].want[r] = swaps'[t].want[r]
  BY <1>1 DEF SlotInv
<1>6. \A q \in Pipelines : At(q, "stamp")' /\ swaps'[q].role = r => Own(slots'[r].face, swaps'[q].want[r])
  <2> SUFFICES ASSUME NEW q \in Pipelines, At(q, "stamp")', swaps'[q].role = r
               PROVE  Own(slots'[r].face, swaps'[q].want[r])
    OBVIOUS
  <2>1. Inside(q, r)'
    BY DEF Inside, Busy, Points, At
  <2>2. swaps'[q] = swaps[q]
    BY <1>1, <2>1
  <2>3. At(q, "stamp") /\ swaps[q].role = r
    BY <2>2 DEF At
  <2> QED
    BY <2>2, <2>3 DEF SlotInv
<1> QED
  BY <1>2, <1>3, <1>4, <1>5, <1>6 DEF SlotInv

\* Who has looked or loaded goes on, with the types.
LEMMA GetsTyped ==
  ASSUME FacesInv, NEW p \in Pipelines, NEW face \in Faces, Gets(p, face), swaps[p].at \in Points,
         swaps' \in [Pipelines -> Swap], slots' \in [Roles -> Slot], mixed' \in [Roles -> BOOLEAN],
         UNCHANGED <<vendorThere, loaded, modules>>
  PROVE  FacesTypeOK' /\ LoadedInv' /\ ExtractInv'
<1>1. FacesTypeOK'
  BY DEF FacesInv, FacesTypeOK, Swap, Slot
<1>2. LoadedInv'
  BY DEF FacesInv, LoadedInv, Gets, Others, At, Points
<1>3. ExtractInv'
  BY DEF FacesInv, ExtractInv, Gets, Others, Role, Wants
<1> QED
  BY <1>1, <1>2, <1>3

\* The face of the slot is taken.
LEMMA StepTake ==
  ASSUME FacesInv, NEW p \in Pipelines, Take(p)
  PROVE  FacesInv'
<1>0. FacesTyped
  BY FacesTypes DEF FacesInv
<1> DEFINE face == slots[Role(p)].face
<1>1. /\ Got(p, face) /\ swaps[p].at = "take" /\ UNCHANGED <<vendorThere, loaded, modules, slots, mixed>>
      /\ swaps[p].at \in Points /\ swaps[p].role \in Roles
  BY <1>0, SwapOps DEF Take, At, Points, FacesTyped
<1>2. face \in Faces
  <2>1. \A x \in Slot : x.face \in Faces
    BY DEF Slot
  <2> QED
    BY <1>0, <1>1, <2>1 DEF FacesTyped, Role
<1>3. swaps' \in [Pipelines -> Swap] /\ Gets(p, face)
  BY <1>0, <1>1, <1>2, GetsIs
<1>4. ASSUME NEW r \in Roles, ~mixed'[r] PROVE SlotInv(r)'
  <2>1. SlotInv(r)
    BY <1>1, <1>4 DEF FacesInv
  <2>2. ASSUME swaps[p].role = r PROVE Own(face, swaps[p].want[r])
    <3>1. slots[r].path = swaps[p].want[r] /\ Inside(p, r)
      BY <1>1, <2>1, <2>2 DEF SlotInv, Busy, Inside
    <3>2. Own(face, slots[r].path) \/ \E q \in Pipelines : Inside(q, r) /\ Own(face, swaps[q].want[r])
      BY <2>1, <2>2 DEF SlotInv, Inside, Busy, At, Points, Role
    <3> QED
      BY <2>1, <3>1, <3>2 DEF SlotInv
  <2> HIDE DEF face
  <2> QED
    BY <1>0, <1>1, <1>2, <1>3, <2>1, <2>2, SlotGets
<1>5. FacesTypeOK' /\ LoadedInv' /\ ExtractInv'
  BY <1>0, <1>1, <1>2, <1>3, GetsTyped DEF FacesTyped
<1> QED
  BY <1>4, <1>5 DEF FacesInv

\* The vendor extracts a face.
LEMMA StepExtract ==
  ASSUME FacesInv, NEW p \in Pipelines, Extract(p)
  PROVE  FacesInv'
<1>0. FacesTyped
  BY FacesTypes DEF FacesInv
<1>1. PICK face \in {NoFace, Wants(p)} :
         Go(p, [swaps[p] EXCEPT !.at = "store", !.got[Role(p)] = face])
  BY DEF Extract
<1>2. /\ swaps[p].at = "extract" /\ UNCHANGED <<vendorThere, loaded, slots, mixed>>
      /\ modules' = modules \/ modules' = modules \cup {"analyser"}
  BY DEF Extract, At
<1>3. swaps[p] \in Swap /\ swaps[p].role \in Roles /\ Wants(p) \in Images
  BY <1>0, <1>2, SwapOps DEF FacesTyped, FacesInv, LoadedInv, At, Wants, Role
<1> DEFINE s == [swaps[p] EXCEPT !.at = "store", !.got[Role(p)] = face]
<1>4. /\ s \in Swap /\ s.at = "store" /\ s.role = swaps[p].role /\ s.want = swaps[p].want
      /\ s.got = [swaps[p].got EXCEPT ![swaps[p].role] = face]
  BY <1>3 DEF Swap, Role, Points, Faces
<1>5. Go(p, s)
  BY <1>1
<1>6. s.got[swaps[p].role] = face /\ \A r \in Roles : r # swaps[p].role => s.got[r] = swaps[p].got[r]
  <2>1. swaps[p].got \in [Roles -> Faces]
    BY <1>3, SwapOps
  <2> QED
    BY <1>3, <1>4, <2>1
<1> HIDE DEF s
<1>7. swaps' \in [Pipelines -> Swap] /\ swaps'[p] = s /\ \A q \in Pipelines : q # p => swaps'[q] = swaps[q]
  BY <1>0, <1>4, <1>5, GoIs
<1>8. FacesTypeOK'
  <2>1. loaded
    BY <1>2 DEF FacesInv, LoadedInv, At
  <2> QED
    BY <1>2, <1>7, <2>1 DEF FacesInv, FacesTypeOK, Swap, Slot
<1>9. LoadedInv'
  BY <1>2, <1>4, <1>7 DEF FacesInv, LoadedInv, At
<1>10. ExtractInv'
  BY <1>4, <1>6, <1>7 DEF FacesInv, ExtractInv, Role, Wants, Own
<1>11. ASSUME NEW r \in Roles, ~mixed'[r] PROVE SlotInv(r)'
  <2>1. SlotInv(r)
    BY <1>2, <1>11 DEF FacesInv
  <2> QED
    <3>1. \A q \in Pipelines : /\ swaps'[q].want = swaps[q].want
                               /\ Inside(q, r)' <=> Inside(q, r)
                               /\ (Busy(q, r) /\ swaps[q].at \in {"test", "take"})'
                                    => Busy(q, r) /\ swaps[q].at \in {"test", "take"}
                               /\ (At(q, "stamp") /\ swaps[q].role = r)' <=> At(q, "stamp") /\ swaps[q].role = r
      BY <1>2, <1>4, <1>7 DEF Inside, Busy, At, Points
    <3>2. \A q \in Pipelines : Done(q, r)' => Done(q, r) /\ swaps'[q].got[r] = swaps[q].got[r]
      BY <1>2, <1>4, <1>6, <1>7 DEF Done, At, Points
    <3> QED
      BY <1>2, <2>1, <3>1, <3>2 DEF SlotInv
<1> QED
  BY <1>8, <1>9, <1>10, <1>11 DEF FacesInv

\* No other image's swap meets p over the slot: it may write it.
LEMMA StepStore ==
  ASSUME FacesInv, NEW p \in Pipelines, Store(p)
  PROVE  FacesInv'
<1>0. FacesTyped
  BY FacesTypes DEF FacesInv
<1> DEFINE face == swaps[p].got[Role(p)]
<1>1. /\ swaps' \in [Pipelines -> Swap] /\ Moves(p, "stamp")
      /\ swaps'[p].got = swaps[p].got /\ swaps[p].at = "store"
      /\ UNCHANGED <<vendorThere, loaded, modules>>
      /\ mixed' = [mixed EXCEPT ![Role(p)] = @ \/ Meets(p)]
      /\ slots' = [slots EXCEPT ![Role(p)].face = face]
  BY <1>0, MovesIs DEF Store, Points, At
<1>2. swaps[p].role \in Roles /\ face \in Faces
  BY <1>0, SwapFields DEF FacesTyped, Role
<1>3. /\ slots' \in [Roles -> Slot] /\ slots'[swaps[p].role].face = face
      /\ slots'[swaps[p].role].path = slots[swaps[p].role].path
      /\ \A r \in Roles : r # swaps[p].role => slots'[r] = slots[r]
  <2>1. slots \in [Roles -> Slot] /\ slots' = [slots EXCEPT ![swaps[p].role] = [@ EXCEPT !.face = face]]
    BY <1>0, <1>1 DEF FacesTyped, Role
  <2>2. [slots[swaps[p].role] EXCEPT !.face = face] \in Slot
    BY <1>2, <2>1 DEF Slot
  <2> HIDE DEF face
  <2> QED
    BY <1>2, <2>1, <2>2 DEF Slot
<1>4. Own(face, swaps[p].want[swaps[p].role])
  BY <1>1 DEF FacesInv, ExtractInv, Role, Wants
<1> HIDE DEF face
<1>5. FacesTypeOK'
  BY <1>0, <1>1, <1>3 DEF FacesInv, FacesTypeOK, FacesTyped, Swap, Slot
<1>6. LoadedInv'
  BY <1>1 DEF FacesInv, LoadedInv, Moves, Others, At
<1>7. ExtractInv'
  BY <1>1 DEF FacesInv, ExtractInv, Moves, Others, Role, Wants
<1>8. ASSUME NEW r \in Roles, ~mixed'[r] PROVE SlotInv(r)'
  <2>1. ~mixed[r] /\ SlotInv(r) /\ (Role(p) = r => ~Meets(p))
    BY <1>0, <1>1, <1>8 DEF FacesInv, FacesTyped
  <2>2. CASE swaps[p].role # r
    <3>1. \A q \in Pipelines : /\ swaps'[q].want = swaps[q].want /\ swaps'[q].role = swaps[q].role
                               /\ swaps'[q].got = swaps[q].got
                               /\ Inside(q, r)' <=> Inside(q, r)
                               /\ (Busy(q, r) /\ swaps[q].at \in {"test", "take"})'
                                    => Busy(q, r) /\ swaps[q].at \in {"test", "take"}
                               /\ (At(q, "stamp") /\ swaps[q].role = r)' <=> At(q, "stamp") /\ swaps[q].role = r
                               /\ Done(q, r)' => Done(q, r)
      BY <1>1, <2>2 DEF Moves, Others, Inside, Busy, At, Points, Done
    <3> QED
      BY <1>3, <2>1, <2>2, <3>1 DEF SlotInv
  <2>3. CASE swaps[p].role = r
    <3>1. \A q \in Pipelines : Busy(q, r) => swaps[q].want[r] = swaps[p].want[r]
      BY <2>1, <2>3 DEF Meets, Role, Wants, Busy
    <3>2. \A q \in Pipelines : /\ swaps'[q].want = swaps[q].want /\ swaps'[q].role = swaps[q].role
                               /\ Busy(q, r)' <=> Busy(q, r)
                               /\ q # p => swaps'[q] = swaps[q]
      BY <1>1 DEF Moves, Others, Busy, Points
    <3>3. \A q \in Pipelines : At(q, "stamp")' /\ swaps'[q].role = r => Own(slots'[r].face, swaps'[q].want[r])
      BY <1>3, <1>4, <2>3, <3>1, <3>2 DEF At, Busy, Points
    <3>4. \E q \in Pipelines : At(q, "stamp")' /\ swaps'[q].role = r
      BY <1>1, <2>3 DEF Moves, At
    <3>5. \A q \in Pipelines : Done(q, r)' => Own(swaps'[q].got[r], swaps'[q].want[r])
      BY <1>1, <2>1, <2>3 DEF Done, At, Points, Moves, Others, SlotInv
    <3>6. \A q \in Pipelines : Busy(q, r)' /\ swaps'[q].at \in {"test", "take"} =>
            slots'[r].path = swaps'[q].want[r]
      BY <1>1, <1>3, <2>1, <2>3, <3>2 DEF Moves, SlotInv
    <3>7. \A q, t \in Pipelines : Inside(q, r)' /\ Inside(t, r)' => swaps'[q].want[r] = swaps'[t].want[r]
      BY <3>1, <3>2 DEF Inside
    <3> QED
      BY <3>3, <3>4, <3>5, <3>6, <3>7 DEF SlotInv
  <2> QED
    BY <2>2, <2>3
<1> QED
  BY <1>5, <1>6, <1>7, <1>8 DEF FacesInv

\* The slot is told apart again when an image is stamped on it by itself.
LEMMA StepStamp ==
  ASSUME FacesInv, NEW p \in Pipelines, Stamp(p)
  PROVE  FacesInv'
<1>0. FacesTyped
  BY FacesTypes DEF FacesInv
<1> DEFINE role == swaps[p].role
           face == swaps[p].got[role]
           alone == \A q \in Pipelines \ {p} : At(q, "idle")
           slot == [slots[role] EXCEPT !.path = Wants(p)]
<1>1. /\ Got(p, face) /\ swaps[p].at = "stamp" /\ UNCHANGED <<vendorThere, loaded, modules>>
      /\ slots' = [slots EXCEPT ![role] = slot]
      /\ mixed' = [mixed EXCEPT ![role] =
                 Meets(p) \/ (@ /\ (slot.face \notin {NoFace, slot.path} \/ ~alone))]
      /\ swaps[p].at \in Points
  BY DEF Stamp, At, Role, Points
<1>2. role \in Roles /\ face \in Faces /\ Wants(p) \in Images \cup {NoImage}
  BY <1>0, SwapFields DEF FacesTyped, Role, Wants
<1>3. Own(face, swaps[p].want[role])
  BY <1>1 DEF FacesInv, ExtractInv, Role, Wants
<1> HIDE DEF face
<1>4. swaps' \in [Pipelines -> Swap] /\ Gets(p, face)
  BY <1>0, <1>1, <1>2, GetsIs
<1>5. /\ slot \in Slot /\ slot.face = slots[role].face /\ slot.path = swaps[p].want[role]
  <2>1. slots[role] \in Slot
    BY <1>0, <1>2 DEF FacesTyped
  <2>2. slot.path = Wants(p) /\ slot \in Slot /\ slot.face = slots[role].face
    BY <1>2, <2>1 DEF Slot
  <2> QED
    BY <2>2 DEF Wants, Role
<1> HIDE DEF slot
<1>6. /\ slots' \in [Roles -> Slot] /\ slots'[role] = slot
      /\ \A r \in Roles : r # role => slots'[r] = slots[r]
  BY <1>0, <1>1, <1>2, <1>5 DEF FacesTyped
<1>7. mixed' \in [Roles -> BOOLEAN] /\ \A r \in Roles : r # role => mixed'[r] = mixed[r]
  BY <1>0, <1>1, <1>2 DEF FacesTyped
<1>8. ~mixed'[role] => ~Meets(p) /\ (~mixed[role] \/ (alone /\ Own(slot.face, slot.path)))
  BY <1>0, <1>1, <1>2 DEF FacesTyped, Own
<1>9. ASSUME NEW r \in Roles, ~mixed'[r] PROVE SlotInv(r)'
  <2>1. CASE ~mixed[r]
    <3>1. SlotInv(r)
      BY <2>1 DEF FacesInv
    <3>2. /\ slots'[r].face = slots[r].face
          /\ slots'[r].path = IF swaps[p].role = r THEN swaps[p].want[r] ELSE slots[r].path
      BY <1>5, <1>6
    <3>3. swaps[p].role = r => ~Meets(p) /\ Own(face, swaps[p].want[r])
      BY <1>3, <1>8, <1>9
    <3> HIDE DEF role
    <3> QED
      BY <1>0, <1>1, <1>2, <1>4, <3>1, <3>2, <3>3, SlotGets
  <2>2. CASE mixed[r]
    <3>1. r = role /\ alone /\ Own(slot.face, slot.path)
      BY <1>7, <1>8, <1>9, <2>2
    <3>2. \A q \in Pipelines : q # p => swaps'[q].at = "idle"
      BY <1>4, <3>1 DEF Gets, Others, At
    <3>3. ~Inside(p, r)' /\ swaps'[p].at # "stamp"
      BY <1>4, <3>1 DEF Gets, Inside, Busy, Points
    <3>4. \A q \in Pipelines : ~Inside(q, r)' /\ swaps'[q].at # "stamp"
      BY <3>2, <3>3 DEF Inside, Busy, Points
    <3>5. \A q \in Pipelines : Done(q, r)' => Own(swaps'[q].got[r], swaps'[q].want[r])
      BY <1>3, <1>4, <3>1, <3>2 DEF Done, At, Points, Gets
    <3> QED
      BY <1>6, <3>1, <3>4, <3>5 DEF SlotInv, Inside, At
  <2> QED
    BY <2>1, <2>2
<1>10. FacesTypeOK' /\ LoadedInv' /\ ExtractInv'
  BY <1>1, <1>2, <1>4, <1>6, <1>7, GetsTyped
<1> QED
  BY <1>9, <1>10 DEF FacesInv

\* No slot has a face, and no pipeline swaps.
LEMMA FacesInitial == FacesInit => FacesInv
<1> SUFFICES ASSUME FacesInit PROVE FacesInv
  OBVIOUS
<1>1. \A p \in Pipelines : swaps[p] = AtRest /\ swaps[p].at = "idle"
  BY RestIs DEF FacesInit
<1>2. FacesTypeOK
  BY RestIs DEF FacesInit, FacesTypeOK, Faces, Swap
<1>3. LoadedInv /\ ExtractInv
  BY <1>1 DEF LoadedInv, ExtractInv, At
<1>4. ASSUME NEW r \in Roles PROVE SlotInv(r)
  <2>1. Own(slots[r].face, slots[r].path)
    BY DEF FacesInit, Own
  <2> QED
    BY <1>1, <2>1 DEF SlotInv, Inside, Busy, Done, At, Points
<1> QED
  BY <1>2, <1>3, <1>4 DEF FacesInv

\* A swap uses the faces of its own images, or none, unless swaps of other images
\* overlapped it in the cache.  base_daemon.py:82-134, 220-232.
THEOREM Faced == FacesSpec => [](FacesTypeOK /\ OwnFace)
<1>1. FacesInv /\ [FacesNext]_facesVars => FacesInv'
  <2> SUFFICES ASSUME FacesInv, [FacesNext]_facesVars PROVE FacesInv'
    OBVIOUS
  <2>1. CASE VendorChanges
    BY <2>1 DEF VendorChanges, FacesInv, FacesTypeOK, LoadedInv, ExtractInv, SlotInv,
         Inside, Busy, Done, At, Role, Wants
  <2>2. CASE UNCHANGED facesVars
    BY <2>2 DEF facesVars, FacesInv, FacesTypeOK, LoadedInv, ExtractInv, SlotInv,
         Inside, Busy, Done, At, Role, Wants
  <2> QED
    BY <2>1, <2>2, StepRests, StepLook, StepTest, StepTake, StepExtract, StepStore, StepStamp
       DEF FacesNext
<1>2. FacesInv => FacesTypeOK /\ OwnFace
  BY DEF FacesInv, OwnFace, SlotInv, Done, Own
<1> QED
  BY FacesInitial, <1>1, <1>2, PTL DEF FacesSpec

-----------------------------------------------------------------------------
(***************************************************************************)
(* Perception: the landmarker sees the frames in the order they were taken. *)
(***************************************************************************)

Rolls == {"push", "pop", "test"} \X Buffers
ToDetect == << <<"detect">> >>
Frame == [stamp : 0 .. StampMax, image : Pictures, rival : BOOLEAN, todo : {ToDetect} \cup Seq(Rolls)]

FramesTyped ==
  /\ frames \in [FrameThreads -> Frame]
  /\ lastStamp \in 0 .. StampMax /\ newest \in 0 .. StampMax

\* Only the frame of a thread that has none is stamped 0.
Taken(w) == frames[w].stamp # 0
TakenInv == \A w \in FrameThreads : ~Taken(w) => Free(w)

\* A frame that no rival has met is the newest of those in hand, and newer than
\* what the landmarker took; until it takes it.
OrderInv ==
  /\ lastStamp <= newest
  /\ \A w \in FrameThreads : Taken(w) =>
       /\ frames[w].stamp <= newest
       /\ ~frames[w].rival =>
            /\ frames[w].todo = ToDetect => lastStamp < frames[w].stamp
            /\ \A v \in FrameThreads : v # w /\ Taken(v) => frames[v].stamp < frames[w].stamp

SeenInv == FramesTyped /\ TakenInv /\ OrderInv /\ SeenInOrder

-----------------------------------------------------------------------------
\* What a frame has still to do: to be detected, or rolls of the buffers.
LEMMA PlansAre ==
  /\ Pushes \in Seq(Rolls) /\ <<>> \in Seq(Rolls)
  /\ \A b : Pops(b) \in Seq(Rolls)
  /\ ToDetect # <<>> /\ Pushes # ToDetect
  /\ \A ops \in Seq(Rolls) : ops # <<>> => ops[1] \in Rolls /\ ops[1] # <<"detect">> /\ ops # ToDetect
<1>1. \A r \in Rolls : r[1] # "detect" /\ r # <<"detect">>
  BY DEF Rolls
<1>2. Pushes \in Seq(Rolls) /\ <<>> \in Seq(Rolls)
  BY DEF Pushes, Rolls, Buffers, Pose
<1>3. \A b : Pops(b) \in Seq(Rolls)
  <2>1. << <<"pop", "blink">> >> \in Seq(Rolls)
    BY DEF Rolls, Buffers, Pose
  <2>2. << <<"pop", "yaw">>, <<"pop", "pitch">>, <<"pop", "ear">> >> \in Seq(Rolls)
    BY DEF Rolls, Buffers, Pose
  <2> QED
    BY <2>1, <2>2 DEF Pops
<1>4. ASSUME NEW ops \in Seq(Rolls), ops # <<>>
      PROVE  ops[1] \in Rolls /\ ops[1] # <<"detect">> /\ ops # ToDetect
  <2>1. ops[1] \in Rolls
    BY <1>4
  <2> QED
    BY <1>1, <2>1 DEF ToDetect
<1>5. ToDetect # <<>> /\ Pushes # <<>>
  BY DEF ToDetect, Pushes
<1> QED
  BY <1>2, <1>3, <1>4, <1>5

\* The fields of a frame in hand.
LEMMA FrameFields ==
  \A f \in Frame : /\ f.stamp \in 0 .. StampMax /\ f.stamp \in Nat
                   /\ f.image \in Pictures /\ f.rival \in BOOLEAN
                   /\ f.todo \in {ToDetect} \cup Seq(Rolls)
BY PerceptionAssumption DEF Frame

\* A frame goes on to what is left.
LEMMA FrameOps ==
  ASSUME NEW f \in Frame, NEW ops \in Seq(Rolls)
  PROVE  LET g == [f EXCEPT !.todo = ops] IN
         g \in Frame /\ g.stamp = f.stamp /\ g.image = f.image /\ g.rival = f.rival /\ g.todo = ops
BY DEF Frame

\* A frame meets a rival.
LEMMA FrameMet ==
  ASSUME NEW f \in Frame, NEW r \in BOOLEAN
  PROVE  LET g == [f EXCEPT !.rival = r] IN
         /\ g \in Frame /\ g.stamp = f.stamp /\ g.image = f.image /\ g.rival = r /\ g.todo = f.todo
         /\ r = f.rival => g = f
BY DEF Frame

\* A thread without a frame.
LEMMA NoFrameIs ==
  /\ NoFrame \in Frame /\ NoFrame.stamp = 0 /\ ~NoFrame.rival
  /\ [NoFrame EXCEPT !.rival = FALSE] = NoFrame
<1>1. NoFrame \in Frame
  BY PerceptionAssumption, PlansAre DEF NoFrame, Frame, Pictures
<1>2. NoFrame.stamp = 0 /\ ~NoFrame.rival
  BY DEF NoFrame
<1>3. [NoFrame EXCEPT !.rival = FALSE] = NoFrame
  <2>1. NoFrame.rival = FALSE
    BY DEF NoFrame
  <2> QED
    BY <1>1, <2>1, FrameMet
<1> QED
  BY <1>1, <1>2, <1>3

\* No thread has a frame.
LEMMA SeenInitial == PerceptionInit => SeenInv
<1> SUFFICES ASSUME PerceptionInit PROVE SeenInv
  OBVIOUS
<1>1. FramesTyped
  BY NoFrameIs, PerceptionAssumption DEF PerceptionInit, FramesTyped
<1>2. OrderInv /\ SeenInOrder
  BY NoFrameIs DEF PerceptionInit, OrderInv, Taken, SeenInOrder
<1> QED
  BY <1>1, <1>2 DEF SeenInv, TakenInv, PerceptionInit, Free

\* A frame is posted: it is newer than all in hand, or they meet.
LEMMA StepPost ==
  ASSUME SeenInv, NEW w \in FrameThreads, NEW s \in Stamps, NEW image \in Pictures,
         PostFrame(w, s, image)
  PROVE  SeenInv'
<1> DEFINE f == [stamp |-> s, image |-> image, rival |-> s <= newest, todo |-> << <<"detect">> >>]
           met(v) == ~Free(v) /\ (frames[v].rival \/ frames[v].stamp <= s)
<1>1. s \in 1 .. StampMax /\ StampMax \in Nat /\ lastStamp \in 0 .. StampMax /\ newest \in 0 .. StampMax
  BY PerceptionAssumption DEF Stamps, SeenInv, FramesTyped
<1>2. f \in Frame /\ f.stamp = s /\ f.rival = (s <= newest) /\ f.todo = ToDetect /\ f # NoFrame
  BY <1>1 DEF Frame, ToDetect, NoFrame
<1> HIDE DEF f
<1>3. \A v \in FrameThreads : frames[v] \in Frame
  BY DEF SeenInv, FramesTyped
<1>4. frames' = [v \in FrameThreads |-> IF v = w THEN f ELSE [frames[v] EXCEPT !.rival = met(v)]]
  BY DEF PostFrame, f
<1>5. \A v \in FrameThreads : met(v) \in BOOLEAN
  BY <1>3, FrameOps, PlansAre
<1>6. ASSUME NEW v \in FrameThreads, v # w
      PROVE  /\ frames'[v] \in Frame /\ frames'[v].stamp = frames[v].stamp
             /\ frames'[v].rival = met(v) /\ frames'[v].todo = frames[v].todo
             /\ Free(v) => frames'[v] = NoFrame
  <2> HIDE DEF met
  <2>1. frames'[v] = [frames[v] EXCEPT !.rival = met(v)]
    BY <1>4, <1>6
  <2>2. /\ frames'[v] \in Frame /\ frames'[v].stamp = frames[v].stamp
        /\ frames'[v].rival = met(v) /\ frames'[v].todo = frames[v].todo
    <3>1. frames[v] \in Frame /\ met(v) \in BOOLEAN /\ <<>> \in Seq(Rolls)
      BY <1>3, <1>5, PlansAre
    <3>2. LET g == [frames[v] EXCEPT !.rival = met(v)] IN
            g \in Frame /\ g.stamp = frames[v].stamp /\ g.rival = met(v) /\ g.todo = frames[v].todo
      BY <3>1, FrameMet
    <3> QED
      BY <2>1, <3>2
  <2>3. ASSUME Free(v) PROVE frames'[v] = NoFrame
    <3>1. met(v) = FALSE
      BY <2>3 DEF met
    <3> QED
      BY <2>1, <2>3, <3>1, NoFrameIs DEF Free
  <2> QED
    BY <2>2, <2>3
<1>7. frames'[w] = f /\ frames' \in [FrameThreads -> Frame]
  BY <1>2, <1>4, <1>6
<1>8. UNCHANGED <<lastStamp, tracking, report>> /\ newest' = (IF s > newest THEN s ELSE newest)
  BY DEF PostFrame
<1>9. FramesTyped'
  BY <1>1, <1>7, <1>8 DEF FramesTyped
<1>10. TakenInv'
  BY <1>1, <1>2, <1>6, <1>7 DEF SeenInv, TakenInv, Taken, Free
<1>11. OrderInv'
  <2>1. lastStamp' <= newest' /\ newest <= newest' /\ s <= newest' /\ newest' \in Nat
    BY <1>1, <1>8 DEF SeenInv, OrderInv
  <2>2. ASSUME NEW u \in FrameThreads, Taken(u)'
        PROVE  /\ frames'[u].stamp <= newest'
               /\ ~frames'[u].rival =>
                    /\ frames'[u].todo = ToDetect => lastStamp' < frames'[u].stamp
                    /\ \A v \in FrameThreads : v # u /\ Taken(v)' => frames'[v].stamp < frames'[u].stamp
    <3>t. \A v \in FrameThreads : frames[v].stamp \in Nat /\ frames[v].rival \in BOOLEAN
      BY <1>3, FrameFields
    <3>1. CASE u = w
      <4>1. \A v \in FrameThreads : v # w /\ Taken(v)' => frames[v].stamp <= newest /\ frames'[v].stamp = frames[v].stamp
        BY <1>6 DEF SeenInv, OrderInv, Taken
      <4>2. frames'[u].stamp = s /\ (frames'[u].rival <=> s <= newest)
        BY <1>2, <1>7, <3>1
      <4>3. ASSUME ~frames'[u].rival
            PROVE  lastStamp' < s /\ newest < s
        BY <1>1, <1>8, <4>2, <4>3 DEF SeenInv, OrderInv
      <4> QED
        BY <1>1, <2>1, <3>1, <3>t, <4>1, <4>2, <4>3
    <3>2. CASE u # w
      <4>1. /\ frames'[u].stamp = frames[u].stamp /\ frames'[u].todo = frames[u].todo /\ Taken(u)
            /\ frames[u].stamp <= newest
        BY <1>6, <2>2, <3>2 DEF SeenInv, OrderInv, Taken
      <4>2. frames'[u].rival = met(u) /\ ~Free(u)
        BY <1>6, <3>2, <4>1, NoFrameIs DEF Taken, Free
      <4>3. ~frames'[u].rival => ~frames[u].rival /\ s < frames[u].stamp
        <5>1. frames'[u].rival <=> frames[u].rival \/ frames[u].stamp <= s
          BY <1>6, <3>2, <4>2
        <5> QED
          BY <1>1, <3>t, <5>1
      <4> HIDE DEF met
      <4>4. ASSUME ~frames'[u].rival, NEW v \in FrameThreads, v # u, Taken(v)'
            PROVE  frames'[v].stamp < frames'[u].stamp
        <5>1. CASE v = w
          BY <1>2, <1>7, <4>1, <4>3, <4>4, <5>1
        <5>2. CASE v # w
          BY <1>6, <4>1, <4>3, <4>4, <5>2 DEF SeenInv, OrderInv, Taken
        <5> QED
          BY <5>1, <5>2
      <4> QED
        BY <1>1, <1>8, <2>1, <3>t, <4>1, <4>3, <4>4 DEF SeenInv, OrderInv
    <3> QED
      BY <3>1, <3>2
  <2> QED
    BY <2>1, <2>2 DEF OrderInv, ToDetect
<1> QED
  BY <1>8, <1>9, <1>10, <1>11 DEF SeenInv, SeenInOrder

\* A thread that reports its frame has none left.
LEMMA ReportIs ==
  ASSUME SeenInv, NEW w \in FrameThreads, NEW seen \in BOOLEAN, Report(w, seen),
         lastStamp' \in 0 .. StampMax, newest' = newest, tracking' = tracking,
         lastStamp' = lastStamp \/ lastStamp' = frames[w].stamp,
         lastStamp' # lastStamp => Taken(w),
         tracking /\ frames[w].image = "face" /\ ~seen => frames[w].rival
  PROVE  SeenInv'
<1>1. /\ frames' = [frames EXCEPT ![w] = NoFrame]
      /\ report' = [image |-> frames[w].image, rival |-> frames[w].rival, detected |-> seen]
  BY DEF Report
<1>2. /\ frames' \in [FrameThreads -> Frame] /\ frames'[w] = NoFrame
      /\ \A v \in FrameThreads : v # w => frames'[v] = frames[v]
  BY <1>1, NoFrameIs DEF SeenInv, FramesTyped
<1>3. FramesTyped' /\ TakenInv'
  BY <1>2 DEF SeenInv, FramesTyped, TakenInv, Taken, Free
<1>4. \A v \in FrameThreads : Taken(v)' => v # w /\ Taken(v) /\ frames'[v] = frames[v]
  BY <1>2, NoFrameIs DEF Taken
<1>5. OrderInv'
  BY <1>4 DEF SeenInv, OrderInv, ToDetect
<1>6. SeenInOrder'
  BY <1>1 DEF SeenInOrder
<1> QED
  BY <1>3, <1>5, <1>6 DEF SeenInv

\* A thread that goes on with its frame.
LEMMA DoIs ==
  ASSUME SeenInv, NEW w \in FrameThreads, NEW ops \in Seq(Rolls), Do(w, ops), ~Free(w),
         lastStamp' \in 0 .. StampMax, UNCHANGED <<newest, report, tracking>>,
         lastStamp' = lastStamp \/ lastStamp' = frames[w].stamp
  PROVE  SeenInv'
<1>1. frames[w] \in Frame /\ frames' = [frames EXCEPT ![w] = [@ EXCEPT !.todo = ops]]
  BY DEF Do, SeenInv, FramesTyped
<1>2. /\ frames' \in [FrameThreads -> Frame]
      /\ frames'[w].stamp = frames[w].stamp /\ frames'[w].rival = frames[w].rival
      /\ frames'[w].todo = ops
      /\ \A v \in FrameThreads : v # w => frames'[v] = frames[v]
  <2>1. LET g == [frames[w] EXCEPT !.todo = ops] IN
          g \in Frame /\ g.stamp = frames[w].stamp /\ g.rival = frames[w].rival /\ g.todo = ops
    BY <1>1, FrameOps, Zenon
  <2>2. frames'[w] = [frames[w] EXCEPT !.todo = ops] /\ \A v \in FrameThreads : v # w => frames'[v] = frames[v]
    BY <1>1 DEF SeenInv, FramesTyped
  <2>3. frames' \in [FrameThreads -> Frame]
    BY <1>1, <2>1 DEF SeenInv, FramesTyped
  <2> QED
    BY <2>1, <2>2, <2>3
<1>3. ops # ToDetect
  BY PlansAre
<1>4. Taken(w)
  BY DEF SeenInv, TakenInv
<1>5. FramesTyped' /\ TakenInv'
  BY <1>2, <1>4 DEF SeenInv, FramesTyped, TakenInv, Taken, Free
<1>6. \A v \in FrameThreads : /\ Taken(v)' <=> Taken(v)
                              /\ frames'[v].stamp = frames[v].stamp
                              /\ frames'[v].rival <=> frames[v].rival
                              /\ v # w => frames'[v].todo = frames[v].todo
  BY <1>2 DEF Taken
<1>7. OrderInv'
  <2>1. lastStamp' <= newest'
    BY <1>4 DEF SeenInv, OrderInv
  <2>2. ASSUME NEW v \in FrameThreads, Taken(v)'
        PROVE  /\ frames'[v].stamp <= newest'
               /\ ~frames'[v].rival =>
                    /\ frames'[v].todo = ToDetect => lastStamp' < frames'[v].stamp
                    /\ \A u \in FrameThreads : u # v /\ Taken(u)' => frames'[u].stamp < frames'[v].stamp
    <3>t. /\ Taken(v) /\ frames'[v].stamp = frames[v].stamp
          /\ frames'[v].rival <=> frames[v].rival
          /\ v # w => frames'[v].todo = frames[v].todo
      BY <1>6, <2>2
    <3>u. \A u \in FrameThreads : /\ Taken(u)' => Taken(u)
                                  /\ frames'[u].stamp = frames[u].stamp
      BY <1>6
    <3>1. ASSUME ~frames'[v].rival, frames'[v].todo = ToDetect PROVE lastStamp' < frames'[v].stamp
      <4>1. v # w /\ Taken(v) /\ ~frames[v].rival /\ frames[v].todo = ToDetect
        BY <1>2, <1>3, <3>1, <3>t
      <4>2. lastStamp < frames[v].stamp /\ frames[w].stamp < frames[v].stamp
        BY <1>4, <4>1 DEF SeenInv, OrderInv
      <4> QED
        BY <3>t, <4>2
    <3> QED
      BY <3>t, <3>u, <3>1 DEF SeenInv, OrderInv
  <2> QED
    BY <2>1, <2>2 DEF OrderInv, ToDetect
<1> QED
  BY <1>5, <1>7 DEF SeenInv, SeenInOrder

\* Every step keeps the order of the frames.
LEMMA StepSeen ==
  ASSUME SeenInv, [PerceptionNext]_perceptionVars
  PROVE  SeenInv'
<1>0. lastStamp \in 0 .. StampMax /\ \A w \in FrameThreads : frames[w] \in Frame
  BY DEF SeenInv, FramesTyped
<1>1. ASSUME NEW w \in FrameThreads, Refuses(w) PROVE SeenInv'
  <2>1. Report(w, FALSE) /\ UNCHANGED <<tracking, lastStamp, newest>> /\ ~Free(w)
        /\ frames[w].todo # <<>> /\ frames[w].todo[1] = <<"detect">>
    BY <1>1 DEF Refuses, Due, Todo
  <2>2. frames[w].todo = ToDetect
    BY <1>0, <2>1, FrameFields, PlansAre
  <2>3. Taken(w)
    BY <2>1 DEF SeenInv, TakenInv
  <2>4. tracking /\ frames[w].image = "face" => ~(frames[w].stamp > lastStamp)
    BY <1>1 DEF Refuses, Newer
  <2>5. frames[w].stamp \in Nat /\ lastStamp \in Nat
    BY <1>0, FrameFields, PerceptionAssumption
  <2>6. tracking /\ frames[w].image = "face" => frames[w].rival
    BY <2>2, <2>3, <2>4, <2>5 DEF SeenInv, OrderInv
  <2> QED
    BY <1>0, <2>1, <2>3, <2>6, ReportIs
<1>2. ASSUME NEW w \in FrameThreads, Detects(w) PROVE SeenInv'
  <2>1. lastStamp' = frames[w].stamp /\ UNCHANGED <<tracking, newest>> /\ ~Free(w)
    BY <1>2 DEF Detects, Due
  <2>2. lastStamp' \in 0 .. StampMax /\ Taken(w)
    BY <1>0, <2>1, FrameFields DEF SeenInv, TakenInv
  <2>3. CASE frames[w].image = "face"
    <3>1. Do(w, Pushes) /\ UNCHANGED report
      BY <1>2, <2>3 DEF Detects
    <3> QED
      BY <2>1, <2>2, <3>1, DoIs, PlansAre
  <2>4. CASE frames[w].image # "face"
    <3>1. Report(w, FALSE)
      BY <1>2, <2>4 DEF Detects
    <3> QED
      BY <2>1, <2>2, <2>4, <3>1, ReportIs
  <2> QED
    BY <2>3, <2>4
<1>3. ASSUME NEW w \in FrameThreads, Roll(w) PROVE SeenInv'
  <2> DEFINE more == IF Todo(w)[1][1] = "test" /\ buffers[Todo(w)[1][2]] > Window THEN Pops(Todo(w)[1][2]) ELSE <<>>
  <2>1. Do(w, more \o Tail(Todo(w))) /\ UNCHANGED <<tracking, lastStamp, report, newest>> /\ ~Free(w)
        /\ frames[w].todo # <<>> /\ frames[w].todo[1] # <<"detect">>
    BY <1>3 DEF Roll, Todo
  <2>2. frames[w].todo \in Seq(Rolls)
    <3>1. frames[w].todo \in {ToDetect} \cup Seq(Rolls)
      BY <1>0, FrameFields
    <3>2. ToDetect[1] = <<"detect">>
      BY DEF ToDetect
    <3> QED
      BY <2>1, <3>1, <3>2
  <2>3. more \in Seq(Rolls)
    BY PlansAre
  <2> HIDE DEF more
  <2>4. more \o Tail(Todo(w)) \in Seq(Rolls)
    BY <2>1, <2>2, <2>3 DEF Todo
  <2> QED
    BY <1>0, <2>1, <2>4, DoIs
<1>4. ASSUME NEW w \in FrameThreads, Signals(w) PROVE SeenInv'
  <2>1. Report(w, TRUE) /\ UNCHANGED <<tracking, lastStamp, newest>>
    BY <1>4 DEF Signals
  <2> QED
    BY <1>0, <2>1, ReportIs
<1>5. CASE UNCHANGED perceptionVars
  BY <1>5 DEF perceptionVars, SeenInv, FramesTyped, TakenInv, Taken, Free, OrderInv, SeenInOrder
<1> QED
  BY <1>1, <1>2, <1>3, <1>4, <1>5, StepPost DEF PerceptionNext

\* A frame that shows a face is reported without one only if another, before it or
\* while it was processed, was stamped no earlier, however many threads work.
\* mediapipe_tracker.py:250-361, routes.py:276-288.
THEOREM Seen == PerceptionSpec => []SeenInOrder
<1>1. SeenInv => SeenInOrder
  BY DEF SeenInv
<1> QED
  BY SeenInitial, StepSeen, <1>1, PTL DEF PerceptionSpec

-----------------------------------------------------------------------------
(***************************************************************************)
(* The rolling buffers: what the threads that roll them may have left to do, *)
(* and how many threads have each left.                                    *)
(***************************************************************************)

\* What a thread may have left to do: the pushes of a face, the pops of the pose
\* buffers, those of the blinks.
Push2 == << <<"push", "pitch">>, <<"push", "ear">>, <<"test", "yaw">>,
            <<"push", "blink">>, <<"test", "blink">> >>
Push3 == << <<"push", "ear">>, <<"test", "yaw">>, <<"push", "blink">>, <<"test", "blink">> >>
Tests == << <<"test", "yaw">>, <<"push", "blink">>, <<"test", "blink">> >>
Pop1 == << <<"pop", "yaw">>, <<"pop", "pitch">>, <<"pop", "ear">>,
           <<"push", "blink">>, <<"test", "blink">> >>
Pop2 == << <<"pop", "pitch">>, <<"pop", "ear">>, <<"push", "blink">>, <<"test", "blink">> >>
Pop3 == << <<"pop", "ear">>, <<"push", "blink">>, <<"test", "blink">> >>
Blink == << <<"push", "blink">>, <<"test", "blink">> >>
Blinked == << <<"test", "blink">> >>
PopBlink == << <<"pop", "blink">> >>
NotRolling == {<<>>, ToDetect}
Plans == NotRolling \cup {Pushes, Push2, Push3, Tests, Pop1, Pop2, Pop3, Blink, Blinked, PopBlink}

\* The plans differ, if not in length then in their first access.
LEMMA Differ ==
  /\ Len(<<>>) = 0 /\ Len(ToDetect) = 1 /\ Len(Pushes) = 6 /\ Len(Push2) = 5 /\ Len(Push3) = 4
  /\ Len(Tests) = 3 /\ Len(Pop1) = 5 /\ Len(Pop2) = 4 /\ Len(Pop3) = 3 /\ Len(Blink) = 2
  /\ Len(Blinked) = 1 /\ Len(PopBlink) = 1
  /\ ToDetect[1] = <<"detect">>
  /\ Pushes[1] = <<"push", "yaw">> /\ Push2[1] = <<"push", "pitch">> /\ Push3[1] = <<"push", "ear">>
  /\ Tests[1] = <<"test", "yaw">> /\ Pop1[1] = <<"pop", "yaw">> /\ Pop2[1] = <<"pop", "pitch">>
  /\ Pop3[1] = <<"pop", "ear">> /\ Blink[1] = <<"push", "blink">>
  /\ Blinked[1] = <<"test", "blink">> /\ PopBlink[1] = <<"pop", "blink">>
BY DEF ToDetect, Pushes, Push2, Push3, Tests, Pop1, Pop2, Pop3, Blink, Blinked, PopBlink

\* Three accesses and then two are five.
LEMMA OneAfterOther ==
  ASSUME NEW S, NEW a \in Seq(S), NEW b \in Seq(S), NEW c \in Seq(S),
         Len(a) = 3, Len(b) = 2, Len(c) = 5,
         c[1] = a[1], c[2] = a[2], c[3] = a[3], c[4] = b[1], c[5] = b[2]
  PROVE  a \o b = c
<1> DEFINE d == a \o b
<1>0. /\ d \in Seq(S) /\ Len(d) = Len(a) + Len(b)
      /\ \A i \in 1 .. Len(a) + Len(b) : d[i] = IF i <= Len(a) THEN a[i] ELSE b[i - Len(a)]
  BY ConcatProperties, Zenon
<1> HIDE DEF d
<1>1. d \in Seq(S) /\ Len(d) = 3 + 2 /\ \A i \in 1 .. 3 + 2 : d[i] = IF i <= 3 THEN a[i] ELSE b[i - 3]
  BY <1>0
<1>2. d[1] = a[1] /\ d[2] = a[2] /\ d[3] = a[3] /\ d[4] = b[1] /\ d[5] = b[2]
  BY <1>1
<1>3. \A i \in 1 .. 5 : i = 1 \/ i = 2 \/ i = 3 \/ i = 4 \/ i = 5
  OBVIOUS
<1>4. ASSUME NEW i \in 1 .. 5 PROVE d[i] = c[i]
  BY <1>2, <1>3
<1>5. d = c
  <2>1. c \in Seq(S) /\ Len(c) = 5 /\ Len(d) = 5 /\ d \in Seq(S)
    BY <1>1
  <2>2. \A i \in 1 .. Len(d) : d[i] = c[i]
    BY <1>4, <2>1
  <2> QED
    BY <2>1, <2>2, SeqEqual
<1> QED
  BY <1>5 DEF d

\* What each plan leaves after its first access.
LEMMA Follow ==
  /\ <<>> \o Tail(Pushes) = Push2 /\ <<>> \o Tail(Push2) = Push3 /\ <<>> \o Tail(Push3) = Tests
  /\ <<>> \o Tail(Tests) = Blink /\ Pops("yaw") \o Tail(Tests) = Pop1
  /\ <<>> \o Tail(Pop1) = Pop2 /\ <<>> \o Tail(Pop2) = Pop3 /\ <<>> \o Tail(Pop3) = Blink
  /\ <<>> \o Tail(Blink) = Blinked /\ <<>> \o Tail(Blinked) = <<>>
  /\ Pops("blink") \o Tail(Blinked) = PopBlink /\ <<>> \o Tail(PopBlink) = <<>>
<1>1. /\ Tail(Pushes) = Push2 /\ Tail(Push2) = Push3 /\ Tail(Push3) = Tests
      /\ Tail(Tests) = Blink /\ Tail(Pop1) = Pop2 /\ Tail(Pop2) = Pop3 /\ Tail(Pop3) = Blink
      /\ Tail(Blink) = Blinked /\ Tail(Blinked) = <<>> /\ Tail(PopBlink) = <<>>
  BY DEF Pushes, Push2, Push3, Tests, Pop1, Pop2, Pop3, Blink, Blinked, PopBlink
<1>2. Pops("yaw") \o Blink = Pop1 /\ Pops("blink") \o <<>> = PopBlink
  <2>1. /\ Pops("yaw") = << <<"pop", "yaw">>, <<"pop", "pitch">>, <<"pop", "ear">> >>
        /\ Pops("blink") = PopBlink
    BY DEF Pops, PopBlink
  <2> DEFINE S == {"push", "pop", "test"} \X Buffers
             u == << <<"pop", "yaw">>, <<"pop", "pitch">>, <<"pop", "ear">> >>
  <2>2. u \in Seq(S) /\ Blink \in Seq(S) /\ Pop1 \in Seq(S) /\ PopBlink \in Seq(S)
    BY DEF Blink, Pop1, PopBlink, Buffers, Pose
  <2>3. Len(u) = 3 /\ u[1] = Pop1[1] /\ u[2] = Pop1[2] /\ u[3] = Pop1[3]
    BY DEF Pop1
  <2>4. Len(Pop1) = 5 /\ Len(Blink) = 2 /\ Pop1[4] = Blink[1] /\ Pop1[5] = Blink[2]
    BY DEF Pop1, Blink
  <2> HIDE DEF S, u
  <2>5. u \o Blink = Pop1
    BY <2>2, <2>3, <2>4, OneAfterOther
  <2>6. PopBlink \o <<>> = PopBlink
    BY <2>2
  <2> QED
    BY <2>1, <2>5, <2>6 DEF u
<1>3. \A s \in {Push2, Push3, Tests, Pop2, Pop3, Blink, Blinked, <<>>} : <<>> \o s = s
  BY DEF Push2, Push3, Tests, Pop2, Pop3, Blink, Blinked
<1> QED
  BY <1>1, <1>2, <1>3

-----------------------------------------------------------------------------
\* The threads that have p left to do.
Having(p) == Cardinality({w \in FrameThreads : frames[w].todo = p})

\* A thread goes on from p to q.
Goes(w, p, q) ==
  /\ frames[w].todo = p /\ frames'[w].todo = q
  /\ \A v \in FrameThreads : v # w => frames'[v].todo = frames[v].todo

\* They are counted, and none is 0.
LEMMA Counts == \A p : Having(p) \in Nat /\ ((\A w \in FrameThreads : frames[w].todo # p) => Having(p) = 0)
<1>1. ASSUME NEW p
      PROVE  Having(p) \in Nat /\ ((\A w \in FrameThreads : frames[w].todo # p) => Having(p) = 0)
  <2> DEFINE A == {w \in FrameThreads : frames[w].todo = p}
  <2>1. IsFiniteSet(A)
    BY PerceptionAssumption, FS_Subset
  <2>2. Cardinality(A) \in Nat /\ (A = {} => Cardinality(A) = 0)
    BY <2>1, FS_CardinalityType, FS_EmptySet
  <2> QED
    BY <2>2 DEF Having
<1> QED
  BY <1>1

\* One fewer has p left, one more q.
LEMMA Recount ==
  ASSUME NEW w \in FrameThreads, NEW p, NEW q, Goes(w, p, q)
  PROVE  \A r : /\ Having(r) \in Nat /\ Having(r)' \in Nat /\ Having(p) > 0
                /\ r # p /\ r # q => Having(r)' = Having(r)
                /\ p # q => Having(q)' = Having(q) + 1 /\ Having(p)' = Having(p) - 1
                /\ p = q => Having(p)' = Having(p)
<1> DEFINE A(r) == {v \in FrameThreads : frames[v].todo = r}
           B(r) == {v \in FrameThreads : frames'[v].todo = r}
<1>1. \A r : IsFiniteSet(A(r)) /\ IsFiniteSet(B(r))
  <2>1. ASSUME NEW r PROVE A(r) \in SUBSET FrameThreads /\ B(r) \in SUBSET FrameThreads
    OBVIOUS
  <2>2. \A T \in SUBSET FrameThreads : IsFiniteSet(T)
    BY PerceptionAssumption, FS_Subset
  <2> QED
    BY <2>1, <2>2
<1>2. \A r : Cardinality(A(r)) \in Nat /\ Cardinality(B(r)) \in Nat
  BY <1>1, FS_CardinalityType
<1>3. \A r : r # p /\ r # q => B(r) = A(r)
  BY DEF Goes
<1>4. p # q => B(q) = A(q) \cup {w} /\ w \notin A(q) /\ B(p) = A(p) \ {w}
  BY DEF Goes
<1>5. p = q => B(p) = A(p)
  BY DEF Goes
<1>6. w \in A(p)
  BY DEF Goes
<1>7. \A r : Having(r) = Cardinality(A(r)) /\ Having(r)' = Cardinality(B(r))
  BY DEF Having
<1> HIDE DEF A, B
<1>8. Cardinality(A(p)) > 0
  BY <1>1, <1>2, <1>6, FS_EmptySet
<1>9. p # q => Cardinality(B(q)) = Cardinality(A(q)) + 1 /\ Cardinality(B(p)) = Cardinality(A(p)) - 1
  BY <1>1, <1>4, <1>6, FS_AddElement, FS_RemoveElement
<1> QED
  BY <1>2, <1>3, <1>5, <1>7, <1>8, <1>9

-----------------------------------------------------------------------------
\* A buffer is ahead of those that follow it by the threads between the two; and
\* it is beyond its window by no more than the threads that will test or pop it.
PoseInv ==
  LET k == Having(Pop1) + Having(Push2) + Having(Push3) + Having(Tests) IN
  /\ buffers["pitch"] + Having(Push2) = buffers["yaw"] + Having(Pop2)
  /\ buffers["ear"] + Having(Push2) + Having(Push3) = buffers["yaw"] + Having(Pop2) + Having(Pop3)
  /\ k <= buffers["yaw"] /\ buffers["yaw"] <= Window + k

BlinkInv ==
  LET k == Having(Blinked) + Having(PopBlink) IN
  k <= buffers["blink"] /\ buffers["blink"] <= Window + k

RollingInv ==
  /\ buffers \in [Buffers -> Nat]
  /\ \A w \in FrameThreads : frames[w].todo \in Plans
  /\ PoseInv /\ BlinkInv

-----------------------------------------------------------------------------
\* The rolls, by what is left to do: a push, a pop, or a test that adds the pops.
Pushed(b) == buffers' = [buffers EXCEPT ![b] = @ + 1]
Popped(b) == buffers' = [buffers EXCEPT ![b] = @ - 1]

Rolled(w) ==
  \/ Goes(w, Pushes, Push2) /\ Pushed("yaw")
  \/ Goes(w, Push2, Push3) /\ Pushed("pitch")
  \/ Goes(w, Push3, Tests) /\ Pushed("ear")
  \/ Goes(w, Tests, Pop1) /\ buffers["yaw"] > Window /\ UNCHANGED buffers
  \/ Goes(w, Tests, Blink) /\ ~(buffers["yaw"] > Window) /\ UNCHANGED buffers
  \/ Goes(w, Pop1, Pop2) /\ Popped("yaw")
  \/ Goes(w, Pop2, Pop3) /\ Popped("pitch")
  \/ Goes(w, Pop3, Blink) /\ Popped("ear")
  \/ Goes(w, Blink, Blinked) /\ Pushed("blink")
  \/ Goes(w, Blinked, PopBlink) /\ buffers["blink"] > Window /\ UNCHANGED buffers
  \/ Goes(w, Blinked, <<>>) /\ ~(buffers["blink"] > Window) /\ UNCHANGED buffers
  \/ Goes(w, PopBlink, <<>>) /\ Popped("blink")

\* A roll is one of these.
LEMMA RollIs ==
  ASSUME frames \in [FrameThreads -> Frame], NEW w \in FrameThreads, Roll(w), frames[w].todo \in Plans
  PROVE  Rolled(w)
<1> DEFINE op == Todo(w)[1][1]
           b == Todo(w)[1][2]
           more == IF op = "test" /\ buffers[b] > Window THEN Pops(b) ELSE <<>>
<1>1. /\ Todo(w) # <<>> /\ Todo(w)[1] # <<"detect">> /\ Todo(w) \in Plans
      /\ Do(w, more \o Tail(Todo(w)))
      /\ buffers' = CASE op = "push" -> [buffers EXCEPT ![b] = @ + 1]
                      [] op = "pop"  -> [buffers EXCEPT ![b] = @ - 1]
                      [] op = "test" -> buffers
  BY DEF Roll, Todo
<1>2. ASSUME NEW ops, Do(w, ops) PROVE Goes(w, Todo(w), ops)
  <2>1. frames' = [frames EXCEPT ![w] = [@ EXCEPT !.todo = ops]]
    BY <1>2 DEF Do
  <2>2. frames'[w] = [frames[w] EXCEPT !.todo = ops] /\ \A v \in FrameThreads : v # w => frames'[v] = frames[v]
    BY <2>1
  <2>3. frames'[w].todo = ops
    BY <2>2 DEF Frame
  <2> QED
    BY <2>2, <2>3 DEF Goes, Todo
<1>3. Goes(w, Todo(w), more \o Tail(Todo(w)))
  BY <1>1, <1>2
<1>4. Todo(w) \in {Pushes, Push2, Push3, Tests, Pop1, Pop2, Pop3, Blink, Blinked, PopBlink}
  BY <1>1, Differ DEF Plans, NotRolling
<1>5. ASSUME NEW p, NEW q, NEW c, Todo(w) = p, p[1] = <<"push", c>>, <<>> \o Tail(p) = q
      PROVE  Goes(w, p, q) /\ Pushed(c)
  <2>1. op = "push" /\ b = c
    BY <1>5
  <2>2. more = <<>> /\ buffers' = [buffers EXCEPT ![c] = @ + 1]
    BY <1>1, <2>1
  <2> QED
    BY <1>3, <1>5, <2>2 DEF Pushed
<1>6. ASSUME NEW p, NEW q, NEW c, Todo(w) = p, p[1] = <<"pop", c>>, <<>> \o Tail(p) = q
      PROVE  Goes(w, p, q) /\ Popped(c)
  <2>1. op = "pop" /\ b = c
    BY <1>6
  <2>2. more = <<>> /\ buffers' = [buffers EXCEPT ![c] = @ - 1]
    BY <1>1, <2>1
  <2> QED
    BY <1>3, <1>6, <2>2 DEF Popped
<1>7. ASSUME NEW p, NEW q, NEW r, NEW c, Todo(w) = p, p[1] = <<"test", c>>,
             Pops(c) \o Tail(p) = q, <<>> \o Tail(p) = r
      PROVE  UNCHANGED buffers /\ IF buffers[c] > Window THEN Goes(w, p, q) ELSE Goes(w, p, r)
  <2>1. op = "test" /\ b = c
    BY <1>7
  <2>2. more = (IF buffers[c] > Window THEN Pops(c) ELSE <<>>) /\ buffers' = buffers
    BY <1>1, <2>1
  <2> QED
    BY <1>3, <1>7, <2>2
<1> HIDE DEF op, b, more
<1>a. CASE Todo(w) = Pushes
  <2>1. Goes(w, Pushes, Push2) /\ Pushed("yaw")
    BY <1>5, <1>a, Differ, Follow
  <2> QED
    BY <2>1 DEF Rolled
<1>b. CASE Todo(w) = Push2
  <2>1. Goes(w, Push2, Push3) /\ Pushed("pitch")
    BY <1>5, <1>b, Differ, Follow
  <2> QED
    BY <2>1 DEF Rolled
<1>c. CASE Todo(w) = Push3
  <2>1. Goes(w, Push3, Tests) /\ Pushed("ear")
    BY <1>5, <1>c, Differ, Follow
  <2> QED
    BY <2>1 DEF Rolled
<1>d. CASE Todo(w) = Blink
  <2>1. Goes(w, Blink, Blinked) /\ Pushed("blink")
    BY <1>5, <1>d, Differ, Follow
  <2> QED
    BY <2>1 DEF Rolled
<1>e. CASE Todo(w) = Pop1
  <2>1. Goes(w, Pop1, Pop2) /\ Popped("yaw")
    BY <1>6, <1>e, Differ, Follow
  <2> QED
    BY <2>1 DEF Rolled
<1>f. CASE Todo(w) = Pop2
  <2>1. Goes(w, Pop2, Pop3) /\ Popped("pitch")
    BY <1>6, <1>f, Differ, Follow
  <2> QED
    BY <2>1 DEF Rolled
<1>g. CASE Todo(w) = Pop3
  <2>1. Goes(w, Pop3, Blink) /\ Popped("ear")
    BY <1>6, <1>g, Differ, Follow
  <2> QED
    BY <2>1 DEF Rolled
<1>h. CASE Todo(w) = PopBlink
  <2>1. Goes(w, PopBlink, <<>>) /\ Popped("blink")
    BY <1>6, <1>h, Differ, Follow
  <2> QED
    BY <2>1 DEF Rolled
<1>i. CASE Todo(w) = Tests
  <2>1. UNCHANGED buffers /\ IF buffers["yaw"] > Window THEN Goes(w, Tests, Pop1) ELSE Goes(w, Tests, Blink)
    <3>1. Tests[1] = <<"test", "yaw">> /\ Pops("yaw") \o Tail(Tests) = Pop1 /\ <<>> \o Tail(Tests) = Blink
      BY Differ, Follow
    <3> QED
      BY <1>7, <1>i, <3>1
  <2> QED
    BY <2>1 DEF Rolled
<1>j. CASE Todo(w) = Blinked
  <2>1. UNCHANGED buffers /\ IF buffers["blink"] > Window THEN Goes(w, Blinked, PopBlink) ELSE Goes(w, Blinked, <<>>)
    <3>1. Blinked[1] = <<"test", "blink">> /\ Pops("blink") \o Tail(Blinked) = PopBlink
          /\ <<>> \o Tail(Blinked) = <<>>
      BY Differ, Follow
    <3> QED
      BY <1>7, <1>j, <3>1
  <2> QED
    BY <2>1 DEF Rolled
<1> QED
  BY <1>4, <1>a, <1>b, <1>c, <1>d, <1>e, <1>f, <1>g, <1>h, <1>i, <1>j

-----------------------------------------------------------------------------
\* The counted plans are all different, and none is a plan of a thread that has
\* not begun to roll or has rolled all.
LEMMA Distinct ==
  /\ <<>> # ToDetect /\ Pushes \notin NotRolling
  /\ \A p \in {<<>>, ToDetect, Pushes, Blink} :
        p \notin {Push2, Push3, Tests, Pop1, Pop2, Pop3, Blinked, PopBlink}
  /\ Push2 \notin {Push3, Tests, Pop1, Pop2, Pop3, Blinked, PopBlink}
  /\ Push3 \notin {Tests, Pop1, Pop2, Pop3, Blinked, PopBlink}
  /\ Tests \notin {Pop1, Pop2, Pop3, Blinked, PopBlink}
  /\ Pop1 \notin {Pop2, Pop3, Blinked, PopBlink}
  /\ Pop2 \notin {Pop3, Blinked, PopBlink}
  /\ Pop3 \notin {Blinked, PopBlink} /\ Blinked # PopBlink
<1>1. "push" # "pop" /\ "push" # "test" /\ "pop" # "test" /\ "yaw" # "blink" /\ "detect" # "push"
      /\ "detect" # "pop" /\ "detect" # "test"
  OBVIOUS
<1>2. /\ Push2 # Pop1 /\ Push3 # Pop2 /\ Tests # Pop3
      /\ ToDetect # Blinked /\ ToDetect # PopBlink /\ Blinked # PopBlink
  BY <1>1, Differ
<1>3. /\ Len(<<>>) = 0 /\ Len(ToDetect) = 1 /\ Len(Pushes) = 6 /\ Len(Push2) = 5 /\ Len(Push3) = 4
      /\ Len(Tests) = 3 /\ Len(Pop1) = 5 /\ Len(Pop2) = 4 /\ Len(Pop3) = 3 /\ Len(Blink) = 2
      /\ Len(Blinked) = 1 /\ Len(PopBlink) = 1
  BY Differ
<1>4. /\ <<>> # ToDetect /\ Pushes # <<>> /\ Pushes # ToDetect
      /\ \A p \in {<<>>, ToDetect, Pushes, Blink} :
            p \notin {Push2, Push3, Tests, Pop1, Pop2, Pop3, Blinked, PopBlink}
  <2>1. <<>> \notin {ToDetect, Pushes, Push2, Push3, Tests, Pop1, Pop2, Pop3, Blinked, PopBlink}
    BY <1>3
  <2>2. ToDetect \notin {Pushes, Push2, Push3, Tests, Pop1, Pop2, Pop3}
    BY <1>3
  <2>3. Pushes \notin {Push2, Push3, Tests, Pop1, Pop2, Pop3, Blinked, PopBlink}
    BY <1>3
  <2>4. Blink \notin {Push2, Push3, Tests, Pop1, Pop2, Pop3, Blinked, PopBlink}
    BY <1>3
  <2> QED
    BY <1>2, <2>1, <2>2, <2>3, <2>4, Zenon
<1>5. /\ Push2 \notin {Push3, Tests, Pop1, Pop2, Pop3, Blinked, PopBlink}
      /\ Push3 \notin {Tests, Pop1, Pop2, Pop3, Blinked, PopBlink}
      /\ Tests \notin {Pop1, Pop2, Pop3, Blinked, PopBlink}
  <2>1. Push2 \notin {Push3, Tests, Pop2, Pop3, Blinked, PopBlink}
    BY <1>3
  <2>2. Push3 \notin {Tests, Pop1, Pop3, Blinked, PopBlink}
    BY <1>3
  <2>3. Tests \notin {Pop1, Pop2, Blinked, PopBlink}
    BY <1>3
  <2> QED
    BY <1>2, <2>1, <2>2, <2>3, Zenon
<1>6. /\ Pop1 \notin {Pop2, Pop3, Blinked, PopBlink}
      /\ Pop2 \notin {Pop3, Blinked, PopBlink}
      /\ Pop3 \notin {Blinked, PopBlink}
  BY <1>3
<1> QED
  BY <1>2, <1>4, <1>5, <1>6 DEF NotRolling

\* The plans whose threads the invariant counts.
Tally == <<Having(Push2), Having(Push3), Having(Tests), Having(Pop1), Having(Pop2), Having(Pop3),
           Having(Blinked), Having(PopBlink)>>

\* A thread that goes between two plans that are not counted changes nothing.
LEMMA Uncounted ==
  ASSUME RollingInv, UNCHANGED buffers,
         NEW w \in FrameThreads, NEW p \in {<<>>, ToDetect, Pushes, Blink},
         NEW q \in {<<>>, ToDetect, Pushes, Blink}, Goes(w, p, q)
  PROVE  RollingInv'
<1>1. UNCHANGED Tally
  BY Recount, Distinct DEF Tally
<1>2. PoseInv' /\ BlinkInv'
  BY <1>1 DEF RollingInv, PoseInv, BlinkInv, Tally
<1>3. \A v \in FrameThreads : frames'[v].todo \in Plans
  BY DEF RollingInv, Goes, Plans, NotRolling
<1> QED
  BY <1>2, <1>3 DEF RollingInv

\* The numbers the invariant is about.
LEMMA Numbers ==
  /\ \A p : Having(p) \in Nat
  /\ buffers \in [Buffers -> Nat] =>
        /\ buffers["yaw"] \in Nat /\ buffers["pitch"] \in Nat
        /\ buffers["ear"] \in Nat /\ buffers["blink"] \in Nat
  /\ Window \in Nat
BY Counts, PerceptionAssumption DEF Buffers, Pose

\* A roll keeps the buffers as long as the threads in between allow.
LEMMA StepRolled ==
  ASSUME RollingInv, NEW w \in FrameThreads, Rolled(w)
  PROVE  RollingInv'
<1>1. /\ \A p : Having(p) \in Nat /\ Having(p)' \in Nat
      /\ buffers["yaw"] \in Nat /\ buffers["pitch"] \in Nat
      /\ buffers["ear"] \in Nat /\ buffers["blink"] \in Nat /\ Window \in Nat
      /\ buffers \in [Buffers -> Nat]
  BY Numbers, Recount DEF RollingInv, Rolled
<1>2. \A v \in FrameThreads : frames'[v].todo \in Plans
  BY DEF RollingInv, Rolled, Goes, Plans, NotRolling
<1>3. ASSUME NEW b \in Buffers, Pushed(b)
      PROVE  /\ buffers' \in [Buffers -> Nat] /\ buffers'[b] = buffers[b] + 1
             /\ \A a \in Buffers : a # b => buffers'[a] = buffers[a]
  BY <1>1, <1>3 DEF Pushed
<1>4. ASSUME NEW b \in Buffers, Popped(b), buffers[b] > 0
      PROVE  /\ buffers' \in [Buffers -> Nat] /\ buffers'[b] = buffers[b] - 1
             /\ \A a \in Buffers : a # b => buffers'[a] = buffers[a]
  <2>1. buffers[b] - 1 \in Nat
    BY <1>1, <1>4
  <2> QED
    BY <1>1, <1>4, <2>1 DEF Popped
<1>n. /\ Having(Push2) \in Nat /\ Having(Push3) \in Nat /\ Having(Tests) \in Nat
      /\ Having(Pop1) \in Nat /\ Having(Pop2) \in Nat /\ Having(Pop3) \in Nat
      /\ Having(Blinked) \in Nat /\ Having(PopBlink) \in Nat
      /\ buffers["yaw"] \in Nat /\ buffers["pitch"] \in Nat
      /\ buffers["ear"] \in Nat /\ buffers["blink"] \in Nat /\ Window \in Nat
  BY <1>1
<1>i. PoseInv /\ BlinkInv
  BY DEF RollingInv
<1>b. Buffers = {"yaw", "pitch", "ear", "blink"}
  BY DEF Buffers, Pose
<1>c. ASSUME Goes(w, Pushes, Push2), Pushed("yaw") PROVE RollingInv'
  <2>1. /\ Having(Push2)' = Having(Push2) + 1
        /\ UNCHANGED <<Having(Push3), Having(Tests), Having(Pop1), Having(Pop2), Having(Pop3),
                     Having(Blinked), Having(PopBlink)>>
    BY <1>c, Recount, Distinct
  <2>2. buffers' \in [Buffers -> Nat] /\ buffers'["yaw"] = buffers["yaw"] + 1
        /\ \A a \in Buffers : a # "yaw" => buffers'[a] = buffers[a]
    BY <1>3, <1>c, <1>b
  <2>3. /\ buffers'["yaw"] = buffers["yaw"] + 1
        /\ buffers'["pitch"] = buffers["pitch"] /\ buffers'["ear"] = buffers["ear"] /\ buffers'["blink"] = buffers["blink"]
    BY <1>b, <2>2
  <2>4. PoseInv'
    BY <1>n, <1>i, <2>1, <2>3 DEF PoseInv
  <2>5. BlinkInv'
    BY <1>n, <1>i, <2>1, <2>3 DEF BlinkInv
  <2> QED
    BY <1>2, <2>2, <2>4, <2>5 DEF RollingInv
<1>d. ASSUME Goes(w, Push2, Push3), Pushed("pitch") PROVE RollingInv'
  <2>1. /\ Having(Push2)' = Having(Push2) - 1 /\ Having(Push2) > 0 /\ Having(Push3)' = Having(Push3) + 1
        /\ UNCHANGED <<Having(Tests), Having(Pop1), Having(Pop2), Having(Pop3), Having(Blinked),
                     Having(PopBlink)>>
    BY <1>d, Recount, Distinct
  <2>2. buffers' \in [Buffers -> Nat] /\ buffers'["pitch"] = buffers["pitch"] + 1
        /\ \A a \in Buffers : a # "pitch" => buffers'[a] = buffers[a]
    BY <1>3, <1>d, <1>b
  <2>3. /\ buffers'["pitch"] = buffers["pitch"] + 1
        /\ buffers'["yaw"] = buffers["yaw"] /\ buffers'["ear"] = buffers["ear"] /\ buffers'["blink"] = buffers["blink"]
    BY <1>b, <2>2
  <2>4. PoseInv'
    BY <1>n, <1>i, <2>1, <2>3 DEF PoseInv
  <2>5. BlinkInv'
    BY <1>n, <1>i, <2>1, <2>3 DEF BlinkInv
  <2> QED
    BY <1>2, <2>2, <2>4, <2>5 DEF RollingInv
<1>e. ASSUME Goes(w, Push3, Tests), Pushed("ear") PROVE RollingInv'
  <2>1. /\ Having(Push3)' = Having(Push3) - 1 /\ Having(Push3) > 0 /\ Having(Tests)' = Having(Tests) + 1
        /\ UNCHANGED <<Having(Push2), Having(Pop1), Having(Pop2), Having(Pop3), Having(Blinked),
                     Having(PopBlink)>>
    BY <1>e, Recount, Distinct
  <2>2. buffers' \in [Buffers -> Nat] /\ buffers'["ear"] = buffers["ear"] + 1
        /\ \A a \in Buffers : a # "ear" => buffers'[a] = buffers[a]
    BY <1>3, <1>e, <1>b
  <2>3. /\ buffers'["ear"] = buffers["ear"] + 1
        /\ buffers'["yaw"] = buffers["yaw"] /\ buffers'["pitch"] = buffers["pitch"] /\ buffers'["blink"] = buffers["blink"]
    BY <1>b, <2>2
  <2>4. PoseInv'
    BY <1>n, <1>i, <2>1, <2>3 DEF PoseInv
  <2>5. BlinkInv'
    BY <1>n, <1>i, <2>1, <2>3 DEF BlinkInv
  <2> QED
    BY <1>2, <2>2, <2>4, <2>5 DEF RollingInv
<1>f. ASSUME Goes(w, Tests, Pop1), buffers["yaw"] > Window, UNCHANGED buffers PROVE RollingInv'
  <2>1. /\ Having(Tests)' = Having(Tests) - 1 /\ Having(Tests) > 0 /\ Having(Pop1)' = Having(Pop1) + 1
        /\ UNCHANGED <<Having(Push2), Having(Push3), Having(Pop2), Having(Pop3), Having(Blinked),
                     Having(PopBlink)>>
    BY <1>f, Recount, Distinct
  <2>2. PoseInv'
    BY <1>n, <1>i, <1>f, <2>1 DEF PoseInv
  <2>3. BlinkInv'
    BY <1>n, <1>i, <1>f, <2>1 DEF BlinkInv
  <2> QED
    BY <1>1, <1>2, <1>f, <2>2, <2>3 DEF RollingInv
<1>g. ASSUME Goes(w, Tests, Blink), ~(buffers["yaw"] > Window), UNCHANGED buffers PROVE RollingInv'
  <2>1. /\ Having(Tests)' = Having(Tests) - 1 /\ Having(Tests) > 0
        /\ UNCHANGED <<Having(Push2), Having(Push3), Having(Pop1), Having(Pop2), Having(Pop3),
                     Having(Blinked), Having(PopBlink)>>
    BY <1>g, Recount, Distinct
  <2>2. PoseInv'
    BY <1>n, <1>i, <1>g, <2>1 DEF PoseInv
  <2>3. BlinkInv'
    BY <1>n, <1>i, <1>g, <2>1 DEF BlinkInv
  <2> QED
    BY <1>1, <1>2, <1>g, <2>2, <2>3 DEF RollingInv
<1>h. ASSUME Goes(w, Pop1, Pop2), Popped("yaw") PROVE RollingInv'
  <2>1. /\ Having(Pop1)' = Having(Pop1) - 1 /\ Having(Pop1) > 0 /\ Having(Pop2)' = Having(Pop2) + 1
        /\ UNCHANGED <<Having(Push2), Having(Push3), Having(Tests), Having(Pop3), Having(Blinked),
                     Having(PopBlink)>>
    BY <1>h, Recount, Distinct
  <2>p. buffers["yaw"] > 0
    BY <1>n, <1>i, <2>1 DEF PoseInv
  <2>2. buffers' \in [Buffers -> Nat] /\ buffers'["yaw"] = buffers["yaw"] - 1
        /\ \A a \in Buffers : a # "yaw" => buffers'[a] = buffers[a]
    BY <1>4, <1>h, <1>b, <2>p
  <2>3. /\ buffers'["yaw"] = buffers["yaw"] - 1
        /\ buffers'["pitch"] = buffers["pitch"] /\ buffers'["ear"] = buffers["ear"] /\ buffers'["blink"] = buffers["blink"]
    BY <1>b, <2>2
  <2>4. PoseInv'
    BY <1>n, <1>i, <2>1, <2>3 DEF PoseInv
  <2>5. BlinkInv'
    BY <1>n, <1>i, <2>1, <2>3 DEF BlinkInv
  <2> QED
    BY <1>2, <2>2, <2>4, <2>5 DEF RollingInv
<1>z. ASSUME Goes(w, Pop2, Pop3), Popped("pitch") PROVE RollingInv'
  <2>1. /\ Having(Pop2)' = Having(Pop2) - 1 /\ Having(Pop2) > 0 /\ Having(Pop3)' = Having(Pop3) + 1
        /\ UNCHANGED <<Having(Push2), Having(Push3), Having(Tests), Having(Pop1), Having(Blinked),
                     Having(PopBlink)>>
    BY <1>z, Recount, Distinct
  <2>p. buffers["pitch"] > 0
    BY <1>n, <1>i, <2>1 DEF PoseInv
  <2>2. buffers' \in [Buffers -> Nat] /\ buffers'["pitch"] = buffers["pitch"] - 1
        /\ \A a \in Buffers : a # "pitch" => buffers'[a] = buffers[a]
    BY <1>4, <1>z, <1>b, <2>p
  <2>3. /\ buffers'["pitch"] = buffers["pitch"] - 1
        /\ buffers'["yaw"] = buffers["yaw"] /\ buffers'["ear"] = buffers["ear"] /\ buffers'["blink"] = buffers["blink"]
    BY <1>b, <2>2
  <2>4. PoseInv'
    BY <1>n, <1>i, <2>1, <2>3 DEF PoseInv
  <2>5. BlinkInv'
    BY <1>n, <1>i, <2>1, <2>3 DEF BlinkInv
  <2> QED
    BY <1>2, <2>2, <2>4, <2>5 DEF RollingInv
<1>j. ASSUME Goes(w, Pop3, Blink), Popped("ear") PROVE RollingInv'
  <2>1. /\ Having(Pop3)' = Having(Pop3) - 1 /\ Having(Pop3) > 0
        /\ UNCHANGED <<Having(Push2), Having(Push3), Having(Tests), Having(Pop1), Having(Pop2),
                     Having(Blinked), Having(PopBlink)>>
    BY <1>j, Recount, Distinct
  <2>p. buffers["ear"] > 0
    BY <1>n, <1>i, <2>1 DEF PoseInv
  <2>2. buffers' \in [Buffers -> Nat] /\ buffers'["ear"] = buffers["ear"] - 1
        /\ \A a \in Buffers : a # "ear" => buffers'[a] = buffers[a]
    BY <1>4, <1>j, <1>b, <2>p
  <2>3. /\ buffers'["ear"] = buffers["ear"] - 1
        /\ buffers'["yaw"] = buffers["yaw"] /\ buffers'["pitch"] = buffers["pitch"] /\ buffers'["blink"] = buffers["blink"]
    BY <1>b, <2>2
  <2>4. PoseInv'
    <3>1. buffers["pitch"]' + Having(Push2)' = buffers["yaw"]' + Having(Pop2)'
      BY <1>i, <2>1, <2>3 DEF PoseInv
    <3>2. buffers["ear"]' + Having(Push2)' + Having(Push3)'
            = buffers["yaw"]' + Having(Pop2)' + Having(Pop3)'
      <4>1. buffers["ear"] + Having(Push2) + Having(Push3) = buffers["yaw"] + Having(Pop2) + Having(Pop3)
        BY <1>i DEF PoseInv
      <4>2. buffers["ear"] - 1 + Having(Push2) + Having(Push3)
              = buffers["yaw"] + Having(Pop2) + (Having(Pop3) - 1)
        BY <1>n, <4>1
      <4> QED
        BY <2>1, <2>3, <4>2
    <3> QED
      BY <1>i, <2>1, <2>3, <3>1, <3>2 DEF PoseInv
  <2>5. BlinkInv'
    BY <1>n, <1>i, <2>1, <2>3 DEF BlinkInv
  <2> QED
    BY <1>2, <2>2, <2>4, <2>5 DEF RollingInv
<1>k. ASSUME Goes(w, Blink, Blinked), Pushed("blink") PROVE RollingInv'
  <2>1. /\ Having(Blinked)' = Having(Blinked) + 1
        /\ UNCHANGED <<Having(Push2), Having(Push3), Having(Tests), Having(Pop1), Having(Pop2),
                     Having(Pop3), Having(PopBlink)>>
    BY <1>k, Recount, Distinct
  <2>2. buffers' \in [Buffers -> Nat] /\ buffers'["blink"] = buffers["blink"] + 1
        /\ \A a \in Buffers : a # "blink" => buffers'[a] = buffers[a]
    BY <1>3, <1>k, <1>b
  <2>3. /\ buffers'["blink"] = buffers["blink"] + 1
        /\ buffers'["yaw"] = buffers["yaw"] /\ buffers'["pitch"] = buffers["pitch"] /\ buffers'["ear"] = buffers["ear"]
    BY <1>b, <2>2
  <2>4. PoseInv'
    BY <1>n, <1>i, <2>1, <2>3 DEF PoseInv
  <2>5. BlinkInv'
    BY <1>n, <1>i, <2>1, <2>3 DEF BlinkInv
  <2> QED
    BY <1>2, <2>2, <2>4, <2>5 DEF RollingInv
<1>l. ASSUME Goes(w, Blinked, PopBlink), buffers["blink"] > Window, UNCHANGED buffers PROVE RollingInv'
  <2>1. /\ Having(Blinked)' = Having(Blinked) - 1 /\ Having(Blinked) > 0 /\ Having(PopBlink)' = Having(PopBlink) + 1
        /\ UNCHANGED <<Having(Push2), Having(Push3), Having(Tests), Having(Pop1), Having(Pop2),
                     Having(Pop3)>>
    BY <1>l, Recount, Distinct
  <2>2. PoseInv'
    BY <1>n, <1>i, <1>l, <2>1 DEF PoseInv
  <2>3. BlinkInv'
    BY <1>n, <1>i, <1>l, <2>1 DEF BlinkInv
  <2> QED
    BY <1>1, <1>2, <1>l, <2>2, <2>3 DEF RollingInv
<1>m. ASSUME Goes(w, Blinked, <<>>), ~(buffers["blink"] > Window), UNCHANGED buffers PROVE RollingInv'
  <2>1. /\ Having(Blinked)' = Having(Blinked) - 1 /\ Having(Blinked) > 0
        /\ UNCHANGED <<Having(Push2), Having(Push3), Having(Tests), Having(Pop1), Having(Pop2),
                     Having(Pop3), Having(PopBlink)>>
    BY <1>m, Recount, Distinct
  <2>2. PoseInv'
    BY <1>n, <1>i, <1>m, <2>1 DEF PoseInv
  <2>3. BlinkInv'
    BY <1>n, <1>i, <1>m, <2>1 DEF BlinkInv
  <2> QED
    BY <1>1, <1>2, <1>m, <2>2, <2>3 DEF RollingInv
<1>o. ASSUME Goes(w, PopBlink, <<>>), Popped("blink") PROVE RollingInv'
  <2>1. /\ Having(PopBlink)' = Having(PopBlink) - 1 /\ Having(PopBlink) > 0
        /\ UNCHANGED <<Having(Push2), Having(Push3), Having(Tests), Having(Pop1), Having(Pop2),
                     Having(Pop3), Having(Blinked)>>
    BY <1>o, Recount, Distinct
  <2>p. buffers["blink"] > 0
    BY <1>n, <1>i, <2>1 DEF BlinkInv
  <2>2. buffers' \in [Buffers -> Nat] /\ buffers'["blink"] = buffers["blink"] - 1
        /\ \A a \in Buffers : a # "blink" => buffers'[a] = buffers[a]
    BY <1>4, <1>o, <1>b, <2>p
  <2>3. /\ buffers'["blink"] = buffers["blink"] - 1
        /\ buffers'["yaw"] = buffers["yaw"] /\ buffers'["pitch"] = buffers["pitch"] /\ buffers'["ear"] = buffers["ear"]
    BY <1>b, <2>2
  <2>4. PoseInv'
    BY <1>n, <1>i, <2>1, <2>3 DEF PoseInv
  <2>5. BlinkInv'
    BY <1>n, <1>i, <2>1, <2>3 DEF BlinkInv
  <2> QED
    BY <1>2, <2>2, <2>4, <2>5 DEF RollingInv
<1> QED
  BY <1>c, <1>d, <1>e, <1>f, <1>g, <1>h, <1>z, <1>j, <1>k, <1>l, <1>m, <1>o DEF Rolled

-----------------------------------------------------------------------------
\* The inductive invariant: what a thread reports is of its frame, too.
AlignedInv == SeenInv /\ RollingInv /\ PerceptionTypeOK

\* Aligned at rest, where nobody counts.
LEMMA NobodyRolls == RollingInv => BuffersAligned
<1> SUFFICES ASSUME RollingInv PROVE BuffersAligned
  OBVIOUS
<1>1. ASSUME \A w \in FrameThreads : frames[w].todo \in {<<>>, << <<"detect">> >>}
      PROVE  /\ \A b \in Pose : buffers[b] = buffers["yaw"]
             /\ \A b \in Buffers : buffers[b] <= Window
  <2>1. \A p \in {Push2, Push3, Tests, Pop1, Pop2, Pop3, Blinked, PopBlink} : Having(p) = 0
    BY <1>1, Counts, Distinct DEF ToDetect
  <2>2. /\ Having(Push2) = 0 /\ Having(Push3) = 0 /\ Having(Tests) = 0 /\ Having(Pop1) = 0
        /\ Having(Pop2) = 0 /\ Having(Pop3) = 0 /\ Having(Blinked) = 0 /\ Having(PopBlink) = 0
    BY <2>1
  <2>3. /\ buffers["pitch"] = buffers["yaw"] /\ buffers["ear"] = buffers["yaw"]
        /\ buffers["yaw"] <= Window /\ buffers["blink"] <= Window
    BY <2>2, Numbers DEF RollingInv, PoseInv, BlinkInv
  <2> QED
    BY <2>3 DEF Buffers, Pose
<1> QED
  BY <1>1 DEF RollingInv, BuffersAligned

\* No thread has begun.
LEMMA AlignedInitial == PerceptionInit => RollingInv
<1> SUFFICES ASSUME PerceptionInit PROVE RollingInv
  OBVIOUS
<1>1. \A w \in FrameThreads : frames[w].todo = <<>>
  BY DEF PerceptionInit, NoFrame
<1>2. \A p \in {Push2, Push3, Tests, Pop1, Pop2, Pop3, Blinked, PopBlink} : Having(p) = 0
  BY <1>1, Counts, Distinct
<1>3. /\ Having(Push2) = 0 /\ Having(Push3) = 0 /\ Having(Tests) = 0 /\ Having(Pop1) = 0
      /\ Having(Pop2) = 0 /\ Having(Pop3) = 0 /\ Having(Blinked) = 0 /\ Having(PopBlink) = 0
  BY <1>2
<1>4. /\ buffers \in [Buffers -> Nat] /\ buffers["yaw"] = 0 /\ buffers["pitch"] = 0
      /\ buffers["ear"] = 0 /\ buffers["blink"] = 0
  BY DEF PerceptionInit, Buffers, Pose
<1>5. PoseInv /\ BlinkInv
  BY <1>3, <1>4, PerceptionAssumption DEF PoseInv, BlinkInv
<1> QED
  BY <1>1, <1>4, <1>5 DEF RollingInv, Plans, NotRolling

\* Every step keeps the buffers aligned.
LEMMA StepRolling ==
  ASSUME SeenInv, RollingInv, [PerceptionNext]_perceptionVars
  PROVE  RollingInv'
<1>0. frames \in [FrameThreads -> Frame]
  BY DEF SeenInv, FramesTyped
<1>1. ASSUME NEW w \in FrameThreads, NEW seen, Report(w, seen), NEW p, frames[w].todo = p
      PROVE  Goes(w, p, <<>>)
  BY <1>0, <1>1 DEF Report, Goes, NoFrame
<1>2. ASSUME NEW w \in FrameThreads, Due(w, <<"detect">>) PROVE frames[w].todo = ToDetect
  BY <1>0, <1>2, FrameFields, PlansAre DEF Due, Todo
<1>3. ASSUME NEW w \in FrameThreads, NEW s \in Stamps, NEW image \in Pictures, PostFrame(w, s, image)
      PROVE  Goes(w, <<>>, ToDetect)
  <2>1. frames[w].todo = <<>>
    BY <1>3 DEF PostFrame, Free, NoFrame
  <2>2. frames'[w].todo = ToDetect
    BY <1>3 DEF PostFrame, ToDetect
  <2>3. ASSUME NEW v \in FrameThreads, v # w PROVE frames'[v].todo = frames[v].todo
    <3>1. frames'[v] = [frames[v] EXCEPT !.rival = ~Free(v) /\ (@ \/ frames[v].stamp <= s)]
      BY <1>3, <2>3 DEF PostFrame
    <3> QED
      BY <1>0, <3>1 DEF Frame
  <2> QED
    BY <2>1, <2>2, <2>3 DEF Goes
<1>4. ASSUME NEW w \in FrameThreads, Refuses(w) PROVE RollingInv'
  <2>1. Goes(w, ToDetect, <<>>) /\ UNCHANGED buffers
    BY <1>1, <1>2, <1>4 DEF Refuses
  <2> QED
    BY <2>1, Uncounted
<1>5. ASSUME NEW w \in FrameThreads, Detects(w) PROVE RollingInv'
  <2>1. frames[w].todo = ToDetect /\ UNCHANGED buffers
    BY <1>2, <1>5 DEF Detects
  <2>2. CASE Do(w, Pushes)
    <3>1. frames'[w].todo = Pushes /\ \A v \in FrameThreads : v # w => frames'[v] = frames[v]
      BY <1>0, <2>2 DEF Do, Frame
    <3>2. Goes(w, ToDetect, Pushes)
      BY <2>1, <3>1 DEF Goes
    <3> QED
      BY <2>1, <3>2, Uncounted
  <2>3. CASE Report(w, FALSE)
    <3>1. Goes(w, ToDetect, <<>>)
      BY <1>1, <2>1, <2>3
    <3> QED
      BY <2>1, <3>1, Uncounted
  <2> QED
    BY <1>5, <2>2, <2>3 DEF Detects
<1>6. ASSUME NEW w \in FrameThreads, Roll(w) PROVE RollingInv'
  BY <1>0, <1>6, RollIs, StepRolled DEF RollingInv
<1>7. ASSUME NEW w \in FrameThreads, Signals(w) PROVE RollingInv'
  <2>1. Goes(w, <<>>, <<>>) /\ UNCHANGED buffers
    BY <1>1, <1>7 DEF Signals, Todo
  <2> QED
    BY <2>1, Uncounted
<1>8. ASSUME NEW w \in FrameThreads, NEW s \in Stamps, NEW image \in Pictures, PostFrame(w, s, image)
      PROVE  RollingInv'
  <2>1. Goes(w, <<>>, ToDetect) /\ UNCHANGED buffers
    BY <1>3, <1>8 DEF PostFrame
  <2> QED
    BY <2>1, Uncounted
<1>9. CASE UNCHANGED perceptionVars
  BY <1>9 DEF perceptionVars, RollingInv, PoseInv, BlinkInv, Having
<1> QED
  BY <1>4, <1>5, <1>6, <1>7, <1>8, <1>9 DEF PerceptionNext

\* The last report is of a picture.
LEMMA StepReport ==
  ASSUME SeenInv, PerceptionTypeOK, [PerceptionNext]_perceptionVars
  PROVE  /\ tracking' \in BOOLEAN
         /\ report' \in [image : Pictures, rival : BOOLEAN, detected : BOOLEAN]
<1>0. frames \in [FrameThreads -> Frame]
  BY DEF SeenInv, FramesTyped
<1>1. ASSUME NEW w \in FrameThreads, NEW seen \in BOOLEAN, Report(w, seen)
      PROVE  report' \in [image : Pictures, rival : BOOLEAN, detected : BOOLEAN]
  BY <1>0, <1>1, FrameFields DEF Report
<1> QED
  BY <1>1 DEF PerceptionTypeOK, PerceptionNext, perceptionVars, PostFrame, Refuses, Detects, Roll, Signals

\* However many threads roll the buffers at once, in whatever order, no buffer is
\* popped empty, and once none does all have as many frames, at most a window.
\* mediapipe_tracker.py:311-325, 469-476.
THEOREM Aligned == PerceptionSpec => [](PerceptionTypeOK /\ BuffersAligned)
<1>1. PerceptionInit => AlignedInv
  <2> SUFFICES ASSUME PerceptionInit PROVE AlignedInv
    OBVIOUS
  <2>1. SeenInv /\ RollingInv
    BY SeenInitial, AlignedInitial
  <2>2. report \in [image : Pictures, rival : BOOLEAN, detected : BOOLEAN] /\ tracking \in BOOLEAN
    BY DEF PerceptionInit, Pictures
  <2> QED
    BY <2>1, <2>2, FrameFields DEF AlignedInv, PerceptionTypeOK, SeenInv, FramesTyped
<1>2. AlignedInv /\ [PerceptionNext]_perceptionVars => AlignedInv'
  <2> SUFFICES ASSUME AlignedInv, [PerceptionNext]_perceptionVars PROVE AlignedInv'
    OBVIOUS
  <2>1. SeenInv' /\ RollingInv'
    BY StepSeen, StepRolling DEF AlignedInv
  <2>2. tracking' \in BOOLEAN /\ report' \in [image : Pictures, rival : BOOLEAN, detected : BOOLEAN]
    BY StepReport DEF AlignedInv
  <2> QED
    BY <2>1, <2>2, FrameFields DEF AlignedInv, PerceptionTypeOK, SeenInv, FramesTyped
<1>3. AlignedInv => PerceptionTypeOK /\ BuffersAligned
  BY NobodyRolls DEF AlignedInv
<1> QED
  BY <1>1, <1>2, <1>3, PTL DEF PerceptionSpec

-----------------------------------------------------------------------------
(***************************************************************************)
(* SidecarSwap: the counters of the swaps add up, and none is late.        *)
(***************************************************************************)

Runners == [analyser : BOOLEAN, core : BOOLEAN, healthy : BOOLEAN]
Tallies == [attempted : Nat, succeeded : Nat, passed : Nat]
Waits == 0 .. Away
Posted == [by : Senders, gone : BOOLEAN]
Waiters == {s \in Senders : waiting[s] # Away}

\* The types of the state, in parts: no step changes them all.
SettingsTyped ==
  /\ configured \in BOOLEAN /\ refusing \in BOOLEAN /\ up \in BOOLEAN
  /\ vendor \in {"missing", "broken", "whole"} /\ runner \in Runners
BacklogTyped == backlog \in Seq(Posted)
WorkedTyped == worked \in 0 .. WorkMax
WaitingTyped == waiting \in [Senders -> Waits]
ResultsTyped == results \in [Senders -> {"none", "frame", "reply"}]
TallyTyped == counts \in Tallies /\ counts.attempted <= SwapMax
SidecarTyped ==
  SettingsTyped /\ BacklogTyped /\ WorkedTyped /\ WaitingTyped /\ ResultsTyped /\ TallyTyped

\* A request whose sender still waits is its only one; a daemon without a URL
\* sends none.
BacklogInv ==
  /\ \A i \in DOMAIN backlog : ~backlog[i].gone =>
       /\ waiting[backlog[i].by] # Away
       /\ \A j \in DOMAIN backlog : ~backlog[j].gone /\ backlog[j].by = backlog[i].by => j = i
  /\ ~configured => \A s \in Senders : waiting[s] = Away

SidecarInv == SidecarTyped /\ BacklogInv /\ CountsAddUp

-----------------------------------------------------------------------------
\* The bounds.
LEMMA Bounds ==
  /\ Timeout \in Nat /\ WorkMax \in Nat /\ SwapMax \in Nat /\ 0 < WorkMax /\ 0 < SwapMax
  /\ IsFiniteSet(Senders)
BY SidecarAssumption

\* How long a sender has waited, or that it has given up.
LEMMA WaitsAre == Away \in Waits /\ 0 \in Waits /\ Waits \subseteq Nat /\ 0 # Away /\ Timeout # Away
BY Bounds DEF Away, Waits

\* Who waits can be counted.
LEMMA WaitersFinite == IsFiniteSet(Waiters) /\ Cardinality(Waiters) \in Nat
<1>1. Waiters \in SUBSET Senders
  BY DEF Waiters
<1> QED
  BY <1>1, Bounds, FS_Subset, FS_CardinalityType

\* The same, written out as in CountsAddUp.
LEMMA FailedFinite == Cardinality({s \in Senders : waiting[s] # Away}) \in Nat
BY WaitersFinite DEF Waiters

\* The ways in which the counts change.
Adds(a, m, l) ==
  /\ counts' \in Tallies /\ counts'.attempted = counts.attempted + a
  /\ counts'.succeeded = counts.succeeded + m /\ counts'.passed = counts.passed + l

\* What each way of counting adds.
LEMMA TallyOps ==
  ASSUME counts \in Tallies
  PROVE  /\ counts.attempted \in Nat /\ counts.succeeded \in Nat /\ counts.passed \in Nat
         /\ \A n \in Nat : counts' = [counts EXCEPT !.passed = @ + n] => Adds(0, 0, n)
         /\ counts' = [counts EXCEPT !.succeeded = @ + 1] => Adds(0, 1, 0)
         /\ counts' = [counts EXCEPT !.attempted = @ + 1] => Adds(1, 0, 0)
         /\ counts' = [counts EXCEPT !.attempted = @ + 1, !.passed = @ + 1] => Adds(1, 0, 1)
<1>1. counts.attempted \in Nat /\ counts.succeeded \in Nat /\ counts.passed \in Nat
  BY DEF Tallies
<1>2. ASSUME NEW n \in Nat, counts' = [counts EXCEPT !.passed = @ + n] PROVE Adds(0, 0, n)
  BY <1>2 DEF Tallies, Adds
<1>3. ASSUME counts' = [counts EXCEPT !.succeeded = @ + 1] PROVE Adds(0, 1, 0)
  BY <1>3 DEF Tallies, Adds
<1>4. ASSUME counts' = [counts EXCEPT !.attempted = @ + 1] PROVE Adds(1, 0, 0)
  BY <1>4 DEF Tallies, Adds
<1>5. ASSUME counts' = [counts EXCEPT !.attempted = @ + 1, !.passed = @ + 1] PROVE Adds(1, 0, 1)
  <2> DEFINE c == [counts EXCEPT !.attempted = counts.attempted + 1]
  <2>1. /\ c \in Tallies /\ c.attempted = counts.attempted + 1
        /\ c.succeeded = counts.succeeded /\ c.passed = counts.passed
    BY DEF Tallies
  <2>2. counts' = [c EXCEPT !.passed = counts.passed + 1]
    BY <1>5
  <2> HIDE DEF c
  <2>3. /\ counts' \in Tallies /\ counts'.attempted = c.attempted
        /\ counts'.succeeded = c.succeeded /\ counts'.passed = c.passed + 1
    BY <2>1, <2>2 DEF Tallies
  <2> QED
    BY <1>1, <2>1, <2>2, <2>3 DEF Adds
<1> QED
  BY <1>1, <1>2, <1>3, <1>4, <1>5

\* The runner at work is a runner.
LEMMA RunnerOps ==
  /\ Cold \in Runners
  /\ \A r \in Runners : Warm(r) \in Runners /\ Worked(r) \subseteq Runners
<1>1. Cold \in Runners /\ \A r \in Runners : Warm(r) \in Runners
  BY DEF Cold, Runners, Warm
<1>2. \A r \in Runners : [r EXCEPT !.core = TRUE] \in Runners
  BY DEF Runners
<1>3. ASSUME NEW r \in Runners PROVE Worked(r) \subseteq Runners
  BY <1>1, <1>2 DEF Worked
<1> QED
  BY <1>1, <1>3

\* What an answer, or none, does to the sender.
LEMMA TakesTyped ==
  ASSUME SidecarTyped, NEW s \in Senders, NEW replied \in BOOLEAN, Takes(s, replied)
  PROVE  WaitingTyped' /\ ResultsTyped' /\ TallyTyped'
<1>1. WaitingTyped'
  BY WaitsAre DEF SidecarTyped, WaitingTyped, Takes
<1>2. ResultsTyped'
  BY DEF SidecarTyped, ResultsTyped, Takes
<1>3. TallyTyped'
  <2>1. Adds(0, 1, 0) \/ Adds(0, 0, 1)
    BY TallyOps DEF SidecarTyped, TallyTyped, Takes
  <2> QED
    BY <2>1, TallyOps DEF SidecarTyped, TallyTyped, Adds
<1> QED
  BY <1>1, <1>2, <1>3

\* Nobody waits.
LEMMA SidecarInitial == SidecarInit => SidecarInv
<1> SUFFICES ASSUME SidecarInit PROVE SidecarInv
  OBVIOUS
<1> USE Bounds DEF SidecarInit
<1>1. Waiters = {}
  BY DEF Waiters
<1>2. Cardinality(Waiters) = 0
  BY <1>1, FS_EmptySet
<1>3. CountsAddUp
  BY <1>2 DEF CountsAddUp, Waiters
<1>4. SidecarTyped
  <2>1. SettingsTyped
    BY RunnerOps DEF SettingsTyped
  <2>2. BacklogTyped /\ WorkedTyped /\ WaitingTyped /\ ResultsTyped
    BY WaitsAre DEF BacklogTyped, WorkedTyped, WaitingTyped, ResultsTyped
  <2>3. TallyTyped
    BY DEF TallyTyped, Tallies
  <2> QED
    BY <2>1, <2>2, <2>3 DEF SidecarTyped
<1>5. BacklogInv
  BY DEF BacklogInv
<1> QED
  BY <1>3, <1>4, <1>5 DEF SidecarInv

\* Every step keeps the types.
LEMMA SidecarStepTyped ==
  ASSUME SidecarTyped, [SidecarNext]_sidecarVars
  PROVE  SidecarTyped'
<1> USE DEF SidecarTyped
<1>1. ASSUME NEW s \in Senders, PassThrough(s) \/ NothingSent(s) PROVE SidecarTyped'
  <2>1. ResultsTyped'
    BY <1>1 DEF PassThrough, NothingSent, ResultsTyped
  <2>2. Adds(0, 0, 1) \/ (counts.attempted < SwapMax /\ Adds(1, 0, 1))
    <3>1. CASE PassThrough(s)
      BY <3>1, TallyOps DEF PassThrough, TallyTyped
    <3>2. CASE NothingSent(s)
      BY <3>2, TallyOps DEF NothingSent, TallyTyped
    <3> QED
      BY <1>1, <3>1, <3>2
  <2>3. TallyTyped'
    BY <2>2, TallyOps, Bounds DEF TallyTyped, Adds
  <2> QED
    BY <1>1, <2>1, <2>3 DEF PassThrough, NothingSent, SettingsTyped, BacklogTyped, WorkedTyped, WaitingTyped
<1>2. ASSUME NEW s \in Senders, Send(s) PROVE SidecarTyped'
  <2>1. BacklogTyped'
    <3>1. [by |-> s, gone |-> FALSE] \in Posted
      BY DEF Posted
    <3> QED
      BY <1>2, <3>1 DEF Send, BacklogTyped
  <2>2. TallyTyped'
    <3>1. counts.attempted < SwapMax /\ Adds(1, 0, 0)
      BY <1>2, TallyOps DEF Send, TallyTyped
    <3> QED
      BY <3>1, TallyOps, Bounds DEF TallyTyped, Adds
  <2>3. WaitingTyped'
    BY <1>2, WaitsAre DEF Send, WaitingTyped
  <2> QED
    BY <1>2, <2>1, <2>2, <2>3 DEF Send, SettingsTyped, WorkedTyped, ResultsTyped
<1>3. ASSUME NEW s \in Senders, TimesOut(s) PROVE SidecarTyped'
  <2>1. \A p \in Posted : [p EXCEPT !.gone = TRUE] \in Posted
    BY DEF Posted
  <2>2. backlog' \in [1 .. Len(backlog) -> Posted] /\ Len(backlog) \in Nat
    BY <1>3, <2>1 DEF TimesOut, BacklogTyped
  <2>3. BacklogTyped'
    BY <2>2 DEF BacklogTyped
  <2> QED
    BY <1>3, <2>3, TakesTyped DEF TimesOut, SettingsTyped, WorkedTyped
<1>4. CASE Serve
  <2>1. BacklogTyped'
    BY <1>4 DEF Serve, BacklogTyped
  <2>2. SettingsTyped'
    BY <1>4, RunnerOps DEF Serve, SettingsTyped
  <2>3. backlog[1].by \in Senders
    <3>1. backlog[1] \in Posted
      BY <1>4 DEF Serve, BacklogTyped
    <3> QED
      BY <3>1 DEF Posted
  <2>4. WaitingTyped' /\ ResultsTyped' /\ TallyTyped'
    BY <1>4, <2>3, TakesTyped DEF Serve, WaitingTyped, ResultsTyped, TallyTyped
  <2>5. WorkedTyped'
    BY <1>4, Bounds DEF Serve, WorkedTyped
  <2> QED
    BY <2>1, <2>2, <2>4, <2>5
<1>5. CASE Crash
  <2>1. PICK n \in Nat : counts' = [counts EXCEPT !.passed = @ + n]
    BY <1>5, FailedFinite DEF Crash
  <2>2. TallyTyped'
    BY <2>1, TallyOps DEF TallyTyped, Adds
  <2>3. WaitingTyped'
    BY <1>5, WaitsAre DEF Crash, WaitingTyped
  <2>4. ResultsTyped'
    BY <1>5 DEF Crash, ResultsTyped
  <2>5. SettingsTyped'
    BY <1>5, RunnerOps DEF Crash, SettingsTyped
  <2>6. BacklogTyped' /\ WorkedTyped'
    BY <1>5, Bounds DEF Crash, BacklogTyped, WorkedTyped
  <2> QED
    BY <2>2, <2>3, <2>4, <2>5, <2>6
<1>6. CASE Warmup \/ Restarted \/ VendorReplaced
  <2>1. SettingsTyped'
    BY <1>6, RunnerOps DEF Warmup, Restarted, VendorReplaced, SettingsTyped
  <2> QED
    BY <1>6, <2>1 DEF Warmup, Restarted, VendorReplaced, BacklogTyped, WorkedTyped,
         WaitingTyped, ResultsTyped, TallyTyped
<1>7. CASE SidecarTick
  <2>1. WaitingTyped'
    BY <1>7, Bounds DEF SidecarTick, WaitingTyped, Waits, Away
  <2>2. WorkedTyped'
    BY <1>7, Bounds DEF SidecarTick, WorkedTyped
  <2> QED
    BY <1>7, <2>1, <2>2 DEF SidecarTick, SettingsTyped, BacklogTyped, ResultsTyped, TallyTyped
<1>8. CASE UNCHANGED sidecarVars
  BY <1>8 DEF sidecarVars, SettingsTyped, BacklogTyped, WorkedTyped,
       WaitingTyped, ResultsTyped, TallyTyped
<1> QED
  BY <1>1, <1>2, <1>3, <1>4, <1>5, <1>6, <1>7, <1>8 DEF SidecarNext

\* What waiting becomes.
LEMMA WaitingChanges ==
  ASSUME WaitingTyped, NEW s \in Senders, NEW n, waiting' = [waiting EXCEPT ![s] = n]
  PROVE  waiting'[s] = n /\ \A u \in Senders : u # s => waiting'[u] = waiting[u]
BY DEF WaitingTyped

\* The requests in the backlog.
LEMMA BacklogIs ==
  ASSUME BacklogTyped
  PROVE  /\ Len(backlog) \in Nat /\ DOMAIN backlog = 1 .. Len(backlog)
         /\ \A i \in DOMAIN backlog : /\ backlog[i] \in Posted
                                      /\ backlog[i].by \in Senders /\ backlog[i].gone \in BOOLEAN
<1>1. Len(backlog) \in Nat /\ DOMAIN backlog = 1 .. Len(backlog)
  BY DEF BacklogTyped
<1>2. \A i \in DOMAIN backlog : backlog[i] \in Posted
  BY DEF BacklogTyped
<1>3. \A p \in Posted : p.by \in Senders /\ p.gone \in BOOLEAN
  BY DEF Posted
<1> QED
  BY <1>1, <1>2, <1>3

\* How the backlog changes: a request joins it, one is given up, the first is
\* served.
Joins(s) ==
  /\ DOMAIN backlog' = 1 .. Len(backlog) + 1
  /\ \A i \in DOMAIN backlog : backlog'[i] = backlog[i]
  /\ backlog'[Len(backlog) + 1].by = s /\ ~backlog'[Len(backlog) + 1].gone
GivenUp(s) ==
  /\ DOMAIN backlog' = DOMAIN backlog
  /\ \A i \in DOMAIN backlog :
        /\ backlog'[i].by = backlog[i].by
        /\ backlog'[i].gone <=> (backlog[i].gone \/ backlog[i].by = s)
Served ==
  /\ 1 \in DOMAIN backlog /\ DOMAIN backlog' = 1 .. Len(backlog) - 1
  /\ \A i \in 1 .. Len(backlog) - 1 : backlog'[i] = backlog[i + 1]

\* Which steps change the backlog, and how.
LEMMA BacklogChanges ==
  ASSUME BacklogTyped
  PROVE  /\ \A s \in Senders : Send(s) => Joins(s)
         /\ \A s \in Senders : TimesOut(s) => GivenUp(s)
         /\ Serve => Served
<1>1. ASSUME NEW s \in Senders, Send(s) PROVE Joins(s)
  <2>1. backlog' = Append(backlog, [by |-> s, gone |-> FALSE])
    BY <1>1 DEF Send
  <2>2. [by |-> s, gone |-> FALSE] \in Posted
    BY DEF Posted
  <2>3. /\ DOMAIN backlog' = 1 .. Len(backlog) + 1
        /\ \A i \in DOMAIN backlog : backlog'[i] = backlog[i]
        /\ backlog'[Len(backlog) + 1] = [by |-> s, gone |-> FALSE]
    BY <2>1, <2>2 DEF BacklogTyped
  <2> QED
    BY <2>3 DEF Joins
<1>2. ASSUME NEW s \in Senders, TimesOut(s) PROVE GivenUp(s)
  <2>1. backlog' = [i \in DOMAIN backlog |->
       IF backlog[i].by = s THEN [backlog[i] EXCEPT !.gone = TRUE] ELSE backlog[i]]
    BY <1>2 DEF TimesOut
  <2>2. \A p \in Posted : [p EXCEPT !.gone = TRUE].by = p.by /\ [p EXCEPT !.gone = TRUE].gone
    BY DEF Posted
  <2>3. \A i \in DOMAIN backlog : backlog[i] \in Posted
    BY BacklogIs
  <2>4. ASSUME NEW i \in DOMAIN backlog
        PROVE  /\ backlog'[i].by = backlog[i].by
               /\ backlog'[i].gone <=> (backlog[i].gone \/ backlog[i].by = s)
    BY <2>1, <2>2, <2>3
  <2> QED
    BY <2>1, <2>4 DEF GivenUp
<1>3. ASSUME Serve PROVE Served
  BY <1>3, BacklogIs DEF Serve, BacklogTyped, Served
<1> QED
  BY <1>1, <1>2, <1>3

\* Every step keeps a sender that waits in the backlog exactly once.
LEMMA SidecarStepBacklog ==
  ASSUME SidecarTyped, BacklogInv, [SidecarNext]_sidecarVars
  PROVE  BacklogInv'
<1>0. BacklogTyped /\ WaitingTyped
  BY DEF SidecarTyped
<1> USE DEF BacklogInv
<1>1. ASSUME NEW s \in Senders, PassThrough(s) \/ NothingSent(s) PROVE BacklogInv'
  BY <1>1 DEF PassThrough, NothingSent
<1>2. ASSUME NEW s \in Senders, Send(s) PROVE BacklogInv'
  <2>1. Joins(s) /\ configured' /\ waiting[s] = Away
    BY <1>2, <1>0, BacklogChanges DEF Send
  <2>2. waiting'[s] # Away /\ \A u \in Senders : u # s => waiting'[u] = waiting[u]
    BY <1>2, <1>0, WaitingChanges, WaitsAre DEF Send
  <2>3. \A i \in DOMAIN backlog : ~backlog[i].gone => backlog[i].by # s
    BY <2>1
  <2> QED
    BY <1>0, <2>1, <2>2, <2>3, BacklogIs DEF Joins
<1>3. ASSUME NEW s \in Senders, TimesOut(s) PROVE BacklogInv'
  <2>1. GivenUp(s) /\ waiting[s] # Away /\ configured' = configured
    BY <1>3, <1>0, BacklogChanges, WaitsAre DEF TimesOut, Late
  <2>2. \A u \in Senders : u # s => waiting'[u] = waiting[u]
    BY <1>3, <1>0, WaitingChanges DEF TimesOut, Takes
  <2> QED
    BY <1>0, <2>1, <2>2, BacklogIs DEF GivenUp
<1>4. CASE Serve
  <2>1. Served /\ configured' = configured
    BY <1>4, <1>0, BacklogChanges DEF Serve
  <2>4. /\ 1 \in DOMAIN backlog
        /\ \A i \in DOMAIN backlog' : /\ i + 1 \in DOMAIN backlog /\ i \in Nat /\ i + 1 # 1
                                      /\ backlog'[i] = backlog[i + 1]
    BY <1>0, <2>1, BacklogIs DEF Served
  <2>2. CASE backlog[1].gone
    <3>1. waiting' = waiting
      BY <1>4, <2>2 DEF Serve
    <3>2. ASSUME NEW i \in DOMAIN backlog', ~backlog'[i].gone
          PROVE  /\ waiting'[backlog'[i].by] # Away'
                 /\ \A j \in DOMAIN backlog' :
                      ~backlog'[j].gone /\ backlog'[j].by = backlog'[i].by => j = i
      <4>1. waiting'[backlog'[i].by] # Away'
        BY <2>4, <3>1, <3>2 DEF Away
      <4>2. ASSUME NEW j \in DOMAIN backlog', ~backlog'[j].gone, backlog'[j].by = backlog'[i].by
            PROVE  j = i
        <5>1. j + 1 = i + 1
          BY <2>4, <3>2, <4>2
        <5> QED
          BY <2>4, <5>1
      <4> QED
        BY <4>1, <4>2
    <3> QED
      BY <1>0, <2>1, <3>1, <3>2 DEF Away
  <2>3. CASE ~backlog[1].gone
    <3>1. configured
      BY <1>0, <2>3, <2>4, BacklogIs
    <3>2. \A u \in Senders : u # backlog[1].by => waiting'[u] = waiting[u]
      <4>1. backlog[1].by \in Senders /\ waiting' = [waiting EXCEPT ![backlog[1].by] = Away]
        BY <1>0, <1>4, <2>3, <2>4, BacklogIs DEF Serve, Takes
      <4> QED
        BY <1>0, <4>1, WaitingChanges
    <3>3. \A i \in DOMAIN backlog : i # 1 /\ ~backlog[i].gone => backlog[i].by # backlog[1].by
      BY <2>1, <2>3 DEF Served
    <3>4. ASSUME NEW i \in DOMAIN backlog', ~backlog'[i].gone
          PROVE  /\ waiting'[backlog'[i].by] # Away'
                 /\ \A j \in DOMAIN backlog' :
                      ~backlog'[j].gone /\ backlog'[j].by = backlog'[i].by => j = i
      <4>1. waiting'[backlog'[i].by] # Away'
        BY <1>0, <2>4, <3>2, <3>3, <3>4, BacklogIs DEF Away
      <4>2. ASSUME NEW j \in DOMAIN backlog', ~backlog'[j].gone, backlog'[j].by = backlog'[i].by
            PROVE  j = i
        <5>1. j + 1 = i + 1
          BY <2>4, <3>4, <4>2
        <5> QED
          BY <2>4, <5>1
      <4> QED
        BY <4>1, <4>2
    <3> QED
      BY <2>1, <3>1, <3>4
  <2> QED
    BY <2>2, <2>3
<1>5. CASE Crash
  BY <1>5 DEF Crash
<1>6. CASE Warmup \/ Restarted \/ VendorReplaced
  BY <1>6 DEF Warmup, Restarted, VendorReplaced
<1>7. CASE SidecarTick
  <2>1. \A s \in Senders : waiting'[s] = Away <=> waiting[s] = Away
    BY <1>7, <1>0, Bounds DEF SidecarTick, Away, Waits, WaitingTyped
  <2> QED
    BY <1>0, <1>7, <2>1, BacklogIs DEF SidecarTick
<1>8. CASE UNCHANGED sidecarVars
  BY <1>8 DEF sidecarVars
<1> QED
  BY <1>1, <1>2, <1>3, <1>4, <1>5, <1>6, <1>7, <1>8 DEF SidecarNext

\* How a sender joins those who wait, and leaves them.
LEMMA WaitersChange ==
  ASSUME NEW s \in Senders, \A u \in Senders : u # s => (waiting'[u] = Away <=> waiting[u] = Away)
  PROVE  /\ waiting[s] = Away /\ waiting'[s] # Away
              => Cardinality(Waiters') = Cardinality(Waiters) + 1
         /\ waiting[s] # Away /\ waiting'[s] = Away
              => Cardinality(Waiters') + 1 = Cardinality(Waiters)
<1>1. CASE waiting[s] = Away /\ waiting'[s] # Away
  <2>1. Waiters' = Waiters \cup {s} /\ s \notin Waiters
    BY <1>1 DEF Waiters, Away
  <2> QED
    BY <1>1, <2>1, WaitersFinite, FS_AddElement
<1>2. CASE waiting[s] # Away /\ waiting'[s] = Away
  <2>1. Waiters' = Waiters \ {s} /\ s \in Waiters
    BY <1>2 DEF Waiters, Away
  <2>2. Cardinality(Waiters') = Cardinality(Waiters) - 1
    BY <2>1, WaitersFinite, FS_RemoveElement
  <2> QED
    BY <1>2, <2>2, WaitersFinite
<1> QED
  BY <1>1, <1>2

\* Every step keeps the counts adding up.
LEMMA SidecarStepCounts ==
  ASSUME SidecarInv, [SidecarNext]_sidecarVars
  PROVE  CountsAddUp'
<1>0. /\ SidecarTyped /\ BacklogInv /\ BacklogTyped /\ WaitingTyped
      /\ counts.attempted \in Nat /\ counts.succeeded \in Nat /\ counts.passed \in Nat
      /\ counts \in Tallies /\ Cardinality(Waiters) \in Nat
  BY WaitersFinite, TallyOps DEF SidecarInv, SidecarTyped, TallyTyped
<1>c. IF configured
      THEN counts.attempted = counts.succeeded + counts.passed + Cardinality(Waiters)
      ELSE counts.attempted = 0
  BY DEF SidecarInv, CountsAddUp, Waiters
<1>n. Cardinality(Waiters') \in Nat
  <2>1. Waiters' \in SUBSET Senders
    BY DEF Waiters
  <2> QED
    BY <2>1, Bounds, FS_Subset, FS_CardinalityType
<1> SUFFICES IF configured'
             THEN counts'.attempted = counts'.succeeded + counts'.passed + Cardinality(Waiters')
             ELSE counts'.attempted = 0
  BY DEF CountsAddUp, Waiters, Away
<1>t. ASSUME NEW s \in Senders, NEW replied \in BOOLEAN, Takes(s, replied), waiting[s] # Away
      PROVE  /\ Adds(0, 1, 0) \/ Adds(0, 0, 1)
             /\ Cardinality(Waiters') + 1 = Cardinality(Waiters)
  <2>1. Adds(0, 1, 0) \/ Adds(0, 0, 1)
    BY <1>0, <1>t, TallyOps DEF Takes
  <2>2. waiting'[s] = Away /\ \A u \in Senders : u # s => waiting'[u] = waiting[u]
    BY <1>0, <1>t, WaitingChanges DEF Takes
  <2> QED
    BY <1>t, <2>1, <2>2, WaitersChange
<1>1. ASSUME NEW s \in Senders, PassThrough(s)
      PROVE  configured' = configured /\ counts'.attempted = counts.attempted /\ ~configured
  BY <1>0, <1>1, TallyOps DEF PassThrough, Adds
<1>2. ASSUME NEW s \in Senders, NothingSent(s)
      PROVE  configured' /\ configured /\ Adds(1, 0, 1) /\ Waiters' = Waiters
  BY <1>0, <1>2, TallyOps DEF NothingSent, Waiters, Away
<1>3. ASSUME NEW s \in Senders, Send(s)
      PROVE  /\ configured' /\ configured /\ Adds(1, 0, 0)
             /\ Cardinality(Waiters') = Cardinality(Waiters) + 1
  <2>1. configured' /\ configured /\ Adds(1, 0, 0) /\ waiting[s] = Away
    BY <1>0, <1>3, TallyOps DEF Send
  <2>2. waiting'[s] # Away /\ \A u \in Senders : u # s => waiting'[u] = waiting[u]
    BY <1>0, <1>3, WaitingChanges, WaitsAre DEF Send
  <2> QED
    BY <2>1, <2>2, WaitersChange
<1>4. ASSUME NEW s \in Senders, TimesOut(s)
      PROVE  /\ configured' /\ configured
             /\ Adds(0, 1, 0) \/ Adds(0, 0, 1)
             /\ Cardinality(Waiters') + 1 = Cardinality(Waiters)
  <2>1. waiting[s] # Away /\ Takes(s, FALSE)
    BY <1>4, WaitsAre DEF TimesOut, Late
  <2>2. configured' /\ configured
    BY <1>0, <1>4, <2>1 DEF BacklogInv, TimesOut
  <2> QED
    BY <1>t, <2>1, <2>2
<1>5. CASE Serve
  <2>1. 1 \in DOMAIN backlog /\ backlog[1].by \in Senders
    BY <1>0, <1>5, BacklogChanges, BacklogIs DEF Served
  <2>2. CASE backlog[1].gone
    <3>1. UNCHANGED <<configured, counts, waiting>>
      BY <1>5, <2>2 DEF Serve
    <3> QED
      BY <3>1, <1>c DEF Waiters, Away
  <2>3. CASE ~backlog[1].gone
    <3>1. waiting[backlog[1].by] # Away /\ configured /\ configured'
      BY <1>0, <1>5, <2>1, <2>3 DEF BacklogInv, Serve
    <3>2. \E replied \in BOOLEAN : Takes(backlog[1].by, replied)
      BY <1>5, <2>3 DEF Serve
    <3> QED
      <4>1. /\ Adds(0, 1, 0) \/ Adds(0, 0, 1)
            /\ Cardinality(Waiters') + 1 = Cardinality(Waiters)
        BY <1>t, <2>1, <3>1, <3>2
      <4>2. Cardinality(Waiters') \in Nat
        BY <1>n
      <4> QED
        BY <1>0, <1>c, <3>1, <4>1, <4>2 DEF Adds
  <2> QED
    BY <2>2, <2>3
<1>6. CASE Crash
  <2>1. Adds(0, 0, Cardinality(Waiters)) /\ configured' = configured
    BY <1>0, <1>6, TallyOps DEF Crash, Waiters
  <2>2. Waiters' = {}
    BY <1>6 DEF Crash, Waiters, Away
  <2>3. Cardinality(Waiters') = 0
    BY <2>2, FS_EmptySet
  <2> QED
    BY <1>0, <1>c, <2>1, <2>3 DEF Adds
<1>7. CASE Warmup \/ Restarted \/ VendorReplaced \/ UNCHANGED sidecarVars
  <2>1. UNCHANGED <<configured, counts, waiting>>
    BY <1>7 DEF Warmup, Restarted, VendorReplaced, sidecarVars
  <2> QED
    BY <1>c, <2>1 DEF Waiters, Away
<1>8. CASE SidecarTick
  <2>1. \A s \in Senders : waiting'[s] = Away <=> waiting[s] = Away
    BY <1>8, <1>0, Bounds DEF SidecarTick, Away, Waits, WaitingTyped
  <2>2. Waiters' = Waiters /\ UNCHANGED <<configured, counts>>
    BY <1>8, <2>1 DEF Waiters, SidecarTick, Away
  <2> QED
    BY <1>c, <2>2
<1> QED
  <2>1. ASSUME NEW s \in Senders, PassThrough(s) \/ NothingSent(s) \/ Send(s) \/ TimesOut(s)
        PROVE  IF configured'
               THEN counts'.attempted = counts'.succeeded + counts'.passed + Cardinality(Waiters')
               ELSE counts'.attempted = 0
    <3>1. CASE PassThrough(s)
      BY <1>c, <1>1, <3>1
    <3>2. CASE NothingSent(s)
      BY <1>0, <1>c, <1>2, <3>2 DEF Adds
    <3>3. CASE Send(s)
      BY <1>0, <1>c, <1>3, <3>3 DEF Adds
    <3>4. CASE TimesOut(s)
      BY <1>0, <1>c, <1>n, <1>4, <3>4 DEF Adds
    <3> QED
      BY <2>1, <3>1, <3>2, <3>3, <3>4
  <2> QED
    BY <2>1, <1>5, <1>6, <1>7, <1>8 DEF SidecarNext

\* No count exceeds that of the attempts, or without a URL that of the bound.
FewInv == counts.succeeded <= SwapMax /\ counts.passed <= SwapMax

LEMMA SidecarStepFew ==
  ASSUME SidecarInv, SidecarInv', FewInv, [SidecarNext]_sidecarVars
  PROVE  FewInv'
<1>0. /\ counts \in Tallies /\ SwapMax \in Nat /\ configured \in BOOLEAN
      /\ configured' = configured
  BY Bounds DEF SidecarInv, SidecarTyped, TallyTyped, SettingsTyped, SidecarNext, sidecarVars,
       PassThrough, NothingSent, Send, TimesOut, Serve, Warmup, Crash, Restarted,
       VendorReplaced, SidecarTick
<1>1. CASE configured
  <2>1. /\ counts'.attempted = counts'.succeeded + counts'.passed
                               + Cardinality({s \in Senders : waiting'[s] # Away})
        /\ counts'.attempted <= SwapMax /\ counts' \in Tallies
    BY <1>0, <1>1 DEF SidecarInv, CountsAddUp, SidecarTyped, TallyTyped
  <2>2. Cardinality({s \in Senders : waiting'[s] # Away}) \in Nat
    <3>1. {s \in Senders : waiting'[s] # Away} \in SUBSET Senders
      OBVIOUS
    <3> QED
      BY <3>1, Bounds, FS_Subset, FS_CardinalityType
  <2>3. counts'.attempted \in Nat /\ counts'.succeeded \in Nat /\ counts'.passed \in Nat
    BY <2>1 DEF Tallies
  <2> QED
    BY <1>0, <2>1, <2>2, <2>3 DEF FewInv
<1>2. CASE ~configured
  <2>1. \A s \in Senders : waiting[s] = Away
    BY <1>2 DEF SidecarInv, BacklogInv
  <2>2. \A i \in DOMAIN backlog : backlog[i].gone
    <3>1. ASSUME NEW i \in DOMAIN backlog PROVE backlog[i].by \in Senders
      <4>1. backlog[i] \in Posted
        BY <3>1 DEF SidecarInv, SidecarTyped, BacklogTyped
      <4> QED
        BY <4>1 DEF Posted
    <3> QED
      BY <2>1, <3>1 DEF SidecarInv, BacklogInv
  <2>3. counts' = counts \/ \E s \in Senders : PassThrough(s)
    <3>1. CASE Serve
      <4>1. backlog[1].gone
        BY <2>2, <3>1 DEF Serve, SidecarInv, SidecarTyped, BacklogTyped
      <4> QED
        BY <3>1, <4>1 DEF Serve
    <3>2. CASE Crash
      <4>1. {s \in Senders : waiting[s] # Away} = {}
        BY <2>1
      <4>2. Cardinality({s \in Senders : waiting[s] # Away}) = 0
        BY <4>1, FS_EmptySet
      <4>3. counts' = [counts EXCEPT !.passed = @ + 0]
        BY <3>2, <4>2 DEF Crash
      <4> QED
        BY <1>0, <4>3 DEF Tallies
    <3>3. ASSUME NEW s \in Senders PROVE ~NothingSent(s) /\ ~Send(s) /\ ~TimesOut(s)
      BY <1>2, <2>1, WaitsAre DEF NothingSent, Send, TimesOut, Late
    <3>4. Warmup \/ Restarted \/ VendorReplaced \/ SidecarTick \/ UNCHANGED sidecarVars => counts' = counts
      BY DEF Warmup, Restarted, VendorReplaced, SidecarTick, sidecarVars
    <3> QED
      BY <3>1, <3>2, <3>3, <3>4 DEF SidecarNext
  <2>4. CASE counts' = counts
    BY <2>4 DEF FewInv
  <2>5. ASSUME NEW s \in Senders, PassThrough(s) PROVE FewInv'
    BY <1>0, <2>5 DEF PassThrough, FewInv, Tallies
  <2> QED
    BY <2>3, <2>4, <2>5
<1> QED
  BY <1>0, <1>1, <1>2

\* Swaps that were attempted succeeded, were passed through or are still waited for,
\* whatever crashes and timeouts come between.
\* facefusion_sidecar_daemon.py:158-246.
THEOREM Counted == SidecarSpec => [](SidecarTypeOK /\ CountsAddUp)
<1>1. SidecarInv /\ [SidecarNext]_sidecarVars => SidecarInv'
  BY SidecarStepTyped, SidecarStepBacklog, SidecarStepCounts DEF SidecarInv
<1>2. SidecarInit => FewInv
  BY Bounds DEF SidecarInit, FewInv
<1>3. SidecarInv /\ SidecarInv' /\ FewInv /\ [SidecarNext]_sidecarVars => FewInv'
  BY SidecarStepFew
<1>4. SidecarInv /\ FewInv => SidecarTypeOK /\ CountsAddUp
  <2> SUFFICES ASSUME SidecarInv, FewInv PROVE SidecarTypeOK
    BY DEF SidecarInv
  <2>1. SettingsTyped /\ WorkedTyped /\ WaitingTyped /\ ResultsTyped
    BY DEF SidecarInv, SidecarTyped
  <2>2. \A i \in DOMAIN backlog : backlog[i] \in Posted
    BY DEF SidecarInv, SidecarTyped, BacklogTyped
  <2>3. counts \in [attempted : 0 .. SwapMax, succeeded : 0 .. SwapMax, passed : 0 .. SwapMax]
    BY Bounds DEF SidecarInv, SidecarTyped, TallyTyped, Tallies, FewInv
  <2> QED
    BY <2>1, <2>2, <2>3 DEF SidecarTypeOK, SettingsTyped, WorkedTyped, WaitingTyped,
         ResultsTyped, Posted, Waits, Runners
<1> QED
  BY SidecarInitial, <1>1, <1>2, <1>3, <1>4, PTL DEF SidecarSpec

-----------------------------------------------------------------------------
\* Whoever waits is in the backlog.
AwaitedInv ==
  \A s \in Senders : waiting[s] # Away =>
    \E i \in DOMAIN backlog : backlog[i].by = s /\ ~backlog[i].gone

\* The ticks the sidecar needs at most before it begins the i-th request when
\* all senders have one.
Budget(i) == (Cardinality(Senders) - i) * WorkMax

\* The sidecar is quick enough: nobody has given up, and the i-th to be served
\* has not waited for longer than those before it may have taken.
TimelyInv ==
  \A i \in DOMAIN backlog : /\ ~backlog[i].gone
                            /\ waiting[backlog[i].by] <= Budget(i) + worked

Quick == Cardinality(Senders) * WorkMax < Timeout

\* There are so many senders.
LEMMA SendersCounted == Cardinality(Senders) \in Nat
BY Bounds, FS_CardinalityType

\* The arithmetic of one work after another.
LEMMA Budgets ==
  ASSUME NEW n \in Nat, NEW i \in Nat, NEW w \in Nat
  PROVE  /\ (n - i) * w \in Int
         /\ (n - (i + 1)) * w + w = (n - i) * w
         /\ i <= n => 0 <= (n - i) * w
         /\ 1 <= i => (n - i) * w + w <= n * w
<1>1. (n - i) * w = n * w - i * w /\ n * w \in Nat /\ i * w \in Nat
  OBVIOUS
<1>2. (n - (i + 1)) * w = n * w - (i * w + w)
  OBVIOUS
<1>3. ASSUME 1 <= i PROVE w <= i * w
  <2>1. 0 <= (i - 1) * w
    BY <1>3
  <2>2. (i - 1) * w = i * w - w
    OBVIOUS
  <2> QED
    BY <2>1, <2>2, <1>1
<1>4. ASSUME i <= n PROVE i * w <= n * w
  <2>1. 0 <= (n - i) * w
    BY <1>4
  <2> QED
    BY <2>1, <1>1
<1> QED
  BY <1>1, <1>2, <1>3, <1>4

\* The time that is left for those behind the i-th of the backlog.
LEMMA BudgetsAre ==
  ASSUME NEW i \in Nat
  PROVE  /\ Budget(i) \in Int
         /\ Budget(i + 1) + WorkMax = Budget(i)
         /\ i <= Cardinality(Senders) => 0 <= Budget(i)
         /\ 1 <= i => Budget(i) + WorkMax <= Cardinality(Senders) * WorkMax
BY Budgets, SendersCounted, Bounds DEF Budget

\* A backlog of which nobody has given up is no longer than the senders are many.
LEMMA BacklogShort ==
  ASSUME NEW b \in Seq(Posted),
         \A i, j \in DOMAIN b : b[i].by = b[j].by => i = j
  PROVE  Len(b) <= Cardinality(Senders)
<1> DEFINE by == [i \in 1 .. Len(b) |-> b[i].by]
<1>1. \A i \in 1 .. Len(b) : b[i] \in Posted
  OBVIOUS
<1>2. \A p \in Posted : p.by \in Senders
  BY DEF Posted
<1>3. by \in [1 .. Len(b) -> Senders]
  BY <1>1, <1>2
<1>4. DOMAIN b = 1 .. Len(b) /\ Len(b) \in Nat
  OBVIOUS
<1>5. by \in Injection(1 .. Len(b), Senders)
  BY <1>3, <1>4 DEF Injection, IsInjective
<1>6. Cardinality(1 .. Len(b)) <= Cardinality(Senders)
  BY <1>5, Bounds, FS_Injection
<1>7. Cardinality(1 .. Len(b)) = Len(b)
  BY <1>4, FS_Interval
<1> QED
  BY <1>6, <1>7

\* A sender served or given up on leaves the backlog to the others.
LEMMA SidecarStepAwaited ==
  ASSUME SidecarTyped, BacklogInv, AwaitedInv, [SidecarNext]_sidecarVars
  PROVE  AwaitedInv'
<1>0. BacklogTyped /\ WaitingTyped
  BY DEF SidecarTyped
<1> USE DEF AwaitedInv
<1>1. ASSUME NEW s \in Senders, Send(s) PROVE AwaitedInv'
  <2>1. Joins(s) /\ \A u \in Senders : u # s => waiting'[u] = waiting[u]
    BY <1>1, <1>0, BacklogChanges, WaitingChanges DEF Send
  <2>2. \A i \in DOMAIN backlog : i \in DOMAIN backlog' /\ backlog'[i] = backlog[i]
    BY <1>0, <2>1, BacklogIs DEF Joins
  <2>3. Len(backlog) + 1 \in DOMAIN backlog'
    BY <1>0, <2>1, BacklogIs DEF Joins
  <2> SUFFICES ASSUME NEW u \in Senders, waiting'[u] # Away
               PROVE  \E i \in DOMAIN backlog' : backlog'[i].by = u /\ ~backlog'[i].gone
    BY DEF Away
  <2>4. CASE u = s
    BY <2>1, <2>3, <2>4 DEF Joins
  <2>5. CASE u # s
    BY <2>1, <2>2, <2>5
  <2> QED
    BY <2>4, <2>5
<1>2. ASSUME NEW s \in Senders, TimesOut(s) PROVE AwaitedInv'
  <2>1. GivenUp(s) /\ waiting'[s] = Away /\ \A u \in Senders : u # s => waiting'[u] = waiting[u]
    BY <1>2, <1>0, BacklogChanges, WaitingChanges DEF TimesOut, Takes
  <2> SUFFICES ASSUME NEW u \in Senders, waiting'[u] # Away
               PROVE  \E i \in DOMAIN backlog' : backlog'[i].by = u /\ ~backlog'[i].gone
    BY DEF Away
  <2>2. PICK i \in DOMAIN backlog : backlog[i].by = u /\ ~backlog[i].gone
    BY <2>1
  <2>3. u # s
    BY <2>1
  <2> QED
    BY <2>1, <2>2, <2>3 DEF GivenUp
<1>3. CASE Serve
  <2>1. Served /\ \A i \in DOMAIN backlog : i \in 1 .. Len(backlog) /\ backlog[i].by \in Senders
    BY <1>3, <1>0, BacklogChanges, BacklogIs
  <2> SUFFICES ASSUME NEW u \in Senders, waiting'[u] # Away
               PROVE  \E i \in DOMAIN backlog' : backlog'[i].by = u /\ ~backlog'[i].gone
    BY DEF Away
  <2>2. waiting[u] # Away /\ (backlog[1].gone \/ backlog[1].by # u)
    <3>1. CASE backlog[1].gone
      BY <1>3, <3>1 DEF Serve
    <3>2. CASE ~backlog[1].gone
      <4>1. waiting' = [waiting EXCEPT ![backlog[1].by] = Away] /\ backlog[1].by \in Senders
        BY <1>3, <2>1, <3>2 DEF Serve, Takes, Served
      <4> QED
        <5>1. /\ waiting'[backlog[1].by] = Away
              /\ \A v \in Senders : v # backlog[1].by => waiting'[v] = waiting[v]
          BY <1>0, <4>1, WaitingChanges
        <5> QED
          BY <5>1
    <3> QED
      BY <3>1, <3>2
  <2>3. PICK i \in DOMAIN backlog : backlog[i].by = u /\ ~backlog[i].gone
    BY <2>2
  <2>4. i - 1 \in 1 .. Len(backlog) - 1 /\ (i - 1) + 1 = i
    BY <1>0, <2>1, <2>2, <2>3, BacklogIs
  <2>5. i - 1 \in DOMAIN backlog' /\ backlog'[i - 1] = backlog[(i - 1) + 1]
    BY <2>1, <2>4 DEF Served
  <2>6. backlog'[i - 1] = backlog[i]
    BY <2>4, <2>5
  <2> QED
    BY <2>3, <2>5, <2>6
<1>4. CASE Crash
  BY <1>4 DEF Crash, Away
<1>5. ASSUME NEW s \in Senders, PassThrough(s) \/ NothingSent(s) PROVE AwaitedInv'
  BY <1>5 DEF PassThrough, NothingSent, Away
<1>6. CASE Warmup \/ Restarted \/ VendorReplaced \/ UNCHANGED sidecarVars
  BY <1>6 DEF Warmup, Restarted, VendorReplaced, sidecarVars, Away
<1>7. CASE SidecarTick
  <2>1. \A s \in Senders : waiting'[s] = Away <=> waiting[s] = Away
    BY <1>7, <1>0, Bounds DEF SidecarTick, Away, Waits, WaitingTyped
  <2> QED
    BY <1>7, <2>1 DEF SidecarTick, Away
<1> QED
  BY <1>1, <1>2, <1>3, <1>4, <1>5, <1>6, <1>7 DEF SidecarNext

\* Types of what TimelyInv compares.
LEMMA TimelyTypes ==
  ASSUME SidecarTyped
  PROVE  /\ worked \in Nat /\ worked <= WorkMax /\ WorkMax \in Nat
         /\ \A s \in Senders : waiting[s] \in Nat
<1>1. worked \in Nat /\ worked <= WorkMax /\ WorkMax \in Nat
  BY Bounds DEF SidecarTyped, WorkedTyped
<1>2. \A s \in Senders : waiting[s] \in Waits
  BY DEF SidecarTyped, WaitingTyped
<1> QED
  BY <1>1, <1>2, WaitsAre

\* Every step keeps those that wait in time.
LEMMA SidecarStepTimely ==
  ASSUME SidecarTyped, BacklogInv, AwaitedInv, Quick, TimelyInv, [SidecarNext]_sidecarVars,
         SidecarTyped', BacklogInv'
  PROVE  TimelyInv'
<1>0. BacklogTyped /\ WaitingTyped /\ BacklogTyped'
  BY DEF SidecarTyped
<1>b. /\ Len(backlog) \in Nat /\ DOMAIN backlog = 1 .. Len(backlog)
      /\ \A i \in DOMAIN backlog : /\ backlog[i].by \in Senders /\ waiting[backlog[i].by] \in Nat
                                   /\ i \in Nat /\ 1 <= i /\ Budget(i) \in Int
  <2>1. Len(backlog) \in Nat /\ DOMAIN backlog = 1 .. Len(backlog)
    BY <1>0, BacklogIs
  <2>2. \A i \in DOMAIN backlog : backlog[i].by \in Senders
    BY <1>0, BacklogIs
  <2>3. \A i \in 1 .. Len(backlog) : i \in Nat /\ 1 <= i
    BY <2>1
  <2>4. \A i \in Nat : Budget(i) \in Int
    BY BudgetsAre
  <2> QED
    BY <2>1, <2>2, <2>3, <2>4, TimelyTypes
<1>w. worked \in Nat /\ worked <= WorkMax /\ WorkMax \in Nat
  BY TimelyTypes
<1> SUFFICES ASSUME NEW i \in DOMAIN backlog'
             PROVE  ~backlog'[i].gone /\ waiting'[backlog'[i].by] <= Budget(i) + worked'
  BY DEF TimelyInv, Budget
<1>1. ASSUME NEW s \in Senders, Send(s)
      PROVE  ~backlog'[i].gone /\ waiting'[backlog'[i].by] <= Budget(i) + worked'
  <2>1. Joins(s) /\ worked' = worked /\ waiting'[s] = 0 /\ waiting[s] = Away
        /\ \A u \in Senders : u # s => waiting'[u] = waiting[u]
    BY <1>1, <1>0, BacklogChanges, WaitingChanges DEF Send
  <2>2. CASE i \in DOMAIN backlog
    <3>1. backlog'[i] = backlog[i] /\ ~backlog[i].gone /\ backlog[i].by # s
      BY <2>1, <2>2 DEF Joins, TimelyInv, BacklogInv
    <3> QED
      BY <1>b, <2>1, <2>2, <3>1 DEF TimelyInv
  <2>3. CASE i \notin DOMAIN backlog
    <3>1. i = Len(backlog) + 1
      BY <1>b, <2>1, <2>3 DEF Joins
    <3>2. \A k \in DOMAIN backlog' : ~backlog'[k].gone
      BY <1>b, <2>1 DEF Joins, TimelyInv
    <3>3. Len(backlog') <= Cardinality(Senders)
      <4>1. backlog' \in Seq(Posted)
        BY <1>0 DEF BacklogTyped
      <4>2. \A k, j \in DOMAIN backlog' : backlog'[k].by = backlog'[j].by => k = j
        BY <3>2 DEF BacklogInv
      <4> QED
        BY <4>1, <4>2, BacklogShort
    <3>4. Len(backlog') = Len(backlog) + 1
      <4>1. backlog' = Append(backlog, [by |-> s, gone |-> FALSE])
        BY <1>1 DEF Send
      <4>2. backlog \in Seq(Posted) /\ [by |-> s, gone |-> FALSE] \in Posted
        BY <1>0 DEF Posted, BacklogTyped
      <4> QED
        BY <4>1, <4>2
    <3>5. 0 <= Budget(i) /\ Budget(i) \in Int
      BY <1>b, <3>1, <3>3, <3>4, BudgetsAre
    <3>6. backlog'[i].by = s /\ ~backlog'[i].gone
      BY <2>1, <3>1 DEF Joins
    <3> QED
      BY <1>w, <2>1, <3>5, <3>6
  <2> QED
    BY <2>2, <2>3
<1>2. ASSUME NEW s \in Senders, TimesOut(s)
      PROVE  FALSE
  <2>1. waiting[s] = Timeout /\ waiting[s] # Away
    BY <1>2, WaitsAre DEF TimesOut, Late
  <2>2. PICK k \in DOMAIN backlog : backlog[k].by = s
    BY <2>1 DEF AwaitedInv
  <2>3. waiting[s] <= Budget(k) + worked /\ Budget(k) + WorkMax <= Cardinality(Senders) * WorkMax
    BY <1>b, <2>2, BudgetsAre DEF TimelyInv
  <2>4. Cardinality(Senders) * WorkMax \in Nat
    BY <1>w, SendersCounted
  <2> QED
    BY <1>b, <1>w, <2>1, <2>2, <2>3, <2>4, Bounds DEF Quick
<1>3. ASSUME Serve
      PROVE  ~backlog'[i].gone /\ waiting'[backlog'[i].by] <= Budget(i) + worked'
  <2>1. Served /\ worked' = 0
    BY <1>3, <1>0, BacklogChanges DEF Serve
  <2>2. i \in Nat /\ i + 1 \in DOMAIN backlog /\ i + 1 # 1 /\ backlog'[i] = backlog[i + 1]
    BY <1>b, <2>1 DEF Served
  <2>3. ~backlog[1].gone /\ ~backlog[i + 1].gone /\ 1 \in DOMAIN backlog
    BY <2>1, <2>2 DEF TimelyInv, Served
  <2>4. backlog[1].by # backlog[i + 1].by
    BY <2>2, <2>3 DEF BacklogInv
  <2>5. waiting' = [waiting EXCEPT ![backlog[1].by] = Away] /\ backlog[1].by \in Senders
    BY <1>3, <1>b, <2>3 DEF Serve, Takes
  <2>6. waiting'[backlog[i + 1].by] = waiting[backlog[i + 1].by]
    BY <1>0, <1>b, <2>2, <2>4, <2>5, WaitingChanges
  <2>7. waiting[backlog[i + 1].by] <= Budget(i + 1) + worked /\ Budget(i + 1) + WorkMax = Budget(i)
        /\ Budget(i) \in Int /\ Budget(i + 1) \in Int
    BY <1>b, <2>2, BudgetsAre DEF TimelyInv
  <2>8. waiting[backlog[i + 1].by] \in Nat
    BY <1>b, <2>2
  <2> QED
    BY <1>w, <2>1, <2>2, <2>3, <2>6, <2>7, <2>8
<1>4. ASSUME Crash PROVE FALSE
  BY <1>4 DEF Crash
<1>5. ASSUME NEW s \in Senders, PassThrough(s) \/ NothingSent(s)
      PROVE  ~backlog'[i].gone /\ waiting'[backlog'[i].by] <= Budget(i) + worked'
  BY <1>5 DEF PassThrough, NothingSent, TimelyInv
<1>6. ASSUME Warmup \/ Restarted \/ VendorReplaced \/ UNCHANGED sidecarVars
      PROVE  ~backlog'[i].gone /\ waiting'[backlog'[i].by] <= Budget(i) + worked'
  BY <1>6 DEF Warmup, Restarted, VendorReplaced, sidecarVars, TimelyInv
<1>7. ASSUME SidecarTick
      PROVE  ~backlog'[i].gone /\ waiting'[backlog'[i].by] <= Budget(i) + worked'
  <2>1. backlog' = backlog /\ i \in DOMAIN backlog
    BY <1>7 DEF SidecarTick
  <2>2. backlog # <<>>
    BY <1>b, <2>1
  <2>3. worked' = worked + 1
    BY <1>7, <2>2 DEF SidecarTick
  <2>4. ~backlog[i].gone /\ waiting[backlog[i].by] # Away /\ waiting[backlog[i].by] <= Budget(i) + worked
    BY <2>1 DEF TimelyInv, BacklogInv
  <2>5. waiting'[backlog[i].by] = waiting[backlog[i].by] + 1
    BY <1>7, <1>b, <2>1, <2>4 DEF SidecarTick
  <2> QED
    BY <1>b, <1>w, <2>1, <2>3, <2>4, <2>5
<1> QED
  BY <1>1, <1>2, <1>3, <1>4, <1>5, <1>6, <1>7 DEF SidecarNext

SidecarTimely == SidecarInv /\ AwaitedInv /\ (Quick => TimelyInv)

\* While the sidecar can serve all senders one after another within a timeout,
\* nothing that was given up waits in its backlog.  facefusion_sidecar_daemon.py:191-217, app.py:161-233.
THEOREM Timely == SidecarSpec => []OnTime
<1>1. SidecarInit => SidecarTimely
  BY SidecarInitial DEF SidecarInit, SidecarTimely, AwaitedInv, TimelyInv
<1>2. SidecarTimely /\ [SidecarNext]_sidecarVars => SidecarTimely'
  <2> SUFFICES ASSUME SidecarTimely, [SidecarNext]_sidecarVars PROVE SidecarTimely'
    OBVIOUS
  <2>1. SidecarInv'
    BY SidecarStepTyped, SidecarStepBacklog, SidecarStepCounts DEF SidecarInv, SidecarTimely
  <2>2. AwaitedInv'
    BY SidecarStepAwaited DEF SidecarInv, SidecarTimely
  <2>3. ASSUME Quick PROVE TimelyInv'
    BY <2>1, <2>3, SidecarStepTimely DEF SidecarInv, SidecarTimely
  <2> QED
    BY <2>1, <2>2, <2>3 DEF SidecarTimely, Quick
<1>3. SidecarTimely => OnTime
  BY DEF SidecarTimely, OnTime, TimelyInv, Quick
<1> QED
  BY <1>1, <1>2, <1>3, PTL DEF SidecarSpec

-----------------------------------------------------------------------------
\* Any set of naturals that is not empty has a least element.
LEMMA Smallest ==
  ASSUME NEW T, T \subseteq Nat, T # {}
  PROVE  \E x \in T : \A y \in T : x <= y
<1> DEFINE R == {p \in Nat \X Nat : p[1] < p[2]}
<1>1. IsWellFoundedOn(R, Nat)
  <2>1. OpToRel(<, Nat) = R
    BY DEF OpToRel
  <2> QED
    BY <2>1, NatLessThanWellFounded
<1>2. \A x, y \in Nat : x > y => <<y, x>> \in R
  OBVIOUS
<1> HIDE DEF R
<1>3. PICK x \in T : \A y \in T : ~ (<<y, x>> \in R)
  BY <1>1, WFMin
<1>4. \A y \in T : x \in Nat /\ y \in Nat /\ ~(x > y)
  BY <1>2, <1>3
<1> QED
  BY <1>4

-----------------------------------------------------------------------------
(***************************************************************************)
(* Speech: no clip of the local voice is cut short.                        *)
(***************************************************************************)

Utterance == [at : {"vendor", "spoken", "lips"}, name : Names, look : Looks, took : 0 .. VendorMax]

\* What the clips depend on; the breakers and the budget say only which of the
\* steps may be taken.
SpeechTyped ==
  /\ voice \in Remotes \cup {"luxtts"}
  /\ disk \in [Names -> Clips]
  /\ call = Idle \/ call \in Utterance
  /\ torn \subseteq Names

ClipsInv == SpeechTyped /\ LuxWhole

-----------------------------------------------------------------------------
\* Names of clips, and what may be on the disk under them.
LEMMA NamesAre ==
  /\ \A v \in Remotes \cup {"luxtts"}, look \in Looks : Name(v, look) \in Names
  /\ \A look \in Looks : Name("luxtts", look) \in LuxNames
  /\ LuxNames \subseteq Names
  /\ \A look \in Looks : look # "cut" /\ look \in Clips
  /\ {"none", "cut", "local"} \subseteq Clips
BY SpeechAssumption DEF Name, LuxNames, Names, Clips

\* A call in hand is an utterance.
LEMMA CallIs ==
  ASSUME SpeechTyped, call.at = "vendor" \/ call.at = "spoken" \/ call.at = "lips"
  PROVE  /\ call \in Utterance /\ call.name \in Names /\ call.look \in Looks
         /\ \A point \in {"vendor", "spoken", "lips"} : [call EXCEPT !.at = point] \in Utterance
<1>1. Idle.at = "idle"
  BY DEF Idle
<1>2. call # Idle
  BY <1>1
<1>3. call \in Utterance
  BY <1>2 DEF SpeechTyped
<1> QED
  BY <1>3 DEF Utterance

\* A clip is written over: it is the only one that may have been in the writing.
LEMMA KeepsWhole ==
  ASSUME ClipsInv, NEW name \in Names, NEW clip \in Clips, Keep(name, clip),
         torn \subseteq torn', torn' \subseteq Names, clip = "cut" => name \in torn',
         call.at = "vendor" => call.name = name
  PROVE  disk' \in [Names -> Clips] /\ LuxWhole'
<1>1. disk' \in [Names -> Clips] /\ \A n \in Names : n # name => disk'[n] = disk[n]
  BY DEF Keep, ClipsInv, SpeechTyped
<1>2. disk'[name] = clip
  BY DEF Keep, ClipsInv, SpeechTyped
<1>3. \A n \in LuxNames : n # name /\ disk[n] = "cut" => n \in torn
  BY DEF ClipsInv, LuxWhole
<1>4. \A n \in LuxNames : disk'[n] = "cut" => n \in torn'
  BY <1>1, <1>2, <1>3, NamesAre
<1> QED
  BY <1>1, <1>4 DEF LuxWhole, LuxNames, Name

\* No clip is written: the one in the writing still is, or has its cause.
LEMMA WholeKept ==
  ASSUME ClipsInv, UNCHANGED disk, torn \subseteq torn',
         call.at = "vendor" => \/ call'.at = "vendor" /\ call'.name = call.name
                               \/ call.name \in torn'
                               \/ call.name \notin LuxNames
                               \/ disk[call.name] # "cut"
  PROVE  LuxWhole'
BY DEF ClipsInv, LuxWhole, LuxNames, Name

\* The local voice writes a whole clip, or the disk is full.
LEMMA LocalKeeps ==
  ASSUME ClipsInv, NEW name \in Names, Local(name), call.at = "vendor" => call.name = name
  PROVE  disk' \in [Names -> Clips] /\ LuxWhole' /\ torn' \subseteq Names
<1>1. torn \subseteq torn' /\ torn' \subseteq Names
  BY DEF Local, ClipsInv, SpeechTyped
<1> QED
  BY <1>1, KeepsWhole, NamesAre DEF Local

\* The disk is empty.
LEMMA ClipsInitial == SpeechInit => ClipsInv
BY SpeechAssumption, NamesAre DEF SpeechInit, ClipsInv, SpeechTyped, LuxWhole, Idle

\* A call that is begun, or a clip that is there.
LEMMA VendorBegins ==
  ASSUME SpeechTyped, NEW look \in Looks, NEW v \in Remotes \cup {"luxtts"}, NEW point \in {"vendor", "spoken", "lips"}
  PROVE  [at |-> point, name |-> Name(v, look), look |-> look, took |-> 0] \in Utterance
BY NamesAre, SpeechAssumption DEF Utterance

\* Every step keeps the clips whole.
LEMMA StepClips ==
  ASSUME ClipsInv, [SpeechNext]_speechVars
  PROVE  ClipsInv'
<1>0. SpeechTyped /\ voice \in Remotes \cup {"luxtts"} /\ torn \subseteq Names /\ disk \in [Names -> Clips]
  BY DEF ClipsInv, SpeechTyped
<1>1. ASSUME NEW look \in Looks, Hit(look) \/ AskVendor(look) \/ RemoteRefused(look) PROVE ClipsInv'
  <2>1. UNCHANGED <<voice, disk, torn>>
    BY <1>1 DEF Hit, AskVendor, RemoteRefused, Stays, voiceVars, speechVars
  <2>2. call' = call \/ \E point \in {"vendor", "spoken"} :
          call' = [at |-> point, name |-> Name(voice, look), look |-> look, took |-> 0]
    BY <1>1 DEF Hit, AskVendor, RemoteRefused, speechVars
  <2>3. call' = Idle \/ call' \in Utterance
    BY <1>0, <2>2, VendorBegins DEF SpeechTyped
  <2>4. call.at = "vendor" => call' = call
    <3>1. call = Idle
      BY <1>1 DEF Hit, AskVendor, RemoteRefused
    <3> QED
      BY <3>1 DEF Idle
  <2>5. LuxWhole'
    BY <2>1, <2>4, WholeKept
  <2> QED
    BY <1>0, <2>1, <2>3, <2>5 DEF ClipsInv, SpeechTyped, Idle, Utterance, Names, Clips
<1>2. ASSUME NEW look \in Looks, SpeakLocally(look) PROVE ClipsInv'
  <2>1. Local(Name("luxtts", look)) /\ UNCHANGED voice
    BY <1>2 DEF SpeakLocally, Stays, voiceVars
  <2>2. disk' \in [Names -> Clips] /\ LuxWhole' /\ torn' \subseteq Names
    <3>1. call.at # "vendor"
      BY <1>2 DEF SpeakLocally, Idle
    <3> QED
      BY <2>1, <3>1, LocalKeeps, NamesAre
  <2>3. call' = Idle \/ call' = [at |-> "spoken", name |-> Name("luxtts", look), look |-> look, took |-> 0]
    BY <1>2 DEF SpeakLocally
  <2>4. call' = Idle \/ call' \in Utterance
    BY <1>0, <2>3, VendorBegins
  <2> QED
    BY <1>0, <2>1, <2>2, <2>4 DEF ClipsInv, SpeechTyped, Idle, Utterance, Names, Clips
<1>3. CASE VendorDone
  <2>1. /\ call.at = "vendor" /\ Keep(call.name, call.look) /\ UNCHANGED <<voice, torn>>
        /\ call' = [call EXCEPT !.at = "spoken"]
    BY <1>3 DEF VendorDone, Adopted, voiceVars
  <2>2. call.name \in Names /\ call.look \in Looks /\ call' \in Utterance
    BY <1>0, <2>1, CallIs
  <2>3. disk' \in [Names -> Clips] /\ LuxWhole'
    BY <1>0, <2>1, <2>2, KeepsWhole, NamesAre DEF SpeechTyped
  <2> QED
    BY <1>0, <2>1, <2>2, <2>3 DEF ClipsInv, SpeechTyped, Idle, Utterance, Names, Clips
<1>4. CASE LuxFails
  <2>1. /\ call.at = "vendor" /\ Local(call.name) /\ UNCHANGED voice
        /\ call' = Idle \/ call' = [call EXCEPT !.at = "spoken"]
    BY <1>4 DEF LuxFails, Adopted, voiceVars
  <2>2. call.name \in Names /\ (call' = Idle \/ call' \in Utterance)
    BY <1>0, <2>1, CallIs
  <2>3. disk' \in [Names -> Clips] /\ LuxWhole' /\ torn' \subseteq Names
    BY <2>1, <2>2, LocalKeeps
  <2> QED
    BY <1>0, <2>1, <2>2, <2>3 DEF ClipsInv, SpeechTyped, Idle, Utterance, Names, Clips
<1>5. CASE RemoteFails
  <2>1. /\ call.at = "vendor" /\ call.name \notin LuxNames /\ UNCHANGED voice /\ call' = Idle
        /\ \/ UNCHANGED <<disk, torn>>
           \/ Keep(call.name, "cut") /\ torn' = torn \cup {call.name}
    BY <1>5 DEF RemoteFails, Adopted, voiceVars
  <2>2. call.name \in Names
    BY <1>0, <2>1, CallIs
  <2>3. disk' \in [Names -> Clips] /\ LuxWhole' /\ torn' \subseteq Names
    <3>1. CASE UNCHANGED <<disk, torn>>
      BY <1>0, <2>1, <3>1, WholeKept
    <3>2. CASE Keep(call.name, "cut") /\ torn' = torn \cup {call.name}
      BY <1>0, <2>2, <3>2, KeepsWhole, NamesAre
    <3> QED
      BY <2>1, <3>1, <3>2
  <2> QED
    BY <1>0, <2>1, <2>3 DEF ClipsInv, SpeechTyped, Idle, Utterance, Names, Clips
<1>6. CASE LipsRefused \/ LipsStart \/ LipsEnd
  <2>1. UNCHANGED <<voice, disk, torn>>
    BY <1>6 DEF LipsRefused, LipsStart, LipsEnd, Rest, voiceVars
  <2>2. call' = Idle \/ (call.at = "spoken" /\ call' = [call EXCEPT !.at = "lips"])
    BY <1>6 DEF LipsRefused, LipsStart, LipsEnd
  <2>3. call' = Idle \/ call' \in Utterance
    BY <1>0, <2>2, CallIs
  <2>4. call.at # "vendor"
    BY <1>6 DEF LipsRefused, LipsStart, LipsEnd
  <2>5. LuxWhole'
    BY <2>1, <2>4, WholeKept
  <2> QED
    BY <1>0, <2>1, <2>3, <2>5 DEF ClipsInv, SpeechTyped, Idle, Utterance, Names, Clips
<1>7. CASE ReloadVoice \/ UNCHANGED speechVars
  <2>1. UNCHANGED <<voice, disk, call, torn>>
    BY <1>7 DEF ReloadVoice, speechVars, voiceVars
  <2>2. LuxWhole'
    BY <2>1, WholeKept
  <2> QED
    BY <1>0, <2>1, <2>2 DEF ClipsInv, SpeechTyped, Idle, Utterance, Names, Clips
<1>8. ASSUME NEW name \in Names, Restart(name) PROVE ClipsInv'
  <2>1. /\ voice' \in Remotes \cup {"luxtts"} /\ call' = Idle
        /\ \/ /\ UNCHANGED disk
              /\ torn' = IF call.at = "vendor" /\ disk[call.name] = "cut" THEN torn \cup {call.name}
                         ELSE torn
           \/ /\ call.at = "vendor" => call.name = name
              /\ Keep(name, "cut") /\ torn' = torn \cup {name}
    <3>1. Idle.at # "vendor"
      BY DEF Idle
    <3> QED
      BY <1>8, <3>1 DEF Restart
  <2>2. disk' \in [Names -> Clips] /\ LuxWhole' /\ torn' \subseteq Names
    <3>1. ASSUME UNCHANGED disk,
                 torn' = IF call.at = "vendor" /\ disk[call.name] = "cut" THEN torn \cup {call.name} ELSE torn
          PROVE  disk' \in [Names -> Clips] /\ LuxWhole' /\ torn' \subseteq Names
      <4>1. call.at = "vendor" => call.name \in Names
        BY <1>0, CallIs
      <4> QED
        BY <1>0, <3>1, <4>1, WholeKept
    <3>2. ASSUME call.at = "vendor" => call.name = name, Keep(name, "cut"), torn' = torn \cup {name}
          PROVE  disk' \in [Names -> Clips] /\ LuxWhole' /\ torn' \subseteq Names
      BY <1>0, <3>2, KeepsWhole, NamesAre
    <3> QED
      BY <2>1, <3>1, <3>2
  <2> QED
    BY <2>1, <2>2 DEF ClipsInv, SpeechTyped, Idle, Utterance, Names, Clips
<1>9. CASE SpeechTick
  <2>1. /\ UNCHANGED <<voice, disk, torn>>
        /\ \/ call' = call
           \/ call.at = "vendor" /\ call.took < VendorMax /\ call' = [call EXCEPT !.took = @ + 1]
    BY <1>9 DEF SpeechTick, voiceVars
  <2>2. call' = Idle \/ call' \in Utterance
    <3>1. ASSUME call.at = "vendor", call.took < VendorMax PROVE [call EXCEPT !.took = @ + 1] \in Utterance
      <4>1. call \in Utterance
        BY <1>0, <3>1, CallIs
      <4>2. call.took + 1 \in 0 .. VendorMax
        BY <3>1, <4>1, SpeechAssumption DEF Utterance
      <4> QED
        BY <4>1, <4>2 DEF Utterance
    <3> QED
      BY <1>0, <2>1, <3>1 DEF SpeechTyped
  <2>3. call.at = "vendor" => call'.at = "vendor" /\ call'.name = call.name
    <3>1. call.at = "vendor" => call \in Utterance
      BY <1>0, CallIs
    <3> QED
      BY <2>1, <3>1 DEF Utterance
  <2>4. LuxWhole'
    BY <2>1, <2>3, WholeKept
  <2> QED
    BY <1>0, <2>1, <2>2, <2>4 DEF ClipsInv, SpeechTyped, Idle, Utterance, Names, Clips
<1>10. CASE VendorWrites
  <2>1. /\ call.at = "vendor" /\ Keep(call.name, "cut") /\ UNCHANGED <<voice, call, torn>>
    BY <1>10 DEF VendorWrites, Stays, voiceVars
  <2>2. call.name \in Names
    BY <1>0, <2>1, CallIs
  <2>3. disk' \in [Names -> Clips] /\ \A n \in Names : n # call.name => disk'[n] = disk[n]
    BY <1>0, <2>1, <2>2, NamesAre DEF Keep
  <2>4. LuxWhole'
    BY <2>1, <2>2, <2>3, NamesAre DEF ClipsInv, LuxWhole, LuxNames, Name
  <2> QED
    BY <1>0, <2>1, <2>3, <2>4 DEF ClipsInv, SpeechTyped, Idle, Utterance, Names, Clips
<1>11. CASE VendorSpoils
  <2>1. /\ call.at = "vendor" /\ UNCHANGED <<voice, disk>> /\ torn' = torn \cup {call.name}
        /\ call' = Idle \/ call' = [call EXCEPT !.at = "spoken"]
    BY <1>11 DEF VendorSpoils, Adopted, voiceVars
  <2>2. call.name \in Names /\ (call' = Idle \/ call' \in Utterance)
    BY <1>0, <2>1, CallIs
  <2>3. LuxWhole'
    BY <2>1, WholeKept
  <2> QED
    BY <1>0, <2>1, <2>2, <2>3 DEF ClipsInv, SpeechTyped, Idle, Utterance, Names, Clips
<1> QED
  BY <1>1, <1>2, <1>3, <1>4, <1>5, <1>6, <1>7, <1>8, <1>9, <1>10, <1>11 DEF SpeechNext

\* A clip of LuxTTS that is cut, and that no vendor is writing, was cut by a crash,
\* a full disk or a vendor that claimed success.  luxtts_adapter.py:196-307.
THEOREM Whole == SpeechSpec => []LuxWhole
<1>1. ClipsInv => LuxWhole
  BY DEF ClipsInv
<1> QED
  BY ClipsInitial, StepClips, <1>1, PTL DEF SpeechSpec

-----------------------------------------------------------------------------
(***************************************************************************)
(* Speech: the seconds recorded stay within the budget.                    *)
(***************************************************************************)

Samples == [0 .. BudgetWindow -> Nat]

\* f gives the sums of the samples up to each age below n and to n itself.
SumsTo(f, samples, n) ==
  /\ f \in [0 .. n -> Nat]
  /\ \A age \in 0 .. n :
       f[age] = IF age = 0 THEN samples[0] ELSE f[age - 1] + samples[age]

\* There are sums of any samples: the least age without would have some after all.
LEMMA SumsExist ==
  ASSUME NEW samples \in Samples, NEW n \in 0 .. BudgetWindow
  PROVE  \E f : SumsTo(f, samples, n)
<1> DEFINE Without == {k \in 0 .. BudgetWindow : ~ \E f : SumsTo(f, samples, k)}
<1>1. SUFFICES ASSUME Without # {} PROVE FALSE
  OBVIOUS
<1>0. Without \subseteq Nat
  BY SpeechAssumption
<1>2. PICK k \in Without : \A m \in Without : k <= m
  <2> HIDE DEF Without
  <2> QED
    BY <1>0, <1>1, Smallest
<1>3. CASE k = 0
  <2>1. SumsTo([age \in 0 .. 0 |-> samples[0]], samples, 0)
    BY SpeechAssumption DEF SumsTo, Samples
  <2> QED
    BY <1>2, <1>3, <2>1
<1>4. CASE k # 0
  <2>1. k - 1 \in 0 .. BudgetWindow /\ k \in 1 .. BudgetWindow /\ k - 1 \notin Without
    BY <1>2, <1>4, SpeechAssumption
  <2>2. PICK f : SumsTo(f, samples, k - 1)
    BY <2>1
  <2> DEFINE g == [age \in 0 .. k |-> IF age = k THEN f[k - 1] + samples[k] ELSE f[age]]
  <2>3. f \in [0 .. k - 1 -> Nat] /\ samples[k] \in Nat
    BY <2>1, <2>2 DEF SumsTo, Samples
  <2>4. g \in [0 .. k -> Nat]
    BY <2>1, <2>3
  <2>5. \A age \in 0 .. k :
          g[age] = IF age = 0 THEN samples[0] ELSE g[age - 1] + samples[age]
    <3> SUFFICES ASSUME NEW age \in 0 .. k
                 PROVE  g[age] = IF age = 0 THEN samples[0] ELSE g[age - 1] + samples[age]
      OBVIOUS
    <3>1. CASE age = k
      BY <2>1, <3>1
    <3>2. CASE age # k
      <4>1. age \in 0 .. k - 1 /\ g[age] = f[age]
        BY <2>1, <3>2
      <4>2. age # 0 => age - 1 \in 0 .. k /\ g[age - 1] = f[age - 1]
        BY <2>1, <3>2
      <4> QED
        BY <4>1, <4>2, <2>2 DEF SumsTo
    <3> QED
      BY <3>1, <3>2
  <2>6. SumsTo(g, samples, k)
    BY <2>4, <2>5 DEF SumsTo
  <2> QED
    BY <1>2, <2>6
<1> QED
  BY <1>3, <1>4

\* What Sums is.
LEMMA SumsAre ==
  ASSUME NEW samples \in Samples
  PROVE  /\ Sums(samples)[0] = samples[0]
         /\ \A age \in 1 .. BudgetWindow :
              Sums(samples)[age] = Sums(samples)[age - 1] + samples[age]
<1> DEFINE Is(f) == f = [age \in 0 .. BudgetWindow |->
                           IF age = 0 THEN samples[0] ELSE f[age - 1] + samples[age]]
<1>1. PICK f : SumsTo(f, samples, BudgetWindow)
  BY SumsExist, SpeechAssumption
<1>2. Is(f)
  BY <1>1 DEF SumsTo
<1>3. Sums(samples) = CHOOSE g : Is(g)
  BY DEF Sums
<1>4. Is(Sums(samples))
  BY <1>2, <1>3
<1> QED
  BY <1>4, SpeechAssumption

\* What holds of the first sum, and with one sum of the next, holds of all.
LEMMA AllSums ==
  ASSUME NEW P, P \subseteq 0 .. BudgetWindow, 0 \in P,
         \A age \in 1 .. BudgetWindow : age - 1 \in P => age \in P
  PROVE  P = 0 .. BudgetWindow
<1> DEFINE T == (0 .. BudgetWindow) \ P
<1>1. SUFFICES ASSUME T # {} PROVE FALSE
  OBVIOUS
<1>0. T \subseteq Nat
  BY SpeechAssumption
<1>2. PICK k \in T : \A m \in T : k <= m
  <2> HIDE DEF T
  <2> QED
    BY <1>0, <1>1, Smallest
<1>3. k \in 1 .. BudgetWindow /\ k - 1 \in 0 .. BudgetWindow /\ k - 1 \notin T
  BY <1>2, SpeechAssumption
<1> QED
  BY <1>2, <1>3

\* The sums are numbers.
LEMMA SumsAreNumbers ==
  ASSUME NEW samples \in Samples
  PROVE  \A age \in 0 .. BudgetWindow : Sums(samples)[age] \in Nat
<1> DEFINE P == {age \in 0 .. BudgetWindow : Sums(samples)[age] \in Nat}
<1>1. 0 \in P
  BY SumsAre, SpeechAssumption DEF Samples
<1>2. ASSUME NEW age \in 1 .. BudgetWindow, age - 1 \in P
      PROVE  age \in P
  <2>1. samples[age] \in Nat /\ age \in 0 .. BudgetWindow
    BY SpeechAssumption DEF Samples
  <2> QED
    BY <1>2, <2>1, SumsAre
<1>3. P = 0 .. BudgetWindow
  BY <1>1, <1>2, AllSums
<1> QED
  BY <1>3

\* Nothing recorded, nothing used.
LEMMA SumsOfNothing ==
  \A age \in 0 .. BudgetWindow : Sums([a \in 0 .. BudgetWindow |-> 0])[age] = 0
<1> DEFINE none == [a \in 0 .. BudgetWindow |-> 0]
           P == {age \in 0 .. BudgetWindow : Sums(none)[age] = 0}
<1>0. none \in Samples /\ \A age \in 0 .. BudgetWindow : none[age] = 0
  BY DEF Samples
<1> HIDE DEF none
<1>1. 0 \in P
  BY <1>0, SumsAre, SpeechAssumption
<1>2. ASSUME NEW age \in 1 .. BudgetWindow, age - 1 \in P
      PROVE  age \in P
  BY <1>0, <1>2, SumsAre, SpeechAssumption
<1>3. P = 0 .. BudgetWindow
  BY <1>1, <1>2, AllSums
<1> QED
  BY <1>3 DEF none

\* A record raises every sum by as much.
LEMMA SumsOfRecord ==
  ASSUME NEW samples \in Samples, NEW k \in Nat, NEW more,
         more = [samples EXCEPT ![0] = @ + k]
  PROVE  /\ more \in Samples
         /\ \A age \in 0 .. BudgetWindow : Sums(more)[age] = Sums(samples)[age] + k
<1> DEFINE P == {age \in 0 .. BudgetWindow : Sums(more)[age] = Sums(samples)[age] + k}
<1>0. /\ more \in Samples /\ samples[0] \in Nat /\ more[0] = samples[0] + k
      /\ \A age \in 1 .. BudgetWindow : more[age] = samples[age] /\ samples[age] \in Nat
  BY SpeechAssumption DEF Samples
<1>1. 0 \in P
  <2>1. Sums(more)[0] = more[0] /\ Sums(samples)[0] = samples[0]
    BY <1>0, SumsAre
  <2> QED
    BY <1>0, <2>1, SpeechAssumption
<1>2. ASSUME NEW age \in 1 .. BudgetWindow, age - 1 \in P
      PROVE  age \in P
  <2>1. /\ Sums(more)[age] = Sums(more)[age - 1] + samples[age]
        /\ Sums(samples)[age] = Sums(samples)[age - 1] + samples[age]
        /\ Sums(more)[age - 1] = Sums(samples)[age - 1] + k
        /\ age \in 0 .. BudgetWindow /\ age - 1 \in 0 .. BudgetWindow
    <3>1. /\ Sums(more)[age] = Sums(more)[age - 1] + more[age]
          /\ Sums(samples)[age] = Sums(samples)[age - 1] + samples[age]
      BY <1>0, <1>2, SumsAre
    <3> QED
      BY <1>0, <1>2, <3>1, SpeechAssumption
  <2>2. Sums(samples)[age - 1] \in Nat /\ samples[age] \in Nat
    BY <1>0, <2>1, SumsAreNumbers
  <2> QED
    BY <2>1, <2>2
<1>3. P = 0 .. BudgetWindow
  BY <1>1, <1>2, AllSums
<1> QED
  BY <1>0, <1>3

\* A tick moves every sum one age on.
LEMMA SumsOfTick ==
  ASSUME NEW samples \in Samples, NEW later,
         later = [age \in DOMAIN samples |-> IF age = 0 THEN 0 ELSE samples[age - 1]]
  PROVE  /\ later \in Samples
         /\ Sums(later)[0] = 0
         /\ \A age \in 1 .. BudgetWindow : Sums(later)[age] = Sums(samples)[age - 1]
<1> DEFINE P == {age \in 0 .. BudgetWindow :
                   Sums(later)[age] = IF age = 0 THEN 0 ELSE Sums(samples)[age - 1]}
<1>0. /\ later \in Samples /\ later[0] = 0
      /\ \A age \in 1 .. BudgetWindow : later[age] = samples[age - 1]
  BY SpeechAssumption DEF Samples
<1>1. 0 \in P
  BY <1>0, SumsAre, SpeechAssumption
<1>2. ASSUME NEW age \in 1 .. BudgetWindow, age - 1 \in P
      PROVE  age \in P
  <2>1. /\ Sums(later)[age] = Sums(later)[age - 1] + samples[age - 1]
        /\ Sums(later)[age - 1] = IF age = 1 THEN 0 ELSE Sums(samples)[age - 2]
    BY <1>0, <1>2, SumsAre, SpeechAssumption
  <2>2. CASE age = 1
    <3>1. Sums(samples)[0] = samples[0] /\ samples[0] \in Nat
      BY SumsAre, SpeechAssumption DEF Samples
    <3> QED
      BY <2>1, <2>2, <3>1, SpeechAssumption
  <2>3. CASE age # 1
    <3>1. age - 1 \in 1 .. BudgetWindow /\ age \in 0 .. BudgetWindow
      BY <2>3, SpeechAssumption
    <3>2. (age - 1) - 1 = age - 2
      BY SpeechAssumption
    <3>3. Sums(samples)[age - 1] = Sums(samples)[age - 2] + samples[age - 1]
      BY <3>1, <3>2, SumsAre
    <3> QED
      BY <2>1, <2>3, <3>1, <3>3
  <2> QED
    BY <2>2, <2>3
<1>3. P = 0 .. BudgetWindow
  BY <1>1, <1>2, AllSums
<1>4. 0 \in P /\ \A age \in 1 .. BudgetWindow : age \in P /\ age # 0
  BY <1>3, SpeechAssumption
<1> QED
  BY <1>0, <1>4

\* What an utterance on its way to the vendor has taken so far.
Elapsed == IF call.at = "vendor" THEN call.took ELSE 0

\* A call of k ticks has kept others from being recorded: nothing is younger than
\* it, and what is older grows by no more than a second a second from one window.
Within(samples, k) ==
  \A age \in 0 .. BudgetWindow :
    IF age < k THEN Sums(samples)[age] = 0 ELSE Sums(samples)[age] <= age - k + BudgetWindow

\* What a call may take is left of the budget while it is made, and no more than
\* two windows are ever used between calls.
BudgetInv ==
  /\ spent \in Samples /\ cap \in Caps /\ Elapsed \in Nat
  /\ call.at = "vendor" /\ call.name \in LuxNames /\ ~orphan =>
       Used + VendorMax <= cap /\ Elapsed <= VendorMax
  /\ Within(spent, Elapsed)
  /\ WithinBudget

-----------------------------------------------------------------------------
\* Once the call is over, two windows are the most there is.
LEMMA WithinTwo ==
  ASSUME NEW samples \in Samples, NEW k \in Nat, Within(samples, k)
  PROVE  /\ Within(samples, 0)
         /\ Sums(samples)[BudgetWindow] <= 2 * BudgetWindow
BY SumsAreNumbers, SpeechAssumption DEF Within

\* A call recorded when it is over keeps within what it has left room for.
LEMMA WithinRecord ==
  ASSUME NEW samples \in Samples, NEW more \in Samples, NEW k \in Nat, NEW j \in Nat,
         Within(samples, k), j <= k, j <= BudgetWindow,
         \A age \in 0 .. BudgetWindow : Sums(more)[age] = Sums(samples)[age] + j
  PROVE  /\ Within(more, 0)
         /\ Sums(more)[BudgetWindow] <= Sums(samples)[BudgetWindow] + k
<1>1. ASSUME NEW age \in 0 .. BudgetWindow
      PROVE  /\ Sums(more)[age] = Sums(samples)[age] + j /\ Sums(samples)[age] \in Nat
             /\ Sums(more)[age] <= age - 0 + BudgetWindow
  <2>1. Sums(more)[age] = Sums(samples)[age] + j /\ Sums(samples)[age] \in Nat
    BY SumsAreNumbers
  <2>2. IF age < k THEN Sums(samples)[age] = 0
        ELSE Sums(samples)[age] <= age - k + BudgetWindow
    BY DEF Within
  <2> QED
    BY <2>1, <2>2, SpeechAssumption
<1>2. Within(more, 0)
  BY <1>1, SpeechAssumption DEF Within
<1>3. BudgetWindow \in 0 .. BudgetWindow
  BY SpeechAssumption
<1> QED
  BY <1>1, <1>2, <1>3

\* A tick leaves the samples within, of a call that is one tick longer or of none.
LEMMA WithinTick ==
  ASSUME NEW samples \in Samples, NEW k \in Nat, Within(samples, k), NEW later,
         later = [age \in DOMAIN samples |-> IF age = 0 THEN 0 ELSE samples[age - 1]]
  PROVE  /\ later \in Samples
         /\ Within(later, k + 1) /\ (k = 0 => Within(later, 0))
         /\ Sums(later)[BudgetWindow] <= Sums(samples)[BudgetWindow]
<1>1. /\ later \in Samples
      /\ Sums(later)[0] = 0
      /\ \A age \in 1 .. BudgetWindow : Sums(later)[age] = Sums(samples)[age - 1]
  BY SumsOfTick
<1>2. ASSUME NEW age \in 1 .. BudgetWindow
      PROVE  /\ Sums(later)[age] = Sums(samples)[age - 1]
             /\ age - 1 \in 0 .. BudgetWindow
             /\ Sums(samples)[age - 1] \in Nat
             /\ IF age - 1 < k THEN Sums(samples)[age - 1] = 0
                ELSE Sums(samples)[age - 1] <= age - 1 - k + BudgetWindow
  <2>1. age - 1 \in 0 .. BudgetWindow
    BY SpeechAssumption
  <2> QED
    BY <1>1, <2>1, SumsAreNumbers DEF Within
<1>3. Within(later, k + 1)
  BY <1>1, <1>2, SpeechAssumption DEF Within
<1>4. k = 0 => Within(later, 0)
  BY <1>1, <1>2, SpeechAssumption DEF Within
<1>5. Sums(later)[BudgetWindow] <= Sums(samples)[BudgetWindow]
  <2>1. BudgetWindow \in 1 .. BudgetWindow
    BY SpeechAssumption
  <2>2. Sums(samples)[BudgetWindow] = Sums(samples)[BudgetWindow - 1] + samples[BudgetWindow]
    BY <2>1, SumsAre
  <2>3. samples[BudgetWindow] \in Nat
    BY <2>1 DEF Samples
  <2> QED
    BY <1>2, <2>1, <2>2, <2>3
<1> QED
  BY <1>1, <1>3, <1>4, <1>5

\* A new budget has room for any call.
LEMMA WithinNothing ==
  ASSUME NEW none, none = [t \in 0 .. BudgetWindow |-> 0], NEW k \in Nat
  PROVE  none \in Samples /\ Within(none, k) /\ Sums(none)[BudgetWindow] = 0
BY SumsOfNothing, SpeechAssumption DEF Samples, Within

\* The parts of the invariant a step has to show.
LEMMA BudgetKept ==
  ASSUME spent' \in Samples, cap' \in Caps, Elapsed' \in Nat,
         (call.at = "vendor" /\ call.name \in LuxNames /\ ~orphan)' =>
           Used' + VendorMax <= cap' /\ Elapsed' <= VendorMax,
         Within(spent', Elapsed'), Used' <= cap',
         cap' >= VendorMax + 2 * BudgetWindow => ~blocked'
  PROVE  BudgetInv'
BY DEF BudgetInv, WithinBudget

\* No clip of a remote backend has the name of one of LuxTTS.
LEMMA LuxName ==
  ASSUME NEW look, Name(voice, look) \in LuxNames
  PROVE  voice = "luxtts"
BY DEF Name, LuxNames

-----------------------------------------------------------------------------
\* Nothing is recorded when the program starts.
LEMMA BudgetInitial == SpeechInit => BudgetInv
<1> SUFFICES ASSUME SpeechInit PROVE BudgetInv
  OBVIOUS
<1>1. /\ cap \in Caps /\ blocked = FALSE /\ call = Idle
      /\ spent = [t \in 0 .. BudgetWindow |-> 0]
  BY DEF SpeechInit
<1>2. Elapsed = 0 /\ call.at # "vendor" /\ cap \in Nat
  BY <1>1, SpeechAssumption DEF Elapsed, Idle
<1>3. spent \in Samples /\ Within(spent, 0) /\ Sums(spent)[BudgetWindow] = 0
  BY <1>1, WithinNothing
<1> QED
  BY <1>1, <1>2, <1>3 DEF BudgetInv, WithinBudget, Used

\* What is spent stays as it is, and no call is on its way to the vendor before or after.
LEMMA BudgetStands ==
  ASSUME BudgetInv, UNCHANGED <<spent, cap>>, Elapsed' = 0,
         (call.at = "vendor" /\ call.name \in LuxNames /\ ~orphan)' =>
            Used + VendorMax <= cap,
         cap >= VendorMax + 2 * BudgetWindow => ~blocked'
  PROVE  BudgetInv'
<1>1. spent \in Samples /\ cap \in Caps /\ Elapsed \in Nat /\ Within(spent, Elapsed) /\ Used <= cap
  BY DEF BudgetInv, WithinBudget
<1>2. Within(spent, 0)
  BY <1>1, WithinTwo
<1>3. Used' = Used /\ Within(spent', Elapsed')
  BY <1>2 DEF Used
<1>4. VendorMax \in Nat
  BY SpeechAssumption
<1> QED
  BY <1>1, <1>3, <1>4, BudgetKept

\* A new budget.
LEMMA BudgetAnew ==
  ASSUME BudgetInv, FreshVoice, cap' = cap, Elapsed' \in Nat,
         ~(call.at = "vendor" /\ call.name \in LuxNames /\ ~orphan)'
  PROVE  BudgetInv'
<1>1. spent' = [t \in 0 .. BudgetWindow |-> 0] /\ blocked' = FALSE
  BY DEF FreshVoice
<1>2. spent' \in Samples /\ Within(spent', Elapsed') /\ Used' = 0
  BY <1>1, WithinNothing DEF Used
<1>3. cap \in Caps /\ cap \in Nat
  BY SpeechAssumption DEF BudgetInv
<1> QED
  BY <1>1, <1>2, <1>3, BudgetKept

\* The end of a call: what it took is recorded, where it was asked for.
LEMMA BudgetSpent ==
  ASSUME BudgetInv, call.at = "vendor", Spend, UNCHANGED <<cap, blocked>>, call'.at # "vendor"
  PROVE  BudgetInv'
<1>1. /\ spent \in Samples /\ cap \in Caps /\ Elapsed \in Nat /\ Within(spent, Elapsed)
      /\ Used <= cap /\ Elapsed = call.took
      /\ call.name \in LuxNames /\ ~orphan => Used + VendorMax <= cap /\ Elapsed <= VendorMax
      /\ cap >= VendorMax + 2 * BudgetWindow => ~blocked
  BY DEF BudgetInv, WithinBudget, Elapsed
<1>2. Elapsed' = 0
  BY DEF Elapsed
<1>3. CASE orphan \/ call.name \notin LuxNames
  <2>1. spent' = spent
    BY <1>3 DEF Spend
  <2> QED
    BY <1>1, <1>2, <2>1, BudgetStands
<1>4. CASE ~orphan /\ call.name \in LuxNames
  <2>1. Record(call.took)
    BY <1>4 DEF Spend
  <2>2. PICK j \in Nat : j <= Elapsed /\ j <= BudgetWindow /\ spent' = [spent EXCEPT ![0] = @ + j]
    <3>1. Elapsed \in Nat /\ call.took = Elapsed /\ BudgetWindow \in Nat
      BY <1>1, SpeechAssumption
    <3>2. CASE Elapsed < BudgetWindow
      <4>1. spent' = [spent EXCEPT ![0] = @ + Elapsed]
        BY <2>1, <3>1, <3>2 DEF Record
      <4>2. Elapsed <= Elapsed /\ Elapsed <= BudgetWindow
        BY <3>1, <3>2
      <4> QED
        BY <3>1, <4>1, <4>2, Zenon
    <3>3. CASE ~(Elapsed < BudgetWindow)
      <4>1. spent' = [spent EXCEPT ![0] = @ + BudgetWindow]
        BY <2>1, <3>1, <3>3 DEF Record
      <4>2. BudgetWindow <= Elapsed /\ BudgetWindow <= BudgetWindow
        BY <3>1, <3>3
      <4> QED
        BY <3>1, <4>1, <4>2, Zenon
    <3> QED
      BY <3>2, <3>3
  <2>3. /\ spent' \in Samples
        /\ \A age \in 0 .. BudgetWindow : Sums(spent')[age] = Sums(spent)[age] + j
    BY <1>1, <2>2, SumsOfRecord
  <2>4. Within(spent', 0) /\ Used' <= Used + Elapsed
    BY <1>1, <2>2, <2>3, WithinRecord DEF Used
  <2>5. BudgetWindow \in 0 .. BudgetWindow
    BY SpeechAssumption
  <2>6. Used \in Nat /\ Used' \in Nat /\ cap \in Nat /\ VendorMax \in Nat
    BY <1>1, <2>3, <2>5, SumsAreNumbers, SpeechAssumption DEF Used
  <2>7. Used' <= cap
    BY <1>1, <1>4, <2>4, <2>6
  <2> QED
    BY <1>1, <1>2, <2>3, <2>4, <2>7, BudgetKept
<1> QED
  BY <1>3, <1>4

\* Every step keeps the budget.
LEMMA StepBudget ==
  ASSUME SpeechTyped, BudgetInv, [SpeechNext]_speechVars
  PROVE  BudgetInv'
<1>i. Idle.at = "idle"
  BY DEF Idle
<1>0. /\ spent \in Samples /\ cap \in Caps /\ Elapsed \in Nat /\ Within(spent, Elapsed)
      /\ cap >= VendorMax + 2 * BudgetWindow => ~blocked
      /\ call.at # "vendor" => Elapsed = 0
      /\ cap \in Nat /\ VendorMax \in Nat /\ Used \in Nat
  <2>1. BudgetWindow \in 0 .. BudgetWindow /\ VendorMax \in Nat
    BY SpeechAssumption
  <2>2. /\ spent \in Samples /\ cap \in Caps /\ Elapsed \in Nat /\ Within(spent, Elapsed)
        /\ cap >= VendorMax + 2 * BudgetWindow => ~blocked
    BY DEF BudgetInv, WithinBudget
  <2>3. cap \in Nat
    BY <2>2, SpeechAssumption
  <2>4. Used \in Nat
    BY <2>1, <2>2, SumsAreNumbers DEF Used
  <2> QED
    BY <2>1, <2>2, <2>3, <2>4 DEF Elapsed
<1>1. ASSUME NEW look \in Looks, Hit(look) PROVE BudgetInv'
  <2>1. UNCHANGED <<spent, cap, blocked>> /\ call'.at # "vendor"
    BY <1>i, <1>1 DEF Hit, Stays, voiceVars, budgetVars
  <2> QED
    BY <1>0, <2>1, BudgetStands DEF Elapsed
<1>2. ASSUME NEW look \in Looks, SpeakLocally(look) PROVE BudgetInv'
  <2>1. /\ UNCHANGED <<spent, cap>> /\ call'.at # "vendor" /\ call = Idle
        /\ UNCHANGED blocked \/ WouldBlock
    BY <1>i, <1>2 DEF SpeakLocally, Stays, voiceVars
  <2>2. Used <= 2 * BudgetWindow
    BY <1>0, <1>i, <2>1, WithinTwo DEF Used
  <2>3. cap >= VendorMax + 2 * BudgetWindow => ~blocked'
    BY <1>0, <2>1, <2>2, SpeechAssumption DEF WouldBlock
  <2> QED
    BY <2>1, <2>3, BudgetStands DEF Elapsed
<1>3. ASSUME NEW look \in Looks, AskVendor(look) PROVE BudgetInv'
  <2>1. /\ UNCHANGED <<spent, cap, blocked>> /\ call = Idle
        /\ call'.took = 0 /\ call'.name = Name(voice, look)
        /\ voice = "luxtts" => ~WouldBlock
    BY <1>3 DEF AskVendor, Stays, voiceVars, budgetVars
  <2>2. call'.name \in LuxNames => Used + VendorMax <= cap
    BY <1>0, <2>1, LuxName DEF WouldBlock
  <2>3. Elapsed' = 0
    BY <2>1 DEF Elapsed
  <2>4. LuxNames' = LuxNames
    BY DEF LuxNames, Name
  <2> QED
    BY <1>0, <2>1, <2>2, <2>3, <2>4, BudgetStands
<1>4. CASE \E look \in Looks : RemoteRefused(look)
  BY <1>4 DEF RemoteRefused, speechVars, voiceVars, budgetVars, BudgetInv, WithinBudget, Elapsed,
     Used, LuxNames, Name, Within
<1>5. CASE VendorDone \/ VendorSpoils \/ LuxFails \/ RemoteFails
  <2>1. /\ call.at = "vendor" /\ Spend /\ UNCHANGED <<cap, blocked>>
        /\ call' = Idle \/ call' = [call EXCEPT !.at = "spoken"]
    BY <1>5 DEF VendorDone, VendorSpoils, LuxFails, RemoteFails, Adopted, voiceVars
  <2>2. [call EXCEPT !.at = "spoken"].at = "spoken"
    BY <2>1, CallIs DEF Utterance
  <2>3. call'.at # "vendor"
    BY <1>i, <2>1, <2>2
  <2> QED
    BY <2>1, <2>3, BudgetSpent
<1>6. CASE LipsRefused \/ LipsStart \/ LipsEnd
  <2>1. /\ UNCHANGED <<spent, cap, blocked>>
        /\ call.at = "spoken" \/ call.at = "lips"
        /\ call' = Idle \/ call' = [call EXCEPT !.at = "lips"]
    BY <1>6 DEF LipsRefused, LipsStart, LipsEnd, Rest, voiceVars, budgetVars
  <2>2. [call EXCEPT !.at = "lips"].at = "lips"
    BY <2>1, CallIs DEF Utterance
  <2>3. call'.at # "vendor"
    BY <1>i, <2>1, <2>2
  <2> QED
    BY <1>0, <2>1, <2>3, BudgetStands DEF Elapsed
<1>7. CASE ReloadVoice
  <2>1. FreshVoice /\ UNCHANGED <<cap, call>> /\ (call.at = "vendor" => orphan')
    BY <1>7 DEF ReloadVoice, voiceVars
  <2>2. Elapsed' = Elapsed
    BY <2>1 DEF Elapsed
  <2> QED
    BY <1>0, <2>1, <2>2, BudgetAnew
<1>8. CASE \E name \in Names : Restart(name)
  <2>1. FreshVoice /\ UNCHANGED cap /\ call'.at # "vendor"
    BY <1>i, <1>8 DEF Restart
  <2> QED
    BY <1>0, <2>1, BudgetAnew DEF Elapsed
<1>9. CASE SpeechTick
  <2>1. /\ spent' = [t \in DOMAIN spent |-> IF t = 0 THEN 0 ELSE spent[t - 1]]
        /\ UNCHANGED <<cap, blocked, orphan>>
        /\ call.at = "vendor" => call.took < VendorMax /\ call' = [call EXCEPT !.took = @ + 1]
        /\ call.at # "vendor" => call' = call
    BY <1>9 DEF SpeechTick, voiceVars
  <2>2. /\ spent' \in Samples
        /\ Within(spent', Elapsed + 1) /\ (Elapsed = 0 => Within(spent', 0))
        /\ Sums(spent')[BudgetWindow] <= Sums(spent)[BudgetWindow]
    BY <1>0, <2>1, WithinTick
  <2>3. Used' <= Used /\ Used <= cap /\ Used' \in Nat
    <3>1. BudgetWindow \in 0 .. BudgetWindow
      BY SpeechAssumption
    <3> QED
      BY <2>2, <3>1, SumsAreNumbers DEF Used, BudgetInv, WithinBudget
  <2>4. CASE call.at = "vendor"
    <3>1. call' \in Utterance /\ call'.at = "vendor" /\ call'.name = call.name /\ call'.took = call.took + 1
      <4>1. call \in Utterance /\ call.took < VendorMax
        BY <2>1, <2>4, CallIs
      <4>2. call.took + 1 \in 0 .. VendorMax
        BY <4>1, SpeechAssumption DEF Utterance
      <4> QED
        BY <2>1, <2>4, <4>1, <4>2 DEF Utterance
    <3>2. Elapsed' = Elapsed + 1 /\ Elapsed' \in Nat /\ Elapsed < VendorMax
      BY <1>0, <2>1, <2>4, <3>1 DEF Elapsed
    <3>3. call.name \in LuxNames /\ ~orphan => Used + VendorMax <= cap
      BY <2>4 DEF BudgetInv
    <3>4. (call.at = "vendor" /\ call.name \in LuxNames /\ ~orphan)' =>
            Used' + VendorMax <= cap' /\ Elapsed' <= VendorMax
      BY <1>0, <2>1, <2>3, <3>1, <3>2, <3>3 DEF LuxNames, Name
    <3> QED
      BY <1>0, <2>1, <2>2, <2>3, <3>2, <3>4, BudgetKept
  <2>5. CASE call.at # "vendor"
    <3>1. Elapsed' = 0 /\ Elapsed = 0 /\ call'.at # "vendor"
      BY <2>1, <2>5 DEF Elapsed
    <3> QED
      BY <1>0, <2>1, <2>2, <2>3, <3>1, BudgetKept
  <2> QED
    BY <2>4, <2>5
<1>10. CASE UNCHANGED speechVars
  BY <1>10 DEF speechVars, voiceVars, budgetVars, BudgetInv, WithinBudget, Elapsed,
     Used, LuxNames, Name, Within
<1>11. CASE VendorWrites
  BY <1>11 DEF VendorWrites, Stays, voiceVars, budgetVars, BudgetInv, WithinBudget, Elapsed,
     Used, LuxNames, Name, Within
<1> QED
  BY <1>1, <1>2, <1>3, <1>4, <1>5, <1>6, <1>7, <1>8, <1>9, <1>10, <1>11 DEF SpeechNext

\* The rest of the types: the breakers, what is recorded, what is rendered.
Spendings == [0 .. BudgetWindow -> 0 .. BudgetWindow]
RestTyped ==
  /\ BreakerTypeOK /\ Lip!BreakerTypeOK
  /\ spent \in Spendings
  /\ command \in BOOLEAN /\ blocked \in BOOLEAN /\ orphan \in BOOLEAN /\ lipOn \in BOOLEAN
  /\ rendered \in {"nothing", "face", "audio"} \cup Looks

\* A voice's breaker stays one, whatever is asked of it or told it.
LEMMA VoiceBreaker ==
  ASSUME BreakerTypeOK,
         \/ AllowPasses \/ AllowRefuses \/ RecordSuccess \/ RecordFailure \/ BreakerTick
         \/ FreshVoice \/ UNCHANGED breakerVars
  PROVE  BreakerTypeOK'
<1> USE BreakerAssumption DEF BreakerTypeOK, Closed, Open, HalfOpen, Ages, NoFailure
<1>1. CASE AllowPasses \/ AllowRefuses \/ UNCHANGED breakerVars
  BY <1>1 DEF AllowPasses, AllowRefuses, breakerVars
<1>2. CASE RecordSuccess \/ FreshVoice
  BY <1>2 DEF RecordSuccess, FreshVoice
<1>3. CASE RecordFailure
  BY <1>3 DEF RecordFailure, Saturate
<1>4. CASE BreakerTick
  BY <1>4 DEF BreakerTick, Saturate
<1> QED
  BY <1>1, <1>2, <1>3, <1>4

\* And so does that of the lip sync.
LEMMA LipBreaker ==
  ASSUME Lip!BreakerTypeOK,
         \/ Lip!AllowPasses \/ Lip!AllowRefuses \/ Lip!RecordSuccess \/ Lip!RecordFailure
         \/ Lip!BreakerTick \/ UNCHANGED lipVars
         \/ lipState' = Closed /\ lipCount' = 0 /\ lipAge' = NoFailure
  PROVE  Lip!BreakerTypeOK'
<1> USE SpeechAssumption DEF Lip!BreakerTypeOK, Lip!Closed, Lip!Open, Lip!HalfOpen, Lip!Ages,
      Lip!NoFailure
<1>1. CASE Lip!AllowPasses \/ Lip!AllowRefuses \/ UNCHANGED lipVars
  BY <1>1 DEF Lip!AllowPasses, Lip!AllowRefuses, Lip!breakerVars, lipVars
<1>2. CASE Lip!RecordSuccess \/ (lipState' = Closed /\ lipCount' = 0 /\ lipAge' = NoFailure)
  BY <1>2 DEF Lip!RecordSuccess, Closed, NoFailure
<1>3. CASE Lip!RecordFailure
  BY <1>3 DEF Lip!RecordFailure, Lip!Saturate
<1>4. CASE Lip!BreakerTick
  BY <1>4 DEF Lip!BreakerTick, Lip!Saturate
<1> QED
  BY <1>1, <1>2, <1>3, <1>4

\* A call is recorded within a tick in which nothing has been: what is recorded of
\* a tick is no longer than the window.
LEMMA SpendsLittle ==
  ASSUME SpeechTyped, BudgetInv, spent \in Spendings, call.at = "vendor", Spend
  PROVE  spent' \in Spendings
<1>1. CASE UNCHANGED spent
  BY <1>1
<1>2. CASE Record(call.took)
  <2> DEFINE more == IF call.took < BudgetWindow THEN call.took ELSE BudgetWindow
  <2>1. call.took \in Nat /\ BudgetWindow \in Nat /\ 0 \in 0 .. BudgetWindow
    BY CallIs, SpeechAssumption DEF Utterance
  <2>2. call.took > 0 => spent[0] = 0
    <3>1. Within(spent, call.took) /\ spent \in Samples
      BY DEF BudgetInv, Elapsed
    <3>2. Sums(spent)[0] = spent[0]
      BY <3>1, SumsAre
    <3> QED
      BY <2>1, <3>1, <3>2 DEF Within
  <2>3. spent[0] \in 0 .. BudgetWindow
    BY <2>1 DEF Spendings
  <2>4. spent[0] + more \in 0 .. BudgetWindow
    BY <2>1, <2>2, <2>3
  <2> QED
    BY <1>2, <2>4 DEF Record, Spendings
<1> QED
  BY <1>1, <1>2 DEF Spend

\* Every step keeps these types.
LEMMA StepRest ==
  ASSUME SpeechTyped, BudgetInv, RestTyped, [SpeechNext]_speechVars
  PROVE  RestTyped'
<1> DEFINE Set == /\ command \in BOOLEAN /\ blocked \in BOOLEAN /\ orphan \in BOOLEAN
                  /\ lipOn \in BOOLEAN /\ rendered \in {"nothing", "face", "audio"} \cup Looks
<1>0. BreakerTypeOK /\ Lip!BreakerTypeOK /\ spent \in Spendings /\ Set
  BY DEF RestTyped
<1>f. FreshVoice => spent' \in Spendings
  BY SpeechAssumption DEF FreshVoice, Spendings
<1>1. ASSUME NEW look \in Looks, Hit(look) \/ SpeakLocally(look) \/ AskVendor(look) \/ RemoteRefused(look)
      PROVE  RestTyped'
  <2>1. AllowPasses \/ AllowRefuses \/ UNCHANGED breakerVars
    BY <1>1 DEF Hit, SpeakLocally, AskVendor, RemoteRefused
  <2>2. UNCHANGED <<spent, lipVars>>
    BY <1>1 DEF Hit, SpeakLocally, AskVendor, RemoteRefused, Stays, budgetVars, speechVars
  <2>3. Set'
    BY <1>0, <1>1 DEF Hit, SpeakLocally, AskVendor, RemoteRefused, Stays, budgetVars, voiceVars, speechVars
  <2> QED
    BY <1>0, <2>1, <2>2, <2>3, VoiceBreaker, LipBreaker DEF RestTyped
<1>2. CASE VendorDone \/ VendorSpoils \/ LuxFails \/ RemoteFails
  <2>1. RecordSuccess \/ RecordFailure \/ UNCHANGED breakerVars
    BY <1>2 DEF VendorDone, VendorSpoils, LuxFails, RemoteFails, Success, Failure
  <2>2. call.at = "vendor" /\ Spend /\ UNCHANGED lipVars /\ Set'
    BY <1>0, <1>2 DEF VendorDone, VendorSpoils, LuxFails, RemoteFails, Adopted, voiceVars
  <2> QED
    BY <1>0, <2>1, <2>2, SpendsLittle, VoiceBreaker, LipBreaker DEF RestTyped
<1>3. CASE LipsRefused \/ LipsStart \/ LipsEnd
  <2>1. Lip!AllowPasses \/ Lip!AllowRefuses \/ Lip!RecordSuccess \/ Lip!RecordFailure \/ UNCHANGED lipVars
    BY <1>3 DEF LipsRefused, LipsStart, LipsEnd
  <2>2. UNCHANGED <<breakerVars, spent>>
    BY <1>3 DEF LipsRefused, LipsStart, LipsEnd, Rest, budgetVars
  <2>3. call.at = "lips" => call.look \in Looks
    BY CallIs
  <2>4. Set'
    BY <1>0, <1>3, <2>3 DEF LipsRefused, LipsStart, LipsEnd, Rest, voiceVars, budgetVars, Still
  <2> QED
    BY <1>0, <2>1, <2>2, <2>4, VoiceBreaker, LipBreaker DEF RestTyped
<1>4. CASE ReloadVoice
  <2>1. FreshVoice /\ UNCHANGED lipVars /\ Set'
    BY <1>0, <1>4 DEF ReloadVoice, FreshVoice, voiceVars
  <2> QED
    BY <1>0, <1>f, <2>1, VoiceBreaker, LipBreaker DEF RestTyped
<1>5. ASSUME NEW name \in Names, Restart(name) PROVE RestTyped'
  <2>1. FreshVoice /\ lipState' = Closed /\ lipCount' = 0 /\ lipAge' = NoFailure /\ Set'
    BY <1>0, <1>5 DEF Restart, FreshVoice
  <2> QED
    BY <1>0, <1>f, <2>1, VoiceBreaker, LipBreaker DEF RestTyped
<1>6. CASE SpeechTick
  <2>1. BreakerTick /\ Lip!BreakerTick /\ Set'
    BY <1>0, <1>6 DEF SpeechTick, voiceVars
  <2>2. spent' \in Spendings
    BY <1>0, <1>6, SpeechAssumption DEF SpeechTick, Spendings
  <2> QED
    BY <1>0, <2>1, <2>2, VoiceBreaker, LipBreaker DEF RestTyped
<1>7. CASE UNCHANGED speechVars
  <2>1. UNCHANGED <<breakerVars, lipVars, spent>> /\ Set'
    BY <1>0, <1>7 DEF speechVars, voiceVars, budgetVars
  <2> QED
    BY <1>0, <2>1, VoiceBreaker, LipBreaker DEF RestTyped
<1>8. CASE VendorWrites
  <2>1. UNCHANGED <<breakerVars, lipVars, spent>> /\ Set'
    BY <1>0, <1>8 DEF VendorWrites, Stays, voiceVars, budgetVars
  <2> QED
    BY <1>0, <2>1, VoiceBreaker, LipBreaker DEF RestTyped
<1> QED
  BY <1>1, <1>2, <1>3, <1>4, <1>5, <1>6, <1>7, <1>8 DEF SpeechNext

\* The seconds recorded in any window stay within the budget, and a cap that leaves
\* room for a call above two windows blocks none.  luxtts_adapter.py:50-108, 217.
THEOREM Thrifty == SpeechSpec => [](SpeechTypeOK /\ WithinBudget)
<1>1. ClipsInv /\ [SpeechNext]_speechVars => ClipsInv'
  BY StepClips
<1>2. ClipsInv => SpeechTyped
  BY DEF ClipsInv
<1>3. SpeechInit => RestTyped
  <2> SUFFICES ASSUME SpeechInit PROVE RestTyped
    OBVIOUS
  <2>1. BreakerTypeOK
    BY BreakerAssumption DEF SpeechInit, BreakerInit, BreakerTypeOK, Closed, NoFailure
  <2>2. Lip!BreakerTypeOK
    BY SpeechAssumption
       DEF SpeechInit, Lip!BreakerInit, Lip!BreakerTypeOK, Lip!Closed, Lip!NoFailure
  <2>3. spent \in Spendings
    BY SpeechAssumption DEF SpeechInit, Spendings
  <2> QED
    BY <2>1, <2>2, <2>3 DEF SpeechInit, RestTyped
<1>4. ClipsInv /\ BudgetInv /\ RestTyped => SpeechTypeOK /\ WithinBudget
  BY DEF ClipsInv, SpeechTyped, BudgetInv, RestTyped, SpeechTypeOK, Utterance, Spendings
<1> QED
  BY <1>1, <1>2, <1>3, <1>4, ClipsInitial, BudgetInitial, StepBudget, StepRest, PTL DEF SpeechSpec

-----------------------------------------------------------------------------
(***************************************************************************)
(* ReplyParsing: the object in a reply is found.                           *)
(***************************************************************************)

ReplyInv == ReplyTypeOK /\ FindsObject

-----------------------------------------------------------------------------
\* An object lies within the reply, and is not None.
LEMMA ObjectsAre ==
  ASSUME reply \in Seq(Signs), Len(reply) <= MaxLength, NEW b \in Objects
  PROVE  b # None /\ b # Unread
<1>1. b \in [from : 1 .. Len(reply), to : 1 .. Len(reply)] /\ Len(reply) \in Nat
  BY DEF Objects
<1>2. b \in [from : 1 .. MaxLength, to : 1 .. MaxLength]
  BY <1>1, ReplyAssumption
<1> QED
  BY <1>2, ReplyAssumption

\* Min is what it is said to be.
LEMMA MinIs ==
  ASSUME NEW S, S \subseteq Nat, NEW m \in S, \A n \in S : m <= n
  PROVE  Min(S) = m
<1>1. Min(S) \in S /\ \A n \in S : Min(S) <= n
  BY DEF Min
<1>2. Min(S) \in Nat /\ m \in Nat /\ Min(S) <= m /\ m <= Min(S)
  BY <1>1
<1> QED
  BY ONLY <1>2

\* Blocks and their fields.
LEMMA BlockIs ==
  ASSUME NEW p, NEW e
  PROVE  Block(p, e).from = p /\ Block(p, e).to = e
BY DEF Block

\* The earliest of some blocks is one of them, and no other begins before it.
LEMMA EarliestIs ==
  ASSUME NEW blocks, blocks # {}, \A b \in blocks : b.from \in Nat
  PROVE  /\ Earliest(blocks) \in blocks
         /\ \A c \in blocks : Earliest(blocks).from <= c.from
<1> DEFINE T == {b.from : b \in blocks}
<1>1. T \subseteq Nat /\ T # {}
  OBVIOUS
<1>2. PICK x \in T : \A y \in T : x <= y
  BY <1>1, Smallest
<1>3. PICK b \in blocks : x = b.from
  OBVIOUS
<1>4. \A c \in blocks : c.from \in T
  OBVIOUS
<1>5. \A c \in blocks : b.from <= c.from
  BY <1>2, <1>3, <1>4
<1> QED
  BY <1>5 DEF Earliest

\* The positions of a reply are naturals.
LEMMA Positions ==
  ASSUME reply \in Seq(Signs)
  PROVE  DOMAIN reply = 1 .. Len(reply) /\ Len(reply) \in Nat
OBVIOUS

-----------------------------------------------------------------------------
\* A set that is not empty has a minimum.
LEMMA MinIn ==
  ASSUME NEW S, S \subseteq Nat, S # {}
  PROVE  Min(S) \in S
<1>1. \E x \in S : \A y \in S : x <= y
  BY Smallest
<1> QED
  BY <1>1 DEF Min

\* What the scan takes lies within the reply, and so does what the expression
\* matches; and what is taken is an object.
LEMMA ScannedIs ==
  ASSUME reply \in Seq(Signs), NEW b \in Scanned
  PROVE  b \in Objects
<1>1. PICK p \in 1 .. Len(reply) : Closings(p) # {} /\ b = Block(p, Min(Closings(p)))
  BY DEF Scanned, Candidates
<1>2. Closings(p) \subseteq Nat /\ \A e \in Closings(p) : e \in 1 .. Len(reply) /\ p <= e
  BY Positions DEF Closings
<1>3. Min(Closings(p)) \in Closings(p)
  BY <1>1, <1>2, MinIn
<1>4. PICK e \in 1 .. Len(reply) : p <= e /\ b = Block(p, e)
  BY <1>1, <1>2, <1>3
<1>5. IsObject(p, e)
  BY <1>4, BlockIs DEF Scanned
<1>6. p # e /\ p < e
  BY <1>4, <1>5, Positions DEF IsObject
<1> QED
  BY <1>4, <1>5, <1>6, Positions, BlockIs DEF Objects, Block

\* The same of the fence.
LEMMA FencedIs ==
  ASSUME reply \in Seq(Signs), NEW b \in Fenced
  PROVE  b \in Objects
<1> DEFINE Ends(i) == {j \in i + 2 .. Len(reply) - 1 : reply[j] = "close" /\ reply[j + 1] = "fence"}
           Begins == {i \in 1 .. Len(reply) - 2 :
                        /\ reply[i] = "fence" /\ reply[i + 1] = "open"
                        /\ \E j \in i + 2 .. Len(reply) - 1 : reply[j] = "close" /\ reply[j + 1] = "fence"}
<1>1. Matches = {Block(i + 1, Min(Ends(i))) : i \in Begins}
  BY DEF Matches
<1>2. \A i \in Begins : /\ i \in Nat /\ i + 1 <= Len(reply) /\ Ends(i) # {}
                        /\ \A e \in Ends(i) : e \in Nat /\ e <= Len(reply) /\ i + 1 < e
  <2> SUFFICES ASSUME NEW i \in Begins
               PROVE  /\ i \in Nat /\ i + 1 <= Len(reply) /\ Ends(i) # {}
                      /\ \A e \in Ends(i) : e \in Nat /\ e <= Len(reply) /\ i + 1 < e
    OBVIOUS
  <2>1. i \in Nat /\ i + 1 <= Len(reply) /\ Len(reply) \in Nat
    BY Positions
  <2>2. Ends(i) # {}
    OBVIOUS
  <2>3. \A e \in Ends(i) : e \in Nat /\ e <= Len(reply) /\ i + 1 < e
    BY <2>1
  <2> QED
    BY <2>1, <2>2, <2>3
<1> HIDE DEF Ends, Begins
<1>3. \A i \in Begins : Min(Ends(i)) \in Ends(i)
  BY <1>2, MinIn
<1>4. \A i \in Begins : Block(i + 1, Min(Ends(i))).from \in Nat
  BY <1>2, BlockIs
<1>5. b = Earliest(Matches) /\ Matches # {} /\ IsObject(b.from, b.to)
  BY DEF Fenced
<1>6. b \in Matches
  BY <1>1, <1>4, <1>5, EarliestIs
<1>7. PICK i \in Begins : b = Block(i + 1, Min(Ends(i)))
  BY <1>1, <1>6
<1>8. Min(Ends(i)) \in Nat /\ Min(Ends(i)) <= Len(reply) /\ i + 1 < Min(Ends(i)) /\ i \in Nat
  BY <1>2, <1>3
<1> QED
  BY <1>5, <1>7, <1>8, Positions, BlockIs DEF Objects, Block

\* The object in the first fence is what the expression matches.
LEMMA MatchesIt ==
  ASSUME reply \in Seq(Signs), NEW b \in Objects, InFence(b)
  PROVE  Matches # {} /\ Earliest(Matches) = b
<1> DEFINE Ends(i) == {j \in i + 2 .. Len(reply) - 1 : reply[j] = "close" /\ reply[j + 1] = "fence"}
           Begins == {i \in 1 .. Len(reply) - 2 :
                        /\ reply[i] = "fence" /\ reply[i + 1] = "open"
                        /\ \E j \in i + 2 .. Len(reply) - 1 : reply[j] = "close" /\ reply[j + 1] = "fence"}
<1>1. /\ b.from \in 1 .. Len(reply) /\ b.to \in 1 .. Len(reply) /\ b.from < b.to
      /\ reply[b.from] = "open" /\ reply[b.to] = "close" /\ Len(reply) \in Nat
      /\ b = Block(b.from, b.to)
  BY Positions DEF Objects, IsObject, Block
<1>2. PICK p \in Nat, e \in Nat : p + 1 = b.from /\ e = b.to /\ p > 0 /\ p = b.from - 1
  BY <1>1 DEF InFence
<1>3. /\ e <= Len(reply) /\ e < Len(reply) /\ p + 1 < e
      /\ reply[p] = "fence" /\ reply[p + 1] = "open" /\ reply[e] = "close" /\ reply[e + 1] = "fence"
      /\ \A i \in p + 1 .. e : reply[i] # "fence"
      /\ \A i \in 1 .. p - 1 : reply[i] = "fence" => reply[i + 1] # "open"
  <2>1. b.from - 2 = p - 1
    BY <1>1, <1>2
  <2> QED
    BY <1>1, <1>2, <2>1 DEF InFence
<1>4. p \in Begins /\ e \in Ends(p)
  <2>1. e \in p + 2 .. Len(reply) - 1 /\ p \in 1 .. Len(reply) - 2
    BY <1>1, <1>2, <1>3
  <2> QED
    BY <1>3, <2>1
<1>5. Min(Ends(p)) = e
  <2>1. Ends(p) \subseteq Nat
    BY <1>1, <1>2
  <2>2. \A j \in Ends(p) : e <= j
    <3> SUFFICES ASSUME NEW j \in Ends(p), j < e PROVE FALSE
      BY <1>1, <1>2
    <3>1. j + 1 \in p + 1 .. e /\ reply[j + 1] = "fence"
      BY <1>1, <1>2
    <3> QED
      BY <1>3, <3>1
  <2> QED
    BY <1>4, <2>1, <2>2, MinIs
<1>6. \A i \in Begins : i \in Nat /\ p <= i
  <2>0. Begins \subseteq Nat
    BY <1>1
  <2> SUFFICES ASSUME NEW i \in Begins, i < p PROVE FALSE
    <3> HIDE DEF Begins
    <3> QED
      BY <1>2, <2>0
  <2>1. i \in 1 .. p - 1 /\ reply[i] = "fence" /\ reply[i + 1] = "open"
    BY <1>1, <1>2
  <2> QED
    BY <1>3, <2>1
<1>7. Matches = {Block(i + 1, Min(Ends(i))) : i \in Begins}
  BY DEF Matches
<1> HIDE DEF Ends, Begins
<1>8. b \in Matches /\ Block(p + 1, Min(Ends(p))) = b
  BY <1>1, <1>2, <1>4, <1>5, <1>7
<1>9. \A c \in Matches : c.from \in Nat /\ b.from <= c.from /\ (c.from = b.from => c = b)
  <2> SUFFICES ASSUME NEW i \in Begins
               PROVE  LET c == Block(i + 1, Min(Ends(i))) IN
                      c.from \in Nat /\ b.from <= c.from /\ (c.from = b.from => c = b)
    BY <1>7
  <2>1. Block(i + 1, Min(Ends(i))).from = i + 1
    BY BlockIs
  <2>2. i + 1 \in Nat /\ p + 1 <= i + 1 /\ (i + 1 = p + 1 => i = p)
    BY <1>2, <1>6
  <2> QED
    BY <1>2, <1>8, <2>1, <2>2
<1>10. Earliest(Matches) \in Matches /\ Earliest(Matches).from <= b.from
  BY <1>8, <1>9, EarliestIs
<1>11. b.from <= Earliest(Matches).from /\ Earliest(Matches).from \in Nat /\ b.from \in Nat
  BY <1>1, <1>9, <1>10
<1> QED
  BY <1>8, <1>9, <1>10, <1>11

\* Without a fence the expression matches nothing.
LEMMA NoMatch ==
  ASSUME reply \in Seq(Signs), \A i \in DOMAIN reply : reply[i] # "fence"
  PROVE  Matches = {}
<1>1. {i \in 1 .. Len(reply) - 2 :
         /\ reply[i] = "fence" /\ reply[i + 1] = "open"
         /\ \E j \in i + 2 .. Len(reply) - 1 : reply[j] = "close" /\ reply[j + 1] = "fence"} = {}
  <2>1. \A i \in 1 .. Len(reply) - 2 : i \in DOMAIN reply
    BY Positions
  <2> QED
    BY <2>1
<1> QED
  BY <1>1 DEF Matches

\* An object with no brace in its strings is what the scan sees at its brace.
LEMMA ScansIt ==
  ASSUME reply \in Seq(Signs), NEW b \in Objects, ~BraceInString(b)
  PROVE  b \in Scanned
<1>1. /\ b.from \in 1 .. Len(reply) /\ b.to \in 1 .. Len(reply) /\ b.from < b.to
      /\ reply[b.from] = "open" /\ Len(reply) \in Nat
      /\ b = Block(b.from, b.to) /\ IsObject(b.from, b.to)
  BY Positions DEF Objects, IsObject, Block
<1>2. \A i \in b.from .. b.to :
        Balanced(b.from, i, LAMBDA j : TRUE) <=> Balanced(b.from, i, LAMBDA j : ~Quoted(b.from, j))
  <2> SUFFICES ASSUME NEW i \in b.from .. b.to
               PROVE  Balanced(b.from, i, LAMBDA j : TRUE) <=> Balanced(b.from, i, LAMBDA j : ~Quoted(b.from, j))
    OBVIOUS
  <2>1. \A j \in b.from .. i : ~Quoted(b.from, j) \/ reply[j] \notin {"open", "close"}
    BY <1>1 DEF BraceInString
  <2>2. \A brace \in {"open", "close"} : {j \in b.from .. i : reply[j] = brace /\ TRUE}
                                = {j \in b.from .. i : reply[j] = brace /\ ~Quoted(b.from, j)}
    BY <2>1
  <2> QED
    BY <2>2 DEF Balanced, Count
<1>3. \A i \in b.from .. b.to : Balanced(b.from, i, LAMBDA j : TRUE) <=> i = b.to
  BY <1>1, <1>2 DEF IsObject
<1>4. Min(Closings(b.from)) = b.to /\ Closings(b.from) # {}
  <2>1. Closings(b.from) \subseteq Nat /\ b.to \in Closings(b.from)
    BY <1>1, <1>3 DEF Closings
  <2>2. \A e \in Closings(b.from) : b.to <= e
    BY <1>1, <1>3 DEF Closings
  <2> QED
    BY <2>1, <2>2, MinIs
<1>5. b \in Candidates
  BY <1>1, <1>4 DEF Candidates
<1> QED
  BY <1>1, <1>5 DEF Scanned

\* What is taken from a reply keeps the promise.
LEMMA ExtractFinds ==
  ASSUME reply \in Seq(Signs), Len(reply) <= MaxLength, NEW b \in Objects
  PROVE  /\ InFence(b) => ExtractJsonBlock = b
         /\ (ExtractJsonBlock = None \/ b.from < ExtractJsonBlock.from)
               /\ (\A i \in DOMAIN reply : reply[i] # "fence") => BraceInString(b)
<1>1. b.from \in Nat /\ IsObject(b.from, b.to)
  BY Positions DEF Objects
<1>2. ASSUME InFence(b) PROVE ExtractJsonBlock = b
  <2>1. Fenced = {b}
    BY <1>1, <1>2, MatchesIt DEF Fenced
  <2>2. Earliest(Fenced) \in Fenced
    BY <1>1, <2>1, EarliestIs
  <2> QED
    BY <2>1, <2>2 DEF ExtractJsonBlock
<1>3. ASSUME \A i \in DOMAIN reply : reply[i] # "fence", ~BraceInString(b)
      PROVE  ExtractJsonBlock # None /\ ~(b.from < ExtractJsonBlock.from)
  <2>1. Fenced = {} /\ b \in Scanned
    BY <1>3, NoMatch, ScansIt DEF Fenced
  <2>2. \A c \in Scanned : c \in Objects /\ c.from \in Nat
    BY ScannedIs, Positions DEF Objects
  <2>3. Earliest(Scanned) \in Scanned /\ Earliest(Scanned).from <= b.from
    BY <2>1, <2>2, EarliestIs
  <2>4. Earliest(Scanned) \in Objects /\ Earliest(Scanned).from \in Nat
    BY <2>2, <2>3
  <2>5. Earliest(Scanned) # None
    BY <2>4, ObjectsAre
  <2> QED
    BY <1>1, <2>1, <2>3, <2>4, <2>5 DEF ExtractJsonBlock
<1> QED
  BY <1>2, <1>3

\* What is taken is an object, or nothing.
LEMMA ExtractIs ==
  ASSUME reply \in Seq(Signs)
  PROVE  ExtractJsonBlock \in {None} \cup Objects
<1>1. \A b \in Fenced : b \in Objects /\ b.from \in Nat
  BY FencedIs, Positions DEF Objects
<1>2. \A b \in Scanned : b \in Objects /\ b.from \in Nat
  BY ScannedIs, Positions DEF Objects
<1>3. Fenced # {} => Earliest(Fenced) \in Fenced
  BY <1>1, EarliestIs
<1>4. Scanned # {} => Earliest(Scanned) \in Scanned
  BY <1>2, EarliestIs
<1> QED
  BY <1>1, <1>2, <1>3, <1>4 DEF ExtractJsonBlock

-----------------------------------------------------------------------------
\* Nothing has been written, and nothing read.
LEMMA InitReply == ReplyInit => ReplyInv
BY ReplyAssumption DEF ReplyInit, ReplyInv, ReplyTypeOK, FindsObject

\* A reply is written before it is read.
LEMMA StepReply ==
  ASSUME ReplyInv, [ReplyNext]_replyVars
  PROVE  ReplyInv'
<1>1. ASSUME NEW c \in Signs, Write(c)
      PROVE  ReplyInv'
  BY <1>1, ReplyAssumption DEF Write, ReplyInv, ReplyTypeOK, FindsObject
<1>2. CASE Read
  <2>1. /\ reply' = reply /\ found' = ExtractJsonBlock /\ Objects' = Objects
        /\ reply \in Seq(Signs) /\ Len(reply) <= MaxLength
    BY <1>2 DEF Read, ReplyInv, ReplyTypeOK, Objects, IsObject, Quoted, Balanced, Count
  <2>2. ReplyTypeOK'
    BY <2>1, ExtractIs DEF ReplyTypeOK
  <2>3. \A b \in Objects : /\ InFence(b)' = InFence(b)
                           /\ BraceInString(b)' = BraceInString(b)
    BY <2>1 DEF InFence, BraceInString, Quoted, Count
  <2>4. FindsObject'
    BY <2>1, <2>3, ExtractFinds DEF FindsObject, PassedOver
  <2> QED
    BY <2>2, <2>4 DEF ReplyInv
<1>3. CASE UNCHANGED replyVars
  <2>1. reply' = reply /\ found' = found
    BY <1>3 DEF replyVars
  <2>2. Objects' = Objects
    BY <2>1 DEF Objects, IsObject, Quoted, Balanced, Count
  <2>3. \A b \in Objects : InFence(b)' = InFence(b) /\ BraceInString(b)' = BraceInString(b)
    BY <2>1 DEF InFence, BraceInString, Quoted, Count
  <2>4. ReplyTypeOK'
    BY <2>1, <2>2 DEF ReplyInv, ReplyTypeOK
  <2>5. FindsObject'
    BY <2>1, <2>2, <2>3 DEF ReplyInv, FindsObject, PassedOver
  <2> QED
    BY <2>4, <2>5 DEF ReplyInv
<1> QED
  BY <1>1, <1>2, <1>3 DEF ReplyNext

\* The object in the first fence is the one that is taken, whatever its strings
\* hold; and without fences none is passed over but for a brace in a string.
\* openai_adapter.py, _extract_json_block.
THEOREM Found == ReplySpec => [](ReplyTypeOK /\ FindsObject)
<1>1. ReplyInv => ReplyTypeOK /\ FindsObject
  BY DEF ReplyInv
<1> QED
  BY InitReply, StepReply, <1>1, PTL DEF ReplySpec

-----------------------------------------------------------------------------
(***************************************************************************)
(* All of them, as the run explores them.                                  *)
(***************************************************************************)

\* Whichever of the components behind the demo server moves, every state is typed,
\* and the rolling buffers are in step.
THEOREM InStep == Spec => []Inv
<1>1. Spec => /\ SpeechSpec /\ ProbesSpec /\ FacesSpec /\ PerceptionSpec /\ SidecarSpec /\ ReplySpec
  <2>1. Init => SpeechInit /\ ProbesInit /\ FacesInit /\ PerceptionInit /\ SidecarInit /\ ReplyInit
    BY DEF Init
  <2>2. [Next]_vars => /\ [SpeechNext]_speechVars /\ [ProbesNext]_probesVars /\ [FacesNext]_facesVars
                       /\ [PerceptionNext]_perceptionVars /\ [SidecarNext]_sidecarVars
                       /\ [ReplyNext]_replyVars
    BY DEF Next, vars
  <2> QED
    BY <2>1, <2>2, PTL DEF Spec, SpeechSpec, ProbesSpec, FacesSpec, PerceptionSpec, SidecarSpec, ReplySpec
<1> QED
  BY <1>1, Thrifty, Fresher, Faced, Aligned, Counted, Found, PTL DEF TypeOK, Inv
=============================================================================
