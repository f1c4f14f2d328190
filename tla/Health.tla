-------------------------------- MODULE Health --------------------------------
(***************************************************************************)
(* The health endpoint: it asks one part of the program after the other,   *)
(* whose answers may change meanwhile, gives each a status, and the worst  *)
(* of them to the whole.  Each question may raise.  The reachability of    *)
(* the renderer's daemon is taken from the renderer's own answer, nine     *)
(* questions earlier.                                                      *)
(***************************************************************************)
EXTENDS Naturals, Sequences

CONSTANT Unasked   \* no answer yet

ASSUME HealthAssumption ==
  Unasked \notin {"online", "offline", "disabled", "reachable", "degraded", "unreachable",
                  "available", "offline_mode", "no_health", "not_enabled", "there",
                  "raises", "ok"}

VARIABLES
  asked,     \* how many parts have been asked
  heard,     \* what each answered
  statuses,  \* components[...]["status"]
  overall

healthVars == <<asked, heard, statuses, overall>>

Order == <<"config", "renderer", "voice_backend", "voice_loop", "diarization",
           "protocol_agent", "audit_log", "character_catalog", "faceswap",
           "livetalking_reachability">>
Components == {Order[i] : i \in DOMAIN Order}

\* What a part may answer, but for an exception.  A face-swap adapter that is
\* not enabled is offline, and in good health.
Answers(c) ==
  CASE c = "renderer"       -> {"online", "offline"}
    [] c = "voice_loop"     -> {"disabled", "reachable", "degraded", "unreachable"}
    [] c = "diarization"    -> {"reachable", "degraded"}
    [] c = "protocol_agent" -> {"available", "offline_mode"}
    [] c = "faceswap"       -> {"no_health", "online", "not_enabled", "offline"}
    [] c = "livetalking_reachability" -> {heard["renderer"]}
    [] OTHER                -> {"there"}

Fine == {"there", "online", "disabled", "reachable", "available", "no_health", "not_enabled"}

HealthTypeOK ==
  /\ asked \in 0 .. Len(Order)
  /\ statuses \in [Components -> {"ok", "degraded", Unasked}]
  /\ overall \in {"ok", "degraded"}
  /\ \A c \in Components : heard[c] = Unasked <=> statuses[c] = Unasked

HealthInit ==
  /\ asked = 0
  /\ heard = [c \in Components |-> Unasked]
  /\ statuses = [c \in Components |-> Unasked]
  /\ overall = "ok"

-----------------------------------------------------------------------------
\* Mutated forms of the definitions below.
\* the last status wins
MarkLast(status) == overall' = status

-----------------------------------------------------------------------------
\* mark; no part's status is "error", though the endpoint would pass one on.
Mark(status) == overall' = IF status = "degraded" THEN status ELSE overall

StatusOf(answer) == IF answer \in Fine THEN "ok" ELSE "degraded"

Ask ==
  /\ asked < Len(Order)
  /\ \E answer \in Answers(Order[asked + 1]) \cup {"raises"} :
        LET c == Order[asked + 1] IN
        /\ heard' = [heard EXCEPT ![c] = answer]
        /\ statuses' = [statuses EXCEPT ![c] = StatusOf(answer)]
        /\ Mark(StatusOf(answer))
  /\ asked' = asked + 1

\* The report is returned; the next request starts anew.
Return ==
  /\ asked = Len(Order)
  /\ asked' = 0
  /\ heard' = [c \in Components |-> Unasked]
  /\ statuses' = [c \in Components |-> Unasked]
  /\ overall' = "ok"

HealthNext == Ask \/ Return

HealthSpec == HealthInit /\ [][HealthNext]_healthVars

-----------------------------------------------------------------------------
\* What is reported well has answered, and answered that it works or is not
\* wanted, at the moment it was asked: the renderer and its daemon alike, the
\* diarizer, the agent, and the voice loop unless nobody enabled it.  And the
\* whole is reported degraded only for a part that is.
HealthExact ==
  asked = Len(Order) =>
    (overall = "ok" <=>
       /\ \A c \in Components : heard[c] # "raises"
       /\ heard["renderer"] = "online" /\ heard["livetalking_reachability"] = "online"
       /\ heard["voice_loop"] \in {"disabled", "reachable"}
       /\ heard["diarization"] = "reachable" /\ heard["protocol_agent"] = "available"
       /\ heard["faceswap"] # "offline")
=============================================================================
