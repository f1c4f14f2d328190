------------------------------ MODULE MCServices ------------------------------
(* What the program asks of vendors, models and sidecars, on small sets.     *)
(* The components share no state, so each is explored by itself: "scene"     *)
(* says which.  The worker threads of two scenes go by the same names.       *)
EXTENDS Speech, Probes, VendorFaces, Perception, SidecarSwap,
        ReplyParsing, TLC

CONSTANTS alice, bob, stage

VARIABLE scene

Pair(source) == [source |-> source, target |-> stage]
MCRequests == {Pair(alice), Pair(bob)}

Init ==
  /\ SpeechInit /\ ProbesInit /\ FacesInit /\ PerceptionInit /\ SidecarInit
  /\ ReplyInit
  /\ scene \in {"speech", "probes", "faces", "perception", "sidecar", "reply"}
  /\ scene # "speech" => voice = "luxtts" /\ command /\ lipOn /\ cap = CapFloor
  /\ scene # "faces" => vendorThere
  /\ scene # "perception" => tracking
  /\ scene # "sidecar" => configured /\ refusing /\ vendor = "missing"

Next ==
  \/ /\ scene = "speech" /\ SpeechNext
     /\ UNCHANGED <<scene, probesVars, facesVars, perceptionVars, sidecarVars, replyVars>>
  \/ /\ scene = "probes" /\ ProbesNext
     /\ UNCHANGED <<scene, speechVars, facesVars, perceptionVars, sidecarVars, replyVars>>
  \/ /\ scene = "faces" /\ FacesNext
     /\ UNCHANGED <<scene, speechVars, probesVars, perceptionVars, sidecarVars, replyVars>>
  \/ /\ scene = "perception" /\ PerceptionNext
     /\ UNCHANGED <<scene, speechVars, probesVars, facesVars, sidecarVars, replyVars>>
  \/ /\ scene = "sidecar" /\ SidecarNext
     /\ UNCHANGED <<scene, speechVars, probesVars, facesVars, perceptionVars, replyVars>>
  \/ /\ scene = "reply" /\ ReplyNext
     /\ UNCHANGED <<scene, speechVars, probesVars, facesVars, perceptionVars, sidecarVars>>

vars == <<scene, speechVars, probesVars, facesVars, perceptionVars, sidecarVars, replyVars>>
Spec == Init /\ [][Next]_vars

Symmetry == Permutations(FrameThreads)

TypeOK == /\ SpeechTypeOK /\ ProbesTypeOK /\ FacesTypeOK
          /\ PerceptionTypeOK /\ SidecarTypeOK /\ ReplyTypeOK

\* Types, and the rolling buffers stay in step.
Inv == TypeOK /\ BuffersAligned
=============================================================================
