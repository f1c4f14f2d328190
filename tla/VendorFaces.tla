----------------------------- MODULE VendorFaces -----------------------------
(***************************************************************************)
(* The in-process face-swap daemons (FaceFusion, Deep-Live-Cam), which     *)
(* share base_daemon: swap() loads the vendor, reads two images, takes     *)
(* their faces from a cache of one entry each or extracts them, and        *)
(* applies the vendor's swap.  Pipeline threads, of a former character     *)
(* too, call it at once, and nothing locks the cache: its path and its     *)
(* face are two attributes, read and written one after the other.          *)
(***************************************************************************)
EXTENDS FiniteSets

CONSTANTS
  Pipelines,   \* pipeline threads that may swap at once
  Images,      \* source and target images, one face each or none
  Requests,    \* what swaps ask for: [source, target], images
  NoFace, NoImage

ASSUME VendorFacesAssumption ==
  /\ {NoFace, NoImage} \cap Images = {}
  /\ Requests \subseteq [source : Images, target : Images]

VARIABLES
  vendorThere, \* the vendor's checkout and its packages can be imported
  loaded,      \* _is_loaded, with _is_degraded its negation
  modules,     \* which of the vendor's heavy modules have been imported
  slots,       \* _cached_source_face and _last_source_path, and the target's
  swaps,       \* where each thread's swap is
  mixed        \* history: swaps of two images met over a slot

facesVars == <<vendorThere, loaded, modules, slots, swaps, mixed>>

Roles == {"source", "target"}
Faces == Images \cup {NoFace}       \* an image's face is named for it
AtRest == [at |-> "idle", role |-> "source", want |-> [r \in Roles |-> NoImage],
           got |-> [r \in Roles |-> NoFace]]
Points == {"look", "test", "take", "extract", "store", "stamp"}

FacesTypeOK ==
  /\ vendorThere \in BOOLEAN /\ loaded \in BOOLEAN
  /\ modules \subseteq {"analyser", "swapper"}
  /\ slots \in [Roles -> [path : Images \cup {NoImage}, face : Faces]]
  /\ swaps \in [Pipelines -> [at : Points \cup {"idle", "apply"}, role : Roles,
                              want : [Roles -> Images \cup {NoImage}], got : [Roles -> Faces]]]
  /\ mixed \in [Roles -> BOOLEAN]
  /\ modules # {} => loaded

FacesInit ==
  /\ vendorThere \in BOOLEAN /\ loaded = FALSE /\ modules = {}
  /\ slots = [r \in Roles |-> [path |-> NoImage, face |-> NoFace]]
  /\ swaps = [p \in Pipelines |-> AtRest]
  /\ mixed = [r \in Roles |-> FALSE]

\* p's swap is at a point of the role it is busy with.
At(p, point) == swaps[p].at = point
Role(p) == swaps[p].role
Wants(p) == swaps[p].want[Role(p)]
Go(p, s) == swaps' = [swaps EXCEPT ![p] = s]
GoTo(p, point) == Go(p, [swaps[p] EXCEPT !.at = point])
Busy(q, r) == swaps[q].at \in Points /\ swaps[q].role = r
Meets(p) == \E q \in Pipelines \ {p} : Busy(q, Role(p)) /\ Wants(q) # Wants(p)

\* The face of the role is found: the other role's turn, or the vendor's.
Got(p, face) ==
  LET s == [swaps[p] EXCEPT !.got[Role(p)] = face] IN
  Go(p, IF s.role = "source" THEN [s EXCEPT !.at = "look", !.role = "target"]
        ELSE [s EXCEPT !.at = "apply"])

\* The frame is returned as it is.
Through(p) == Go(p, AtRest)

-----------------------------------------------------------------------------
\* Mutated forms of the definitions below.
\* an image without a face does not clear the face kept
StoreIfFace(p) ==
  /\ At(p, "store")
  /\ slots' = [slots EXCEPT ![Role(p)].face =
                 IF swaps[p].got[Role(p)] = NoFace THEN @ ELSE swaps[p].got[Role(p)]]
  /\ GoTo(p, "stamp")
  /\ UNCHANGED <<vendorThere, loaded, modules, mixed>>

-----------------------------------------------------------------------------
\* _ensure_loaded fails: every swap asks again.
NotLoaded(p) ==
  /\ At(p, "idle") /\ ~loaded /\ ~vendorThere
  /\ Through(p)
  /\ UNCHANGED <<vendorThere, loaded, modules, slots, mixed>>

\* Loading, and reading both images: either may be missing, or unreadable.
StartSwap(p, req) ==
  /\ At(p, "idle") /\ (loaded \/ vendorThere)
  /\ loaded' = TRUE
  /\ \/ Go(p, [AtRest EXCEPT !.at = "look", !.want = req])
     \/ Through(p)
  /\ UNCHANGED <<vendorThere, modules, slots, mixed>>

\* _get_cached_face.
Look(p) ==
  /\ At(p, "look")
  /\ GoTo(p, IF slots[Role(p)].path = Wants(p) THEN "test" ELSE "extract")
  /\ mixed' = [mixed EXCEPT ![Role(p)] = @ \/ Meets(p)]
  /\ UNCHANGED <<vendorThere, loaded, modules, slots>>

Test(p) ==
  /\ At(p, "test")
  /\ GoTo(p, IF slots[Role(p)].face # NoFace THEN "take" ELSE "extract")
  /\ UNCHANGED <<vendorThere, loaded, modules, slots, mixed>>

Take(p) ==
  /\ At(p, "take")
  /\ Got(p, slots[Role(p)].face)
  /\ UNCHANGED <<vendorThere, loaded, modules, slots, mixed>>

\* _extract_face: the analyser is imported when it is first needed, and any
\* failure counts as no face.
Extract(p) ==
  /\ At(p, "extract")
  /\ \/ vendorThere /\ modules' = modules \cup {"analyser"}
     \/ UNCHANGED modules
  /\ \E face \in {NoFace} \cup IF "analyser" \in modules' THEN {Wants(p)} ELSE {} :
        Go(p, [swaps[p] EXCEPT !.at = "store", !.got[Role(p)] = face])
  /\ UNCHANGED <<vendorThere, loaded, slots, mixed>>

\* The face is set, then the path.
Store(p) ==
  /\ At(p, "store")
  /\ slots' = [slots EXCEPT ![Role(p)].face = swaps[p].got[Role(p)]]
  /\ mixed' = [mixed EXCEPT ![Role(p)] = @ \/ Meets(p)]
  /\ GoTo(p, "stamp")
  /\ UNCHANGED <<vendorThere, loaded, modules>>

Stamp(p) ==
  LET r == Role(p)
      slot == [slots[r] EXCEPT !.path = Wants(p)] IN
  /\ At(p, "stamp")
  /\ slots' = [slots EXCEPT ![r] = slot]
  /\ mixed' = [mixed EXCEPT ![r] =
                 Meets(p) \/ (@ /\ (slot.face \notin {NoFace, slot.path}
                              \/ \E q \in Pipelines \ {p} : ~At(q, "idle")))]
  /\ Got(p, swaps[p].got[r])
  /\ UNCHANGED <<vendorThere, loaded, modules>>

\* _apply_swap: without both faces, or when the vendor's module cannot be
\* imported or fails, the frame is returned as it is.
Apply(p) ==
  /\ At(p, "apply")
  /\ \/ Through(p) /\ UNCHANGED modules
     \/ /\ \A r \in Roles : swaps[p].got[r] # NoFace
        /\ "swapper" \in modules \/ vendorThere
        /\ modules' = modules \cup {"swapper"}
        /\ Go(p, AtRest)
  /\ UNCHANGED <<vendorThere, loaded, slots, mixed>>

\* The checkout is installed, or removed.
VendorChanges ==
  /\ vendorThere' = ~vendorThere
  /\ UNCHANGED <<loaded, modules, slots, swaps, mixed>>

FacesNext ==
  \/ \E p \in Pipelines :
        \/ NotLoaded(p) \/ \E req \in Requests : StartSwap(p, req)
        \/ Look(p) \/ Test(p) \/ Take(p) \/ Extract(p) \/ Store(p) \/ Stamp(p)
        \/ Apply(p)
  \/ VendorChanges

FacesSpec == FacesInit /\ [][FacesNext]_facesVars

-----------------------------------------------------------------------------
\* A swap uses the faces of the images it was asked for, unless swaps of two
\* images met over the cache: then the face of one may be kept under the path of
\* the other, until an image is next extracted and kept by itself.
OwnFace ==
  \A p \in Pipelines, r \in Roles :
     At(p, "apply") =>
       swaps[p].got[r] \in {NoFace, swaps[p].want[r]} \/ mixed[r]
=============================================================================
