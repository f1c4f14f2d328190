------------------------------- MODULE MCDemo -------------------------------
(* The demo server's own components on small sets: the orchestrator's        *)
(* conversation and switches, its meeting service, its configuration, the    *)
(* library it reads and its health report.  They share no state, so each is  *)
(* explored by itself: "scene" says which.  What may run at once goes by the *)
(* same names in each.                                                       *)
EXTENDS Conversation, Stage, Meeting, CharacterIndex, ConfigReload, Health

CONSTANTS ann, bob, plain, party, wall, sky, grin, smile

VARIABLE scene

\* The first character has one style and one background.  The second has them
\* too, as backgrounds, and a rule that names a style it does not have, as the
\* default rules do in a profile with styles of its own.
MCLibrary ==
  (ann :> [styles |-> {plain}, backs |-> {wall}, style |-> plain, back |-> wall,
         goesWith |-> [s \in Styles |-> IF s = plain THEN wall ELSE None],
         rules |-> {[style |-> plain, back |-> None]}])
  @@
  (bob :> [styles |-> {party}, backs |-> {wall, sky}, style |-> party, back |-> None,
         goesWith |-> [s \in Styles |-> IF s = party THEN sky ELSE None],
         rules |-> {[style |-> plain, back |-> wall], [style |-> party, back |-> None]}])

\* Up to three files; the third is no picture.
MCFiles == << [state |-> "happy", kind |-> "image"], [state |-> "happy", kind |-> "video"],
              [state |-> "sad", kind |-> "other"] >>
MCFolders == {{1}, {1, 2}, {1, 2, 3}}

\* Up to two entries for emotes: without variants, whole or lacking a field, with
\* an identifier of their own, also one the code might make up; or with one or
\* two variants, which give the fields their parent may lack.
Singles == {
  [state |-> "happy", path |-> 1], [state |-> "sad", path |-> 2],
  [state |-> "happy", path |-> 2, id |-> <<"happy", 1>>],
  [state |-> "sad", path |-> 1, id |-> smile, training_reference |-> FALSE],
  [path |-> 1], [state |-> "sad", path |-> 3], [state |-> "sad"],
  [state |-> "happy", path |-> 1, id |-> smile, priority |-> 2, variant |-> "soft"]}
Parents == {
  [state |-> "happy"], [state |-> "happy", id |-> grin],
  [id |-> <<"happy", 2>>, state |-> "happy", variant |-> "x", path |-> 1]}
Variants == {
  [path |-> 1, variant |-> "soft"], [path |-> 2, name |-> "broad"], [path |-> 2, state |-> "sad"]}
Groups ==
  [shared : Singles, variants : {<<>>}]
  \cup [shared : Parents, variants : {<<v>> : v \in Variants} \cup {<<v, w>> : v, w \in Variants}]

\* Styles, one without a background, backgrounds, rules and defaults.
Dressed == [id |-> party, back |-> wall]
Bare == [id |-> plain, back |-> Null]
MCThemes ==
  [styles : {<<>>, <<Dressed>>, <<Bare>>, <<Bare, Dressed>>},
   backs : {<<>>, <<wall>>, <<sky, wall>>},
   style : {Null, party, plain, "neutral"}, back : {Null, wall, sky},
   rules : {<<>>, <<[style |-> party, back |-> wall]>>, <<[style |-> plain, back |-> sky]>>}]
NoThemes == [styles |-> <<>>, backs |-> <<>>, style |-> Null, back |-> Null, rules |-> <<>>]
NoProfile == [emotes |-> <<>>] @@ NoThemes

MCProfiles ==
  {[emotes |-> es] @@ NoThemes :
     es \in {<<>>} \cup {<<g>> : g \in Groups} \cup {<<g, h>> : g, h \in Groups}}
  \cup {[emotes |-> <<>>] @@ t : t \in MCThemes}

\* One section of defaults.yaml is edited in a run.
MCEditable == {{k} : k \in Keys}

Init ==
  /\ scene \in {"conversation", "stage", "meeting", "index", "config", "health"}
  /\ ConversationInit /\ StageInit /\ MeetingInit /\ ConfigInit /\ HealthInit
  /\ scene # "stage" => roots = {ann} /\ ~excused /\ kind[renderer] = "web"
  /\ scene # "meeting" => ~hook
  /\ scene # "config" => /\ editable = {"affect"} /\ given = [env |-> {}, file |-> {}]
                         /\ ~lowSpec /\ ~swapping
  \* what bears on one section only where that is edited: the agent's URL of the
  \* command line, the tuning, the face swap
  /\ uses["agent"]["agent"] = "argument" => scene = "config" /\ editable = {"agent"}
  /\ lowSpec => editable = {"affect"}
  /\ swapping => editable \in {{"renderer"}, {"faceswap"}}
  /\ IF scene = "index" THEN IndexInit
     ELSE /\ folder = {} /\ profile = NoProfile
          /\ built = "new" /\ remaining = <<>> /\ emotes = <<>>
          /\ counters = [s \in States |-> 0] /\ references = [s \in States |-> 0]
          /\ theme = NoTheme

\* A folder is read once.
Read == scene = "index" /\ built \in {"built", "ValueError"}

vars == <<scene, conversationVars, stageVars, meetingVars, indexVars, configVars, healthVars>>

Next ==
  \/ /\ scene = "conversation" /\ ConversationNext
     /\ UNCHANGED <<scene, stageVars, meetingVars, indexVars, configVars, healthVars>>
  \/ /\ scene = "stage" /\ StageNext
     /\ UNCHANGED <<scene, conversationVars, meetingVars, indexVars, configVars, healthVars>>
  \/ /\ scene = "meeting" /\ MeetingNext
     /\ UNCHANGED <<scene, conversationVars, stageVars, indexVars, configVars, healthVars>>
  \/ /\ scene = "index" /\ IndexNext
     /\ UNCHANGED <<scene, conversationVars, stageVars, meetingVars, configVars, healthVars>>
  \/ /\ scene = "config" /\ ConfigNext
     /\ UNCHANGED <<scene, conversationVars, stageVars, meetingVars, indexVars, healthVars>>
  \/ /\ scene = "health" /\ HealthNext
     /\ UNCHANGED <<scene, conversationVars, stageVars, meetingVars, indexVars, configVars>>
  \/ Read /\ UNCHANGED vars

Spec == Init /\ [][Next]_vars

Symmetry == Permutations(Threads) \cup Permutations(Renderers) \cup Permutations(Browsers)

TypeOK == /\ ConversationTypeOK /\ StageTypeOK /\ MeetingTypeOK /\ IndexTypeOK
          /\ ConfigTypeOK /\ HealthTypeOK
=============================================================================
