---------------------------- MODULE CharacterIndex ----------------------------
(***************************************************************************)
(* What build_asset_index makes of a character's folder: its emotes, from  *)
(* the files of emotes/ and from profile.yaml, each with an identifier of  *)
(* its own; its styles, backgrounds, workflow rules and defaults.          *)
(*                                                                         *)
(* An emote's fields in the profile are a function on those it gives.  An  *)
(* identifier made up by the code is a state and a number; a profile may   *)
(* give one of the same shape.                                             *)
(***************************************************************************)
EXTENDS Integers, Sequences, FiniteSets, FiniteSetsExt, SequencesExt

CONSTANTS
  Files,      \* files an emote may have, in sorted order: [state, kind]
  Folders,    \* what may be in emotes/: sets of indices of Files
  Profiles,   \* what profile.yaml may say: [emotes, styles, backs, rules, style, back]
  States,     \* what emotes are for: the folders of emotes/ are named so
  Null        \* a field the profile does not give

Kinds == {"image", "video", "other"}    \* "other" is no SUPPORTED_EMOTE_EXT
Sequential(s) == s \in Seq(Range(s))

\* Lists of styles, of emotes and of variants, with states that are some and
\* priorities that int() has been applied to.
Listed(p) ==
  /\ Sequential(p.styles) /\ Sequential(p.emotes)
  /\ \A g \in Range(p.emotes) :
       /\ Sequential(g.variants)
       /\ \A fields \in {g.shared} \cup Range(g.variants) :
             /\ "state" \in DOMAIN fields => fields["state"] \in States
             /\ "priority" \in DOMAIN fields => fields["priority"] \in Int

ASSUME IndexAssumption ==
  /\ Files \in Seq([state : States, kind : Kinds])
  /\ \A folder \in Folders : folder \subseteq DOMAIN Files
  /\ \A p \in Profiles : Listed(p)
  /\ Null \notin DOMAIN Files /\ Null \notin States \X Nat

VARIABLES
  folder, profile,   \* what is read
  built,             \* "new", "building", "built" or "ValueError"
  remaining,         \* the emotes to be added, in order
  emotes,            \* index.emotes
  counters,          \* the last number made up in each state
  references,        \* how many expression references each state has
  theme              \* index.styles, .backgrounds, .workflow_style_rules, defaults

indexVars == <<folder, profile, built, remaining, emotes, counters, references, theme>>

NoTheme == [styles |-> <<>>, backs |-> <<>>, rules |-> <<>>, style |-> Null, back |-> Null]

IndexTypeOK ==
  /\ built \in {"new", "building", "built", "ValueError"}
  /\ counters \in [States -> Nat] /\ references \in [States -> Nat]
  /\ \A i \in DOMAIN emotes :
        emotes[i].path \in folder /\ emotes[i].state \in States /\ emotes[i].priority \in Int
  /\ built # "new" => \/ theme.style = profile.style
                      \/ \E i \in DOMAIN theme.styles : theme.styles[i].id = theme.style

IndexInit ==
  /\ folder \in Folders /\ profile \in Profiles
  /\ built = "new" /\ remaining = <<>> /\ emotes = <<>>
  /\ counters = [s \in States |-> 0] /\ references = [s \in States |-> 0]
  /\ theme = NoTheme

Get(fields, f, default) == IF f \in DOMAIN fields THEN fields[f] ELSE default
UsedIds == {emotes[i].id : i \in DOMAIN emotes}

DefaultStyles == << [id |-> "neutral", back |-> "studio"],
                    [id |-> "cyberpunk", back |-> "cyberpunk-city"],
                    [id |-> "cozy", back |-> "cozy-library"],
                    [id |-> "glitch", back |-> "glitch-grid"] >>
DefaultBackgrounds == <<"studio", "cyberpunk-city", "cozy-library", "glitch-grid">>
DefaultRules == << [style |-> "cyberpunk", back |-> "cyberpunk-city"],
                   [style |-> "cozy", back |-> "cozy-library"],
                   [style |-> "glitch", back |-> "glitch-grid"] >>

-----------------------------------------------------------------------------
\* Mutated forms of the definitions below.
\* the files of variants are not known to be the profile's
NamedOutsideVariants ==
  {profile.emotes[i].shared.path :
     i \in {j \in DOMAIN profile.emotes : "path" \in DOMAIN profile.emotes[j].shared}}

-----------------------------------------------------------------------------
(***************************************************************************)
(* The profile.                                                            *)
(***************************************************************************)

\* Some fields, before others.
Over(f, g) == [x \in DOMAIN f \cup DOMAIN g |-> IF x \in DOMAIN f THEN f[x] ELSE g[x]]

\* _profile_emote_entries: a variant's fields go before those it shares.
Merged(g) ==
  IF g.variants = <<>> THEN <<g.shared>>
  ELSE [i \in DOMAIN g.variants |->
          LET v == g.variants[i] IN
          Over([variant |-> Get(v, "variant", Get(v, "name", Get(g.shared, "variant", Null)))],
               Over(v, g.shared))]

Entries == FlattenSeq([i \in DOMAIN profile.emotes |-> Merged(profile.emotes[i])])

\* yaml_paths.
Named == {Entries[i].path : i \in {j \in DOMAIN Entries : "path" \in DOMAIN Entries[j]}}

\* The files of emotes/ the profile does not name.
Found ==
  LET found[i \in 0 .. Len(Files)] ==
        IF i = 0 THEN <<>>
        ELSE IF i \in folder /\ Files[i].kind # "other" /\ i \notin Named
        THEN Append(found[i - 1], [state |-> Files[i].state, path |-> i])
        ELSE found[i - 1]
  IN  found[Len(Files)]

First(styles) == styles[1].id

ThemeOf(p) ==
  LET styles == IF p.styles = <<>> THEN DefaultStyles ELSE p.styles
      backs == IF p.backs = <<>> THEN DefaultBackgrounds ELSE p.backs
      style == IF p.style # Null THEN p.style ELSE First(styles)
      at == SelectInSeq(styles, LAMBDA s : s.id = style)
  IN [styles |-> styles, backs |-> backs,
      rules |-> IF p.rules = <<>> THEN DefaultRules ELSE p.rules,
      style |-> style,
      back |-> IF p.back # Null THEN p.back
               ELSE IF at # 0 THEN styles[at].back ELSE backs[1]]

Begin ==
  /\ built = "new"
  /\ theme' = ThemeOf(profile)
  /\ remaining' = Found \o Entries
  /\ built' = "building"
  /\ UNCHANGED <<folder, profile, emotes, counters, references>>

-----------------------------------------------------------------------------
(***************************************************************************)
(* _append_emote, for one emote after another.                             *)
(***************************************************************************)

\* _next_emote_id: the first number after the state's counter that is free.
NextNumber(s) ==
  Min({n \in counters[s] + 1 .. counters[s] + Cardinality(UsedIds) + 1 : <<s, n>> \notin UsedIds})

Refused(e) ==
  {"state", "path"} \subseteq DOMAIN e =>
    \/ e.path \notin folder
    \/ Files[e.path].kind = "other"
    \/ Get(e, "id", Null) \in UsedIds

AddEmote ==
  LET e == remaining[1]
      s == e.state
      made == Get(e, "id", Null) = Null IN
  /\ built = "building" /\ remaining # <<>> /\ ~Refused(e)
  /\ emotes' = Append(emotes,
       [id |-> IF made THEN <<s, NextNumber(s)>> ELSE e.id,
        path |-> e.path, state |-> s, variant |-> Get(e, "variant", Null),
        priority |-> Get(e, "priority", 0)])
  /\ counters' = IF made THEN [counters EXCEPT ![s] = NextNumber(s)] ELSE counters
  /\ references' = IF Files[e.path].kind = "image" /\ Get(e, "training_reference", TRUE)
                   THEN [references EXCEPT ![s] = @ + 1] ELSE references
  /\ remaining' = Tail(remaining)
  /\ UNCHANGED <<folder, profile, built, theme>>

RefuseEmote ==
  /\ built = "building" /\ remaining # <<>> /\ Refused(remaining[1])
  /\ built' = "ValueError"
  /\ UNCHANGED <<folder, profile, remaining, emotes, counters, references, theme>>

Finish ==
  /\ built = "building" /\ remaining = <<>>
  /\ built' = "built"
  /\ UNCHANGED <<folder, profile, remaining, emotes, counters, references, theme>>

-----------------------------------------------------------------------------
IndexNext == Begin \/ AddEmote \/ RefuseEmote \/ Finish

IndexSpec == IndexInit /\ [][IndexNext]_indexVars

-----------------------------------------------------------------------------
\* The emotes the profile gives, a variant with its parent's fields.
Given == UNION {
  {[id |-> <<i, j>>, says |-> IF j = 0 THEN profile.emotes[i].shared
                              ELSE Over(profile.emotes[i].variants[j], profile.emotes[i].shared)] :
     j \in (IF profile.emotes[i].variants = <<>> THEN {0} ELSE DOMAIN profile.emotes[i].variants)} :
  i \in DOMAIN profile.emotes}
Says(g, f) == Get(g.says, f, Null)

\* Every file the profile names has as many emotes as the profile gives it, also
\* through variants, every other file of emotes/ in a format that is supported
\* has one, and no two emotes have the same identifier.
AllIndexed ==
  /\ \A i, j \in DOMAIN emotes : emotes[i].id = emotes[j].id => i = j
  /\ \A file \in folder :
       LET given == Cardinality({g \in Given : Says(g, "path") = file}) IN
       Cardinality({i \in DOMAIN emotes : emotes[i].path = file})
         = IF given > 0 THEN given ELSE IF Files[file].kind = "other" THEN 0 ELSE 1

\* The profile gives an emote without a state or a file, a file there is not or
\* of another kind, two emotes with one identifier, as the variants of a parent
\* that gives one have, or an identifier that looks like one of the code's own.
Cause ==
  \E g \in Given :
     \/ Says(g, "state") = Null
     \/ Says(g, "path") \notin {i \in folder : Files[i].kind # "other"}
     \/ Says(g, "id") # Null /\ \E h \in Given \ {g} : Says(h, "id") = Says(g, "id")
     \/ Says(g, "id") \in States \X (1 .. Len(Files) + Cardinality(Given))

\* build_asset_index loses and doubles nothing: it indexes all of a folder, each
\* emote under an identifier of its own, or refuses it for what its profile says.
IndexesAll ==
  /\ built = "built" => AllIndexed
  /\ built = "ValueError" => Cause
=============================================================================
