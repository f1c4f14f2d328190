-------------------------------- MODULE Stage --------------------------------
(***************************************************************************)
(* Which character, style and background are chosen, and what the renderer *)
(* shows.  set_character, set_style, set_background, apply_workflow, the   *)
(* route that adds a character, and reload_config run in worker threads    *)
(* with no lock over five fields of the orchestrator.  A request is the    *)
(* list of shared accesses it has still to make, in the order of the       *)
(* source: another request may come between any two.                       *)
(***************************************************************************)
EXTENDS Naturals, FiniteSets, Sequences

CONSTANTS
  Threads,      \* worker threads that may serve a switch at once
  Characters, Styles, Backgrounds,
  Library,      \* what build_asset_index makes of each character's folder
  FirstCharacter, \* the one the program was started with
  Renderers,    \* renderer objects that may be referred to at once
  None          \* Python's

\* The identifiers a profile gives as defaults, or names in a rule, need not
\* be those of any style or background: nothing checks them.
ASSUME StageAssumption ==
  /\ None \notin Characters \cup Styles \cup Backgrounds \cup Renderers
  /\ FirstCharacter \in Characters
  /\ Library \in [Characters ->
       [styles : SUBSET Styles, backs : SUBSET Backgrounds,
        style : Styles, back : Backgrounds \cup {None},
        goesWith : [Styles -> Backgrounds \cup {None}],
        rules : SUBSET [style : Styles, back : Backgrounds \cup {None}]]]

VARIABLES
  chosen,      \* index, active_style_id, active_background_id, sync
  roots,       \* keys of character_roots, which requests are checked against
  catalog,     \* keys of character_catalog, which characters are taken from
  renderer,    \* self.renderer
  kind,        \* "web" or "livetalking", of each renderer object
  shows,       \* what the renderer, or the daemon behind it, was last given
  todo,        \* what each request has still to do
  crossed,     \* history: a switch of character overlapped another request
  excused      \* history: why the renderer may lag behind what is chosen

stageVars == <<chosen, roots, catalog, renderer, kind, shows, todo, crossed, excused>>

Shown == [char : Characters \cup {None},
          style : (Characters \X Styles) \cup {None},
          back : (Characters \X Backgrounds) \cup {None}]

\* A request is a sequence of <<op, value>>: writes of values it knows ("set"
\* writes the fields of a record), reads and writes that go by the fields as
\* they are then, and calls, <<op, renderer, ...>>, with evaluated arguments.
Writes == {"root", "catalog", "set"}
Reads == {"char", "defaults", "follow", "new", "load", "theme", "themeBack"}
Calls == {"loadNow", "themeNow"}

StageTypeOK ==
  /\ chosen \in [char : Characters, style : Styles, back : Backgrounds \cup {None},
                 sync : BOOLEAN]
  /\ catalog \subseteq roots /\ roots \subseteq Characters
  /\ renderer \in Renderers
  /\ kind \in [Renderers -> {"web", "livetalking"}]
  /\ shows \in Shown
  /\ \A t \in Threads : \A i \in DOMAIN todo[t] : todo[t][i][1] \in Writes \cup Reads \cup Calls
  /\ crossed \in BOOLEAN /\ excused \in BOOLEAN

Blank == [char |-> None, style |-> None, back |-> None]

\* find_style and find_background: the object is the character's own.
FindStyle(c, s) == IF s \in Library[c].styles THEN <<c, s>> ELSE None
FindBack(c, b) == IF b \in Library[c].backs THEN <<c, b>> ELSE None

\* What the renderer should show of what is chosen.
Theme(ch) == [char |-> ch.char, style |-> FindStyle(ch.char, ch.style),
              back |-> FindBack(ch.char, ch.back)]

\* What is chosen, with some of its fields written over.
Overlaid(fields) == [f \in DOMAIN chosen |-> IF f \in DOMAIN fields THEN fields[f] ELSE chosen[f]]

Idle(t) == todo[t] = <<>>
Others(t) == \E u \in Threads \ {t} : ~Idle(u)
Op(t) == todo[t][1][1]
Arg(t) == todo[t][1][2]
Pending(u, ops) == \E i \in DOMAIN todo[u] : todo[u][i][1] \in ops
Quiet == \A t \in Threads : Idle(t)

Then(t, ops) == todo' = [todo EXCEPT ![t] = ops \o Tail(@)]

StageInit ==
  /\ chosen = [char |-> FirstCharacter, style |-> Library[FirstCharacter].style,
               back |-> Library[FirstCharacter].back, sync |-> TRUE]
  /\ roots \in {c \in SUBSET Characters : FirstCharacter \in c}
  /\ catalog = roots
  /\ renderer \in Renderers
  /\ \E k \in {"web", "livetalking"} : kind = [r \in Renderers |-> k]
  \* the daemon may not be there yet
  /\ \E reached \in {TRUE} \cup {kind[renderer] # "livetalking"} :
        shows = IF reached THEN Theme(chosen) ELSE Blank
  /\ todo = [t \in Threads |-> <<>>]
  /\ crossed = FALSE
  /\ excused = (shows # Theme(chosen))

-----------------------------------------------------------------------------
(***************************************************************************)
(* Requests: the check, and what is then to be done.                       *)
(***************************************************************************)

Request(t, ops) ==
  /\ Idle(t)
  /\ todo' = [todo EXCEPT ![t] = ops]
  /\ excused' = (excused \/ Others(t))
  /\ UNCHANGED <<chosen, roots, catalog, renderer, kind, shows, crossed>>

If(cond, ops) == IF cond THEN ops ELSE <<>>

\* Mutated forms of the definitions below.
\* the catalog before the roots
SelectCatalogFirst(t, c) ==
  Request(t, << <<"catalog", c>>, <<"root", c>>, <<"char", c>>, <<"defaults">>, <<"load">> >>)

\* the style is not looked up
SetStyleUnchecked(t, s, sync) ==
  Request(t, << <<"set", [style |-> s, sync |-> sync]>>, <<"theme">> >>)

\* the renderer is not told of a workflow's style
WorkflowUntold(t, rule) ==
  /\ rule \in Library[chosen.char].rules
  /\ Request(t, << <<"set", [style |-> rule.style]>>, <<"follow">> >>)

SetCharacter(t, c) ==
  /\ c \in roots
  /\ Request(t, << <<"char", c>>, <<"defaults">>, <<"load">> >>)

\* The route that indexes a folder, adds it to both maps and switches to it.
SelectCharacter(t, c) ==
  Request(t, << <<"root", c>>, <<"catalog", c>>, <<"char", c>>, <<"defaults">>, <<"load">> >>)

SetStyle(t, s, sync) ==
  LET goes == Library[chosen.char].goesWith[s] IN
  /\ s \in Library[chosen.char].styles
  /\ Request(t, << <<"set", [style |-> s, sync |-> sync]>> >>
                \o If(sync /\ goes # None, << <<"set", [back |-> goes]>> >>) \o << <<"theme">> >>)

SetBackground(t, b, sync) ==
  /\ b \in Library[chosen.char].backs
  /\ Request(t, << <<"set", [back |-> b, sync |-> sync]>>, <<"theme">> >>)

ApplyWorkflow(t, rule) ==
  /\ rule \in Library[chosen.char].rules
  /\ Request(t, << <<"set", [style |-> rule.style]>> >>
                \o (IF rule.back # None THEN << <<"set", [back |-> rule.back]>> >> ELSE << <<"follow">> >>)
                \o << <<"theme">> >>)

\* Only when the section of the configuration about the renderer has changed.
ReloadRenderer(t) == Request(t, << <<"new">>, <<"load">>, <<"theme">> >>)

-----------------------------------------------------------------------------
(***************************************************************************)
(* What they do, one access at a time.                                     *)
(***************************************************************************)

WriteField(t) ==
  /\ ~Idle(t) /\ Op(t) \in Writes
  /\ chosen' = IF Op(t) = "set" THEN Overlaid(Arg(t)) ELSE chosen
  /\ roots' = IF Op(t) = "root" THEN roots \cup {Arg(t)} ELSE roots
  /\ catalog' = IF Op(t) = "catalog" THEN catalog \cup {Arg(t)} ELSE catalog
  /\ Then(t, <<>>)
  /\ UNCHANGED <<renderer, kind, shows, crossed, excused>>

\* The catalog may not have yet what the roots have: KeyError.
SwitchCharacter(t) ==
  /\ ~Idle(t) /\ Op(t) = "char"
  /\ IF Arg(t) \in catalog
     THEN /\ chosen' = [chosen EXCEPT !.char = Arg(t)]
          /\ Then(t, <<>>)
          /\ crossed' = (crossed \/ \E u \in Threads \ {t} : Pending(u, {"set"}))
          /\ excused' = TRUE
     ELSE /\ todo' = [todo EXCEPT ![t] = <<>>]
          /\ UNCHANGED <<chosen, crossed, excused>>
  /\ UNCHANGED <<roots, catalog, renderer, kind, shows>>

\* set_character goes by the index that is current when it looks.
TakeDefaults(t) ==
  /\ ~Idle(t) /\ Op(t) = "defaults"
  /\ LET lib == Library[chosen.char] IN
     chosen' = Overlaid([style |-> lib.style, back |-> lib.back, sync |-> TRUE])
  /\ Then(t, <<>>)
  /\ UNCHANGED <<roots, catalog, renderer, kind, shows, crossed, excused>>

\* A rule without a background follows the style, if backgrounds follow styles.
Follow(t) ==
  /\ ~Idle(t) /\ Op(t) = "follow"
  /\ LET lib == Library[chosen.char] IN
     Then(t, If(chosen.sync /\ chosen.style \in lib.styles /\ lib.goesWith[chosen.style] # None,
                << <<"set", [back |-> lib.goesWith[chosen.style]]>> >>))
  /\ UNCHANGED <<chosen, roots, catalog, renderer, kind, shows, crossed, excused>>

\* reload_config builds a LiveTalking adapter whatever was there.
NewRenderer(t, r) ==
  /\ ~Idle(t) /\ Op(t) = "new"
  /\ r # renderer
  /\ \A u \in Threads : \A i \in DOMAIN todo[u] : Len(todo[u][i]) > 1 => todo[u][i][2] # r
  /\ renderer' = r
  /\ kind' = [kind EXCEPT ![r] = "livetalking"]
  /\ shows' = Blank
  /\ excused' = TRUE
  /\ Then(t, <<>>)
  /\ UNCHANGED <<chosen, roots, catalog, crossed>>

\* load_character; _notify_renderer_theme, which looks up the style and then the
\* background, and ends without a call when either is not found.
Evaluate(t) ==
  /\ ~Idle(t)
  /\ LET next(op) == Then(t, <<op>>) IN
     CASE Op(t) = "load"  -> next(<<"loadNow", renderer, chosen.char>>)
       [] Op(t) = "theme" -> next(<<"themeBack", renderer, FindStyle(chosen.char, chosen.style)>>)
       [] Op(t) = "themeBack" ->
            LET style == todo[t][1][3]
                back == FindBack(chosen.char, chosen.back) IN
            Then(t, If(style # None /\ back # None,
                       << <<"themeNow", Arg(t), chosen.char, style, back>> >>))
       [] OTHER -> FALSE
  /\ UNCHANGED <<chosen, roots, catalog, renderer, kind, shows, crossed, excused>>

\* The call is made.  set_character ends with its load: what follows raises.
Call(t, delivered) ==
  /\ ~Idle(t) /\ Op(t) \in Calls
  /\ LET op == todo[t][1]
         shown == IF op[1] = "loadNow" THEN [shows EXCEPT !.char = op[3]]
                  ELSE [char |-> op[3], style |-> op[4], back |-> op[5]] IN
     shows' = IF delivered /\ op[2] = renderer THEN shown ELSE shows
  /\ excused' = IF delivered /\ ~Others(t) /\ shows' = Theme(chosen) THEN FALSE
                ELSE excused \/ ~delivered
  /\ Then(t, <<>>)
  /\ UNCHANGED <<chosen, roots, catalog, renderer, kind, crossed>>

\* The web renderer keeps what it is given; a daemon may not get it.
WebCall(t) ==
  ~Idle(t) /\ Op(t) \in Calls /\ kind[Arg(t)] = "web" /\ Call(t, TRUE)
DaemonCall(t, delivered) ==
  ~Idle(t) /\ Op(t) \in Calls /\ kind[Arg(t)] = "livetalking" /\ Call(t, delivered)

StageNext ==
  \E t \in Threads :
     \/ \E c \in Characters : SetCharacter(t, c) \/ SelectCharacter(t, c)
     \/ \E s \in Styles, sync \in BOOLEAN : SetStyle(t, s, sync)
     \/ \E b \in Backgrounds, sync \in BOOLEAN : SetBackground(t, b, sync)
     \/ \E rule \in UNION {Library[c].rules : c \in Characters} : ApplyWorkflow(t, rule)
     \/ ReloadRenderer(t)
     \/ WriteField(t) \/ SwitchCharacter(t) \/ TakeDefaults(t) \/ Follow(t)
     \/ \E r \in Renderers : NewRenderer(t, r)
     \/ Evaluate(t)
     \/ WebCall(t) \/ \E delivered \in BOOLEAN : DaemonCall(t, delivered)

StageSpec == StageInit /\ [][StageNext]_stageVars

-----------------------------------------------------------------------------
\* The identifiers the library itself gives a character: its styles, and those
\* of its rules and defaults, which nothing checks.
OwnStyles(c) == Library[c].styles \cup {Library[c].style} \cup {r.style : r \in Library[c].rules}
OwnBacks(c) == Library[c].backs \cup {Library[c].back} \cup {r.back : r \in Library[c].rules}
               \cup {Library[c].goesWith[s] : s \in Styles}

\* Whatever requests overlap, the style and the background chosen are those of
\* the character chosen, unless a switch of character came between the check of
\* another request and its writes.  (A switch still on its way has its own
\* writes before it.)
ThemeBelongs ==
  ~crossed =>
    \/ chosen.style \in OwnStyles(chosen.char) /\ chosen.back \in OwnBacks(chosen.char)
    \/ \E t \in Threads : Pending(t, {"defaults"})

\* With no request running, the renderer shows what is chosen, if there is such
\* a style and background, unless since its last complete theme the character
\* was switched, a call did not arrive, or requests overlapped.
ShownIsChosen ==
  Quiet /\ ~excused /\ Theme(chosen).style # None /\ Theme(chosen).back # None =>
    shows = Theme(chosen)
=============================================================================
