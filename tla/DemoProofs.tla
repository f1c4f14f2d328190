----------------------------- MODULE DemoProofs ------------------------------
(***************************************************************************)
(* The demo server's own parts, for any number of threads and browsers and *)
(* any library of characters: what is shown and chosen, who is in the      *)
(* meeting, what a reload applies, what /health says of whom, and what an  *)
(* index holds.  The parts share no state: each has its own invariant.     *)
(***************************************************************************)
EXTENDS MCDemo, ConversationProofs, FiniteSetTheorems, FunctionTheorems, SequenceTheorems, WellFoundedInduction, TLAPS

-----------------------------------------------------------------------------
(***************************************************************************)
(* Stage: what is chosen and what is shown.                                *)
(***************************************************************************)

-----------------------------------------------------------------------------
\* The accesses a request may have to make, and the fields one of them writes.
Fields == [style : Styles, sync : BOOLEAN] \cup [back : Backgrounds, sync : BOOLEAN]
          \cup [style : Styles] \cup [back : Backgrounds]
StyleObjects == (Characters \X Styles) \cup {None}
BackObjects == (Characters \X Backgrounds) \cup {None}
Ops ==
  ({"root", "catalog", "char"} \X Characters) \cup ({"set"} \X Fields)
  \cup {<<k>> : k \in {"defaults", "follow", "new", "load", "theme"}}
  \cup ({"loadNow"} \X Renderers \X Characters)
  \cup ({"themeBack"} \X Renderers \X StyleObjects)
  \cup ({"themeNow"} \X Renderers \X Characters \X StyleObjects \X BackObjects)

\* A request is what is left of one of three plans: a switch of character, a new
\* renderer, or a style, a background or both.
Loads == {"load", "loadNow"}
Themes == {"theme", "themeBack", "themeNow"}
SwitchPlan == << {"root"}, {"catalog"}, {"char"}, {"defaults"}, Loads >>
RenewPlan == << {"new"}, Loads, Themes >>
DressPlan == << {"set"}, {"set", "follow"}, Themes >>

\* The kinds of access in the last of n steps.
Follows(s, plan, n) == Len(s) <= n /\ \A i \in 1 .. Len(s) : s[i][1] \in plan[i + n - Len(s)]
Planned(s) ==
  /\ Follows(s, SwitchPlan, 5) \/ Follows(s, RenewPlan, 3) \/ Follows(s, DressPlan, 3)
  /\ \A i \in 2 .. Len(s) : s[i][1] \notin {"loadNow", "themeBack", "themeNow"}

\* Steps are taken one at a time, and what one of them puts in the place of the
\* first has its kind.
LEMMA OpsAre ==
  ASSUME NEW o \in Ops
  PROVE  /\ o[1] \in {"root", "catalog", "char", "set", "defaults", "follow", "new"} \cup Loads \cup Themes
         /\ o[1] \in {"root", "catalog", "char"} => o[2] \in Characters
         /\ o[1] = "set" => o[2] \in Fields
         /\ o[1] \in {"loadNow", "themeBack", "themeNow"} => o[2] \in Renderers
         /\ o[1] = "loadNow" => o[3] \in Characters
         /\ o[1] = "themeBack" => o[3] \in StyleObjects
         /\ o[1] = "themeNow" => o[3] \in Characters /\ o[4] \in StyleObjects /\ o[5] \in BackObjects
BY DEF Ops, Loads, Themes

\* The accesses that there are.
LEMMA IsOp ==
  /\ \A k \in {"root", "catalog", "char"}, c \in Characters : <<k, c>> \in Ops
  /\ \A f \in Fields : <<"set", f>> \in Ops
  /\ \A k \in {"defaults", "follow", "new", "load", "theme"} : <<k>> \in Ops
  /\ \A r \in Renderers :
       /\ \A c \in Characters : <<"loadNow", r, c>> \in Ops
       /\ \A s \in StyleObjects : <<"themeBack", r, s>> \in Ops
       /\ \A c \in Characters, s \in StyleObjects, b \in BackObjects : <<"themeNow", r, c, s, b>> \in Ops
BY DEF Ops

\* What follows the first access of a plan.
LEMMA PlanIs ==
  ASSUME NEW s \in Seq(Ops), s # <<>>, Planned(s)
  PROVE  /\ Len(s) \in Nat /\ Len(s) >= 1
         /\ s[1][1] \in {"root", "catalog", "char", "defaults", "set", "follow", "new"} => Len(s) >= 2
         /\ s[1][1] = "root" => s[2][1] = "catalog"
         /\ s[1][1] = "catalog" => s[2][1] = "char"
         /\ s[1][1] = "char" => s[2][1] = "defaults"
         /\ s[1][1] \in {"defaults", "new"} => s[2][1] = "load"
         /\ s[1][1] \in {"root", "catalog", "char", "defaults"} =>
              /\ \A i \in 1 .. Len(s) : s[i][1] # "set"
              /\ s[Len(s)][1] \notin Themes
         /\ s[1][1] \in {"set", "follow", "new"} => s[Len(s)][1] \in Themes
         /\ s[1][1] \in {"set", "follow"} =>
              \A i \in 1 .. Len(s) : s[i][1] \in {"set", "follow"} \cup Themes
         /\ s[1][1] \in Loads => Len(s) = 1 \/ (Len(s) = 2 /\ s[2][1] = "theme")
         /\ s[1][1] \in Themes => Len(s) = 1
<1>0. PICK n \in Nat : n = Len(s) /\ n >= 1
  OBVIOUS
<1>1. n >= 1
  BY <1>0
<1>2. CASE Follows(s, SwitchPlan, 5)
  <2>1. SwitchPlan[1] = {"root"} /\ SwitchPlan[2] = {"catalog"} /\ SwitchPlan[3] = {"char"}
        /\ SwitchPlan[4] = {"defaults"} /\ SwitchPlan[5] = Loads
    BY DEF SwitchPlan
  <2>2. /\ n <= 5
        /\ \A i \in 1 .. n : /\ i = n => s[i][1] \in Loads
                             /\ i + 1 = n => s[i][1] = "defaults"
                             /\ i + 2 = n => s[i][1] = "char"
                             /\ i + 3 = n => s[i][1] = "catalog"
                             /\ i + 4 = n => s[i][1] = "root"
    BY <1>0, <1>2, <2>1 DEF Follows
  <2>3. \A i \in 1 .. n : s[i][1] \in {"root", "catalog", "char", "defaults"} \cup Loads
    BY <1>1, <2>2
  <2>4. n <= 5 /\ 1 \in 1 .. n /\ n \in 1 .. n
        /\ (n >= 2 => 2 \in 1 .. n)
    <3>1. n <= 5
      BY <2>2
    <3> QED
      BY <1>0, <3>1
  <2>5. s[1][1] \in {"root", "catalog", "char", "defaults"} =>
          /\ \A i \in 1 .. n : s[i][1] # "set"
          /\ s[n][1] \notin Themes
    BY <1>1, <2>2, <2>3, <2>4 DEF Loads, Themes
  <2>6. /\ n = 1 => s[1][1] \in Loads
        /\ n = 2 => s[1][1] = "defaults" /\ s[2][1] \in Loads
        /\ n = 3 => s[1][1] = "char" /\ s[2][1] = "defaults"
        /\ n = 4 => s[1][1] = "catalog" /\ s[2][1] = "char"
        /\ n = 5 => s[1][1] = "root" /\ s[2][1] = "catalog"
    BY <1>1, <2>2, <2>4
  <2>7. n = 1 \/ n = 2 \/ n = 3 \/ n = 4 \/ n = 5
    BY <1>0, <2>4
  <2>8. n >= 2 => s[2][1] \notin {"loadNow", "themeBack", "themeNow"}
    BY <1>0, <2>4 DEF Planned
  <2> QED
    BY <1>0, <2>5, <2>6, <2>7, <2>8 DEF Loads, Themes
<1>3. CASE Follows(s, RenewPlan, 3)
  <2>1. RenewPlan[1] = {"new"} /\ RenewPlan[2] = Loads /\ RenewPlan[3] = Themes
    BY DEF RenewPlan
  <2>2. /\ n <= 3
        /\ \A i \in 1 .. n : /\ i = n => s[i][1] \in Themes
                             /\ i + 1 = n => s[i][1] \in Loads
                             /\ i + 2 = n => s[i][1] = "new"
    BY <1>0, <1>3, <2>1 DEF Follows
  <2>3. n <= 3 /\ 1 \in 1 .. n /\ n \in 1 .. n
        /\ (n >= 2 => 2 \in 1 .. n)
    <3>1. n <= 3
      BY <2>2
    <3> QED
      BY <1>0, <3>1
  <2>4. n >= 2 => s[2][1] \notin {"loadNow", "themeBack", "themeNow"}
    BY <1>0 DEF Planned
  <2>5. /\ s[n][1] \in Themes
        /\ n = 1 => s[1][1] \in Themes
        /\ n = 2 => s[1][1] \in Loads /\ s[2][1] \in Themes
        /\ n = 3 => s[1][1] = "new" /\ s[2][1] \in Loads
    BY <1>1, <2>2, <2>3
  <2>6. n = 1 \/ n = 2 \/ n = 3
    BY <1>0, <2>3
  <2> QED
    BY <1>0, <2>4, <2>5, <2>6 DEF Loads, Themes
<1>4. CASE Follows(s, DressPlan, 3)
  <2>1. DressPlan[1] = {"set"} /\ DressPlan[2] = {"set", "follow"} /\ DressPlan[3] = Themes
    BY DEF DressPlan
  <2>2. /\ n <= 3
        /\ \A i \in 1 .. n : /\ i = n => s[i][1] \in Themes
                             /\ i + 1 = n => s[i][1] \in {"set", "follow"}
                             /\ i + 2 = n => s[i][1] = "set"
    BY <1>0, <1>4, <2>1 DEF Follows
  <2>3. n <= 3 /\ 1 \in 1 .. n /\ n \in 1 .. n
    BY <1>1, <2>2
  <2>4. /\ s[n][1] \in Themes
        /\ n = 1 => s[1][1] \in Themes
        /\ n = 2 => s[1][1] \in {"set", "follow"}
        /\ n = 3 => s[1][1] = "set"
    BY <1>1, <2>2, <2>3
  <2>5. n = 1 \/ n = 2 \/ n = 3
    BY <1>0, <2>3
  <2>6. \A i \in 1 .. n : s[i][1] \in {"set", "follow"} \cup Themes
    <3> SUFFICES ASSUME NEW i \in 1 .. n
                 PROVE  s[i][1] \in {"set", "follow"} \cup Themes
      OBVIOUS
    <3>1. i = n \/ i + 1 = n \/ i + 2 = n
      BY <1>1, <2>5
    <3> QED
      BY <2>2, <3>1
  <2> QED
    BY <1>0, <2>4, <2>5, <2>6 DEF Loads, Themes
<1> QED
  BY <1>0, <1>2, <1>3, <1>4 DEF Planned

\* What is left of a plan after its first access is left of a plan.
LEMMA TailIs ==
  ASSUME NEW s \in Seq(Ops), s # <<>>
  PROVE  /\ Tail(s) \in Seq(Ops) /\ Len(Tail(s)) = Len(s) - 1
         /\ \A i \in 1 .. Len(s) - 1 : Tail(s)[i] = s[i + 1]
         /\ Planned(s) => Planned(Tail(s))
<1>1. Tail(s) \in Seq(Ops) /\ Len(Tail(s)) = Len(s) - 1
      /\ \A i \in 1 .. Len(s) - 1 : Tail(s)[i] = s[i + 1]
  OBVIOUS
<1>2. ASSUME NEW plan, NEW n \in Nat, Follows(s, plan, n)
      PROVE  Follows(Tail(s), plan, n)
  BY <1>1, <1>2 DEF Follows
<1>3. Planned(s) => Planned(Tail(s))
  BY <1>1, <1>2 DEF Planned
<1> QED
  BY <1>1, <1>3

\* The first access is replaced by another.
LEMMA ReplacedIs ==
  ASSUME NEW s \in Seq(Ops), s # <<>>, NEW o \in Ops
  PROVE  LET r == <<o>> \o Tail(s) IN
         /\ r \in Seq(Ops) /\ Len(r) = Len(s) /\ r[1] = o
         /\ \A i \in 2 .. Len(s) : r[i] = s[i]
         /\ Planned(s) /\ (\/ s[1][1] \in Loads /\ o[1] \in Loads
                           \/ s[1][1] \in Themes /\ o[1] \in Themes
                           \/ s[1][1] = "follow" /\ o[1] = "set") => Planned(r)
<1> DEFINE r == <<o>> \o Tail(s)
<1>1. r \in Seq(Ops) /\ Len(r) = Len(s) /\ r[1] = o /\ \A i \in 2 .. Len(s) : r[i] = s[i]
  OBVIOUS
<1>2. ASSUME Planned(s), \/ s[1][1] \in Loads /\ o[1] \in Loads
                         \/ s[1][1] \in Themes /\ o[1] \in Themes
                         \/ s[1][1] = "follow" /\ o[1] = "set"
      PROVE  Planned(r)
  <2> HIDE DEF r
  <2>1. \A i \in 2 .. Len(r) : r[i][1] \notin {"loadNow", "themeBack", "themeNow"}
    BY <1>1, <1>2 DEF Planned
  <2>2. ASSUME NEW plan, NEW n \in {3, 5}, Follows(s, plan, n),
               s[1][1] \in plan[1 + n - Len(s)] => o[1] \in plan[1 + n - Len(s)]
        PROVE  Follows(r, plan, n)
    BY <1>1, <2>2 DEF Follows
  <2>3. ASSUME NEW i \in 1 .. 5, s[1][1] \in SwitchPlan[i] PROVE o[1] \in SwitchPlan[i]
    BY <1>2, <2>3 DEF SwitchPlan, Loads, Themes
  <2>4. ASSUME NEW i \in 1 .. 3, s[1][1] \in RenewPlan[i] PROVE o[1] \in RenewPlan[i]
    BY <1>2, <2>4 DEF RenewPlan, Loads, Themes
  <2>5. ASSUME NEW i \in 1 .. 3, s[1][1] \in DressPlan[i] PROVE o[1] \in DressPlan[i]
    BY <1>2, <2>5 DEF DressPlan, Loads, Themes
  <2>6. Len(s) \in Nat /\ Len(s) >= 1
    OBVIOUS
  <2>7. /\ Follows(s, SwitchPlan, 5) => Follows(r, SwitchPlan, 5)
        /\ Follows(s, RenewPlan, 3) => Follows(r, RenewPlan, 3)
        /\ Follows(s, DressPlan, 3) => Follows(r, DressPlan, 3)
    <3>1. /\ Follows(s, SwitchPlan, 5) => 1 + 5 - Len(s) \in 1 .. 5
          /\ Follows(s, RenewPlan, 3) => 1 + 3 - Len(s) \in 1 .. 3
          /\ Follows(s, DressPlan, 3) => 1 + 3 - Len(s) \in 1 .. 3
      BY <2>6 DEF Follows
    <3> QED
      BY <3>1, <2>2, <2>3, <2>4, <2>5
  <2> QED
    BY <1>2, <2>1, <2>7 DEF Planned
<1> QED
  BY <1>1, <1>2

-----------------------------------------------------------------------------
\* Requests that were chosen from what the library has for a character.
Choice == [char : Characters, style : Styles, back : Backgrounds \cup {None}, sync : BOOLEAN]

ChosenTyped == chosen \in Choice /\ roots \subseteq Characters /\ catalog \subseteq roots
ShowsTyped ==
  /\ shows \in Shown /\ renderer \in Renderers /\ kind \in [Renderers -> {"web", "livetalking"}]
  /\ crossed \in BOOLEAN /\ excused \in BOOLEAN
TodoTyped == todo \in [Threads -> Seq(Ops)] /\ \A t \in Threads : Planned(todo[t])

\* A character is in the roots before it is in the catalog.
RootsInv ==
  \A t \in Threads :
    /\ ~Idle(t) /\ Op(t) = "catalog" => Arg(t) \in roots
    /\ ~Idle(t) /\ Op(t) = "root" => todo[t][2][2] = Arg(t)

\* Of the character, as far as they go.
OwnTheme(c, fields) ==
  /\ "style" \in DOMAIN fields => fields.style \in OwnStyles(c)
  /\ "back" \in DOMAIN fields => fields.back \in OwnBacks(c)

\* No switch has crossed another request: what the others will write was checked
\* against the character that is chosen, and what is chosen is its own too, or
\* the switch is about to write its defaults.
BelongsInv ==
  ~crossed =>
    /\ \A t \in Threads : \A i \in DOMAIN todo[t] :
         todo[t][i][1] = "set" => OwnTheme(chosen.char, todo[t][i][2])
    /\ \/ OwnTheme(chosen.char, chosen)
       \/ \E t \in Threads : ~Idle(t) /\ Op(t) = "defaults"

-----------------------------------------------------------------------------
\* What a request may write is of its kind.
LEMMA FieldsAre ==
  ASSUME NEW f \in Fields
  PROVE  /\ DOMAIN f \subseteq {"style", "back", "sync"}
         /\ "style" \in DOMAIN f => f.style \in Styles
         /\ "back" \in DOMAIN f => f.back \in Backgrounds
         /\ "sync" \in DOMAIN f => f.sync \in BOOLEAN
BY DEF Fields

\* Writing over some fields leaves a choice one, and the character as it is.
LEMMA OverlaidIs ==
  ASSUME chosen \in Choice, NEW f, DOMAIN f \subseteq {"style", "back", "sync"},
         "style" \in DOMAIN f => f.style \in Styles,
         "back" \in DOMAIN f => f.back \in Backgrounds \cup {None},
         "sync" \in DOMAIN f => f.sync \in BOOLEAN
  PROVE  /\ Overlaid(f) \in Choice
         /\ Overlaid(f).char = chosen.char
         /\ Overlaid(f).style = IF "style" \in DOMAIN f THEN f.style ELSE chosen.style
         /\ Overlaid(f).back = IF "back" \in DOMAIN f THEN f.back ELSE chosen.back
BY DEF Overlaid, Choice

\* What the library has for a character.
LEMMA LibraryIs ==
  ASSUME NEW c \in Characters
  PROVE  /\ Library[c].styles \subseteq Styles /\ Library[c].backs \subseteq Backgrounds
         /\ Library[c].style \in Styles /\ Library[c].back \in Backgrounds \cup {None}
         /\ \A s \in Styles : Library[c].goesWith[s] \in Backgrounds \cup {None}
         /\ \A rule \in Library[c].rules : rule.style \in Styles /\ rule.back \in Backgrounds \cup {None}
BY StageAssumption

\* The next access of a request is one of a request.
LEMMA HeadIs ==
  ASSUME TodoTyped, NEW t \in Threads, ~Idle(t)
  PROVE  /\ todo[t] \in Seq(Ops) /\ Planned(todo[t]) /\ todo[t] # <<>>
         /\ todo[t][1] \in Ops /\ Len(todo[t]) \in Nat /\ Len(todo[t]) >= 1
BY DEF TodoTyped, Idle

\* A request has made an access, and goes on to the next.
LEMMA GoesOn ==
  ASSUME TodoTyped, NEW t \in Threads, ~Idle(t), Then(t, <<>>)
  PROVE  /\ TodoTyped'
         /\ \A u \in Threads \ {t} : todo'[u] = todo[u]
         /\ todo'[t] = Tail(todo[t]) /\ Len(todo'[t]) = Len(todo[t]) - 1
         /\ \A i \in 1 .. Len(todo[t]) - 1 : todo'[t][i] = todo[t][i + 1]
<1>1. Tail(todo[t]) \in Seq(Ops) /\ Planned(Tail(todo[t])) /\ Len(Tail(todo[t])) = Len(todo[t]) - 1
      /\ \A i \in 1 .. Len(todo[t]) - 1 : Tail(todo[t])[i] = todo[t][i + 1]
  BY HeadIs, TailIs
<1>2. <<>> \o Tail(todo[t]) = Tail(todo[t])
  BY <1>1
<1>3. todo' = [todo EXCEPT ![t] = Tail(todo[t])]
  BY <1>2 DEF Then
<1> QED
  BY <1>1, <1>3 DEF TodoTyped

\* An access turns into another.
LEMMA TurnsInto ==
  ASSUME TodoTyped, NEW t \in Threads, ~Idle(t), NEW o \in Ops, Then(t, <<o>>),
         \/ Op(t) \in Loads /\ o[1] \in Loads
         \/ Op(t) \in Themes /\ o[1] \in Themes
         \/ Op(t) = "follow" /\ o[1] = "set"
  PROVE  /\ TodoTyped'
         /\ \A u \in Threads \ {t} : todo'[u] = todo[u]
         /\ Len(todo'[t]) = Len(todo[t]) /\ todo'[t][1] = o
         /\ \A i \in 2 .. Len(todo[t]) : todo'[t][i] = todo[t][i]
<1> DEFINE r == <<o>> \o Tail(todo[t])
<1>1. r \in Seq(Ops) /\ Planned(r) /\ Len(r) = Len(todo[t]) /\ r[1] = o
      /\ \A i \in 2 .. Len(todo[t]) : r[i] = todo[t][i]
  BY HeadIs, ReplacedIs DEF Op
<1>2. todo' = [todo EXCEPT ![t] = r]
  BY DEF Then
<1> HIDE DEF r
<1> QED
  BY <1>1, <1>2 DEF TodoTyped

\* A request begins with a plan.
LEMMA RequestIs ==
  ASSUME TodoTyped, NEW t \in Threads, NEW ops \in Seq(Ops), Planned(ops), Request(t, ops)
  PROVE  /\ TodoTyped' /\ todo'[t] = ops
         /\ \A u \in Threads \ {t} : todo'[u] = todo[u]
         /\ UNCHANGED <<chosen, roots, catalog, renderer, kind, shows, crossed>>
         /\ excused' = (excused \/ Others(t)) /\ Idle(t)
BY DEF Request, TodoTyped

\* A request for a character, a style, a background, a rule or a renderer.
Asks(t) ==
  \/ \E c \in Characters : SetCharacter(t, c) \/ SelectCharacter(t, c)
  \/ \E s \in Styles, sync \in BOOLEAN : SetStyle(t, s, sync)
  \/ \E b \in Backgrounds, sync \in BOOLEAN : SetBackground(t, b, sync)
  \/ \E rule \in UNION {Library[c].rules : c \in Characters} : ApplyWorkflow(t, rule)
  \/ ReloadRenderer(t)

\* What a request asks for is a plan, and what it will write is the character's.
Sound(ops) ==
  /\ ops \in Seq(Ops) /\ Planned(ops) /\ ops # <<>>
  /\ ops[1][1] \in {"root", "char", "set", "new"}
  /\ ops[1][1] = "root" => ops[2][2] = ops[1][2]
  /\ \A i \in DOMAIN ops : ops[i][1] = "set" => OwnTheme(chosen.char, ops[i][2])

\* A switch of character writes nothing that was checked against another.
LEMMA SwitchSound ==
  ASSUME NEW c \in Characters
  PROVE  /\ Sound(<< <<"char", c>>, <<"defaults">>, <<"load">> >>)
         /\ Sound(<< <<"root", c>>, <<"catalog", c>>, <<"char", c>>, <<"defaults">>, <<"load">> >>)
<1>1. <<"root", c>> \in Ops /\ <<"catalog", c>> \in Ops /\ <<"char", c>> \in Ops
      /\ <<"defaults">> \in Ops /\ <<"load">> \in Ops
  BY IsOp
<1>2. << <<"char", c>>, <<"defaults">>, <<"load">> >> \in Seq(Ops)
      /\ << <<"root", c>>, <<"catalog", c>>, <<"char", c>>, <<"defaults">>, <<"load">> >> \in Seq(Ops)
  BY <1>1
<1>3. Follows(<< <<"char", c>>, <<"defaults">>, <<"load">> >>, SwitchPlan, 5)
      /\ Follows(<< <<"root", c>>, <<"catalog", c>>, <<"char", c>>, <<"defaults">>, <<"load">> >>, SwitchPlan, 5)
  BY DEF Follows, SwitchPlan, Loads
<1> QED
  BY <1>2, <1>3 DEF Sound, Planned

\* A new renderer is given what is chosen, and writes nothing.
LEMMA RenewSound == Sound(<< <<"new">>, <<"load">>, <<"theme">> >>)
<1>1. << <<"new">>, <<"load">>, <<"theme">> >> \in Seq(Ops)
  BY IsOp
<1>2. Follows(<< <<"new">>, <<"load">>, <<"theme">> >>, RenewPlan, 3)
  BY DEF Follows, RenewPlan, Loads, Themes
<1> QED
  BY <1>1, <1>2 DEF Sound, Planned

\* The parts of a request are put together.
LEMMA PutTogether ==
  ASSUME NEW a \in Ops, NEW b \in Ops, NEW c \in Ops
  PROVE  /\ <<a>> \o <<b>> \o <<c>> = <<a, b, c>>
         /\ <<a>> \o <<>> \o <<c>> = <<a, c>>
<1>1. <<a>> \o <<b>> = <<a, b>> /\ <<a>> \o <<c>> = <<a, c>>
  <2> SUFFICES ASSUME NEW d \in Ops PROVE <<a>> \o <<d>> = <<a, d>>
    OBVIOUS
  <2> DEFINE l == <<a>> \o <<d>>
             r == <<a, d>>
  <2>1. l \in Seq(Ops) /\ r \in Seq(Ops) /\ Len(l) = 2 /\ Len(r) = 2 /\ l[1] = r[1] /\ l[2] = r[2]
    OBVIOUS
  <2> HIDE DEF l, r
  <2>2. \A i \in 1 .. Len(l) : l[i] = r[i]
    BY <2>1
  <2>3. l = r
    BY <2>1, <2>2, SeqEqual
  <2> QED
    BY <2>3 DEF l, r
<1>2. <<a, b>> \o <<c>> = <<a, b, c>>
  <2> DEFINE l == <<a, b>> \o <<c>>
             r == <<a, b, c>>
  <2>1. /\ l \in Seq(Ops) /\ r \in Seq(Ops) /\ Len(l) = 3 /\ Len(r) = 3
        /\ l[1] = r[1] /\ l[2] = r[2] /\ l[3] = r[3]
    OBVIOUS
  <2> HIDE DEF l, r
  <2>2. \A i \in 1 .. Len(l) : l[i] = r[i]
    BY <2>1
  <2>3. l = r
    BY <2>1, <2>2, SeqEqual
  <2> QED
    BY <2>3 DEF l, r
<1>3. <<a>> \in Seq(Ops)
  OBVIOUS
<1>4. <<a>> \o <<>> = <<a>>
  BY <1>3, ConcatEmptySeq
<1> QED
  BY <1>1, <1>2, <1>4

\* A style, a background or a rule writes what was looked up.
LEMMA DressSound ==
  ASSUME NEW f \in Fields, OwnTheme(chosen.char, f),
         NEW g \in Fields, OwnTheme(chosen.char, g)
  PROVE  /\ Sound(<< <<"set", f>>, <<"theme">> >>)
         /\ Sound(<< <<"set", f>>, <<"set", g>>, <<"theme">> >>)
         /\ Sound(<< <<"set", f>>, <<"follow">>, <<"theme">> >>)
<1>1. << <<"set", f>>, <<"theme">> >> \in Seq(Ops)
      /\ << <<"set", f>>, <<"set", g>>, <<"theme">> >> \in Seq(Ops)
      /\ << <<"set", f>>, <<"follow">>, <<"theme">> >> \in Seq(Ops)
  BY IsOp
<1>2. Follows(<< <<"set", f>>, <<"theme">> >>, DressPlan, 3)
      /\ Follows(<< <<"set", f>>, <<"set", g>>, <<"theme">> >>, DressPlan, 3)
      /\ Follows(<< <<"set", f>>, <<"follow">>, <<"theme">> >>, DressPlan, 3)
  BY DEF Follows, DressPlan, Themes
<1> QED
  BY <1>1, <1>2 DEF Sound, Planned

\* Whatever is asked for, it is sound.
LEMMA Asked ==
  ASSUME ChosenTyped, NEW t \in Threads, Asks(t)
  PROVE  \E ops : Sound(ops) /\ Request(t, ops)
<1>0. chosen.char \in Characters
  BY DEF ChosenTyped, Choice
<1>1. ASSUME NEW c \in Characters, SetCharacter(t, c) \/ SelectCharacter(t, c)
      PROVE  \E ops : Sound(ops) /\ Request(t, ops)
  BY <1>1, SwitchSound DEF SetCharacter, SelectCharacter
<1>2. ASSUME NEW s \in Styles, NEW sync \in BOOLEAN, SetStyle(t, s, sync)
      PROVE  \E ops : Sound(ops) /\ Request(t, ops)
  <2> DEFINE goes == Library[chosen.char].goesWith[s]
             f == [style |-> s, sync |-> sync]
             g == [back |-> goes]
  <2>1. f \in Fields /\ OwnTheme(chosen.char, f)
    BY <1>2 DEF Fields, OwnTheme, OwnStyles, SetStyle
  <2>2. CASE sync /\ goes # None
    <3>1. g \in Fields /\ OwnTheme(chosen.char, g)
      BY <1>0, <2>2, LibraryIs DEF Fields, OwnTheme, OwnBacks
    <3>2. Sound(<< <<"set", f>>, <<"set", g>>, <<"theme">> >>)
      BY <2>1, <3>1, DressSound
    <3>3. Request(t, << <<"set", f>> >> \o << <<"set", g>> >> \o << <<"theme">> >>)
      BY <1>2, <2>2 DEF SetStyle, If
    <3>4. <<"set", f>> \in Ops /\ <<"set", g>> \in Ops /\ <<"theme">> \in Ops
      BY <2>1, <3>1, IsOp
    <3> QED
      BY <3>2, <3>3, <3>4, PutTogether
  <2>3. CASE ~(sync /\ goes # None)
    <3>1. Sound(<< <<"set", f>>, <<"theme">> >>)
      BY <2>1, DressSound
    <3>2. Request(t, << <<"set", f>> >> \o <<>> \o << <<"theme">> >>)
      BY <1>2, <2>3 DEF SetStyle, If
    <3>3. <<"set", f>> \in Ops /\ <<"theme">> \in Ops
      BY <2>1, IsOp
    <3> QED
      BY <3>1, <3>2, <3>3, PutTogether
  <2> QED
    BY <2>2, <2>3
<1>3. ASSUME NEW b \in Backgrounds, NEW sync \in BOOLEAN, SetBackground(t, b, sync)
      PROVE  \E ops : Sound(ops) /\ Request(t, ops)
  <2>1. [back |-> b, sync |-> sync] \in Fields /\ OwnTheme(chosen.char, [back |-> b, sync |-> sync])
    BY <1>3 DEF Fields, OwnTheme, OwnBacks, SetBackground
  <2> QED
    BY <1>3, <2>1, DressSound DEF SetBackground
<1>4. ASSUME NEW rule \in UNION {Library[c].rules : c \in Characters}, ApplyWorkflow(t, rule)
      PROVE  \E ops : Sound(ops) /\ Request(t, ops)
  <2> DEFINE f == [style |-> rule.style]
             g == [back |-> rule.back]
  <2>0. rule \in Library[chosen.char].rules
    BY <1>4 DEF ApplyWorkflow
  <2>1. f \in Fields /\ OwnTheme(chosen.char, f)
    BY <1>0, <2>0, LibraryIs DEF Fields, OwnTheme, OwnStyles
  <2>2. CASE rule.back # None
    <3>1. g \in Fields /\ OwnTheme(chosen.char, g)
      BY <1>0, <2>0, <2>2, LibraryIs DEF Fields, OwnTheme, OwnBacks
    <3>2. Sound(<< <<"set", f>>, <<"set", g>>, <<"theme">> >>)
      BY <2>1, <3>1, DressSound
    <3>3. Request(t, << <<"set", f>> >> \o << <<"set", g>> >> \o << <<"theme">> >>)
      BY <1>4, <2>2 DEF ApplyWorkflow
    <3>4. <<"set", f>> \in Ops /\ <<"set", g>> \in Ops /\ <<"theme">> \in Ops
      BY <2>1, <3>1, IsOp
    <3> QED
      BY <3>2, <3>3, <3>4, PutTogether
  <2>3. CASE rule.back = None
    <3>1. Sound(<< <<"set", f>>, <<"follow">>, <<"theme">> >>)
      BY <2>1, DressSound
    <3>2. Request(t, << <<"set", f>> >> \o << <<"follow">> >> \o << <<"theme">> >>)
      BY <1>4, <2>3 DEF ApplyWorkflow
    <3>3. <<"set", f>> \in Ops /\ <<"follow">> \in Ops /\ <<"theme">> \in Ops
      BY <2>1, IsOp
    <3> QED
      BY <3>1, <3>2, <3>3, PutTogether
  <2> QED
    BY <2>2, <2>3
<1>5. CASE ReloadRenderer(t)
  BY <1>5, RenewSound DEF ReloadRenderer
<1> QED
  BY <1>1, <1>2, <1>3, <1>4, <1>5 DEF Asks

-----------------------------------------------------------------------------
StageInv == ChosenTyped /\ ShowsTyped /\ TodoTyped /\ RootsInv /\ BelongsInv

\* What is left to be written is what was, if the character is.
LEMMA StillOwn ==
  ASSUME TodoTyped, BelongsInv, ~crossed, chosen'.char = chosen.char,
         NEW t \in Threads, ~Idle(t), Then(t, <<>>)
  PROVE  \A u \in Threads : \A i \in DOMAIN todo'[u] :
           todo'[u][i][1] = "set" => OwnTheme(chosen'.char, todo'[u][i][2])
<1>1. \A u \in Threads : \A i \in DOMAIN todo[u] :
        todo[u][i][1] = "set" => OwnTheme(chosen.char, todo[u][i][2])
  BY DEF BelongsInv
<1>2. /\ \A u \in Threads \ {t} : todo'[u] = todo[u]
      /\ Len(todo'[t]) = Len(todo[t]) - 1 /\ todo'[t] \in Seq(Ops) /\ todo[t] \in Seq(Ops)
      /\ \A i \in 1 .. Len(todo[t]) - 1 : todo'[t][i] = todo[t][i + 1]
  BY GoesOn DEF TodoTyped
<1>3. \A i \in DOMAIN todo'[t] : i + 1 \in DOMAIN todo[t] /\ todo'[t][i] = todo[t][i + 1]
  BY <1>2
<1> QED
  BY <1>1, <1>2, <1>3

\* A request is made.
LEMMA AskStep ==
  ASSUME StageInv, NEW t \in Threads, Asks(t)
  PROVE  StageInv'
<1>1. PICK ops : Sound(ops) /\ Request(t, ops)
  BY Asked DEF StageInv
<1>2. /\ TodoTyped' /\ todo'[t] = ops
      /\ \A u \in Threads \ {t} : todo'[u] = todo[u]
      /\ UNCHANGED <<chosen, roots, catalog, renderer, kind, shows, crossed>>
      /\ excused' = (excused \/ Others(t)) /\ Idle(t)
  BY <1>1, RequestIs DEF StageInv, Sound
<1>3. ChosenTyped' /\ ShowsTyped'
  BY <1>2, Zenon DEF StageInv, ChosenTyped, ShowsTyped
<1>4. RootsInv'
  BY <1>1, <1>2 DEF StageInv, RootsInv, Idle, Op, Arg, Sound
<1>5. BelongsInv'
  <2> SUFFICES ASSUME ~crossed
               PROVE  /\ \A u \in Threads : \A i \in DOMAIN todo'[u] :
                           todo'[u][i][1] = "set" => OwnTheme(chosen.char, todo'[u][i][2])
                      /\ \/ OwnTheme(chosen.char, chosen)
                         \/ \E u \in Threads : todo'[u] # <<>> /\ todo'[u][1][1] = "defaults"
    BY <1>2 DEF BelongsInv, Idle, Op
  <2>1. \/ OwnTheme(chosen.char, chosen)
        \/ \E u \in Threads \ {t} : todo[u] # <<>> /\ todo[u][1][1] = "defaults"
    BY <1>2 DEF StageInv, BelongsInv, Idle, Op
  <2>2. \A u \in Threads \ {t} : \A i \in DOMAIN todo[u] :
           todo[u][i][1] = "set" => OwnTheme(chosen.char, todo[u][i][2])
    BY DEF StageInv, BelongsInv
  <2> QED
    BY <1>1, <1>2, <2>1, <2>2 DEF Sound
<1> QED
  BY <1>2, <1>3, <1>4, <1>5 DEF StageInv

\* A field is written.
LEMMA WriteStep ==
  ASSUME StageInv, NEW t \in Threads, WriteField(t)
  PROVE  StageInv'
<1> DEFINE o == todo[t][1]
<1>1. /\ ~Idle(t) /\ Op(t) \in Writes /\ Then(t, <<>>) /\ o[1] = Op(t) /\ o[2] = Arg(t)
      /\ UNCHANGED <<renderer, kind, shows, crossed, excused>>
  BY DEF WriteField, Op, Arg
<1>2. /\ TodoTyped' /\ Len(todo'[t]) = Len(todo[t]) - 1
      /\ \A u \in Threads \ {t} : todo'[u] = todo[u]
      /\ \A i \in 1 .. Len(todo[t]) - 1 : todo'[t][i] = todo[t][i + 1]
  BY <1>1, GoesOn DEF StageInv
<1>3. todo[t] \in Seq(Ops) /\ Planned(todo[t]) /\ todo[t] # <<>> /\ o \in Ops
  BY <1>1, HeadIs DEF StageInv
<1>4. Len(todo[t]) >= 2 /\ todo'[t][1] = todo[t][2] /\ Len(todo[t]) \in Nat
  BY <1>1, <1>2, <1>3, PlanIs DEF Writes
<1>5. ChosenTyped'
  <2>1. CASE o[1] = "root"
    <3>1. o[2] \in Characters /\ roots' = roots \cup {o[2]} /\ UNCHANGED <<chosen, catalog>>
      BY <1>1, <1>3, <2>1, OpsAre DEF WriteField
    <3> QED
      BY <3>1 DEF StageInv, ChosenTyped
  <2>2. CASE o[1] = "catalog"
    <3>1. o[2] \in roots /\ catalog' = catalog \cup {o[2]} /\ UNCHANGED <<chosen, roots>>
      BY <1>1, <2>2 DEF WriteField, StageInv, RootsInv
    <3> QED
      BY <3>1 DEF StageInv, ChosenTyped
  <2>3. CASE o[1] = "set"
    <3>1. o[2] \in Fields /\ chosen' = Overlaid(o[2]) /\ UNCHANGED <<roots, catalog>>
      BY <1>1, <1>3, <2>3, OpsAre DEF WriteField
    <3>2. Overlaid(o[2]) \in Choice
      BY <3>1, FieldsAre, OverlaidIs DEF StageInv, ChosenTyped
    <3> QED
      BY <3>1, <3>2 DEF StageInv, ChosenTyped
  <2> QED
    BY <1>1, <2>1, <2>2, <2>3 DEF Writes
<1>6. RootsInv'
  <2>1. roots \subseteq roots' /\ (o[1] = "root" => o[2] \in roots')
    BY <1>1 DEF WriteField
  <2>2. todo'[t][1][1] = "catalog" => o[1] = "root" /\ todo'[t][1][2] = o[2]
    <3>1. o[1] = "catalog" => todo[t][2][1] = "char"
      BY <1>3, PlanIs
    <3>2. o[1] = "set" => todo[t][2][1] \in {"set", "follow"} \cup Themes
      BY <1>3, <1>4, PlanIs
    <3>3. o[1] = "root" => todo[t][2][2] = o[2]
      BY <1>1 DEF StageInv, RootsInv
    <3> QED
      BY <1>1, <1>4, <3>1, <3>2, <3>3 DEF Writes, Themes
  <2>3. todo'[t][1][1] # "root"
    <3>1. o[1] = "catalog" => todo[t][2][1] = "char"
      BY <1>3, PlanIs
    <3>2. o[1] = "set" => todo[t][2][1] \in {"set", "follow"} \cup Themes
      BY <1>3, <1>4, PlanIs
    <3>3. o[1] = "root" => todo[t][2][1] = "catalog"
      BY <1>3, PlanIs
    <3> QED
      BY <1>1, <1>4, <3>1, <3>2, <3>3 DEF Writes, Themes
  <2> QED
    BY <1>2, <2>1, <2>2, <2>3 DEF StageInv, RootsInv, Idle, Op, Arg
<1>7. chosen'.char = chosen.char
  <2>1. o[1] = "set" => Overlaid(o[2]).char = chosen.char
    BY <1>3, OpsAre, FieldsAre, OverlaidIs DEF StageInv, ChosenTyped
  <2> QED
    BY <1>1, <2>1 DEF WriteField
<1>8. BelongsInv'
  <2> SUFFICES ASSUME ~crossed
               PROVE  \/ OwnTheme(chosen.char, chosen')
                      \/ \E u \in Threads \ {t} : todo'[u] # <<>> /\ todo'[u][1][1] = "defaults"
    BY <1>1, <1>7, StillOwn DEF StageInv, BelongsInv, Idle, Op
  <2>1. \/ OwnTheme(chosen.char, chosen)
        \/ \E u \in Threads \ {t} : todo[u] # <<>> /\ todo[u][1][1] = "defaults"
    BY <1>1 DEF StageInv, BelongsInv, Idle, Op, Writes
  <2>2. CASE o[1] = "set" /\ OwnTheme(chosen.char, chosen)
    <3>1. OwnTheme(chosen.char, o[2])
      <4>1. 1 \in DOMAIN todo[t]
        BY <1>3
      <4> QED
        BY <2>2, <4>1 DEF StageInv, BelongsInv
    <3>2. /\ chosen' = Overlaid(o[2])
          /\ Overlaid(o[2]).style = IF "style" \in DOMAIN o[2] THEN o[2].style ELSE chosen.style
          /\ Overlaid(o[2]).back = IF "back" \in DOMAIN o[2] THEN o[2].back ELSE chosen.back
      BY <1>1, <1>3, <2>2, OpsAre, FieldsAre, OverlaidIs DEF WriteField, StageInv, ChosenTyped
    <3>3. "style" \in DOMAIN chosen /\ "back" \in DOMAIN chosen
      BY DEF StageInv, ChosenTyped, Choice
    <3> QED
      BY <2>2, <3>1, <3>2, <3>3 DEF OwnTheme
  <2>3. CASE o[1] # "set"
    BY <1>1, <1>2, <2>1, <2>3 DEF WriteField
  <2> QED
    BY <1>2, <2>1, <2>2, <2>3
<1> QED
  BY <1>1, <1>2, <1>5, <1>6, <1>8 DEF StageInv, ShowsTyped

\* The character is switched, or is not in the catalog.
LEMMA SwitchStep ==
  ASSUME StageInv, NEW t \in Threads, SwitchCharacter(t)
  PROVE  StageInv'
<1> DEFINE o == todo[t][1]
<1>1. /\ ~Idle(t) /\ o[1] = "char" /\ o[2] = Arg(t)
      /\ UNCHANGED <<roots, catalog, renderer, kind, shows>>
  BY DEF SwitchCharacter, Op, Arg
<1>2. /\ todo[t] \in Seq(Ops) /\ Planned(todo[t]) /\ todo[t] # <<>> /\ o \in Ops
      /\ Len(todo[t]) \in Nat /\ Len(todo[t]) >= 2 /\ todo[t][2][1] = "defaults"
      /\ \A i \in 1 .. Len(todo[t]) : todo[t][i][1] # "set"
  BY <1>1, HeadIs, PlanIs DEF StageInv
<1>3. CASE Arg(t) \in catalog
  <2>1. /\ chosen' = [chosen EXCEPT !.char = Arg(t)] /\ Then(t, <<>>)
        /\ crossed' = (crossed \/ \E u \in Threads \ {t} : Pending(u, {"set"}))
        /\ excused' = TRUE
    BY <1>3 DEF SwitchCharacter
  <2>2. /\ TodoTyped' /\ Len(todo'[t]) = Len(todo[t]) - 1
        /\ \A u \in Threads \ {t} : todo'[u] = todo[u]
        /\ \A i \in 1 .. Len(todo[t]) - 1 : todo'[t][i] = todo[t][i + 1]
    BY <1>1, <2>1, GoesOn DEF StageInv
  <2>3. todo'[t][1][1] = "defaults" /\ todo'[t] # <<>>
    BY <1>2, <2>2
  <2>4. Arg(t) \in Characters
    BY <1>1, <1>2, OpsAre
  <2>5. ChosenTyped'
    <3>1. chosen' \in Choice
      BY <2>1, <2>4 DEF StageInv, ChosenTyped, Choice
    <3> QED
      BY <1>1, <3>1 DEF StageInv, ChosenTyped
  <2>6. ShowsTyped'
    <3>1. crossed' \in BOOLEAN
      BY <2>1, Zenon DEF StageInv, ShowsTyped
    <3> QED
      BY <1>1, <2>1, <3>1 DEF StageInv, ShowsTyped
  <2>7. RootsInv'
    BY <1>1, <2>2, <2>3 DEF StageInv, RootsInv, Idle, Op, Arg
  <2>8. BelongsInv'
    <3> SUFFICES ASSUME ~crossed'
                 PROVE  BelongsInv'
      BY DEF BelongsInv
    <3>1. \A u \in Threads \ {t} : \A i \in DOMAIN todo[u] : todo[u][i][1] # "set"
      BY <2>1 DEF Pending
    <3>2. \A i \in DOMAIN todo'[t] : todo'[t][i][1] # "set"
      <4>1. \A i \in DOMAIN todo'[t] : i + 1 \in 1 .. Len(todo[t]) /\ todo'[t][i] = todo[t][i + 1]
        BY <1>2, <2>2 DEF TodoTyped
      <4> QED
        BY <1>2, <4>1
    <3>3. \A u \in Threads : \A i \in DOMAIN todo'[u] : todo'[u][i][1] # "set"
      BY <2>2, <3>1, <3>2
    <3> QED
      BY <2>3, <3>3 DEF BelongsInv, Idle, Op
  <2> QED
    BY <2>2, <2>5, <2>6, <2>7, <2>8 DEF StageInv
<1>4. CASE Arg(t) \notin catalog
  <2>1. todo' = [todo EXCEPT ![t] = <<>>] /\ UNCHANGED <<chosen, crossed, excused>>
    BY <1>4 DEF SwitchCharacter
  <2>2. todo'[t] = <<>> /\ \A u \in Threads \ {t} : todo'[u] = todo[u]
    BY <2>1 DEF StageInv, TodoTyped
  <2>3. TodoTyped'
    <3>1. <<>> \in Seq(Ops) /\ Planned(<<>>)
      BY DEF Planned, Follows
    <3>2. todo' \in [Threads -> Seq(Ops)]
      BY <2>1, <3>1 DEF StageInv, TodoTyped
    <3> QED
      BY <2>2, <3>1, <3>2 DEF StageInv, TodoTyped
  <2>4. ChosenTyped' /\ ShowsTyped'
    BY <1>1, <2>1, Zenon DEF StageInv, ChosenTyped, ShowsTyped
  <2>5. RootsInv'
    BY <1>1, <2>2 DEF StageInv, RootsInv, Idle, Op, Arg
  <2>6. BelongsInv'
    BY <1>1, <2>1, <2>2 DEF StageInv, BelongsInv, Idle, Op
  <2> QED
    BY <2>3, <2>4, <2>5, <2>6 DEF StageInv
<1> QED
  BY <1>3, <1>4

\* The defaults of the character that is current then are taken.
LEMMA DefaultsStep ==
  ASSUME StageInv, NEW t \in Threads, TakeDefaults(t)
  PROVE  StageInv'
<1> DEFINE o == todo[t][1]
           lib == Library[chosen.char]
           f == [style |-> lib.style, back |-> lib.back, sync |-> TRUE]
<1>1. /\ ~Idle(t) /\ o[1] = "defaults" /\ Then(t, <<>>)
      /\ chosen' = Overlaid(f)
      /\ UNCHANGED <<roots, catalog, renderer, kind, shows, crossed, excused>>
  BY DEF TakeDefaults, Op
<1>2. /\ todo[t] \in Seq(Ops) /\ Len(todo[t]) \in Nat /\ Len(todo[t]) >= 2
      /\ todo[t][2][1] = "load"
  BY <1>1, HeadIs, PlanIs DEF StageInv
<1>3. /\ TodoTyped' /\ Len(todo'[t]) = Len(todo[t]) - 1
      /\ \A u \in Threads \ {t} : todo'[u] = todo[u]
      /\ \A i \in 1 .. Len(todo[t]) - 1 : todo'[t][i] = todo[t][i + 1]
  BY <1>1, GoesOn DEF StageInv
<1>4. todo'[t][1][1] = "load"
  BY <1>2, <1>3
<1>5. chosen.char \in Characters
  BY DEF StageInv, ChosenTyped, Choice
<1>6. /\ Overlaid(f) \in Choice /\ Overlaid(f).char = chosen.char
      /\ Overlaid(f).style = lib.style /\ Overlaid(f).back = lib.back
  <2>1. /\ DOMAIN f = {"style", "back", "sync"} /\ f.style = lib.style /\ f.back = lib.back /\ f.sync = TRUE
        /\ f.style \in Styles /\ f.back \in Backgrounds \cup {None}
    BY <1>5, LibraryIs
  <2> HIDE DEF f
  <2> QED
    BY <2>1, OverlaidIs DEF StageInv, ChosenTyped
<1>7. ChosenTyped' /\ ShowsTyped'
  BY <1>1, <1>6 DEF StageInv, ChosenTyped, ShowsTyped
<1>8. RootsInv'
  BY <1>1, <1>3, <1>4 DEF StageInv, RootsInv, Idle, Op, Arg
<1>9. BelongsInv'
  <2>1. OwnTheme(chosen.char, Overlaid(f))
    BY <1>6 DEF OwnTheme, OwnStyles, OwnBacks
  <2>2. OwnTheme(chosen.char, chosen)'
    BY <1>1, <1>6, <2>1
  <2>3. crossed' = crossed /\ chosen'.char = chosen.char
    BY <1>1, <1>6
  <2>4. ~crossed => \A u \in Threads : \A i \in DOMAIN todo'[u] :
          todo'[u][i][1] = "set" => OwnTheme(chosen'.char, todo'[u][i][2])
    BY <1>1, <2>3, StillOwn DEF StageInv
  <2> QED
    BY <2>2, <2>3, <2>4 DEF BelongsInv
<1> QED
  BY <1>3, <1>7, <1>8, <1>9 DEF StageInv

\* The background that goes with the style is looked up.
LEMMA FollowStep ==
  ASSUME StageInv, NEW t \in Threads, Follow(t)
  PROVE  StageInv'
<1> DEFINE lib == Library[chosen.char]
           found == chosen.sync /\ chosen.style \in lib.styles /\ lib.goesWith[chosen.style] # None
           goes == lib.goesWith[chosen.style]
           g == [back |-> goes]
<1>1. /\ ~Idle(t) /\ Op(t) = "follow" /\ todo[t][1][1] = "follow"
      /\ UNCHANGED <<chosen, roots, catalog, renderer, kind, shows, crossed, excused>>
  BY DEF Follow, Op
<1>2. /\ todo[t] \in Seq(Ops) /\ Len(todo[t]) \in Nat /\ Len(todo[t]) >= 2
      /\ \A i \in 1 .. Len(todo[t]) : todo[t][i][1] \in {"set", "follow"} \cup Themes
  BY <1>1, HeadIs, PlanIs DEF StageInv
<1>3. ChosenTyped' /\ ShowsTyped'
  BY <1>1, Zenon DEF StageInv, ChosenTyped, ShowsTyped
<1>4. CASE found
  <2>1. Then(t, << <<"set", g>> >>)
    BY <1>1, <1>4 DEF Follow, If
  <2>2. chosen.char \in Characters /\ chosen.style \in Styles
    BY DEF StageInv, ChosenTyped, Choice
  <2>3. goes \in Backgrounds /\ goes \in OwnBacks(chosen.char)
    BY <1>4, <2>2, LibraryIs DEF OwnBacks
  <2>4. g \in Fields /\ OwnTheme(chosen.char, g)
    BY <2>3 DEF Fields, OwnTheme
  <2>5. <<"set", g>> \in Ops
    BY <2>4, IsOp
  <2> HIDE DEF g
  <2> DEFINE o == <<"set", g>>
  <2>6. o \in Ops /\ o[1] = "set" /\ o[2] = g /\ Then(t, <<o>>)
    BY <2>1, <2>5
  <2> HIDE DEF o
  <2>7. /\ TodoTyped' /\ Len(todo'[t]) = Len(todo[t]) /\ todo'[t][1] = o
        /\ \A u \in Threads \ {t} : todo'[u] = todo[u]
        /\ \A i \in 2 .. Len(todo[t]) : todo'[t][i] = todo[t][i]
    BY <1>1, <2>6, TurnsInto DEF StageInv
  <2>8. RootsInv'
    BY <1>1, <2>6, <2>7 DEF StageInv, RootsInv, Idle, Op, Arg
  <2>9. BelongsInv'
    <3> SUFFICES ASSUME ~crossed
                 PROVE  /\ \A u \in Threads : \A i \in DOMAIN todo'[u] :
                             todo'[u][i][1] = "set" => OwnTheme(chosen.char, todo'[u][i][2])
                        /\ \/ OwnTheme(chosen.char, chosen)
                           \/ \E u \in Threads : todo'[u] # <<>> /\ todo'[u][1][1] = "defaults"
      BY <1>1 DEF BelongsInv, Idle, Op
    <3>1. /\ \A u \in Threads : \A i \in DOMAIN todo[u] :
               todo[u][i][1] = "set" => OwnTheme(chosen.char, todo[u][i][2])
          /\ \/ OwnTheme(chosen.char, chosen)
             \/ \E u \in Threads \ {t} : todo[u] # <<>> /\ todo[u][1][1] = "defaults"
      BY <1>1 DEF StageInv, BelongsInv, Idle, Op
    <3>2. \A i \in DOMAIN todo'[t] : todo'[t][i][1] = "set" => OwnTheme(chosen.char, todo'[t][i][2])
      <4>1. \A i \in DOMAIN todo'[t] : i \in DOMAIN todo[t] /\ (i = 1 \/ todo'[t][i] = todo[t][i])
        BY <1>2, <2>7 DEF TodoTyped
      <4> QED
        BY <2>4, <2>6, <2>7, <3>1, <4>1
    <3> QED
      BY <2>7, <3>1, <3>2
  <2> QED
    BY <1>3, <2>7, <2>8, <2>9 DEF StageInv
<1>5. CASE ~found
  <2>1. Then(t, <<>>)
    BY <1>1, <1>5 DEF Follow, If
  <2>2. /\ TodoTyped' /\ Len(todo'[t]) = Len(todo[t]) - 1
        /\ \A u \in Threads \ {t} : todo'[u] = todo[u]
        /\ \A i \in 1 .. Len(todo[t]) - 1 : todo'[t][i] = todo[t][i + 1]
    BY <1>1, <2>1, GoesOn DEF StageInv
  <2>3. todo'[t][1][1] \in {"set", "follow"} \cup Themes
    BY <1>2, <2>2
  <2>4. RootsInv'
    BY <1>1, <2>2, <2>3 DEF StageInv, RootsInv, Idle, Op, Arg, Themes
  <2>5. BelongsInv'
    <3>1. crossed' = crossed /\ chosen' = chosen
      BY <1>1
    <3>2. ~crossed => \A u \in Threads : \A i \in DOMAIN todo'[u] :
            todo'[u][i][1] = "set" => OwnTheme(chosen'.char, todo'[u][i][2])
      BY <1>1, <2>1, <3>1, StillOwn DEF StageInv
    <3>3. ~crossed => \/ OwnTheme(chosen.char, chosen)
                      \/ \E u \in Threads \ {t} : todo[u] # <<>> /\ todo[u][1][1] = "defaults"
      BY <1>1 DEF StageInv, BelongsInv, Idle, Op
    <3> QED
      BY <2>2, <3>1, <3>2, <3>3 DEF BelongsInv, Idle, Op
  <2> QED
    BY <1>3, <2>2, <2>4, <2>5 DEF StageInv
<1> QED
  BY <1>4, <1>5

\* A LiveTalking adapter is built.
LEMMA NewStep ==
  ASSUME StageInv, NEW t \in Threads, NEW r \in Renderers, NewRenderer(t, r)
  PROVE  StageInv'
<1>1. /\ ~Idle(t) /\ todo[t][1][1] = "new" /\ Then(t, <<>>)
      /\ renderer' = r /\ kind' = [kind EXCEPT ![r] = "livetalking"]
      /\ shows' = Blank /\ excused' = TRUE
      /\ UNCHANGED <<chosen, roots, catalog, crossed>>
  BY DEF NewRenderer, Op
<1>2. /\ todo[t] \in Seq(Ops) /\ Len(todo[t]) \in Nat /\ Len(todo[t]) >= 2 /\ todo[t][2][1] = "load"
  BY <1>1, HeadIs, PlanIs DEF StageInv
<1>3. /\ TodoTyped' /\ todo'[t][1][1] = "load"
      /\ \A u \in Threads \ {t} : todo'[u] = todo[u]
  <2>1. /\ TodoTyped'
        /\ \A u \in Threads \ {t} : todo'[u] = todo[u]
        /\ \A i \in 1 .. Len(todo[t]) - 1 : todo'[t][i] = todo[t][i + 1]
    BY <1>1, GoesOn DEF StageInv
  <2>2. 1 \in 1 .. Len(todo[t]) - 1 /\ 1 + 1 = 2
    BY <1>2
  <2>3. todo'[t][1] = todo[t][2]
    BY <2>1, <2>2
  <2> QED
    BY <1>2, <2>1, <2>3
<1>4. ShowsTyped'
  <2>1. Blank \in Shown
    BY DEF Blank, Shown
  <2>2. kind' \in [Renderers -> {"web", "livetalking"}]
    BY <1>1 DEF StageInv, ShowsTyped
  <2> QED
    BY <1>1, <2>1, <2>2 DEF StageInv, ShowsTyped
<1>5. ChosenTyped'
  BY <1>1 DEF StageInv, ChosenTyped
<1>6. RootsInv'
  BY <1>1, <1>3 DEF StageInv, RootsInv, Idle, Op, Arg
<1>7. BelongsInv'
  <2>1. ~crossed => \A u \in Threads : \A i \in DOMAIN todo'[u] :
          todo'[u][i][1] = "set" => OwnTheme(chosen'.char, todo'[u][i][2])
    BY <1>1, StillOwn DEF StageInv
  <2>2. ~crossed => \/ OwnTheme(chosen.char, chosen)
                    \/ \E u \in Threads \ {t} : todo[u] # <<>> /\ todo[u][1][1] = "defaults"
    BY <1>1 DEF StageInv, BelongsInv, Idle, Op
  <2> QED
    BY <1>1, <1>3, <2>1, <2>2 DEF BelongsInv, Idle, Op
<1> QED
  BY <1>3, <1>4, <1>5, <1>6, <1>7 DEF StageInv

\* An access of a load or a theme: nothing but the list of accesses changes.
LEMMA LateStep ==
  ASSUME StageInv, NEW t \in Threads, ~Idle(t), Op(t) \in Loads \cup Themes,
         UNCHANGED <<chosen, roots, catalog, crossed>>, ShowsTyped', TodoTyped',
         \A u \in Threads \ {t} : todo'[u] = todo[u],
         \A i \in DOMAIN todo'[t] : todo'[t][i][1] \in Loads \cup Themes
  PROVE  StageInv'
<1>1. ChosenTyped'
  BY DEF StageInv, ChosenTyped
<1>2. ~Idle(t)' => todo'[t][1][1] \in Loads \cup Themes
  <2>1. todo'[t] # <<>> => 1 \in DOMAIN todo'[t]
    BY DEF TodoTyped
  <2> QED
    BY <2>1 DEF Idle
<1>3. RootsInv'
  BY <1>2 DEF StageInv, RootsInv, Idle, Op, Arg, Loads, Themes
<1>4. BelongsInv'
  BY DEF StageInv, BelongsInv, Idle, Op, Loads, Themes
<1> QED
  BY <1>1, <1>3, <1>4 DEF StageInv

\* What a load or a theme has still to do.
LEMMA LateIs ==
  ASSUME TodoTyped, NEW t \in Threads, ~Idle(t), Op(t) \in Loads \cup Themes
  PROVE  \A i \in 2 .. Len(todo[t]) : todo[t][i][1] \in Loads \cup Themes
BY HeadIs, PlanIs DEF Op, Loads, Themes

\* It goes on.
LEMMA LateGoesOn ==
  ASSUME TodoTyped, NEW t \in Threads, ~Idle(t), Op(t) \in Loads \cup Themes, Then(t, <<>>)
  PROVE  /\ TodoTyped' /\ \A u \in Threads \ {t} : todo'[u] = todo[u]
         /\ \A i \in DOMAIN todo'[t] : todo'[t][i][1] \in Loads \cup Themes
<1>1. /\ TodoTyped' /\ \A u \in Threads \ {t} : todo'[u] = todo[u]
      /\ Len(todo'[t]) = Len(todo[t]) - 1
      /\ \A i \in 1 .. Len(todo[t]) - 1 : todo'[t][i] = todo[t][i + 1]
  BY GoesOn
<1>2. \A i \in DOMAIN todo'[t] : i + 1 \in 2 .. Len(todo[t]) /\ todo'[t][i] = todo[t][i + 1]
  BY <1>1, HeadIs DEF TodoTyped
<1> QED
  BY <1>1, <1>2, LateIs

\* It turns into another.
LEMMA LateTurns ==
  ASSUME TodoTyped, NEW t \in Threads, ~Idle(t), NEW o \in Ops, Then(t, <<o>>),
         \/ Op(t) \in Loads /\ o[1] \in Loads
         \/ Op(t) \in Themes /\ o[1] \in Themes
  PROVE  /\ TodoTyped' /\ \A u \in Threads \ {t} : todo'[u] = todo[u]
         /\ todo'[t][1] = o /\ Len(todo'[t]) = Len(todo[t]) /\ ~Idle(t)'
         /\ \A i \in 2 .. Len(todo[t]) : todo'[t][i] = todo[t][i]
         /\ \A i \in DOMAIN todo'[t] : todo'[t][i][1] \in Loads \cup Themes
<1>1. /\ TodoTyped' /\ \A u \in Threads \ {t} : todo'[u] = todo[u]
      /\ todo'[t][1] = o /\ Len(todo'[t]) = Len(todo[t])
      /\ \A i \in 2 .. Len(todo[t]) : todo'[t][i] = todo[t][i]
  BY TurnsInto
<1>2. \A i \in DOMAIN todo'[t] : i = 1 \/ (i \in 2 .. Len(todo[t]) /\ todo'[t][i] = todo[t][i])
  BY <1>1, HeadIs DEF TodoTyped
<1>3. todo'[t] # <<>>
  BY <1>1, HeadIs DEF TodoTyped
<1> QED
  BY <1>1, <1>2, <1>3, LateIs DEF Idle

\* What Evaluate makes of an access.
LEMMA Evaluated ==
  ASSUME ChosenTyped, ShowsTyped, TodoTyped, NEW t \in Threads, Evaluate(t)
  PROVE  LET style == todo[t][1][3]
             back == FindBack(chosen.char, chosen.back) IN
         /\ ~Idle(t)
         /\ UNCHANGED <<chosen, roots, catalog, renderer, kind, shows, crossed, excused>>
         /\ \/ /\ Op(t) = "load" /\ <<"loadNow", renderer, chosen.char>> \in Ops
               /\ Then(t, << <<"loadNow", renderer, chosen.char>> >>)
            \/ /\ Op(t) = "theme"
               /\ <<"themeBack", renderer, FindStyle(chosen.char, chosen.style)>> \in Ops
               /\ Then(t, << <<"themeBack", renderer, FindStyle(chosen.char, chosen.style)>> >>)
            \/ /\ Op(t) = "themeBack" /\ style # None /\ back # None
               /\ <<"themeNow", Arg(t), chosen.char, style, back>> \in Ops
               /\ Then(t, << <<"themeNow", Arg(t), chosen.char, style, back>> >>)
            \/ /\ Op(t) = "themeBack" /\ (style = None \/ back = None)
               /\ Then(t, <<>>)
<1> DEFINE style == todo[t][1][3]
           back == FindBack(chosen.char, chosen.back)
<1>1. ~Idle(t) /\ UNCHANGED <<chosen, roots, catalog, renderer, kind, shows, crossed, excused>>
  BY DEF Evaluate
<1>2. chosen.char \in Characters /\ chosen.style \in Styles /\ chosen.back \in Backgrounds \cup {None}
      /\ renderer \in Renderers
  BY DEF ChosenTyped, ShowsTyped, Choice
<1>3. FindStyle(chosen.char, chosen.style) \in StyleObjects /\ back \in BackObjects
  BY <1>2, LibraryIs DEF FindStyle, FindBack, StyleObjects, BackObjects
<1>4. CASE Op(t) = "load"
  <2>1. <<"loadNow", renderer, chosen.char>> \in Ops
    BY <1>2, IsOp
  <2> QED
    BY <1>1, <1>4, <2>1 DEF Evaluate
<1>5. CASE Op(t) = "theme"
  <2>1. <<"themeBack", renderer, FindStyle(chosen.char, chosen.style)>> \in Ops
    BY <1>2, <1>3, IsOp
  <2> QED
    BY <1>1, <1>5, <2>1 DEF Evaluate
<1>6. CASE Op(t) = "themeBack"
  <2>1. style \in StyleObjects /\ Arg(t) \in Renderers
    BY <1>1, <1>6, HeadIs, OpsAre DEF Op, Arg
  <2>2. <<"themeNow", Arg(t), chosen.char, style, back>> \in Ops
    BY <1>2, <1>3, <2>1, IsOp
  <2>3. Then(t, If(style # None /\ back # None,
                   << <<"themeNow", Arg(t), chosen.char, style, back>> >>))
    BY <1>6 DEF Evaluate
  <2> QED
    BY <1>1, <1>6, <2>2, <2>3 DEF If
<1>7. Op(t) \in {"load", "theme", "themeBack"}
  BY DEF Evaluate
<1> QED
  BY <1>4, <1>5, <1>6, <1>7

\* An argument is evaluated, or a theme is not complete.
LEMMA EvaluateStep ==
  ASSUME StageInv, NEW t \in Threads, Evaluate(t)
  PROVE  StageInv'
<1>1. ~Idle(t) /\ UNCHANGED <<chosen, roots, catalog, renderer, kind, shows, crossed, excused>>
  BY DEF Evaluate
<1>2. ShowsTyped'
  BY <1>1, Zenon DEF StageInv, ShowsTyped
<1>3. CASE Then(t, <<>>)
  <2>1. Op(t) \in Loads \cup Themes
    BY DEF Evaluate, Loads, Themes
  <2> QED
    BY <1>1, <1>2, <1>3, <2>1, LateGoesOn, LateStep DEF StageInv
<1>4. CASE \E o \in Ops : /\ Then(t, <<o>>)
                          /\ \/ Op(t) \in Loads /\ o[1] \in Loads
                             \/ Op(t) \in Themes /\ o[1] \in Themes
  <2>1. Op(t) \in Loads \cup Themes
    BY <1>4
  <2> QED
    BY <1>1, <1>2, <1>4, <2>1, LateTurns, LateStep DEF StageInv
<1> QED
  BY <1>3, <1>4, Evaluated DEF StageInv, Loads, Themes

\* What a call shows.
LEMMA CallIs ==
  ASSUME ShowsTyped, TodoTyped, NEW t \in Threads, NEW delivered \in BOOLEAN, Call(t, delivered)
  PROVE  LET op == todo[t][1] IN
         /\ ~Idle(t) /\ Op(t) \in Calls /\ Then(t, <<>>)
         /\ UNCHANGED <<chosen, roots, catalog, renderer, kind, crossed>>
         /\ ShowsTyped'
         /\ delivered /\ op[2] = renderer /\ op[1] = "themeNow" =>
              shows' = [char |-> op[3], style |-> op[4], back |-> op[5]]
<1>1. ~Idle(t) /\ Op(t) \in Calls /\ Then(t, <<>>) /\ todo[t][1][1] = Op(t)
      /\ UNCHANGED <<chosen, roots, catalog, renderer, kind, crossed>>
  BY DEF Call, Op
<1>2. todo[t][1] \in Ops
  BY <1>1, HeadIs
<1>3. shows' \in Shown
  <2>1. /\ todo[t][1][1] = "loadNow" => [shows EXCEPT !.char = todo[t][1][3]] \in Shown
        /\ todo[t][1][1] = "themeNow" =>
             [char |-> todo[t][1][3], style |-> todo[t][1][4], back |-> todo[t][1][5]] \in Shown
    BY <1>2, OpsAre DEF ShowsTyped, Shown, StyleObjects, BackObjects
  <2> QED
    BY <1>1, <2>1 DEF Call, Calls, ShowsTyped
<1>4. excused' \in BOOLEAN
  BY DEF Call, ShowsTyped
<1>5. ShowsTyped'
  BY <1>1, <1>3, <1>4 DEF ShowsTyped
<1>6. delivered /\ todo[t][1][2] = renderer /\ todo[t][1][1] = "themeNow" =>
        shows' = [char |-> todo[t][1][3], style |-> todo[t][1][4], back |-> todo[t][1][5]]
  BY DEF Call
<1> QED
  BY <1>1, <1>5, <1>6

\* The renderer is called.
LEMMA CallStep ==
  ASSUME StageInv, NEW t \in Threads, NEW delivered \in BOOLEAN, Call(t, delivered)
  PROVE  StageInv'
<1>1. /\ ~Idle(t) /\ Op(t) \in Calls /\ Then(t, <<>>) /\ ShowsTyped'
      /\ UNCHANGED <<chosen, roots, catalog, renderer, kind, crossed>>
  BY CallIs DEF StageInv
<1>2. Op(t) \in Loads \cup Themes
  BY <1>1 DEF Calls, Loads, Themes
<1> QED
  BY <1>1, <1>2, LateGoesOn, LateStep DEF StageInv

\* At first there is no request, and the character's own defaults are chosen.
LEMMA InitStage == StageInit => StageInv
<1> SUFFICES ASSUME StageInit PROVE StageInv
  OBVIOUS
<1>1. \A t \in Threads : todo[t] = <<>>
  BY DEF StageInit
<1>2. FirstCharacter \in Characters
  BY StageAssumption
<1>3. chosen \in Choice
  BY <1>2, LibraryIs DEF StageInit, Choice
<1>4. ChosenTyped
  BY <1>3 DEF StageInit, ChosenTyped
<1>5. ShowsTyped
  <2>1. Theme(chosen) \in Shown /\ Blank \in Shown
    BY <1>3, LibraryIs DEF Theme, Blank, Shown, FindStyle, FindBack, Choice
  <2>2. shows \in Shown
    BY <2>1 DEF StageInit
  <2>3. excused \in BOOLEAN
    BY DEF StageInit
  <2>4. kind \in [Renderers -> {"web", "livetalking"}] /\ renderer \in Renderers /\ crossed \in BOOLEAN
    BY DEF StageInit
  <2> QED
    BY <2>2, <2>3, <2>4 DEF ShowsTyped
<1>6. TodoTyped
  <2>1. <<>> \in Seq(Ops) /\ Planned(<<>>)
    BY DEF Planned, Follows
  <2> QED
    BY <1>1, <2>1 DEF StageInit, TodoTyped
<1>7. RootsInv
  BY <1>1 DEF RootsInv, Idle
<1>8. BelongsInv
  <2>1. OwnTheme(chosen.char, chosen)
    BY DEF StageInit, OwnTheme, OwnStyles, OwnBacks
  <2> QED
    BY <1>1, <2>1 DEF BelongsInv
<1> QED
  BY <1>4, <1>5, <1>6, <1>7, <1>8 DEF StageInv

\* Every step keeps the invariant of what is chosen.
LEMMA StepStage ==
  ASSUME StageInv, [StageNext]_stageVars
  PROVE  StageInv'
<1>1. CASE UNCHANGED stageVars
  BY <1>1, Zenon DEF StageInv, ChosenTyped, ShowsTyped, TodoTyped, RootsInv, BelongsInv, stageVars,
        Idle, Op, Arg
<1>2. ASSUME NEW t \in Threads,
             \/ Asks(t) \/ WriteField(t) \/ SwitchCharacter(t) \/ TakeDefaults(t) \/ Follow(t)
             \/ Evaluate(t)
      PROVE  StageInv'
  BY <1>2, AskStep, WriteStep, SwitchStep, DefaultsStep, FollowStep, EvaluateStep
<1>3. ASSUME NEW t \in Threads, NEW r \in Renderers, NewRenderer(t, r)
      PROVE  StageInv'
  BY <1>3, NewStep
<1>4. ASSUME NEW t \in Threads, WebCall(t) \/ \E delivered \in BOOLEAN : DaemonCall(t, delivered)
      PROVE  StageInv'
  BY <1>4, CallStep DEF WebCall, DaemonCall
<1> QED
  BY <1>1, <1>2, <1>3, <1>4 DEF StageNext, Asks

\* Unless a switch of character came between another request's check and its
\* writes, the style and the background chosen are the chosen character's, however
\* many requests overlap.  demo_orchestrator.py:486-534, routes.py:242-248.
THEOREM Belongs == StageSpec => [](StageTypeOK /\ ThemeBelongs)
<1>1. StageInit => StageInv
  BY InitStage
<1>2. StageInv /\ [StageNext]_stageVars => StageInv'
  BY StepStage
<1>3. StageInv => StageTypeOK
  <2> SUFFICES ASSUME StageInv PROVE StageTypeOK
    OBVIOUS
  <2>1. \A t \in Threads : \A i \in DOMAIN todo[t] : todo[t][i][1] \in Writes \cup Reads \cup Calls
    <3> SUFFICES ASSUME NEW t \in Threads, NEW i \in DOMAIN todo[t]
                 PROVE  todo[t][i][1] \in Writes \cup Reads \cup Calls
      OBVIOUS
    <3>1. todo[t][i] \in Ops
      BY DEF StageInv, TodoTyped
    <3> QED
      BY <3>1, OpsAre DEF Writes, Reads, Calls, Loads, Themes
  <2> QED
    BY <2>1 DEF StageInv, ChosenTyped, ShowsTyped, StageTypeOK, Choice
<1>4. StageInv => ThemeBelongs
  <2> SUFFICES ASSUME StageInv, ~crossed
               PROVE  \/ chosen.style \in OwnStyles(chosen.char) /\ chosen.back \in OwnBacks(chosen.char)
                      \/ \E t \in Threads : Pending(t, {"defaults"})
    BY DEF ThemeBelongs
  <2>1. CASE OwnTheme(chosen.char, chosen)
    BY <2>1 DEF StageInv, ChosenTyped, Choice, OwnTheme
  <2>2. ASSUME NEW t \in Threads, ~Idle(t), Op(t) = "defaults"
        PROVE  Pending(t, {"defaults"})
    <3>1. 1 \in DOMAIN todo[t]
      BY <2>2, HeadIs DEF StageInv
    <3> QED
      BY <2>2, <3>1 DEF Pending, Op
  <2> QED
    BY <2>1, <2>2 DEF StageInv, BelongsInv
<1> QED
  BY <1>1, <1>2, <1>3, <1>4, PTL DEF StageSpec

-----------------------------------------------------------------------------
\* While nothing excuses the renderer: one request at most is on its way; it is
\* not loading a character, and what it is about to say of a theme is true; and
\* the theme that is shown is the one chosen, or it is going to be sent.
Truly(t) ==
  ~Idle(t) =>
    /\ Op(t) \notin {"defaults"} \cup Loads
    /\ Op(t) \in {"themeBack", "themeNow"} => Arg(t) = renderer
    /\ Op(t) = "themeBack" => todo[t][1][3] = Theme(chosen).style
    /\ Op(t) = "themeNow" => /\ todo[t][1][3] = chosen.char
                             /\ todo[t][1][4] = Theme(chosen).style
                             /\ todo[t][1][5] = Theme(chosen).back
Fits == Theme(chosen).style # None /\ Theme(chosen).back # None => shows = Theme(chosen)
WillTell(t) == ~Idle(t) /\ todo[t][Len(todo[t])][1] \in Themes

ShownInv ==
  ~excused =>
    /\ \A t \in Threads : Idle(t) \/ ~Others(t)
    /\ \A t \in Threads : Truly(t)
    /\ Fits \/ \E t \in Threads : WillTell(t)

\* It is enough to look at the request that takes the step.
LEMMA Alone ==
  ASSUME NEW t \in Threads, \A u \in Threads \ {t} : todo'[u] = <<>>,
         Truly(t)', Fits' \/ WillTell(t)'
  PROVE  ShownInv'
<1>1. \A u \in Threads \ {t} : Idle(u)'
  BY DEF Idle
<1>2. \A u \in Threads : Truly(u)'
  BY <1>1 DEF Truly
<1>3. \A u \in Threads : Idle(u)' \/ ~Others(u)'
  BY <1>1 DEF Others
<1> QED
  BY <1>2, <1>3 DEF ShownInv

\* With nothing to excuse it, a request is alone and tells the truth.
LEMMA OthersIdle ==
  ASSUME ShownInv, ~excused, NEW t \in Threads, ~Idle(t)
  PROVE  /\ \A u \in Threads \ {t} : todo[u] = <<>>
         /\ Truly(t)
         /\ Fits \/ WillTell(t)
BY DEF ShownInv, Others, WillTell, Idle

\* A request begins with the renderer up to date, or with an excuse.
LEMMA ShownAsk ==
  ASSUME StageInv, ShownInv, NEW t \in Threads, Asks(t), ~excused'
  PROVE  ShownInv'
<1>1. PICK ops : Sound(ops) /\ Request(t, ops)
  BY Asked DEF StageInv
<1>2. /\ todo'[t] = ops /\ \A u \in Threads \ {t} : todo'[u] = todo[u]
      /\ UNCHANGED <<chosen, renderer, shows>> /\ ~excused /\ ~Others(t) /\ Idle(t)
  BY <1>1, RequestIs DEF StageInv, Sound
<1>3. \A u \in Threads \ {t} : todo'[u] = <<>>
  BY <1>2 DEF Others, Idle
<1>4. Truly(t)'
  BY <1>1, <1>2 DEF Truly, Sound, Op, Loads
<1>5. Fits
  BY <1>2 DEF ShownInv, WillTell, Others
<1>6. Fits'
  BY <1>2, <1>5 DEF Fits, Theme
<1> QED
  BY <1>3, <1>4, <1>6, Alone

\* Who writes a field will tell the renderer.
LEMMA ShownWrite ==
  ASSUME StageInv, ShownInv, NEW t \in Threads, WriteField(t), ~excused'
  PROVE  ShownInv'
<1>1. /\ ~Idle(t) /\ todo[t][1][1] \in Writes /\ Then(t, <<>>)
      /\ UNCHANGED <<renderer, shows>> /\ ~excused
      /\ todo[t][1][1] # "set" => chosen' = chosen
  BY DEF WriteField, Op
<1>2. /\ \A u \in Threads \ {t} : todo'[u] = <<>>
      /\ Fits \/ WillTell(t)
  BY <1>1, OthersIdle, GoesOn DEF StageInv
<1>3. /\ Len(todo'[t]) = Len(todo[t]) - 1
      /\ \A i \in 1 .. Len(todo[t]) - 1 : todo'[t][i] = todo[t][i + 1]
      /\ todo'[t] \in Seq(Ops)
  BY <1>1, GoesOn DEF StageInv, TodoTyped
<1>4. todo[t] \in Seq(Ops) /\ Planned(todo[t]) /\ todo[t] # <<>> /\ Len(todo[t]) \in Nat
  BY <1>1, HeadIs DEF StageInv
<1>5. Len(todo[t]) >= 2
  BY <1>1, <1>4, PlanIs DEF Writes
<1>6. todo'[t][1] = todo[t][2] /\ todo'[t][Len(todo'[t])] = todo[t][Len(todo[t])] /\ todo'[t] # <<>>
  BY <1>3, <1>4, <1>5
<1>7. todo[t][2][1] \in {"catalog", "char", "set", "follow", "theme"}
  <2>1. todo[t][1][1] \in {"root", "catalog"} => todo[t][2][1] \in {"catalog", "char"}
    BY <1>4, PlanIs
  <2>2. todo[t][1][1] = "set" => todo[t][2][1] \in {"set", "follow"} \cup Themes
    BY <1>4, <1>5, PlanIs
  <2>3. todo[t][2][1] \notin {"themeBack", "themeNow"}
    BY <1>4, <1>5 DEF Planned
  <2> QED
    BY <1>1, <2>1, <2>2, <2>3 DEF Writes, Themes
<1>8. Truly(t)'
  BY <1>6, <1>7 DEF Truly, Op, Loads
<1>9. CASE todo[t][1][1] = "set"
  <2>1. todo[t][Len(todo[t])][1] \in Themes
    BY <1>4, <1>9, PlanIs
  <2>2. WillTell(t)'
    BY <1>6, <2>1 DEF WillTell, Idle
  <2> QED
    BY <1>2, <1>8, <2>2, Alone
<1>10. CASE todo[t][1][1] \in {"root", "catalog"}
  <2>1. todo[t][Len(todo[t])][1] \notin Themes
    BY <1>4, <1>10, PlanIs
  <2>2. Fits /\ chosen' = chosen
    BY <1>1, <1>2, <1>10, <2>1 DEF WillTell
  <2>3. Fits'
    BY <1>1, <2>2 DEF Fits, Theme
  <2> QED
    BY <1>2, <1>8, <2>3, Alone
<1> QED
  BY <1>1, <1>9, <1>10 DEF Writes

\* A switch that fails for want of a catalog entry has changed nothing.
LEMMA ShownSwitch ==
  ASSUME StageInv, ShownInv, NEW t \in Threads, SwitchCharacter(t), ~excused'
  PROVE  ShownInv'
<1>1. /\ ~Idle(t) /\ todo[t][1][1] = "char" /\ todo' = [todo EXCEPT ![t] = <<>>]
      /\ UNCHANGED <<chosen, renderer, shows>> /\ ~excused
  BY DEF SwitchCharacter, Op
<1>2. /\ \A u \in Threads \ {t} : todo'[u] = <<>> /\ todo'[t] = <<>>
      /\ Fits \/ WillTell(t)
  BY <1>1, OthersIdle DEF StageInv, TodoTyped
<1>3. todo[t][Len(todo[t])][1] \notin Themes
  BY <1>1, HeadIs, PlanIs DEF StageInv
<1>4. Fits'
  BY <1>1, <1>2, <1>3 DEF Fits, Theme, WillTell
<1>5. todo'[t] = <<>>
  BY <1>1 DEF StageInv, TodoTyped
<1>6. Truly(t)'
  BY <1>5 DEF Truly, Idle
<1> QED
  BY <1>2, <1>4, <1>6, Alone

\* Who follows the style will tell the renderer.
LEMMA ShownFollow ==
  ASSUME StageInv, ShownInv, NEW t \in Threads, Follow(t), ~excused'
  PROVE  ShownInv'
<1> DEFINE n == Len(todo[t])
<1>1. /\ ~Idle(t) /\ todo[t][1][1] = "follow" /\ UNCHANGED <<chosen, renderer, shows>> /\ ~excused
  BY DEF Follow, Op
<1>2. /\ todo[t] \in Seq(Ops) /\ Planned(todo[t]) /\ todo[t] # <<>> /\ n \in Nat /\ n >= 2
      /\ todo[t][n][1] \in Themes
  BY <1>1, HeadIs, PlanIs DEF StageInv
<1> DEFINE Kept == /\ TodoTyped' /\ \A u \in Threads \ {t} : todo'[u] = <<>>
                   /\ todo'[t] # <<>> /\ todo'[t][Len(todo'[t])] = todo[t][n]
                   /\ todo'[t][1][1] \in {"set", "follow", "theme"}
<1>3. Kept
  <2>1. ASSUME Then(t, <<>>)
        PROVE  Kept
    <3>1. /\ TodoTyped' /\ \A u \in Threads \ {t} : todo'[u] = todo[u]
          /\ Len(todo'[t]) = n - 1 /\ todo'[t] \in Seq(Ops)
          /\ \A i \in 1 .. n - 1 : todo'[t][i] = todo[t][i + 1]
      BY <1>1, <2>1, GoesOn DEF StageInv, TodoTyped
    <3>2. todo'[t][1] = todo[t][2] /\ todo'[t][n - 1] = todo[t][n]
      BY <1>2, <3>1
    <3>3. todo[t][2][1] \in {"set", "follow"} \cup Themes
      BY <1>1, <1>2, PlanIs
    <3>4. todo[t][2][1] \notin {"themeBack", "themeNow"}
      BY <1>2 DEF Planned
    <3> QED
      BY <1>1, <1>2, <3>1, <3>2, <3>3, <3>4, OthersIdle DEF Themes
  <2>2. ASSUME NEW o \in Ops, o[1] = "set", Then(t, <<o>>)
        PROVE  Kept
    <3>1. /\ TodoTyped' /\ \A u \in Threads \ {t} : todo'[u] = todo[u]
          /\ Len(todo'[t]) = n /\ todo'[t][1] = o /\ todo'[t] \in Seq(Ops)
          /\ \A i \in 2 .. n : todo'[t][i] = todo[t][i]
      BY <1>1, <2>2, TurnsInto DEF StageInv, TodoTyped, Op
    <3> QED
      BY <1>1, <1>2, <2>2, <3>1, OthersIdle
  <2>3. Then(t, <<>>) \/ \E o \in Ops : o[1] = "set" /\ Then(t, <<o>>)
    <3> DEFINE goes == Library[chosen.char].goesWith[chosen.style]
               g == [back |-> goes]
    <3>1. chosen.char \in Characters /\ chosen.style \in Styles
      BY DEF StageInv, ChosenTyped, Choice
    <3>2. goes # None => g \in Fields
      BY <3>1, LibraryIs DEF Fields
    <3>3. goes # None => <<"set", g>> \in Ops
      BY <3>2, IsOp
    <3> QED
      BY <3>3 DEF Follow, If
  <2> QED
    BY <2>1, <2>2, <2>3
<1>4. Truly(t)'
  BY <1>3 DEF Truly, Op, Loads
<1>5. WillTell(t)'
  BY <1>2, <1>3 DEF WillTell, Idle
<1> QED
  BY <1>3, <1>4, <1>5, Alone

\* What is evaluated of a theme is true when it is, and no one else is there.
LEMMA ShownEvaluate ==
  ASSUME StageInv, ShownInv, NEW t \in Threads, Evaluate(t), ~excused'
  PROVE  ShownInv'
<1> DEFINE style == todo[t][1][3]
           back == FindBack(chosen.char, chosen.back)
<1>1. /\ ~Idle(t) /\ UNCHANGED <<chosen, renderer, shows>> /\ ~excused
  BY DEF Evaluate
<1>2. /\ \A u \in Threads \ {t} : todo[u] = <<>>
      /\ Truly(t) /\ (Fits \/ WillTell(t))
  BY <1>1, OthersIdle
<1>3. back = Theme(chosen).back /\ FindStyle(chosen.char, chosen.style) = Theme(chosen).style
  BY DEF Theme
<1>4. /\ todo[t] \in Seq(Ops) /\ Planned(todo[t]) /\ todo[t] # <<>>
      /\ Op(t) \in Themes => Len(todo[t]) = 1
  BY <1>1, HeadIs, PlanIs DEF StageInv, Op
<1>5. ASSUME NEW o \in Ops, Op(t) \in Themes, o[1] \in Themes, Then(t, <<o>>)
      PROVE  /\ \A u \in Threads \ {t} : todo'[u] = <<>>
             /\ todo'[t] # <<>> /\ todo'[t][1] = o /\ WillTell(t)'
  <2>1. /\ TodoTyped' /\ \A u \in Threads \ {t} : todo'[u] = todo[u]
        /\ Len(todo'[t]) = 1 /\ todo'[t][1] = o /\ ~Idle(t)'
    BY <1>1, <1>4, <1>5, LateTurns DEF StageInv
  <2> QED
    BY <1>2, <1>5, <2>1 DEF WillTell, Idle
<1>6. CASE Op(t) = "theme"
  <2> DEFINE o == <<"themeBack", renderer, FindStyle(chosen.char, chosen.style)>>
  <2>1. o \in Ops /\ Then(t, <<o>>)
    BY <1>6, Evaluated DEF StageInv
  <2>2. o[1] = "themeBack" /\ o[2] = renderer /\ o[3] = Theme(chosen).style
    BY <1>3
  <2> HIDE DEF o
  <2>3. Op(t) \in Themes /\ o[1] \in Themes
    BY <1>6, <2>2 DEF Themes
  <2>4. /\ \A u \in Threads \ {t} : todo'[u] = <<>>
        /\ todo'[t][1] = o /\ WillTell(t)'
    BY <1>5, <2>1, <2>3
  <2>5. Theme(chosen)' = Theme(chosen)
    BY <1>1 DEF Theme
  <2>6. Truly(t)'
    BY <1>1, <2>2, <2>4, <2>5 DEF Truly, Op, Arg, Loads
  <2> QED
    BY <2>4, <2>6, Alone
<1>7. CASE Op(t) = "themeBack" /\ style # None /\ back # None
  <2> DEFINE o == <<"themeNow", Arg(t), chosen.char, style, back>>
  <2>1. o \in Ops /\ Then(t, <<o>>)
    BY <1>7, Evaluated DEF StageInv
  <2>2. /\ o[1] = "themeNow" /\ o[2] = renderer /\ o[3] = chosen.char
        /\ o[4] = Theme(chosen).style /\ o[5] = Theme(chosen).back
    BY <1>1, <1>2, <1>3, <1>7 DEF Truly
  <2> HIDE DEF o
  <2>3. Op(t) \in Themes /\ o[1] \in Themes
    BY <1>7, <2>2 DEF Themes
  <2>4. /\ \A u \in Threads \ {t} : todo'[u] = <<>>
        /\ todo'[t][1] = o /\ WillTell(t)'
    BY <1>5, <2>1, <2>3
  <2>5. Theme(chosen)' = Theme(chosen) /\ chosen' = chosen
    BY <1>1 DEF Theme
  <2>6. Truly(t)'
    BY <1>1, <2>2, <2>4, <2>5 DEF Truly, Op, Arg, Loads
  <2> QED
    BY <2>4, <2>6, Alone
<1>8. CASE Op(t) = "themeBack" /\ (style = None \/ back = None)
  <2>1. Then(t, <<>>)
    BY <1>8, Evaluated DEF StageInv
  <2>2. /\ \A u \in Threads \ {t} : todo'[u] = <<>> /\ todo'[t] = <<>>
        /\ Len(todo'[t]) = 0 /\ todo'[t] \in Seq(Ops)
    BY <1>1, <1>2, <1>4, <1>8, <2>1, GoesOn DEF StageInv, TodoTyped, Themes
  <2>3. Theme(chosen)' = Theme(chosen)
    BY <1>1 DEF Theme
  <2>4. Fits'
    BY <1>1, <1>2, <1>3, <1>8, <2>3 DEF Fits, Truly
  <2>5. todo'[t] = <<>>
    BY <2>2
  <2>6. Truly(t)'
    BY <2>5 DEF Truly, Idle
  <2> QED
    BY <2>2, <2>4, <2>6, Alone
<1>9. Op(t) \in {"theme", "themeBack"}
  BY <1>1, <1>2 DEF Evaluate, Truly, Loads
<1> QED
  BY <1>6, <1>7, <1>8, <1>9

\* A call shows what is chosen, or leaves an excuse.
LEMMA ShownCall ==
  ASSUME StageInv, ShownInv, NEW t \in Threads, NEW delivered \in BOOLEAN, Call(t, delivered), ~excused'
  PROVE  ShownInv'
<1>1. /\ ~Idle(t) /\ Op(t) \in Calls /\ Then(t, <<>>) /\ UNCHANGED <<chosen, renderer>>
  BY DEF Call
<1>2. /\ todo[t] \in Seq(Ops) /\ Planned(todo[t]) /\ todo[t] # <<>> /\ Len(todo[t]) \in Nat
      /\ Len(todo[t]) = 1 \/ (Len(todo[t]) = 2 /\ todo[t][2][1] = "theme")
  BY <1>1, HeadIs, PlanIs DEF StageInv, Op, Calls, Loads, Themes
<1>3. /\ \A u \in Threads \ {t} : todo'[u] = todo[u]
      /\ Len(todo'[t]) = Len(todo[t]) - 1 /\ todo'[t] \in Seq(Ops)
      /\ \A i \in 1 .. Len(todo[t]) - 1 : todo'[t][i] = todo[t][i + 1]
  BY <1>1, GoesOn DEF StageInv, TodoTyped
<1>4. todo'[t] = <<>> \/ todo'[t][1][1] = "theme"
  BY <1>2, <1>3
<1>5. Truly(t)'
  BY <1>4 DEF Truly, Idle, Op, Loads
<1>6. CASE delivered /\ ~Others(t) /\ shows' = Theme(chosen)
  <2>1. \A u \in Threads \ {t} : todo'[u] = <<>>
    BY <1>3, <1>6 DEF Others, Idle
  <2>2. Fits'
    BY <1>1, <1>6 DEF Fits, Theme
  <2> QED
    BY <1>5, <2>1, <2>2, Alone
<1>7. CASE ~(delivered /\ ~Others(t) /\ shows' = Theme(chosen))
  <2>1. ~excused /\ delivered
    BY <1>7 DEF Call
  <2>2. Truly(t) /\ ~Others(t)
    BY <1>1, <2>1 DEF ShownInv
  <2>3. Op(t) = "themeNow" /\ todo[t][1][1] = "themeNow" /\ todo[t][1][2] = renderer
    BY <1>1, <2>2 DEF Truly, Calls, Loads, Op, Arg
  <2>4. shows' = [char |-> todo[t][1][3], style |-> todo[t][1][4], back |-> todo[t][1][5]]
    BY <2>1, <2>3, CallIs DEF StageInv
  <2>5. shows' = Theme(chosen)
    BY <1>1, <2>2, <2>3, <2>4 DEF Truly, Theme
  <2> QED
    BY <1>7, <2>1, <2>2, <2>5
<1> QED
  BY <1>6, <1>7

\* Every step keeps the invariant of what is shown.
LEMMA StepShown ==
  ASSUME StageInv, ShownInv, [StageNext]_stageVars
  PROVE  ShownInv'
<1>1. CASE UNCHANGED stageVars
  BY <1>1, Zenon DEF stageVars, ShownInv, Idle, Others, Truly, Op, Arg, Fits, Theme, WillTell
<1>2. SUFFICES ASSUME StageNext, ~excused'
               PROVE  ShownInv'
  BY <1>1 DEF ShownInv
<1>3. ASSUME NEW t \in Threads,
             \/ Asks(t) \/ WriteField(t) \/ SwitchCharacter(t) \/ Follow(t) \/ Evaluate(t)
      PROVE  ShownInv'
  BY <1>2, <1>3, ShownAsk, ShownWrite, ShownSwitch, ShownFollow, ShownEvaluate
<1>4. ASSUME NEW t \in Threads, TakeDefaults(t)
      PROVE  FALSE
  <2>1. ~Idle(t) /\ Op(t) = "defaults" /\ ~excused
    BY <1>2, <1>4 DEF TakeDefaults
  <2> QED
    BY <2>1 DEF ShownInv, Truly
<1>5. ASSUME NEW t \in Threads, NEW r \in Renderers, NewRenderer(t, r)
      PROVE  FALSE
  BY <1>2, <1>5 DEF NewRenderer
<1>6. ASSUME NEW t \in Threads, WebCall(t) \/ \E delivered \in BOOLEAN : DaemonCall(t, delivered)
      PROVE  ShownInv'
  BY <1>2, <1>6, ShownCall DEF WebCall, DaemonCall
<1> QED
  BY <1>2, <1>3, <1>4, <1>5, <1>6 DEF StageNext, Asks

\* At first the renderer shows what is chosen, or the daemon is not there.
LEMMA InitShown == StageInit => ShownInv
BY DEF StageInit, ShownInv, Idle, Others, Truly, Fits, WillTell

\* At rest the renderer shows what is chosen, unless since its last complete theme
\* the character was switched, a call was lost or requests overlapped.
\* demo_orchestrator.py:206-212, 486-534, 592-607.
THEOREM Shows == StageSpec => []ShownIsChosen
<1>1. StageInit => StageInv /\ ShownInv
  BY InitStage, InitShown
<1>2. StageInv /\ ShownInv /\ [StageNext]_stageVars => StageInv' /\ ShownInv'
  BY StepStage, StepShown
<1>3. ShownInv => ShownIsChosen
  BY DEF ShownInv, ShownIsChosen, Fits, WillTell, Quiet
<1> QED
  BY <1>1, <1>2, <1>3, PTL DEF StageSpec

-----------------------------------------------------------------------------
(***************************************************************************)
(* Meeting: when the avatar can be in the meeting twice, and what a leave  *)
(* leaves behind.                                                          *)
(***************************************************************************)

Joining(w) == step[w] \in {"asking", "joined", "refused", "opened"}
AtRest(w) == step[w] = "idle"

\* A join that nothing doubles is the only one, began with nobody in the
\* meeting, and falls back to a browser only if the renderer is not in it.
DoubledInv ==
  ~doubled =>
    /\ ~(attending /\ running \ told # {})
    /\ \A v, w \in Workers : Joining(v) /\ Joining(w) => v = w
    /\ \A w \in Workers :
         /\ step[w] = "asking" => ~attending /\ running \ told = {}
         /\ step[w] = "refused" => ~attending

\* What the service does not hold was overwritten; a request that did not overlap
\* is alone; a leave that is alone has taken the avatar out, or did not reach it,
\* and during a join that is alone the session is not one that was left.
LeaveInv ==
  /\ running \ told \subseteq replaced \cup {browser}
  /\ ~hook => ~attending
  /\ ~meetingRaced => \A v, w \in Workers : ~AtRest(v) /\ ~AtRest(w) => v = w
  /\ ~meetingRaced => \A w \in Workers : step[w] = "leaving" => (attending => lost)
  /\ ~meetingRaced => \A w \in Workers : Joining(w) => session # "left"
  /\ LeftMeansOut

MeetingInv == MeetingTypeOK /\ DoubledInv /\ LeaveInv

-----------------------------------------------------------------------------
\* There is no meeting at first.
LEMMA InitMeeting == MeetingInit => MeetingInv
BY DEF MeetingInit, MeetingInv, MeetingTypeOK, DoubledInv, LeaveInv, LeftMeansOut, Joining,
   AtRest, Steps, Sessions, Live

\* Every step keeps the types.
LEMMA StepMeetingTyped ==
  ASSUME MeetingTypeOK, [MeetingNext]_meetingVars
  PROVE  MeetingTypeOK'
<1> USE DEF MeetingTypeOK, Steps, Sessions, Live, Goes, Overlaps, Polled
<1>1. ASSUME NEW w \in Workers, JoinStarts(w) \/ LeaveStarts(w) \/ LeaveEnds(w)
      PROVE  MeetingTypeOK'
  BY <1>1 DEF JoinStarts, LeaveStarts, LeaveEnds
<1>2. ASSUME NEW w \in Workers, RendererAnswers(w)
      PROVE  MeetingTypeOK'
  BY <1>2 DEF RendererAnswers
<1>3. ASSUME NEW w \in Workers, Joined(w) \/ BrowserOpened(w) \/ NoBrowserFound(w) \/ LaunchFails(w)
      PROVE  MeetingTypeOK'
  BY <1>3 DEF Joined, BrowserOpened, NoBrowserFound, LaunchFails
<1>4. ASSUME NEW w \in Workers, NEW b \in Browsers, OpenBrowser(w, b)
      PROVE  MeetingTypeOK'
  BY <1>4 DEF OpenBrowser
<1>5. CASE MeetingPoll \/ RendererDropped \/ \E b \in Browsers : BrowserExits(b)
  BY <1>5 DEF MeetingPoll, RendererDropped, BrowserExits
<1>6. CASE UNCHANGED meetingVars
  BY <1>6 DEF meetingVars
<1> QED
  BY <1>1, <1>2, <1>3, <1>4, <1>5, <1>6 DEF MeetingNext

\* Every step keeps a join that nothing doubles the only way into the meeting.
LEMMA StepDoubled ==
  ASSUME MeetingTypeOK, DoubledInv, [MeetingNext]_meetingVars
  PROVE  DoubledInv'
<1> USE DEF MeetingTypeOK, DoubledInv, Joining, Steps, Goes
<1>1. ASSUME NEW w \in Workers, JoinStarts(w)
      PROVE  DoubledInv'
  BY <1>1 DEF JoinStarts, Overlaps
<1>2. ASSUME NEW w \in Workers, RendererAnswers(w)
      PROVE  DoubledInv'
  BY <1>2 DEF RendererAnswers
<1>3. ASSUME NEW w \in Workers, Joined(w) \/ BrowserOpened(w) \/ NoBrowserFound(w) \/ LaunchFails(w)
      PROVE  DoubledInv'
  BY <1>3 DEF Joined, BrowserOpened, NoBrowserFound, LaunchFails
<1>4. ASSUME NEW w \in Workers, NEW b \in Browsers, OpenBrowser(w, b)
      PROVE  DoubledInv'
  BY <1>4 DEF OpenBrowser
<1>5. ASSUME NEW w \in Workers, LeaveStarts(w) \/ LeaveEnds(w)
      PROVE  DoubledInv'
  BY <1>5 DEF LeaveStarts, LeaveEnds
<1>6. CASE MeetingPoll \/ RendererDropped \/ \E b \in Browsers : BrowserExits(b)
  BY <1>6 DEF MeetingPoll, RendererDropped, BrowserExits
<1>7. CASE UNCHANGED meetingVars
  BY <1>7 DEF meetingVars
<1> QED
  BY <1>1, <1>2, <1>3, <1>4, <1>5, <1>6, <1>7 DEF MeetingNext

\* Every step keeps what a leave needs, and what it promises.
LEMMA StepLeave ==
  ASSUME MeetingTypeOK, LeaveInv, [MeetingNext]_meetingVars
  PROVE  LeaveInv'
<1> USE DEF MeetingTypeOK, LeaveInv, LeftMeansOut, AtRest, Joining, Steps, Goes
<1>1. ASSUME NEW w \in Workers, JoinStarts(w) \/ LeaveStarts(w)
      PROVE  LeaveInv'
  <2>1. ~AtRest(w)'
    BY <1>1 DEF JoinStarts, LeaveStarts
  <2>2. meetingRaced' = Overlaps(w) /\ \A v \in Workers \ {w} : step'[v] = step[v]
    BY <1>1 DEF JoinStarts, LeaveStarts
  <2>3. ~meetingRaced' => \A v \in Workers \ {w} : AtRest(v)'
    BY <2>2 DEF Overlaps
  <2>4. step'[w] = "leaving" => (attending' => lost')
    BY <1>1 DEF JoinStarts, LeaveStarts
  <2>5. (running \ told \subseteq replaced \cup {browser})'
    BY <1>1 DEF JoinStarts, LeaveStarts
  <2>6. hook' = hook
    BY <1>1 DEF JoinStarts, LeaveStarts
  <2>7. attending' => attending
    BY <1>1, Zenon DEF JoinStarts, LeaveStarts
  <2>8. Joining(w)' => session' # "left"
    BY <1>1 DEF JoinStarts, LeaveStarts
  <2> QED
    BY <2>1, <2>3, <2>4, <2>5, <2>6, <2>7, <2>8
<1>2. ASSUME NEW w \in Workers, RendererAnswers(w)
      PROVE  LeaveInv'
  BY <1>2 DEF RendererAnswers
<1>3. ASSUME NEW w \in Workers, Joined(w) \/ BrowserOpened(w) \/ NoBrowserFound(w) \/ LaunchFails(w)
      PROVE  LeaveInv'
  BY <1>3 DEF Joined, BrowserOpened, NoBrowserFound, LaunchFails, Polled, Live
<1>4. ASSUME NEW w \in Workers, NEW b \in Browsers, OpenBrowser(w, b)
      PROVE  LeaveInv'
  BY <1>4 DEF OpenBrowser
<1>5. ASSUME NEW w \in Workers, LeaveEnds(w)
      PROVE  LeaveInv'
  BY <1>5 DEF LeaveEnds
<1>6. CASE MeetingPoll
  BY <1>6 DEF MeetingPoll, Polled, Live
<1>7. CASE RendererDropped \/ \E b \in Browsers : BrowserExits(b)
  BY <1>7 DEF RendererDropped, BrowserExits
<1>8. CASE UNCHANGED meetingVars
  BY <1>8 DEF meetingVars
<1> QED
  BY <1>1, <1>2, <1>3, <1>4, <1>5, <1>6, <1>7, <1>8 DEF MeetingNext

\* In every reachable state MeetingInv holds.
THEOREM MeetingKept == MeetingSpec => []MeetingInv
<1>1. MeetingInv /\ [MeetingNext]_meetingVars => MeetingInv'
  BY StepMeetingTyped, StepDoubled, StepLeave DEF MeetingInv
<1> QED
  BY InitMeeting, <1>1, PTL DEF MeetingSpec

\* The avatar is in the meeting once, unless a join doubled it.
\* meeting_join.py:58-99, 114-137.
THEOREM Once == MeetingSpec => []OneAvatar
<1>1. MeetingInv => OneAvatar
  BY DEF MeetingInv, DoubledInv, OneAvatar
<1> QED
  BY <1>1, MeetingKept, PTL

\* A leave that nothing overlapped leaves only what it could not reach.
\* meeting_join.py:101-112.
THEOREM LeavesNobody == MeetingSpec => []LeftMeansOut
<1>1. MeetingInv => LeftMeansOut
  BY DEF MeetingInv, LeaveInv
<1> QED
  BY <1>1, MeetingKept, PTL

-----------------------------------------------------------------------------
(***************************************************************************)
(* ConfigReload: what a reload leaves in force.                            *)
(***************************************************************************)

Ats == {"idle", "loaded", "compared"} \cup Parts
Reload == [at : Ats, loaded : [Keys -> Values \cup {Unset}], changed : SUBSET Keys]

ConfigTyped ==
  /\ ConfigTypeOK
  /\ uses = [part \in Parts |-> uses[part]]
  /\ reloads \in [Reloaders -> Reload]
  /\ \A w \in Reloaders : reloads[w].at # "idle" => reloads[w].loaded \in [Keys -> Values \ {Bad}]
  /\ switches \in [Reloaders -> [from : Values \cup {Unset}, old : BOOLEAN]]

\* The part is as a reload promises, or known to have been missed.
Right(part) == Applied(part) \/ part \in missed

\* Reloads that do not overlap are one at a time.  Until it has published what it
\* loaded, everything is as the last one left it; from then on a part that is not
\* as it should be is one that this reload has still to build, because it saw a
\* difference in its section, or because it always does.
AppliedInv ==
  ~overlapped =>
    /\ \A v, w \in Reloaders : reloads[v].at # "idle" /\ reloads[w].at # "idle" => v = w
    /\ (\A w \in Reloaders : reloads[w].at \notin Parts) => \A part \in Promised : Right(part)
    /\ \A w \in Reloaders :
         /\ reloads[w].at = "compared" =>
              reloads[w].changed = {k \in Keys : reloads[w].loaded[k] # config[k]}
         /\ reloads[w].at \in Parts =>
              \A part \in Promised :
                Right(part) \/ (part \in Left(reloads[w].at) /\ Due(w, part))

\* A switch that no reload has published since it looked makes its runtime from
\* the configuration in force.
SwitchInv ==
  \A w \in Reloaders :
     switches[w] # NoSwitch /\ ~switches[w].old => switches[w].from = config["affect"]

ConfigInv == ConfigTyped /\ AppliedInv /\ SwitchInv

-----------------------------------------------------------------------------
\* A part stays as it is, if nothing it was built from changes.
LEMMA AppliedKept ==
  ASSUME UNCHANGED <<uses, config, swapping>>
  PROVE  Promised' = Promised /\ \A part \in Parts : Applied(part)' <=> Applied(part)
<1>1. \A part \in Parts : Built(part, config)' = Built(part, config)
  BY DEF Built, Section
<1> QED
  BY <1>1 DEF Applied, Promised

\* What no part and no reload has noticed changes nothing.
LEMMA SameInv ==
  ASSUME AppliedInv, UNCHANGED <<uses, config, swapping, reloads, overlapped, missed>>
  PROVE  AppliedInv'
BY AppliedKept DEF AppliedInv, Promised, Right, Due

\* What is loaded is a configuration.
LEMMA LoadIs ==
  ASSUME ConfigTypeOK, NEW file \in SUBSET Keys
  PROVE  Load(defaults, file) \in [Keys -> Values]
BY DEF Load, ConfigTypeOK, Values

\* What validates has no value that validation refuses.
LEMMA ValidIs ==
  ASSUME NEW c \in [Keys -> Values], Valid(c)
  PROVE  c \in [Keys -> Values \ {Bad}]
BY DEF Valid

\* At first everything is built from what was loaded.
LEMMA InitConfig == ConfigInit => ConfigInv
<1> SUFFICES ASSUME ConfigInit PROVE ConfigInv
  OBVIOUS
<1>1. defaults \in [Keys -> Edits \ {Bad}]
  BY ConfigAssumption DEF ConfigInit
<1>2. given.env \subseteq Keys /\ given.file \subseteq Keys
  BY DEF ConfigInit, Keys
<1>3. config \in [Keys -> Values \ {Bad}]
  BY <1>1, <1>2, ConfigAssumption DEF ConfigInit, Load, Values
<1>4. \A w \in Reloaders : reloads[w] = NoReload
  BY DEF ConfigInit
<1>5. NoReload \in Reload /\ NoReload.at = "idle" /\ NoReload.changed = {}
  BY DEF NoReload, Reload, Ats
<1>6. ConfigTypeOK
  <2>0. DOMAIN uses = Parts
    BY DEF ConfigInit
  <2>1. DOMAIN uses = Parts /\ lowSpec \in BOOLEAN /\ swapping \in BOOLEAN /\ overlapped \in BOOLEAN
    <3>1. lowSpec \in BOOLEAN /\ swapping \in BOOLEAN
      BY ONLY ConfigInit DEF ConfigInit
    <3>2. overlapped \in BOOLEAN
      BY DEF ConfigInit
    <3> QED
      BY <2>0, <3>1, <3>2
  <2>2. defaults \in [Keys -> Edits]
    BY <1>1
  <2>3. switches \in [Reloaders -> [from : Values \cup {Unset}, old : BOOLEAN]] /\ missed \subseteq Parts
    BY DEF ConfigInit, NoSwitch
  <2> QED
    BY <1>2, <1>3, <1>4, <1>5, <2>1, <2>2, <2>3 DEF ConfigTypeOK
<1>7. \A part \in Parts : Applied(part)
  BY DEF ConfigInit, Applied, Built, Section, Parts
<1>8. ConfigTyped
  <2>1. switches \in [Reloaders -> [from : Values \cup {Unset}, old : BOOLEAN]]
    BY DEF ConfigInit, NoSwitch
  <2> QED
    BY <1>4, <1>5, <1>6, <2>1 DEF ConfigInit, ConfigTyped
<1>9. AppliedInv
  BY <1>4, <1>5, <1>7 DEF AppliedInv, Promised, Parts, Right
<1>10. SwitchInv
  BY DEF ConfigInit, SwitchInv
<1> QED
  BY <1>8, <1>9, <1>10 DEF ConfigInv

\* What a step does to a reload leaves it one.
LEMMA ReloadIs ==
  ASSUME ConfigTyped, NEW w \in Reloaders
  PROVE  /\ reloads[w] \in Reload
         /\ \A at \in Ats : /\ [reloads[w] EXCEPT !.at = at] \in Reload
                            /\ [reloads[w] EXCEPT !.at = at].at = at
                            /\ [reloads[w] EXCEPT !.at = at].loaded = reloads[w].loaded
                            /\ [reloads[w] EXCEPT !.at = at].changed = reloads[w].changed
         /\ NoReload \in Reload /\ NoReload.at = "idle" /\ NoReload.changed = {}
<1>1. reloads[w] \in Reload
  BY DEF ConfigTyped
<1>2. NoReload \in Reload /\ NoReload.at = "idle" /\ NoReload.changed = {}
  BY DEF NoReload, Reload, Ats
<1> QED
  BY <1>1, <1>2 DEF Reload

\* A reload goes on to another point.
LEMMA GoIs ==
  ASSUME ConfigTyped, NEW w \in Reloaders, NEW at \in Ats, Go(w, at)
  PROVE  /\ reloads' \in [Reloaders -> Reload]
         /\ \A v \in Reloaders \ {w} : reloads'[v] = reloads[v]
         /\ reloads'[w].at = at /\ reloads'[w].loaded = reloads[w].loaded
         /\ reloads'[w].changed = reloads[w].changed
<1>1. reloads' = [reloads EXCEPT ![w] = [reloads[w] EXCEPT !.at = at]]
  BY DEF Go
<1> QED
  BY <1>1, ReloadIs DEF ConfigTyped

\* Every step keeps ConfigInv.
LEMMA StepConfig ==
  ASSUME ConfigInv, [ConfigNext]_configVars
  PROVE  ConfigInv'
<1>0. ConfigTyped /\ ConfigTypeOK /\ AppliedInv /\ SwitchInv
  BY DEF ConfigInv, ConfigTyped
<1>1. ASSUME NEW k \in Keys, NEW v \in Edits, EditDefaults(k, v)
      PROVE  ConfigInv'
  <2>1. /\ defaults' \in [Keys -> Edits]
        /\ UNCHANGED <<editable, given, lowSpec, config, uses, swapping, reloads, switches, overlapped, missed>>
    BY <1>0, <1>1 DEF EditDefaults, ConfigTypeOK
  <2>2. SwitchInv'
    BY <1>0, <2>1 DEF SwitchInv
  <2> QED
    BY <1>0, <2>1, <2>2, SameInv DEF ConfigInv, ConfigTyped, ConfigTypeOK
<1>2. ASSUME NEW w \in Reloaders, LoadAgain(w)
      PROVE  ConfigInv'
  <2> DEFINE c == Load(defaults, {})
  <2>1. /\ reloads[w].at = "idle"
        /\ UNCHANGED <<defaults, editable, given, lowSpec, config, uses, swapping, switches, missed>>
        /\ overlapped' = (overlapped \/ \E v \in Reloaders \ {w} : reloads[v].at # "idle")
        /\ \/ UNCHANGED reloads
           \/ /\ Valid(c)
              /\ reloads' = [reloads EXCEPT ![w] = [NoReload EXCEPT !.at = "loaded", !.loaded = c]]
    BY <1>2 DEF LoadAgain
  <2>2. c \in [Keys -> Values] /\ (Valid(c) => c \in [Keys -> Values \ {Bad}])
    BY <1>0, LoadIs, ValidIs
  <2> HIDE DEF c
  <2>5. SwitchInv'
    BY <1>0, <2>1 DEF SwitchInv
  <2>3. CASE UNCHANGED reloads
    <3>1. AppliedInv'
      BY <1>0, <2>1, <2>3, AppliedKept DEF AppliedInv, Promised, Right, Due
    <3> QED
      BY <1>0, <2>1, <2>3, <2>5, <3>1 DEF ConfigInv, ConfigTyped, ConfigTypeOK
  <2>4. CASE reloads' = [reloads EXCEPT ![w] = [NoReload EXCEPT !.at = "loaded", !.loaded = c]] /\ Valid(c)
    <3> DEFINE new == [NoReload EXCEPT !.at = "loaded", !.loaded = c]
    <3>1. new.at = "loaded" /\ new.loaded = c /\ new.changed = {} /\ new \in Reload
      BY <2>2 DEF NoReload, Reload, Ats
    <3> HIDE DEF new
    <3>2. reloads' \in [Reloaders -> Reload] /\ reloads'[w] = new
          /\ \A v \in Reloaders \ {w} : reloads'[v] = reloads[v]
      BY <1>0, <2>4, <3>1 DEF ConfigTyped, new
    <3>3. ConfigTyped'
      BY <1>0, <2>1, <2>2, <2>4, <3>1, <3>2 DEF ConfigTyped, ConfigTypeOK
    <3>4. AppliedInv'
      <4> SUFFICES ASSUME ~overlapped, \A v \in Reloaders \ {w} : reloads[v].at = "idle"
                   PROVE  AppliedInv'
        BY <2>1 DEF AppliedInv
      <4>1. \A v \in Reloaders : reloads[v].at = "idle"
        BY <2>1
      <4>2. \A part \in Promised : Right(part)
        BY <1>0, <4>1 DEF AppliedInv, Parts
      <4>3. \A part \in Promised' : Right(part)'
        BY <2>1, <4>2, AppliedKept DEF Promised, Right
      <4>4. \A v \in Reloaders : reloads'[v].at # "idle" => v = w /\ reloads'[v].at = "loaded"
        BY <3>1, <3>2, <4>1
      <4> QED
        BY <4>3, <4>4 DEF AppliedInv, Parts
    <3> QED
      BY <2>5, <3>3, <3>4 DEF ConfigInv
  <2> QED
    BY <2>1, <2>3, <2>4
<1>3. ASSUME NEW w \in Reloaders, Compare(w)
      PROVE  ConfigInv'
  <2> DEFINE differs == {k \in Keys : reloads[w].loaded[k] # config[k]}
             new == [[reloads[w] EXCEPT !.at = "compared"] EXCEPT !.changed = differs]
  <2>1. /\ reloads[w].at = "loaded"
        /\ UNCHANGED <<defaults, editable, given, lowSpec, config, uses, swapping, switches, overlapped, missed>>
        /\ reloads' = [reloads EXCEPT ![w] = new]
    BY <1>0, <1>3 DEF Compare, ConfigTyped
  <2>2. differs \in SUBSET Keys
    OBVIOUS
  <2>3. new \in Reload /\ new.at = "compared" /\ new.loaded = reloads[w].loaded /\ new.changed = differs
    BY <1>0, <2>2, ReloadIs DEF Reload, Ats
  <2> HIDE DEF new
  <2>4. reloads' \in [Reloaders -> Reload] /\ reloads'[w] = new
        /\ \A v \in Reloaders \ {w} : reloads'[v] = reloads[v]
    BY <1>0, <2>1, <2>3 DEF ConfigTyped
  <2>5. ConfigTyped'
    BY <1>0, <2>1, <2>3, <2>4 DEF ConfigTyped, ConfigTypeOK
  <2>6. AppliedInv'
    <3>1. Promised' = Promised /\ \A part \in Promised : Right(part)' <=> Right(part)
      BY <2>1, AppliedKept DEF Promised, Right
    <3>2. overlapped' = overlapped /\ config' = config
      BY <2>1
    <3>3. reloads[w].at = "loaded" /\ reloads'[w].at = "compared" /\ reloads'[w].loaded = reloads[w].loaded
          /\ reloads'[w].changed = {k \in Keys : reloads'[w].loaded[k] # config'[k]}
      BY <2>1, <2>3, <2>4
    <3>4. \A v \in Reloaders \ {w} : reloads'[v] = reloads[v] /\ \A part : Due(v, part)' <=> Due(v, part)
      BY <2>4 DEF Due
    <3> QED
      BY <1>0, <3>1, <3>2, <3>3, <3>4 DEF AppliedInv, Parts
  <2>7. SwitchInv'
    BY <1>0, <2>1 DEF SwitchInv
  <2> QED
    BY <2>5, <2>6, <2>7 DEF ConfigInv
<1>4. ASSUME NEW w \in Reloaders, Publish(w)
      PROVE  ConfigInv'
  <2>1. /\ reloads[w].at = "compared" /\ config' = reloads[w].loaded /\ Go(w, "voice")
        /\ switches' = [v \in Reloaders |-> IF switches[v] = NoSwitch THEN NoSwitch
                                           ELSE [switches[v] EXCEPT !.old = TRUE]]
        /\ UNCHANGED <<defaults, editable, given, lowSpec, uses, swapping, overlapped, missed>>
    BY <1>4 DEF Publish
  <2>2. /\ reloads' \in [Reloaders -> Reload]
        /\ \A v \in Reloaders \ {w} : reloads'[v] = reloads[v]
        /\ reloads'[w].at = "voice" /\ reloads'[w].loaded = reloads[w].loaded
        /\ reloads'[w].changed = reloads[w].changed
    BY <1>0, <2>1, GoIs DEF Ats, Parts
  <2>5. switches' \in [Reloaders -> [from : Values \cup {Unset}, old : BOOLEAN]] /\ SwitchInv'
    <3>1. switches \in [Reloaders -> [from : Values \cup {Unset}, old : BOOLEAN]]
      BY <1>0 DEF ConfigTyped
    <3>2. NoSwitch \in [from : Values \cup {Unset}, old : BOOLEAN]
      BY DEF NoSwitch
    <3>3. \A v \in Reloaders : /\ switches'[v] \in [from : Values \cup {Unset}, old : BOOLEAN]
                               /\ switches'[v] = NoSwitch \/ switches'[v].old
      BY <2>1, <3>1, <3>2
    <3> QED
      BY <2>1, <3>3 DEF SwitchInv
  <2>3. ConfigTyped'
    <3>1. /\ defaults' \in [Keys -> Edits] /\ given'.env \subseteq Keys /\ given'.file \subseteq Keys
          /\ config' \in [Keys -> Values \ {Bad}] /\ DOMAIN uses' = Parts
          /\ lowSpec' \in BOOLEAN /\ swapping' \in BOOLEAN /\ overlapped' \in BOOLEAN /\ missed' \subseteq Parts
          /\ uses' = [q \in Parts |-> uses'[q]]
      BY <1>0, <2>1 DEF ConfigTyped, ConfigTypeOK
    <3>2. \A v \in Reloaders : /\ reloads'[v] \in Reload
                               /\ reloads'[v].at # "idle" => reloads'[v].loaded \in [Keys -> Values \ {Bad}]
      BY <1>0, <2>1, <2>2 DEF ConfigTyped
    <3> QED
      BY <2>2, <2>5, <3>1, <3>2 DEF ConfigTyped, ConfigTypeOK, Reload, Ats
  <2>4. AppliedInv'
    <3> SUFFICES ASSUME ~overlapped
                 PROVE  /\ \A u, v \in Reloaders : reloads'[u].at # "idle" /\ reloads'[v].at # "idle" => u = v
                        /\ \A part \in Promised : Right(part)' \/ part = "runtime" \/ part \in reloads[w].changed
      BY <2>1, <2>2 DEF AppliedInv, Promised, Left, Parts, Due
    <3>1. \A part \in Promised : Right(part)
      BY <1>0, <2>1 DEF AppliedInv, Parts
    <3>2. reloads[w].changed = {k \in Keys : config'[k] # config[k]}
      BY <1>0, <2>1 DEF AppliedInv
    <3>3. \A part \in Promised : part = "runtime" \/ part \in reloads[w].changed \/ Right(part)'
      BY <2>1, <3>1, <3>2 DEF Right, Applied, Promised, Built, Section, Parts, Keys
    <3> QED
      BY <1>0, <2>1, <2>2, <3>3 DEF AppliedInv, Promised, Parts
  <2> QED
    BY <2>3, <2>4, <2>5 DEF ConfigInv
<1>5. ASSUME NEW w \in Reloaders, Rebuild(w)
      PROVE  ConfigInv'
  <2>0. PICK part \in Parts : part = reloads[w].at
    BY <1>5 DEF Rebuild
  <2> DEFINE next == CASE part = "voice" -> "renderer" [] part = "renderer" -> "agent"
                       [] part = "agent" -> "runtime" [] OTHER -> "idle"
  <2>1. /\ part \in Parts /\ part = reloads[w].at
        /\ \/ uses' = [uses EXCEPT ![part] = Built(part, config)] /\ missed' = missed \ {part}
           \/ uses' = uses /\ missed' = missed /\ ~Due(w, part)
        /\ UNCHANGED <<defaults, editable, given, lowSpec, config, swapping, switches, overlapped>>
    BY <1>5, <2>0 DEF Rebuild
  <2>2. /\ reloads' \in [Reloaders -> Reload]
        /\ \A v \in Reloaders \ {w} : reloads'[v] = reloads[v]
        /\ reloads'[w].at = next
        /\ part # "runtime" => reloads'[w].loaded = reloads[w].loaded /\ reloads'[w].changed = reloads[w].changed
    <3>1. CASE part = "runtime"
      <4>1. reloads' = [reloads EXCEPT ![w] = NoReload]
        BY <1>5, <2>1, <3>1 DEF Rebuild
      <4> QED
        BY <1>0, <3>1, <4>1, ReloadIs DEF ConfigTyped
    <3>2. CASE part # "runtime"
      <4>1. Go(w, next) /\ next \in Ats
        BY <1>5, <2>1, <3>2 DEF Rebuild, Parts, Ats
      <4> QED
        BY <1>0, <3>2, <4>1, GoIs
    <3> QED
      BY <3>1, <3>2
  <2>3. /\ uses' = [q \in Parts |-> uses'[q]]
        /\ \A q \in Parts \ {part} : uses'[q] = uses[q]
        /\ uses'[part] = Built(part, config) \/ (uses'[part] = uses[part] /\ missed' = missed /\ ~Due(w, part))
        /\ missed' \subseteq missed /\ \A q \in Parts \ {part} : q \in missed' <=> q \in missed
    BY <1>0, <2>1 DEF ConfigTyped
  <2>7. SwitchInv'
    BY <1>0, <2>1 DEF SwitchInv
  <2>4. ConfigTyped'
    <3>1. DOMAIN uses' = Parts /\ uses' = [q \in Parts |-> uses'[q]]
      BY <2>3
    <3>2. \A v \in Reloaders : /\ reloads'[v] \in Reload
                               /\ reloads'[v].at # "idle" => reloads'[v].loaded \in [Keys -> Values \ {Bad}]
      BY <1>0, <2>1, <2>2 DEF ConfigTyped, Parts
    <3> QED
      BY <1>0, <2>1, <2>2, <3>1, <3>2 DEF ConfigTyped, ConfigTypeOK, Reload, Ats
  <2>5. /\ Promised' = Promised
        /\ \A q \in Parts \ {part} : Right(q)' <=> Right(q)
        /\ Right(part)' \/ (~Right(part) /\ ~Due(w, part))
    <3>1. \A q \in Parts : Built(q, config)' = Built(q, config)
      BY <2>1 DEF Built, Section
    <3> QED
      <4>1. Promised' = Promised
        BY <2>1 DEF Promised
      <4>2. \A q \in Parts \ {part} : Right(q)' <=> Right(q)
        BY <2>3, <3>1 DEF Applied, Right
      <4>3. uses'[part] = Built(part, config) => Applied(part)'
        BY <2>1, <3>1 DEF Applied
      <4>4. uses'[part] = uses[part] => (Applied(part) => Applied(part)')
        BY <2>1, <3>1 DEF Applied
      <4> QED
        BY <2>3, <4>1, <4>2, <4>3, <4>4 DEF Right
  <2>6. AppliedInv'
    <3> SUFFICES ASSUME ~overlapped
                 PROVE  /\ \A u, v \in Reloaders : reloads'[u].at # "idle" /\ reloads'[v].at # "idle" => u = v
                        /\ next = "idle" => \A q \in Promised : Right(q)'
                        /\ next # "idle" => \A q \in Promised : Right(q)' \/ (q \in Left(next) /\ Due(w, q))
      <4>1. overlapped' = overlapped /\ Promised' = Promised
        BY <2>1, <2>5
      <4>2. ~overlapped => \A v \in Reloaders : reloads[v].at # "idle" => v = w
        BY <1>0, <2>1 DEF AppliedInv, Parts
      <4>3. next \in Parts \cup {"idle"} /\ (next # "idle" => part # "runtime")
        BY <2>1 DEF Parts
      <4>4. next # "idle" => \A q : Due(w, q)' <=> Due(w, q)
        BY <2>2, <4>3 DEF Due
      <4> QED
        BY <2>2, <4>1, <4>2, <4>3, <4>4 DEF AppliedInv, Parts
    <3>1. \A q \in Promised : q \in Parts /\ (Right(q) \/ (q \in Left(part) /\ Due(w, q)))
      BY <1>0, <2>1 DEF AppliedInv, Promised
    <3>2. \A q \in Promised : Right(q)' \/ (q # part /\ q \in Left(part) /\ Due(w, q))
      BY <2>5, <3>1
    <3>3. \A q : q \in Left(part) /\ q # part => q \in Left(next)
      <4>1. Left("voice") = Parts /\ Left("renderer") = {"renderer", "agent", "runtime"}
            /\ Left("agent") = {"agent", "runtime"} /\ Left("runtime") = {"runtime"}
        BY DEF Left, Parts
      <4>2. \/ part = "voice" /\ next = "renderer"
            \/ part = "renderer" /\ next = "agent"
            \/ part = "agent" /\ next = "runtime"
            \/ part = "runtime"
        BY <2>1 DEF Parts
      <4> QED
        BY <4>1, <4>2 DEF Parts
    <3>4. next = "idle" => \A q : ~(q \in Left(part) /\ q # part)
      BY <2>1 DEF Left, Parts
    <3>5. \A u, v \in Reloaders : reloads'[u].at # "idle" /\ reloads'[v].at # "idle" => u = v
      BY <1>0, <2>1, <2>2 DEF AppliedInv, Parts
    <3> QED
      BY <3>2, <3>3, <3>4, <3>5
  <2> QED
    BY <2>4, <2>6, <2>7 DEF ConfigInv
<1>6. ASSUME NEW w \in Reloaders, RebuildFails(w)
      PROVE  ConfigInv'
  <2> DEFINE part == reloads[w].at
  <2>1. PICK made \in SUBSET ({part} \cap {"renderer"}) :
          /\ uses' = [q \in Parts |-> IF q \in made THEN Built(q, config) ELSE uses[q]]
          /\ missed' = (missed \cup {q \in Left(part) : Due(w, q)}) \ made
    BY <1>6 DEF RebuildFails
  <2>2. /\ part \in {"voice", "renderer"} /\ reloads' = [reloads EXCEPT ![w] = NoReload]
        /\ UNCHANGED <<defaults, editable, given, lowSpec, config, swapping, switches, overlapped>>
    BY <1>6 DEF RebuildFails
  <2>3. part \in Parts /\ Left(part) \subseteq Parts /\ made \subseteq Parts
    BY <2>2 DEF Left, Parts
  <2> HIDE DEF part
  <2>4. /\ reloads' \in [Reloaders -> Reload] /\ reloads'[w] = NoReload
        /\ \A v \in Reloaders \ {w} : reloads'[v] = reloads[v]
    BY <1>0, <2>2, ReloadIs DEF ConfigTyped
  <2>5. ConfigTyped'
    <3>1. DOMAIN uses' = Parts /\ uses' = [q \in Parts |-> uses'[q]] /\ missed' \subseteq Parts
      BY <1>0, <2>1, <2>3 DEF ConfigTypeOK
    <3>2. \A v \in Reloaders : /\ reloads'[v] \in Reload
                               /\ reloads'[v].at # "idle" => reloads'[v].loaded \in [Keys -> Values \ {Bad}]
      BY <1>0, <2>4, ReloadIs DEF ConfigTyped
    <3> QED
      BY <1>0, <2>2, <2>4, <3>1, <3>2 DEF ConfigTyped, ConfigTypeOK, Reload, Ats
  <2>6. Promised' = Promised
    BY <2>2 DEF Promised
  <2>7. \A q \in Parts : Built(q, config)' = Built(q, config)
    BY <2>2 DEF Built, Section
  <2>8. AppliedInv'
    <3> SUFFICES ASSUME ~overlapped PROVE AppliedInv'
      BY <2>2 DEF AppliedInv
    <3>1. \A v \in Reloaders : reloads'[v].at = "idle"
      BY <1>0, <2>2, <2>3, <2>4, ReloadIs DEF AppliedInv, Parts, part
    <3>2. \A q \in Promised : q \in Parts /\ (Right(q) \/ (q \in Left(part) /\ Due(w, q)))
      BY <1>0, <2>3 DEF AppliedInv, Promised, part
    <3>3. \A q \in Promised : Right(q)'
      <4> SUFFICES ASSUME NEW q \in Promised PROVE Right(q)'
        OBVIOUS
      <4>1. CASE q \in made
        BY <2>1, <2>7, <3>2, <4>1 DEF Right, Applied
      <4>2. CASE q \notin made
        <5>1. uses'[q] = uses[q] /\ (q \in missed \/ (q \in Left(part) /\ Due(w, q)) => q \in missed')
          BY <2>1, <3>2, <4>2
        <5>2. Applied(q) => Applied(q)'
          BY <2>7, <3>2, <5>1 DEF Applied
        <5> QED
          BY <3>2, <5>1, <5>2 DEF Right
      <4> QED
        BY <4>1, <4>2
    <3> QED
      BY <2>6, <3>1, <3>3 DEF AppliedInv, Parts
  <2>9. SwitchInv'
    BY <1>0, <2>2 DEF SwitchInv
  <2> QED
    BY <2>5, <2>8, <2>9 DEF ConfigInv
<1>7. ASSUME NEW w \in Reloaders, SwitchReads(w)
      PROVE  ConfigInv'
  <2> DEFINE new == [from |-> config["affect"], old |-> FALSE]
  <2>1. /\ switches' = [switches EXCEPT ![w] = new]
        /\ UNCHANGED <<defaults, editable, given, lowSpec, config, uses, swapping, reloads, overlapped, missed>>
    BY <1>7 DEF SwitchReads
  <2>2. new \in [from : Values \cup {Unset}, old : BOOLEAN] /\ new.from = config["affect"]
    BY <1>0 DEF ConfigTypeOK, Keys
  <2> HIDE DEF new
  <2>3. switches' \in [Reloaders -> [from : Values \cup {Unset}, old : BOOLEAN]] /\ SwitchInv'
    BY <1>0, <2>1, <2>2 DEF ConfigTyped, SwitchInv
  <2> QED
    BY <1>0, <2>1, <2>3, SameInv DEF ConfigInv, ConfigTyped, ConfigTypeOK
<1>8. ASSUME NEW w \in Reloaders, SwitchWrites(w)
      PROVE  ConfigInv'
  <2>1. /\ switches[w] # NoSwitch /\ switches' = [switches EXCEPT ![w] = NoSwitch]
        /\ uses' = [uses EXCEPT !["runtime"] = [k \in {"affect"} |-> switches[w].from]]
        /\ missed' = IF switches[w].old THEN missed \cup {"runtime"} ELSE missed \ {"runtime"}
        /\ UNCHANGED <<defaults, editable, given, lowSpec, config, swapping, reloads, overlapped>>
    BY <1>8 DEF SwitchWrites
  <2>2. switches' \in [Reloaders -> [from : Values \cup {Unset}, old : BOOLEAN]] /\ SwitchInv'
    <3>1. NoSwitch \in [from : Values \cup {Unset}, old : BOOLEAN]
      BY DEF NoSwitch
    <3> QED
      BY <1>0, <2>1, <3>1 DEF ConfigTyped, SwitchInv
  <2>3. /\ uses' = [q \in Parts |-> uses'[q]] /\ DOMAIN uses' = Parts /\ missed' \subseteq Parts
        /\ uses'["runtime"] = [k \in {"affect"} |-> switches[w].from]
        /\ \A q \in Parts \ {"runtime"} : uses'[q] = uses[q] /\ (q \in missed' <=> q \in missed)
    BY <1>0, <2>1 DEF ConfigTyped, ConfigTypeOK, Parts
  <2>4. ConfigTyped'
    BY <1>0, <2>1, <2>2, <2>3 DEF ConfigTyped, ConfigTypeOK
  <2>5. Promised' = Promised /\ \A q \in Parts : Built(q, config)' = Built(q, config)
    BY <2>1 DEF Promised, Built, Section
  <2>6. Right("runtime")'
    <3>1. CASE switches[w].old
      BY <2>1, <3>1 DEF Right
    <3>2. CASE ~switches[w].old
      <4>1. switches[w].from = config["affect"]
        BY <1>0, <2>1, <3>2 DEF SwitchInv
      <4>2. Built("runtime", config) = [k \in {"affect"} |-> config[k]]
        BY DEF Built, Section
      <4>3. uses'["runtime"] = Built("runtime", config)
        BY <2>3, <4>1, <4>2
      <4> QED
        BY <2>5, <4>3 DEF Right, Applied, Parts
    <3> QED
      BY <3>1, <3>2
  <2>7. \A q \in Parts \ {"runtime"} : Right(q)' <=> Right(q)
    BY <2>3, <2>5 DEF Right, Applied
  <2>8. \A q \in Promised : q \in Parts /\ (Right(q) => Right(q)')
    BY <2>6, <2>7 DEF Promised
  <2>9. AppliedInv'
    <3>1. \A v \in Reloaders : \A q : Due(v, q)' <=> Due(v, q)
      BY <2>1 DEF Due
    <3> QED
      BY <1>0, <2>1, <2>5, <2>8, <3>1 DEF AppliedInv
  <2> QED
    BY <2>2, <2>4, <2>9 DEF ConfigInv
<1>9. CASE UNCHANGED configVars
  <2>1. SwitchInv'
    BY <1>0, <1>9 DEF configVars, SwitchInv
  <2> QED
    BY <1>0, <1>9, <2>1, SameInv DEF configVars, ConfigInv, ConfigTyped, ConfigTypeOK
<1> QED
  BY <1>1, <1>2, <1>3, <1>4, <1>5, <1>6, <1>7, <1>8, <1>9 DEF ConfigNext

\* Reloads that do not overlap leave every part built from the configuration in
\* force, but for a face swap, an agent given by hand, and what a reload that raised
\* or a switch of character that a reload overtook has left.
\* demo_orchestrator.py, reload_config.
THEOREM Applies == ConfigSpec => [](ConfigTypeOK /\ ReloadApplies)
<1>1. ConfigInv => ConfigTypeOK /\ ReloadApplies
  BY DEF ConfigInv, ConfigTyped, AppliedInv, ReloadApplies, Right, Promised, Parts
<1> QED
  BY InitConfig, StepConfig, <1>1, PTL DEF ConfigSpec

-----------------------------------------------------------------------------
(***************************************************************************)
(* Health: the whole is as bad as the worst of its parts.                  *)
(***************************************************************************)

\* What a part may have answered, the renderer's daemon what the renderer has.
Said(c) == {"raises"} \cup
  CASE c = "renderer"       -> {"online", "offline"}
    [] c = "voice_loop"     -> {"disabled", "reachable", "degraded", "unreachable"}
    [] c = "diarization"    -> {"reachable", "degraded"}
    [] c = "protocol_agent" -> {"available", "offline_mode"}
    [] c = "faceswap"       -> {"no_health", "online", "not_enabled", "offline"}
    [] c = "livetalking_reachability" -> {"online", "offline"}
    [] OTHER                -> {"there"}

\* Those asked so far have answered, and the others not yet; each status is that
\* of the answer, and the whole is as bad as the worst of them.
HealthInv ==
  /\ asked \in 0 .. 10
  /\ heard = [c \in Components |-> heard[c]]
  /\ statuses = [c \in Components |-> statuses[c]]
  /\ \A i \in 1 .. 10 :
       IF i <= asked
       THEN /\ heard[Order[i]] \in Said(Order[i])
            /\ statuses[Order[i]] = StatusOf(heard[Order[i]])
       ELSE heard[Order[i]] = Unasked /\ statuses[Order[i]] = Unasked
  /\ asked = 10 => heard["livetalking_reachability"] \in {"raises", heard["renderer"]}
  /\ overall = IF \E i \in 1 .. asked : heard[Order[i]] \notin Fine THEN "degraded" ELSE "ok"

-----------------------------------------------------------------------------
\* The order of the questions.
LEMMA OrderIs ==
  /\ Len(Order) = 10 /\ DOMAIN Order = 1 .. 10
  /\ Order[1] = "config" /\ Order[2] = "renderer" /\ Order[3] = "voice_backend"
  /\ Order[4] = "voice_loop" /\ Order[5] = "diarization" /\ Order[6] = "protocol_agent"
  /\ Order[7] = "audit_log" /\ Order[8] = "character_catalog" /\ Order[9] = "faceswap"
  /\ Order[10] = "livetalking_reachability"
BY DEF Order

\* Each part is asked once.
LEMMA OrderOnce ==
  /\ \A i, j \in 1 .. 10 : Order[i] = Order[j] => i = j
  /\ \A i \in 1 .. 10 : Order[i] \in Components
  /\ \A c \in Components : \E i \in 1 .. 10 : c = Order[i]
<1>1. \A i, j \in 1 .. 10 : Order[i] = Order[j] => i = j
  BY OrderIs
<1> QED
  BY <1>1, OrderIs DEF Components

\* What is said is never that nobody has been asked.
LEMMA SaidIs ==
  \A i \in 1 .. 10 : /\ Unasked \notin Said(Order[i])
                     /\ \A a \in Said(Order[i]) : StatusOf(a) \in {"ok", "degraded"}
BY HealthAssumption, OrderIs DEF Said, StatusOf

\* Nobody has been asked.
LEMMA InitHealth == HealthInit => HealthInv
BY OrderIs, OrderOnce DEF HealthInit, HealthInv

\* An answer counts as the worst so far, or leaves the whole as it is.
LEMMA StepHealth ==
  ASSUME HealthInv, [HealthNext]_healthVars
  PROVE  HealthInv'
<1>1. CASE Ask
  <2> DEFINE n == asked + 1
  <2>1. PICK answer \in Answers(Order[n]) \cup {"raises"} :
          /\ asked \in 0 .. 9 /\ asked' = n
          /\ heard' = [heard EXCEPT ![Order[n]] = answer]
          /\ statuses' = [statuses EXCEPT ![Order[n]] = StatusOf(answer)]
          /\ overall' = IF StatusOf(answer) = "degraded" THEN "degraded" ELSE overall
    <3>1. asked \in 0 .. 9 /\ asked' = n
      BY <1>1, OrderIs DEF Ask, HealthInv
    <3> QED
      BY <1>1, <3>1 DEF Ask, Mark
  <2>2. n \in 1 .. 10 /\ Order[n] \in Components
    BY <2>1, OrderOnce
  <2>3. answer \in Said(Order[n]) /\ (n = 10 => answer \in {"raises", heard["renderer"]})
    BY <2>1, <2>2, OrderIs DEF Answers, Said, HealthInv
  <2>4. /\ heard' = [c \in Components |-> heard'[c]] /\ statuses' = [c \in Components |-> statuses'[c]]
        /\ heard'[Order[n]] = answer /\ statuses'[Order[n]] = StatusOf(answer)
        /\ \A i \in 1 .. 10 : i # n => /\ heard'[Order[i]] = heard[Order[i]]
                                       /\ statuses'[Order[i]] = statuses[Order[i]]
    BY <2>1, <2>2, OrderOnce DEF HealthInv
  <2>5. StatusOf(answer) = "degraded" <=> answer \notin Fine
    BY DEF StatusOf
  <2>6. \A i \in 1 .. 10 :
          IF i <= n
          THEN /\ heard'[Order[i]] \in Said(Order[i])
               /\ statuses'[Order[i]] = StatusOf(heard'[Order[i]])
          ELSE heard'[Order[i]] = Unasked /\ statuses'[Order[i]] = Unasked
    BY <2>1, <2>3, <2>4 DEF HealthInv
  <2>7. overall' = IF \E i \in 1 .. n : heard'[Order[i]] \notin Fine THEN "degraded" ELSE "ok"
    <3>1. \A i \in 1 .. n : i \in 1 .. 10 /\ (i = n \/ (i \in 1 .. asked /\ i # n))
      BY <2>1, <2>2, OrderIs DEF HealthInv
    <3>2. n \in 1 .. n /\ \A i \in 1 .. asked : i \in 1 .. n /\ i \in 1 .. 10 /\ i # n
      BY <1>1, <2>1, <2>2, OrderIs DEF Ask, HealthInv
    <3>3. (\E i \in 1 .. n : heard'[Order[i]] \notin Fine)
            <=> \/ \E i \in 1 .. asked : heard[Order[i]] \notin Fine
                \/ answer \notin Fine
      BY <2>4, <3>1, <3>2
    <3>4. overall = IF \E i \in 1 .. asked : heard[Order[i]] \notin Fine THEN "degraded" ELSE "ok"
      BY DEF HealthInv
    <3> QED
      BY <2>1, <2>5, <3>3, <3>4
  <2>8. n = 10 => heard'["livetalking_reachability"] \in {"raises", heard'["renderer"]}
    BY <2>3, <2>4, OrderIs
  <2> QED
    <3>1. asked' \in 0 .. 10 /\ asked' = n
      BY <2>1
    <3> HIDE DEF n
    <3> QED
      BY <2>4, <2>6, <2>7, <2>8, <3>1 DEF HealthInv
<1>2. CASE Return
  BY <1>2, OrderIs, OrderOnce DEF Return, HealthInv
<1>3. CASE UNCHANGED healthVars
  BY <1>3 DEF healthVars, HealthInv, Said, StatusOf
<1> QED
  BY <1>1, <1>2, <1>3 DEF HealthNext

\* A complete report is well exactly when every part has answered, and answered
\* that it works or is not wanted.  demo_server/routes.py, health.
THEOREM Exact == HealthSpec => [](HealthTypeOK /\ HealthExact)
<1>1. ASSUME HealthInv PROVE HealthTypeOK
  <2>1. \A c \in Components : /\ statuses[c] \in {"ok", "degraded", Unasked}
                              /\ heard[c] = Unasked <=> statuses[c] = Unasked
    <3> SUFFICES ASSUME NEW i \in 1 .. 10
                 PROVE  /\ statuses[Order[i]] \in {"ok", "degraded", Unasked}
                        /\ heard[Order[i]] = Unasked <=> statuses[Order[i]] = Unasked
      BY OrderOnce
    <3>1. CASE i <= asked
      <4>1. heard[Order[i]] \in Said(Order[i]) /\ statuses[Order[i]] = StatusOf(heard[Order[i]])
        BY <1>1, <3>1 DEF HealthInv
      <4> QED
        BY <4>1, SaidIs, HealthAssumption
    <3>2. CASE ~(i <= asked)
      BY <1>1, <3>2 DEF HealthInv
    <3> QED
      BY <3>1, <3>2
  <2> QED
    BY <1>1, <2>1, OrderIs DEF HealthInv, HealthTypeOK
<1>2. ASSUME HealthInv PROVE HealthExact
  <2> SUFFICES ASSUME asked = 10
               PROVE  (overall = "ok") <=>
                        /\ \A c \in Components : heard[c] # "raises"
                        /\ heard["renderer"] = "online" /\ heard["livetalking_reachability"] = "online"
                        /\ heard["voice_loop"] \in {"disabled", "reachable"}
                        /\ heard["diarization"] = "reachable" /\ heard["protocol_agent"] = "available"
                        /\ heard["faceswap"] # "offline"
    BY OrderIs DEF HealthExact
  <2>1. /\ \A i \in 1 .. 10 : heard[Order[i]] \in Said(Order[i])
        /\ overall = "ok" <=> \A i \in 1 .. 10 : heard[Order[i]] \in Fine
        /\ heard["livetalking_reachability"] \in {"raises", heard["renderer"]}
    BY <1>2 DEF HealthInv
  <2>2. \A i \in 1 .. 10 : heard[Order[i]] \in Fine => heard[Order[i]] # "raises"
    BY DEF Fine
  <2>3. (\A c \in Components : heard[c] # "raises") <=> \A i \in 1 .. 10 : heard[Order[i]] # "raises"
    BY OrderOnce
  <2>4. /\ heard["renderer"] \in {"raises", "online", "offline"}
        /\ heard["voice_loop"] \in {"raises", "disabled", "reachable", "degraded", "unreachable"}
        /\ heard["diarization"] \in {"raises", "reachable", "degraded"}
        /\ heard["protocol_agent"] \in {"raises", "available", "offline_mode"}
        /\ heard["faceswap"] \in {"raises", "no_health", "online", "not_enabled", "offline"}
        /\ heard["livetalking_reachability"] \in {"raises", "online", "offline"}
        /\ heard["config"] \in {"raises", "there"} /\ heard["voice_backend"] \in {"raises", "there"}
        /\ heard["audit_log"] \in {"raises", "there"} /\ heard["character_catalog"] \in {"raises", "there"}
    BY <2>1, OrderIs DEF Said
  <2>5. (\A i \in 1 .. 10 : heard[Order[i]] \in Fine) <=>
          /\ heard["config"] \in Fine /\ heard["renderer"] \in Fine /\ heard["voice_backend"] \in Fine
          /\ heard["voice_loop"] \in Fine /\ heard["diarization"] \in Fine
          /\ heard["protocol_agent"] \in Fine /\ heard["audit_log"] \in Fine
          /\ heard["character_catalog"] \in Fine /\ heard["faceswap"] \in Fine
          /\ heard["livetalking_reachability"] \in Fine
    BY OrderIs
  <2>6. (\A i \in 1 .. 10 : heard[Order[i]] # "raises") <=>
          /\ heard["config"] # "raises" /\ heard["renderer"] # "raises" /\ heard["voice_backend"] # "raises"
          /\ heard["voice_loop"] # "raises" /\ heard["diarization"] # "raises"
          /\ heard["protocol_agent"] # "raises" /\ heard["audit_log"] # "raises"
          /\ heard["character_catalog"] # "raises" /\ heard["faceswap"] # "raises"
          /\ heard["livetalking_reachability"] # "raises"
    BY OrderIs
  <2> QED
    BY <2>1, <2>3, <2>4, <2>5, <2>6 DEF Fine
<1> QED
  BY InitHealth, StepHealth, <1>1, <1>2, PTL DEF HealthSpec

-----------------------------------------------------------------------------
(***************************************************************************)
(* CharacterIndex: what the two lists of emotes are, position by position. *)
(***************************************************************************)

\* Any set of naturals that is not empty has a least element.
LEMMA Least ==
  ASSUME NEW T, T \subseteq Nat, T # {}
  PROVE  \E x \in T : \A y \in T : x <= y
<1> DEFINE R == {p \in Nat \X Nat : p[1] < p[2]}
<1>1. IsWellFoundedOn(R, Nat)
  <2>1. OpToRel(<, Nat) = R
    BY DEF OpToRel
  <2> QED
    BY <2>1, NatLessThanWellFounded
<1>2. \A x, y \in Nat : x > y => <<y, x>> \in R
  OBVIOUS
<1> HIDE DEF R
<1>3. PICK x \in T : \A y \in T : ~ (<<y, x>> \in R)
  BY <1>1, WFMin
<1>4. \A y \in T : x \in Nat /\ y \in Nat /\ ~(x > y)
  BY <1>2, <1>3
<1> QED
  BY <1>4

\* What holds at a, and one further wherever it holds, holds up to b.
LEMMA Upwards ==
  ASSUME NEW a \in Nat, NEW b \in Nat, NEW P, P \subseteq a .. b,
         a <= b => a \in P, \A i \in a + 1 .. b : i - 1 \in P => i \in P
  PROVE  P = a .. b
<1> DEFINE T == (a .. b) \ P
<1>1. SUFFICES ASSUME T # {} PROVE FALSE
  OBVIOUS
<1>2. T \subseteq Nat
  OBVIOUS
<1>3. PICK k \in T : \A m \in T : k <= m
  <2> HIDE DEF T
  <2> QED
    BY <1>1, <1>2, Least
<1>4. k \in a + 1 .. b /\ k - 1 \in a .. b /\ k - 1 \notin T
  BY <1>3
<1> QED
  BY <1>3, <1>4

\* Elements can be given one after another, each by its position and the last one.
Stepping(a, b, S) == [(a + 1 .. b) \X S -> S]
Chains(a, b, S, first, onward) ==
  {f \in [a .. b -> S] :
     \A i \in a .. b : f[i] = IF i = a THEN first ELSE onward[<<i, f[i - 1]>>]}

LEMMA Recursion ==
  ASSUME NEW a \in Nat, NEW b \in Nat, NEW S, NEW first \in S, NEW onward \in Stepping(a, b, S)
  PROVE  Chains(a, b, S, first, onward) # {}
<1> USE DEF Stepping
<1> SUFFICES \E f \in [a .. b -> S] :
               \A i \in a .. b : f[i] = IF i = a THEN first ELSE onward[<<i, f[i - 1]>>]
  BY DEF Chains
<1> DEFINE Given_(n, f) ==
             /\ f \in [a .. n -> S]
             /\ \A i \in a .. n : f[i] = IF i = a THEN first ELSE onward[<<i, f[i - 1]>>]
           P == {n \in a .. b : \E f : Given_(n, f)}
<1>1. CASE a <= b
  <2>1. a \in P
    <3>1. Given_(a, [i \in a .. a |-> first])
      OBVIOUS
    <3> HIDE DEF Given_
    <3> QED
      BY <1>1, <3>1
  <2>2. ASSUME NEW n \in a + 1 .. b, n - 1 \in P
        PROVE  n \in P
    <3>1. PICK f : Given_(n - 1, f)
      BY <2>2
    <3> DEFINE g == [i \in a .. n |-> IF i = n THEN onward[<<n, f[n - 1]>>] ELSE f[i]]
    <3>2. f \in [a .. n - 1 -> S] /\ f[n - 1] \in S
      BY <2>2, <3>1
    <3>3. onward[<<n, f[n - 1]>>] \in S
      BY <2>2, <3>2
    <3>4. g \in [a .. n -> S]
      BY <3>2, <3>3
    <3>5. \A i \in a .. n : g[i] = IF i = a THEN first ELSE onward[<<i, g[i - 1]>>]
      <4> SUFFICES ASSUME NEW i \in a .. n
                   PROVE  g[i] = IF i = a THEN first ELSE onward[<<i, g[i - 1]>>]
        OBVIOUS
      <4>1. CASE i = n
        <5>1. g[n] = onward[<<n, f[n - 1]>>] /\ n # a
          BY <2>2
        <5>2. n - 1 \in a .. n /\ n - 1 # n
          BY <2>2
        <5>3. g[n - 1] = f[n - 1]
          BY <5>2
        <5> HIDE DEF g
        <5> QED
          BY <4>1, <5>1, <5>3
      <4>2. CASE i # n
        <5>1. i \in a .. n - 1 /\ g[i] = f[i]
          BY <2>2, <4>2
        <5>2. i # a => i - 1 \in a .. n /\ g[i - 1] = f[i - 1]
          BY <2>2, <4>2
        <5> QED
          BY <5>1, <5>2, <3>1
      <4> QED
        BY <4>1, <4>2
    <3>6. Given_(n, g)
      BY <3>4, <3>5
    <3> HIDE DEF g, Given_
    <3> QED
      BY <2>2, <3>6
  <2>3. P = a .. b
    <3>1. P \subseteq a .. b
      OBVIOUS
    <3> HIDE DEF P
    <3> QED
      BY <2>1, <2>2, <3>1, Upwards
  <2>4. PICK f : Given_(b, f)
    BY <1>1, <2>3
  <2> QED
    BY <2>4
<1>2. CASE ~(a <= b)
  <2> DEFINE f == [i \in a .. b |-> first]
  <2>1. f \in [a .. b -> S] /\ \A i \in a .. b : FALSE
    BY <1>2
  <2> HIDE DEF f
  <2>2. \A i \in a .. b : f[i] = IF i = a THEN first ELSE onward[<<i, f[i - 1]>>]
    BY <2>1
  <2> QED
    BY <2>1, <2>2
<1> QED
  BY <1>1, <1>2

-----------------------------------------------------------------------------
\* A sequence and one more element.
LEMMA Appended ==
  ASSUME NEW s, Sequential(s), NEW x
  PROVE  /\ Sequential(Append(s, x)) /\ Len(Append(s, x)) = Len(s) + 1
         /\ Append(s, x)[Len(s) + 1] = x
         /\ \A i \in 1 .. Len(s) : Append(s, x)[i] = s[i]
<1> DEFINE S == Range(s) \cup {x}
<1>1. s \in Seq(S) /\ x \in S
  BY DEF Sequential
<1> HIDE DEF S
<1>2. /\ Append(s, x) \in Seq(S) /\ Len(Append(s, x)) = Len(s) + 1
      /\ Append(s, x)[Len(s) + 1] = x
      /\ \A i \in 1 .. Len(s) : Append(s, x)[i] = s[i]
  BY <1>1
<1>3. \A t \in Seq(S) : t \in Seq(Range(t))
  BY DEF Range
<1> QED
  BY <1>2, <1>3 DEF Sequential

\* Two sequences, one after the other.
LEMMA Concatenated ==
  ASSUME NEW s, Sequential(s), NEW t, Sequential(t)
  PROVE  /\ Sequential(s \o t) /\ Len(s \o t) = Len(s) + Len(t)
         /\ \A i \in 1 .. Len(s) : (s \o t)[i] = s[i]
         /\ \A i \in 1 .. Len(t) : (s \o t)[Len(s) + i] = t[i]
<1> DEFINE S == Range(s) \cup Range(t)
<1>1. s \in Seq(S) /\ t \in Seq(S)
  BY DEF Sequential
<1> HIDE DEF S
<1>2. /\ s \o t \in Seq(S) /\ Len(s \o t) = Len(s) + Len(t)
      /\ \A i \in 1 .. Len(s) : (s \o t)[i] = s[i]
      /\ \A i \in 1 .. Len(t) : (s \o t)[Len(s) + i] = t[i]
  BY <1>1
<1>3. \A u \in Seq(S) : u \in Seq(Range(u))
  BY DEF Range
<1> QED
  BY <1>2, <1>3 DEF Sequential

\* The first element of a sequence, and the others.
LEMMA Headed ==
  ASSUME NEW s, Sequential(s), s # <<>>
  PROVE  /\ Sequential(Tail(s)) /\ Len(Tail(s)) = Len(s) - 1 /\ Len(s) \in Nat \ {0}
         /\ \A i \in 1 .. Len(Tail(s)) : Tail(s)[i] = s[i + 1]
<1> DEFINE S == Range(s)
<1>1. s \in Seq(S)
  BY DEF Sequential
<1> HIDE DEF S
<1>2. /\ Tail(s) \in Seq(S) /\ Len(Tail(s)) = Len(s) - 1 /\ Len(s) \in Nat \ {0}
      /\ \A i \in 1 .. Len(Tail(s)) : Tail(s)[i] = s[i + 1]
  BY <1>1
<1>3. \A u \in Seq(S) : u \in Seq(Range(u))
  BY DEF Range
<1> QED
  BY <1>2, <1>3 DEF Sequential

\* The elements of the first m lists, by list and position; and a sequence of them.
Spots(lists, m) == {p \in Nat \X Nat : p[1] \in 1 .. m /\ p[2] \in 1 .. Len(lists[p[1]])}
Flat(s, lists, m) ==
  \E at \in Bijection(1 .. Len(s), Spots(lists, m)) :
     \A k \in 1 .. Len(s) : s[k] = lists[at[k][1]][at[k][2]]

\* One list more makes them all come once more.
LEMMA FlatMore ==
  ASSUME NEW S, NEW lists \in Seq(Seq(S)), NEW m \in Nat, m + 1 <= Len(lists),
         NEW s \in Seq(S), Flat(s, lists, m)
  PROVE  s \o lists[m + 1] \in Seq(S) /\ Flat(s \o lists[m + 1], lists, m + 1)
<1> DEFINE t == lists[m + 1]
           u == s \o t
<1>1. PICK at \in Bijection(1 .. Len(s), Spots(lists, m)) :
         \A k \in 1 .. Len(s) : s[k] = lists[at[k][1]][at[k][2]]
  BY DEF Flat
<1>2. t \in Seq(S) /\ Len(s) \in Nat
  OBVIOUS
<1>3. /\ u \in Seq(S) /\ Len(u) = Len(s) + Len(t) /\ Len(t) \in Nat
      /\ \A k \in 1 .. Len(u) : u[k] = IF k <= Len(s) THEN s[k] ELSE t[k - Len(s)]
  BY <1>2
<1>4. /\ at \in [1 .. Len(s) -> Spots(lists, m)]
      /\ \A k, l \in 1 .. Len(s) : at[k] = at[l] => k = l
      /\ \A p \in Spots(lists, m) : \E k \in 1 .. Len(s) : at[k] = p
  BY <1>1 DEF Bijection, Injection, Surjection, IsInjective
<1> HIDE DEF u
<1> DEFINE on == [k \in 1 .. Len(u) |-> IF k <= Len(s) THEN at[k] ELSE <<m + 1, k - Len(s)>>]
<1>5. \A p : p \in Spots(lists, m + 1) <=>
               p \in Spots(lists, m) \/ \E j \in 1 .. Len(t) : p = <<m + 1, j>>
  <2>1. ASSUME NEW p \in Spots(lists, m + 1) 
        PROVE  p \in Spots(lists, m) \/ \E j \in 1 .. Len(t) : p = <<m + 1, j>>
    BY <1>2 DEF Spots
  <2>2. ASSUME NEW j \in 1 .. Len(t) PROVE <<m + 1, j>> \in Spots(lists, m + 1)
    BY <1>2, <1>3 DEF Spots
  <2>3. Spots(lists, m) \subseteq Spots(lists, m + 1)
    BY DEF Spots
  <2> QED
    BY <2>1, <2>2, <2>3
<1>6. \A p \in Spots(lists, m) : p[1] # m + 1
  BY DEF Spots
<1>7. ASSUME NEW k \in 1 .. Len(u)
      PROVE  /\ k <= Len(s) => k \in 1 .. Len(s) /\ on[k] = at[k] /\ at[k] \in Spots(lists, m)
             /\ ~(k <= Len(s)) => k - Len(s) \in 1 .. Len(t) /\ on[k] = <<m + 1, k - Len(s)>>
  <2>1. CASE k <= Len(s)
    <3>1. k \in 1 .. Len(s) /\ on[k] = at[k]
      BY <1>2, <2>1
    <3> QED
      BY <1>4, <2>1, <3>1
  <2>2. CASE ~(k <= Len(s))
    <3>1. k - Len(s) \in 1 .. Len(t)
      BY <1>2, <1>3, <2>2
    <3> QED
      BY <2>2, <3>1
  <2> QED
    BY <2>1, <2>2
<1>8. on \in [1 .. Len(u) -> Spots(lists, m + 1)]
  <2>1. \A k \in 1 .. Len(u) : on[k] \in Spots(lists, m + 1)
    BY <1>5, <1>7
  <2> QED
    BY <2>1
<1>9. \A k, l \in 1 .. Len(u) : on[k] = on[l] => k = l
  <2> SUFFICES ASSUME NEW k \in 1 .. Len(u), NEW l \in 1 .. Len(u), on[k] = on[l]
               PROVE  k = l
    OBVIOUS
  <2> HIDE DEF on
  <2>1. CASE k <= Len(s)
    <3>1. l <= Len(s)
      <4>1. on[k][1] # m + 1
        BY <1>6, <1>7, <2>1
      <4> QED
        BY <1>7, <4>1
    <3> QED
      BY <1>4, <1>7, <2>1, <3>1
  <2>2. CASE ~(k <= Len(s))
    <3>1. ~(l <= Len(s))
      <4>1. on[k][1] = m + 1
        BY <1>7, <2>2
      <4> QED
        BY <1>6, <1>7, <4>1
    <3>2. k - Len(s) = l - Len(s)
      BY <1>7, <2>2, <3>1
    <3> QED
      BY <1>2, <3>2
  <2> QED
    BY <2>1, <2>2
<1>10. \A p \in Spots(lists, m + 1) : \E k \in 1 .. Len(u) : on[k] = p
  <2> SUFFICES ASSUME NEW p \in Spots(lists, m + 1)
               PROVE  \E k \in 1 .. Len(u) : on[k] = p
    OBVIOUS
  <2>1. CASE p \in Spots(lists, m)
    <3>1. PICK k \in 1 .. Len(s) : at[k] = p
      BY <1>4, <2>1
    <3>2. k \in 1 .. Len(u) /\ k <= Len(s)
      BY <1>2, <1>3
    <3> QED
      BY <1>7, <3>1, <3>2
  <2>2. CASE \E j \in 1 .. Len(t) : p = <<m + 1, j>>
    <3>1. PICK j \in 1 .. Len(t) : p = <<m + 1, j>>
      BY <2>2
    <3>2. Len(s) + j \in 1 .. Len(u) /\ ~(Len(s) + j <= Len(s)) /\ (Len(s) + j) - Len(s) = j
      BY <1>2, <1>3
    <3> QED
      BY <1>7, <3>1, <3>2
  <2> QED
    BY <1>5, <2>1, <2>2
<1>11. on \in Bijection(1 .. Len(u), Spots(lists, m + 1))
  <2> HIDE DEF on
  <2> QED
    BY <1>8, <1>9, <1>10 DEF Bijection, Injection, Surjection, IsInjective
<1>12. \A k \in 1 .. Len(u) : u[k] = lists[on[k][1]][on[k][2]]
  <2> SUFFICES ASSUME NEW k \in 1 .. Len(u)
               PROVE  u[k] = lists[on[k][1]][on[k][2]]
    OBVIOUS
  <2> HIDE DEF on
  <2>1. CASE k <= Len(s)
    BY <1>1, <1>3, <1>7, <2>1
  <2>2. CASE ~(k <= Len(s))
    <3>1. on[k][1] = m + 1 /\ on[k][2] = k - Len(s)
      BY <1>7, <2>2
    <3> QED
      BY <1>3, <2>2, <3>1
  <2> QED
    BY <2>1, <2>2
<1> HIDE DEF on
<1>13. Flat(u, lists, m + 1)
  BY <1>11, <1>12 DEF Flat
<1> QED
  BY <1>3, <1>13 DEF u

\* So are lists put one after the other: every element of every list, once.
LEMMA Flattened ==
  ASSUME NEW S, NEW lists \in Seq(Seq(S))
  PROVE  FlattenSeq(lists) \in Seq(S) /\ Flat(FlattenSeq(lists), lists, Len(lists))
<1> DEFINE n == Len(lists)
           Is(f) == f = [i \in 1 .. n |-> IF i = 1 THEN lists[i] ELSE f[i - 1] \o lists[i]]
           flat == CHOOSE f : Is(f)
<1>1. n \in Nat /\ \A i \in 1 .. n : lists[i] \in Seq(S)
  OBVIOUS
<1>e. <<>> \in Seq(S) /\ Flat(<<>>, lists, 0)
  <2>1. Spots(lists, 0) = {}
    BY DEF Spots
  <2>2. 1 .. Len(<<>>) = {}
    OBVIOUS
  <2>3. [i \in {} |-> 0] \in Bijection({}, {})
    BY DEF Bijection, Injection, Surjection, IsInjective
  <2>4. \E at \in Bijection(1 .. Len(<<>>), Spots(lists, 0)) : TRUE
    BY <2>1, <2>2, <2>3
  <2> QED
    BY <2>2, <2>4 DEF Flat
<1>2. CASE n = 0
  <2>1. FlattenSeq(lists) = <<>>
    BY <1>2 DEF FlattenSeq
  <2> QED
    BY <1>2, <1>e, <2>1
<1>3. CASE n # 0
  <2>1. FlattenSeq(lists) = flat[n]
    BY <1>3 DEF FlattenSeq
  <2>2. Is(flat)
    <3> DEFINE onward == [p \in (2 .. n) \X Seq(S) |-> p[2] \o lists[p[1]]]
    <3>1. onward \in Stepping(1, n, Seq(S))
      <4>1. ASSUME NEW p \in (2 .. n) \X Seq(S)
            PROVE  p[2] \o lists[p[1]] \in Seq(S)
        <5>1. p[2] \in Seq(S) /\ p[1] \in 1 .. n
          BY <1>1
        <5>2. lists[p[1]] \in Seq(S)
          BY <1>1, <5>1
        <5> HIDE DEF n
        <5> QED
          BY <5>1, <5>2
      <4> QED
        BY <4>1 DEF Stepping
    <3>2. lists[1] \in Seq(S)
      BY <1>1, <1>3
    <3>a. \A i \in 2 .. n, v \in Seq(S) : onward[<<i, v>>] = v \o lists[i]
      OBVIOUS
    <3>3. PICK f \in [1 .. n -> Seq(S)] :
            \A i \in 1 .. n : f[i] = IF i = 1 THEN lists[1] ELSE onward[<<i, f[i - 1]>>]
      <4> HIDE DEF onward, n
      <4>1. Chains(1, n, Seq(S), lists[1], onward) # {}
        BY <1>1, <3>1, <3>2, Recursion
      <4> QED
        BY <4>1 DEF Chains
    <3>4. \A i \in 1 .. n : f[i] = IF i = 1 THEN lists[i] ELSE f[i - 1] \o lists[i]
      <4> HIDE DEF onward, n
      <4>1. ASSUME NEW i \in 1 .. n, i # 1 PROVE f[i - 1] \in Seq(S) /\ i \in 2 .. n
        BY <1>1, <4>1
      <4> QED
        BY <3>3, <3>a, <4>1
    <3>5. f = [i \in 1 .. n |-> f[i]]
      OBVIOUS
    <3>6. Is(f)
      <4> HIDE DEF n
      <4> QED
        BY <3>4, <3>5
    <3> HIDE DEF Is
    <3> QED
      BY <3>6
  <2> HIDE DEF flat
  <2>3. flat[1] = lists[1] /\ \A m \in 2 .. n : flat[m] = flat[m - 1] \o lists[m]
    <3>1. 1 \in 1 .. n /\ \A m \in 2 .. n : m \in 1 .. n /\ m # 1
      BY <1>1, <1>3
    <3> HIDE DEF n
    <3> QED
      BY <2>2, <3>1
  <2> DEFINE P == {m \in 1 .. n : flat[m] \in Seq(S) /\ Flat(flat[m], lists, m)}
  <2>4. 1 \in P
    <3>1. <<>> \o lists[0 + 1] = lists[1] /\ lists[1] \in Seq(S) /\ 0 + 1 <= n /\ 0 + 1 = 1
      BY <1>1, <1>3
    <3>2. lists[1] \in Seq(S) /\ Flat(lists[1], lists, 1)
      BY <1>e, <3>1, FlatMore
    <3> HIDE DEF n
    <3> QED
      BY <1>1, <1>3, <2>3, <3>2
  <2>5. ASSUME NEW m \in 2 .. n, m - 1 \in P
        PROVE  m \in P
    <3>1. m - 1 \in Nat /\ (m - 1) + 1 = m /\ m <= n /\ m \in 1 .. n
      BY <1>1
    <3>2. flat[m - 1] \in Seq(S) /\ Flat(flat[m - 1], lists, m - 1)
      BY <2>5
    <3>3. flat[m - 1] \o lists[m] \in Seq(S) /\ Flat(flat[m - 1] \o lists[m], lists, m)
      BY <3>1, <3>2, FlatMore
    <3> HIDE DEF n
    <3> QED
      BY <2>3, <3>1, <3>3
  <2>6. P = 1 .. n
    <3>1. P \subseteq 1 .. n /\ 1 \in Nat /\ 1 + 1 = 2
      OBVIOUS
    <3> HIDE DEF P, n
    <3> QED
      BY <1>1, <2>4, <2>5, <3>1, Upwards
  <2>7. n \in P
    <3> HIDE DEF P, n
    <3> QED
      BY <1>1, <1>3, <2>6
  <2>8. flat[n] \in Seq(S) /\ Flat(flat[n], lists, n)
    <3> HIDE DEF n
    <3> QED
      BY <2>7
  <2> QED
    BY <2>1, <2>8
<1> QED
  BY <1>2, <1>3

-----------------------------------------------------------------------------
\* The files that are found: those of the folder that the profile does not name.
Fresh == {i \in folder : Files[i].kind # "other" /\ i \notin Named}
Finding == [state : States, path : DOMAIN Files]
FoundTo(s, m) ==
  /\ s \in Seq(Finding) /\ Len(s) <= m
  /\ \A k \in 1 .. Len(s) : /\ s[k].path \in Fresh /\ s[k].path <= m
                            /\ s[k].state = Files[s[k].path].state
  /\ \A k, l \in 1 .. Len(s) : s[k].path = s[l].path => k = l
  /\ \A i \in Fresh : i <= m => \E k \in 1 .. Len(s) : s[k].path = i

\* The files of the folder.
LEMMA FilesAre ==
  /\ Len(Files) \in Nat /\ DOMAIN Files = 1 .. Len(Files)
  /\ \A i \in 1 .. Len(Files) : Files[i].state \in States
  /\ folder \in Folders => folder \subseteq 1 .. Len(Files) /\ Fresh \subseteq 1 .. Len(Files)
<1>1. /\ Len(Files) \in Nat /\ DOMAIN Files = 1 .. Len(Files)
      /\ \A i \in 1 .. Len(Files) : Files[i] \in [state : States, kind : Kinds]
  <2> DEFINE R == [state : States, kind : Kinds]
  <2>1. Files \in Seq(R)
    BY IndexAssumption
  <2> HIDE DEF R
  <2>2. Len(Files) \in Nat /\ DOMAIN Files = 1 .. Len(Files) /\ \A i \in 1 .. Len(Files) : Files[i] \in R
    BY <2>1
  <2> QED
    BY <2>2 DEF R
<1>2. \A f \in [state : States, kind : Kinds] : f.state \in States
  OBVIOUS
<1> QED
  BY <1>1, <1>2, IndexAssumption DEF Fresh

\* One file more, if it is one of them.
LEMMA FoundMore ==
  ASSUME folder \in Folders, NEW m \in 1 .. Len(Files), NEW s, FoundTo(s, m - 1)
  PROVE  FoundTo(IF m \in Fresh THEN Append(s, [state |-> Files[m].state, path |-> m]) ELSE s, m)
<1>1. /\ Len(Files) \in Nat /\ DOMAIN Files = 1 .. Len(Files) /\ m \in Nat
      /\ Files[m].state \in States
  BY FilesAre
<1>2. Fresh \subseteq 1 .. Len(Files)
  BY FilesAre
<1>3. /\ s \in Seq(Finding) /\ Len(s) \in Nat /\ Len(s) <= m - 1
      /\ \A k \in 1 .. Len(s) : /\ s[k].path \in Fresh /\ s[k].path <= m - 1
                                /\ s[k].state = Files[s[k].path].state
      /\ \A k, l \in 1 .. Len(s) : s[k].path = s[l].path => k = l
      /\ \A i \in Fresh : i <= m - 1 => \E k \in 1 .. Len(s) : s[k].path = i
  BY DEF FoundTo
<1>4. CASE m \notin Fresh
  <2>1. \A i \in Fresh : i <= m => i <= m - 1
    BY <1>1, <1>2, <1>4
  <2>2. ASSUME NEW k \in 1 .. Len(s) PROVE s[k].path <= m
    <3>1. s[k].path \in 1 .. Len(Files) /\ s[k].path <= m - 1
      BY <1>2, <1>3
    <3> QED
      BY <1>1, <3>1
  <2>3. Len(s) <= m
    BY <1>1, <1>3
  <2> QED
    BY <1>3, <1>4, <2>1, <2>2, <2>3 DEF FoundTo
<1>5. CASE m \in Fresh
  <2> DEFINE x == [state |-> Files[m].state, path |-> m]
             t == Append(s, x)
  <2>1. x \in Finding /\ x.path = m /\ x.state = Files[m].state
    BY <1>1 DEF Finding
  <2>2. /\ t \in Seq(Finding) /\ Len(t) = Len(s) + 1 /\ t[Len(s) + 1] = x
        /\ \A k \in 1 .. Len(s) : t[k] = s[k]
    BY <1>3, <2>1
  <2> HIDE DEF x, t
  <2>3. \A k \in 1 .. Len(t) : k = Len(s) + 1 \/ k \in 1 .. Len(s)
    BY <1>3, <2>2
  <2>4. ASSUME NEW k \in 1 .. Len(t)
        PROVE  /\ t[k].path \in Fresh /\ t[k].path <= m
               /\ t[k].state = Files[t[k].path].state
    <3>1. CASE k = Len(s) + 1
      BY <1>1, <1>5, <2>1, <2>2, <3>1
    <3>2. CASE k \in 1 .. Len(s)
      <4>1. /\ s[k].path \in 1 .. Len(Files) /\ s[k].path \in Fresh /\ s[k].path <= m - 1
            /\ s[k].state = Files[s[k].path].state /\ t[k] = s[k]
        BY <1>2, <1>3, <2>2, <3>2
      <4> QED
        BY <1>1, <4>1
    <3> QED
      BY <2>3, <3>1, <3>2
  <2>5. ASSUME NEW k \in 1 .. Len(s) PROVE t[k].path # m
    <3>1. s[k].path \in 1 .. Len(Files) /\ s[k].path <= m - 1 /\ t[k] = s[k]
      BY <1>2, <1>3, <2>2
    <3> QED
      BY <1>1, <3>1
  <2>6. \A k, l \in 1 .. Len(t) : t[k].path = t[l].path => k = l
    BY <1>3, <2>1, <2>2, <2>3, <2>5
  <2>7. ASSUME NEW i \in Fresh, i <= m
        PROVE  \E k \in 1 .. Len(t) : t[k].path = i
    <3>1. CASE i = m
      <4>1. Len(s) + 1 \in 1 .. Len(t)
        BY <1>3, <2>2
      <4> QED
        BY <2>1, <2>2, <3>1, <4>1
    <3>2. CASE i # m
      <4>1. i <= m - 1
        BY <1>1, <1>2, <2>7, <3>2
      <4>2. PICK k \in 1 .. Len(s) : s[k].path = i
        BY <1>3, <4>1
      <4>3. k \in 1 .. Len(t)
        BY <1>3, <2>2
      <4> QED
        BY <2>2, <4>2, <4>3
    <3> QED
      BY <3>1, <3>2
  <2>8. Len(t) <= m
    BY <1>1, <1>3, <2>2
  <2>9. FoundTo(t, m)
    BY <2>2, <2>4, <2>6, <2>7, <2>8 DEF FoundTo
  <2> QED
    BY <1>5, <2>9 DEF t, x
<1> QED
  BY <1>4, <1>5

\* What is found.
LEMMA FoundIs ==
  ASSUME folder \in Folders
  PROVE  FoundTo(Found, Len(Files))
<1> DEFINE n == Len(Files)
           x(i) == [state |-> Files[i].state, path |-> i]
           Is(f) == f = [i \in 0 .. n |->
                           IF i = 0 THEN <<>>
                           ELSE IF i \in folder /\ Files[i].kind # "other" /\ i \notin Named
                           THEN Append(f[i - 1], [state |-> Files[i].state, path |-> i])
                           ELSE f[i - 1]]
           found == CHOOSE f : Is(f)
<1>1. n \in Nat /\ DOMAIN Files = 1 .. n /\ \A i \in 1 .. n : x(i) \in Finding
  BY FilesAre DEF Finding
<1>2. Found = found[n]
  BY DEF Found
<1>3. Is(found)
  <2> DEFINE onward == [p \in (1 .. n) \X Seq(Finding) |->
                        IF p[1] \in Fresh THEN Append(p[2], x(p[1])) ELSE p[2]]
  <2>1. onward \in Stepping(0, n, Seq(Finding))
    <3>1. ASSUME NEW p \in (1 .. n) \X Seq(Finding)
          PROVE  (IF p[1] \in Fresh THEN Append(p[2], x(p[1])) ELSE p[2]) \in Seq(Finding)
      <4>1. x(p[1]) \in Finding /\ p[2] \in Seq(Finding)
        BY <1>1
      <4> HIDE DEF x
      <4> QED
        BY <4>1
    <3>2. 0 + 1 = 1
      OBVIOUS
    <3> HIDE DEF x
    <3> QED
      BY <3>1, <3>2 DEF Stepping
  <2>2. <<>> \in Seq(Finding)
    OBVIOUS
  <2>3. \A i \in 1 .. n, v \in Seq(Finding) :
          onward[<<i, v>>] = IF i \in Fresh THEN Append(v, x(i)) ELSE v
    OBVIOUS
  <2>4. PICK f \in [0 .. n -> Seq(Finding)] :
          \A i \in 0 .. n : f[i] = IF i = 0 THEN <<>> ELSE onward[<<i, f[i - 1]>>]
    <3> HIDE DEF onward, n
    <3>1. Chains(0, n, Seq(Finding), <<>>, onward) # {}
      BY <1>1, <2>1, <2>2, Recursion
    <3> QED
      BY <3>1 DEF Chains
  <2>5. \A i \in 0 .. n : f[i] = IF i = 0 THEN <<>>
                                 ELSE IF i \in Fresh THEN Append(f[i - 1], x(i)) ELSE f[i - 1]
    <3> HIDE DEF onward, n, x
    <3>1. ASSUME NEW i \in 0 .. n, i # 0 PROVE f[i - 1] \in Seq(Finding) /\ i \in 1 .. n
      BY <1>1, <3>1
    <3> QED
      BY <2>3, <2>4, <3>1
  <2>6. f = [i \in 0 .. n |-> f[i]]
    OBVIOUS
  <2>7. \A i : i \in Fresh <=> i \in folder /\ Files[i].kind # "other" /\ i \notin Named
    BY DEF Fresh
  <2>8. Is(f)
    <3> HIDE DEF n, onward
    <3> QED
      BY <2>5, <2>6, <2>7
  <2> HIDE DEF Is
  <2> QED
    BY <2>8
<1> HIDE DEF found
<1>4. /\ found[0] = <<>>
      /\ \A m \in 1 .. n : found[m] = IF m \in Fresh THEN Append(found[m - 1], x(m)) ELSE found[m - 1]
  <2>1. 0 \in 0 .. n /\ \A m \in 1 .. n : m \in 0 .. n /\ m # 0
    BY <1>1
  <2> HIDE DEF n
  <2> QED
    BY <1>3, <2>1 DEF Fresh
<1> DEFINE P == {m \in 0 .. n : FoundTo(found[m], m)}
<1>5. 0 \in P
  <2>1. FoundTo(<<>>, 0)
    <3>1. Fresh \subseteq 1 .. n
      BY FilesAre
    <3> QED
      BY <1>1, <3>1 DEF FoundTo
  <2> QED
    BY <1>1, <1>4, <2>1
<1>6. ASSUME NEW m \in 1 .. n, m - 1 \in P
      PROVE  m \in P
  <2>1. FoundTo(found[m], m)
    BY <1>4, <1>6, FoundMore
  <2> QED
    BY <1>1, <2>1
<1>7. P = 0 .. n
  <2>1. P \subseteq 0 .. n /\ 0 \in Nat /\ 0 + 1 = 1
    OBVIOUS
  <2> HIDE DEF P, n
  <2> QED
    BY <1>1, <1>5, <1>6, <2>1, Upwards
<1>8. n \in P
  <2> HIDE DEF P, n
  <2> QED
    BY <1>1, <1>7
<1> QED
  BY <1>2, <1>8

-----------------------------------------------------------------------------
\* The fields an emote is indexed by are the same in both.
SameFields(e, f) ==
  \A x \in {"state", "path", "id", "priority"} :
    (x \in DOMAIN e <=> x \in DOMAIN f) /\ (x \in DOMAIN e => e[x] = f[x])

\* The entries of one emote of the profile: itself or its variants.
LEMMA MergedIs ==
  ASSUME NEW g, Sequential(g.variants)
  PROVE  /\ Sequential(Merged(g)) /\ Len(Merged(g)) \in Nat
         /\ g.variants = <<>> => Len(Merged(g)) = 1 /\ SameFields(Merged(g)[1], g.shared)
         /\ g.variants # <<>> =>
              /\ DOMAIN g.variants = 1 .. Len(Merged(g))
              /\ \A j \in 1 .. Len(Merged(g)) :
                   SameFields(Merged(g)[j], Over(g.variants[j], g.shared))
<1>1. CASE g.variants = <<>>
  <2>1. Merged(g) = <<g.shared>>
    BY <1>1 DEF Merged
  <2>2. <<g.shared>> \in Seq({g.shared}) /\ Range(<<g.shared>>) = {g.shared}
    BY DEF Range
  <2> QED
    BY <1>1, <2>1, <2>2 DEF Sequential, SameFields
<1>2. CASE g.variants # <<>>
  <2> DEFINE n == Len(g.variants)
             w(j) == [variant |-> Get(g.variants[j], "variant",
                                    Get(g.variants[j], "name", Get(g.shared, "variant", Null)))]
             m(j) == Over(w(j), Over(g.variants[j], g.shared))
  <2>1. n \in Nat /\ DOMAIN g.variants = 1 .. n
    BY DEF Sequential
  <2>2. Merged(g) = [j \in 1 .. n |-> m(j)]
    BY <1>2, <2>1 DEF Merged
  <2>3. \A j \in 1 .. n : SameFields(m(j), Over(g.variants[j], g.shared))
    <3> SUFFICES ASSUME NEW j \in 1 .. n, NEW x \in {"state", "path", "id", "priority"}
                 PROVE  LET f == Over(g.variants[j], g.shared) IN
                        (x \in DOMAIN m(j) <=> x \in DOMAIN f) /\ (x \in DOMAIN m(j) => m(j)[x] = f[x])
      BY DEF SameFields
    <3> DEFINE f == Over(g.variants[j], g.shared)
    <3>1. DOMAIN w(j) = {"variant"} /\ x # "variant"
      OBVIOUS
    <3> HIDE DEF w, f
    <3>2. m(j) = [y \in DOMAIN w(j) \cup DOMAIN f |-> IF y \in DOMAIN w(j) THEN w(j)[y] ELSE f[y]]
      BY DEF Over, f
    <3> HIDE DEF m
    <3>3. (x \in DOMAIN m(j) <=> x \in DOMAIN f) /\ (x \in DOMAIN m(j) => m(j)[x] = f[x])
      BY <3>1, <3>2
    <3> QED
      BY <3>3 DEF f
  <2> HIDE DEF m, n
  <2>4. [j \in 1 .. n |-> m(j)] \in Seq({m(j) : j \in 1 .. n}) /\ Len([j \in 1 .. n |-> m(j)]) = n
    BY <2>1
  <2>5. Range([j \in 1 .. n |-> m(j)]) = {m(j) : j \in 1 .. n}
    BY DEF Range
  <2> QED
    BY <1>2, <2>1, <2>2, <2>3, <2>4, <2>5 DEF Sequential
<1> QED
  BY <1>1, <1>2

\* The emotes of the profile are lists, and the entries of each.
LEMMA ProfileIs ==
  ASSUME profile \in Profiles
  PROVE  /\ Len(profile.emotes) \in Nat /\ DOMAIN profile.emotes = 1 .. Len(profile.emotes)
         /\ \A i \in 1 .. Len(profile.emotes) : Sequential(profile.emotes[i].variants)
<1>1. Listed(profile)
  BY IndexAssumption
<1>2. Sequential(profile.emotes)
  BY <1>1 DEF Listed
<1>3. Len(profile.emotes) \in Nat /\ DOMAIN profile.emotes = 1 .. Len(profile.emotes)
  BY <1>2 DEF Sequential
<1>4. \A i \in 1 .. Len(profile.emotes) : profile.emotes[i] \in Range(profile.emotes)
  BY <1>3 DEF Range
<1> QED
  BY <1>1, <1>3, <1>4 DEF Listed

\* Every emote the profile gives is one of the entries, and they say the same of it.
LEMMA EntriesAre ==
  ASSUME profile \in Profiles
  PROVE  /\ Sequential(Entries) /\ Len(Entries) \in Nat
         /\ \E h \in Bijection(1 .. Len(Entries), Given) :
              \A k \in 1 .. Len(Entries) : SameFields(Entries[k], h[k].says)
<1> DEFINE n == Len(profile.emotes)
           G(i) == profile.emotes[i]
           lists == [i \in DOMAIN profile.emotes |-> Merged(profile.emotes[i])]
           S == UNION {Range(Merged(G(i))) : i \in 1 .. n}
<1>1. n \in Nat /\ DOMAIN profile.emotes = 1 .. n /\ \A i \in 1 .. n : Sequential(G(i).variants)
  BY ProfileIs
<1>2. /\ lists \in Seq(Seq(S)) /\ Len(lists) = n
      /\ \A i \in 1 .. n : lists[i] = Merged(G(i))
  <2>1. \A i \in 1 .. n : Merged(G(i)) \in Seq(S)
    <3> SUFFICES ASSUME NEW i \in 1 .. n PROVE Merged(G(i)) \in Seq(S)
      OBVIOUS
    <3>1. Merged(G(i)) \in Seq(Range(Merged(G(i))))
      BY <1>1, MergedIs DEF Sequential
    <3>2. Range(Merged(G(i))) \subseteq S
      OBVIOUS
    <3> HIDE DEF S, G
    <3> QED
      BY <3>1, <3>2
  <2>2. lists = [i \in 1 .. n |-> Merged(G(i))]
    BY <1>1
  <2> HIDE DEF lists, S, n, G
  <2> QED
    BY <1>1, <2>1, <2>2
<1>3. Entries = FlattenSeq(lists)
  BY DEF Entries
<1> HIDE DEF S, lists
<1>4. Entries \in Seq(S) /\ Flat(Entries, lists, n)
  BY <1>2, <1>3, Flattened
<1>5. Sequential(Entries) /\ Len(Entries) \in Nat
  <2>1. \A u \in Seq(S) : u \in Seq(Range(u)) /\ Len(u) \in Nat
    BY DEF Range
  <2> QED
    BY <1>4, <2>1 DEF Sequential
<1>6. PICK at \in Bijection(1 .. Len(Entries), Spots(lists, n)) :
         \A k \in 1 .. Len(Entries) : Entries[k] = lists[at[k][1]][at[k][2]]
  BY <1>4 DEF Flat
<1>7. /\ at \in [1 .. Len(Entries) -> Spots(lists, n)]
      /\ \A k, l \in 1 .. Len(Entries) : at[k] = at[l] => k = l
      /\ \A p \in Spots(lists, n) : \E k \in 1 .. Len(Entries) : at[k] = p
  BY <1>6 DEF Bijection, Injection, Surjection, IsInjective
<1> DEFINE J(i) == IF G(i).variants = <<>> THEN {0} ELSE DOMAIN G(i).variants
           Says_(i, j) == IF j = 0 THEN G(i).shared ELSE Over(G(i).variants[j], G(i).shared)
           Give(i, j) == [id |-> <<i, j>>, says |-> Says_(i, j)]
           J_(p) == IF G(p[1]).variants = <<>> THEN 0 ELSE p[2]
           h == [k \in 1 .. Len(Entries) |-> Give(at[k][1], J_(at[k]))]
<1>8. \A g : g \in Given <=> \E i \in 1 .. n : \E j \in J(i) : g = Give(i, j)
  <2>1. Given = UNION {{Give(i, j) : j \in J(i)} : i \in 1 .. n}
    BY <1>1 DEF Given
  <2> HIDE DEF Give, J, n
  <2> QED
    BY <2>1
<1>9. ASSUME NEW p \in Spots(lists, n)
      PROVE  /\ p[1] \in 1 .. n /\ p[2] \in Nat /\ p = <<p[1], p[2]>> /\ J_(p) \in J(p[1])
             /\ G(p[1]).variants = <<>> => p[2] = 1
             /\ SameFields(lists[p[1]][p[2]], Says_(p[1], J_(p)))
  <2>1. p[1] \in 1 .. n /\ p[2] \in 1 .. Len(Merged(G(p[1]))) /\ p[2] \in Nat /\ p = <<p[1], p[2]>>
    BY <1>2 DEF Spots
  <2>2. Sequential(G(p[1]).variants) /\ lists[p[1]] = Merged(G(p[1]))
    BY <1>1, <1>2, <2>1
  <2> HIDE DEF G
  <2>3. CASE G(p[1]).variants = <<>>
    <3>0. Len(Merged(G(p[1]))) = 1 /\ SameFields(Merged(G(p[1]))[1], G(p[1]).shared)
      BY <2>2, <2>3, MergedIs
    <3>1. p[2] = 1 /\ SameFields(Merged(G(p[1]))[1], G(p[1]).shared)
      BY <2>1, <3>0
    <3>2. J_(p) = 0 /\ J(p[1]) = {0} /\ Says_(p[1], 0) = G(p[1]).shared
      BY <2>3
    <3> HIDE DEF J_, J, Says_
    <3> QED
      BY <2>1, <2>2, <2>3, <3>1, <3>2
  <2>4. CASE G(p[1]).variants # <<>>
    <3>1. /\ DOMAIN G(p[1]).variants = 1 .. Len(Merged(G(p[1])))
          /\ SameFields(Merged(G(p[1]))[p[2]], Over(G(p[1]).variants[p[2]], G(p[1]).shared))
      BY <2>1, <2>2, <2>4, MergedIs
    <3>2. p[2] # 0
      BY <2>1
    <3> QED
      BY <2>1, <2>2, <2>4, <3>1, <3>2
  <2> QED
    BY <2>3, <2>4
<1>10. ASSUME NEW i \in 1 .. n, NEW j \in J(i)
       PROVE  \E p \in Spots(lists, n) : p[1] = i /\ J_(p) = j
  <2>1. lists[i] = Merged(G(i)) /\ Sequential(G(i).variants)
    BY <1>1, <1>2
  <2>2. CASE G(i).variants = <<>>
    <3>1. Len(lists[i]) = 1
      BY <2>1, <2>2, MergedIs
    <3>2. <<i, 1>> \in Spots(lists, n)
      <4> HIDE DEF J, G, n
      <4>1. i \in Nat
        BY <1>1
      <4> QED
        BY <3>1, <4>1 DEF Spots
    <3> QED
      BY <2>2, <3>2
  <2>3. CASE G(i).variants # <<>>
    <3>1. j \in 1 .. Len(lists[i]) /\ Len(lists[i]) \in Nat
      BY <2>1, <2>3, MergedIs
    <3>2. <<i, j>> \in Spots(lists, n)
      <4> HIDE DEF J, G, n
      <4>1. i \in Nat /\ j \in Nat
        BY <1>1, <3>1
      <4> QED
        BY <3>1, <4>1 DEF Spots
    <3> QED
      BY <2>3, <3>2
  <2> QED
    BY <2>2, <2>3
<1>11. \A k \in 1 .. Len(Entries) : at[k] \in Spots(lists, n) /\ h[k] = Give(at[k][1], J_(at[k]))
  BY <1>7
<1>12. \A i1, i2, j1, j2 : Give(i1, j1) = Give(i2, j2) => i1 = i2 /\ j1 = j2
  OBVIOUS
<1>13. \A i, j : Give(i, j).says = Says_(i, j)
  OBVIOUS
<1> HIDE DEF h, Give, J, J_, Says_, G, n
<1>14. h \in [1 .. Len(Entries) -> Given]
  <2>1. \A k \in 1 .. Len(Entries) : h[k] \in Given
    BY <1>8, <1>9, <1>11
  <2> QED
    BY <2>1 DEF h
<1>15. \A k, l \in 1 .. Len(Entries) : h[k] = h[l] => k = l
  <2> SUFFICES ASSUME NEW k \in 1 .. Len(Entries), NEW l \in 1 .. Len(Entries), h[k] = h[l]
               PROVE  k = l
    OBVIOUS
  <2>1. at[k][1] = at[l][1] /\ J_(at[k]) = J_(at[l])
    BY <1>11, <1>12
  <2>2. at[k][2] = at[l][2]
    BY <1>9, <1>11, <2>1 DEF J_
  <2>3. at[k] = at[l]
    BY <1>9, <1>11, <2>1, <2>2
  <2> QED
    BY <1>7, <2>3
<1>16. \A g \in Given : \E k \in 1 .. Len(Entries) : h[k] = g
  <2> SUFFICES ASSUME NEW g \in Given PROVE \E k \in 1 .. Len(Entries) : h[k] = g
    OBVIOUS
  <2>0. PICK i \in 1 .. n : \E j \in J(i) : g = Give(i, j)
    BY <1>8
  <2>1. PICK j \in J(i) : g = Give(i, j)
    BY <2>0
  <2>2. PICK p \in Spots(lists, n) : p[1] = i /\ J_(p) = j
    BY <1>10
  <2>3. PICK k \in 1 .. Len(Entries) : at[k] = p
    BY <1>7
  <2> QED
    BY <1>11, <2>1, <2>2, <2>3
<1>17. h \in Bijection(1 .. Len(Entries), Given)
  BY <1>14, <1>15, <1>16 DEF Bijection, Injection, Surjection, IsInjective
<1>18. \A k \in 1 .. Len(Entries) : SameFields(Entries[k], h[k].says)
  BY <1>6, <1>9, <1>11, <1>13
<1> QED
  BY <1>5, <1>17, <1>18

-----------------------------------------------------------------------------
\* The emotes to be added, in order.
All == Found \o Entries

\* They depend on what is read alone.
LEMMA SameRead ==
  ASSUME folder' = folder, profile' = profile
  PROVE  All' = All /\ Given' = Given
<1>1. Entries' = Entries
  BY DEF Entries
<1>2. Named' = Named
  BY <1>1 DEF Named
<1>3. Found' = Found
  BY <1>2 DEF Found
<1>4. Given' = Given
  BY DEF Given
<1> QED
  BY <1>1, <1>3, <1>4 DEF All

\* Those that are found, then those the profile gives.
LEMMA AllIs ==
  ASSUME folder \in Folders, profile \in Profiles
  PROVE  /\ Sequential(All) /\ Len(All) = Len(Found) + Len(Entries)
         /\ Len(Found) \in Nat /\ Len(Entries) \in Nat
         /\ \A k \in 1 .. Len(Found) : All[k] = Found[k] /\ Found[k] \in Finding
         /\ \A k \in 1 .. Len(Entries) : All[Len(Found) + k] = Entries[k]
         /\ \A k \in 1 .. Len(All) :
              k \in 1 .. Len(Found) \/ k - Len(Found) \in 1 .. Len(Entries)
<1>1. Found \in Seq(Finding)
  BY FoundIs DEF FoundTo
<1>2. /\ Sequential(Found) /\ Len(Found) \in Nat
      /\ \A k \in 1 .. Len(Found) : Found[k] \in Finding
  <2>1. \A s \in Seq(Finding) : s \in Seq(Range(s)) /\ Len(s) \in Nat
                                /\ \A k \in 1 .. Len(s) : s[k] \in Finding
    BY DEF Range
  <2> QED
    BY <1>1, <2>1 DEF Sequential
<1>3. Sequential(Entries) /\ Len(Entries) \in Nat
  BY EntriesAre
<1>4. /\ Sequential(All) /\ Len(All) = Len(Found) + Len(Entries)
      /\ \A k \in 1 .. Len(Found) : All[k] = Found[k]
      /\ \A k \in 1 .. Len(Entries) : All[Len(Found) + k] = Entries[k]
  BY <1>2, <1>3, Concatenated DEF All
<1>5. ASSUME NEW k \in 1 .. Len(All)
      PROVE  k \in 1 .. Len(Found) \/ k - Len(Found) \in 1 .. Len(Entries)
  BY <1>2, <1>3, <1>4
<1> QED
  BY <1>2, <1>3, <1>4, <1>5

\* What a field of an emote may be.
FieldOf(x) == IF x = "state" THEN States ELSE Int

\* What the profile gives as a state or as a priority is one.
LEMMA GivenFields ==
  ASSUME profile \in Profiles, NEW g \in Given, NEW x \in {"state", "priority"}, x \in DOMAIN g.says
  PROVE  g.says[x] \in FieldOf(x)
<1> DEFINE G(i) == profile.emotes[i]
           V(i) == G(i).variants
           J(i) == IF V(i) = <<>> THEN {0} ELSE DOMAIN V(i)
           S(i, j) == IF j = 0 THEN G(i).shared ELSE Over(V(i)[j], G(i).shared)
<1>0. Given = UNION {{[id |-> <<i, j>>, says |-> S(i, j)] : j \in J(i)} : i \in DOMAIN profile.emotes}
  BY DEF Given
<1> HIDE DEF G, J, S
<1>a. PICK i \in DOMAIN profile.emotes : g \in {[id |-> <<i, j>>, says |-> S(i, j)] : j \in J(i)}
  BY <1>0
<1>1. \E j \in J(i) : g.says = S(i, j)
  BY <1>a
<1> USE DEF G
<1>2. PICK j \in (IF V(i) = <<>> THEN {0} ELSE DOMAIN V(i)) :
        g.says = IF j = 0 THEN G(i).shared ELSE Over(V(i)[j], G(i).shared)
  BY <1>1 DEF J, S
<1>3. Listed(profile)
  BY IndexAssumption
<1>4. G(i) \in Range(profile.emotes)
  BY DEF Range
<1>5. \A fields \in {G(i).shared} \cup Range(V(i)) :
         x \in DOMAIN fields => fields[x] \in FieldOf(x)
  BY <1>3, <1>4 DEF Listed, FieldOf
<1> HIDE DEF G
<1>6. CASE j = 0
  BY <1>2, <1>5, <1>6
<1>7. CASE j # 0
  <2>1. V(i)[j] \in Range(V(i))
    BY <1>2, <1>7 DEF Range
  <2>2. g.says = Over(V(i)[j], G(i).shared)
    BY <1>2, <1>7
  <2>3. \A u, v : DOMAIN Over(u, v) = DOMAIN u \cup DOMAIN v
                  /\ \A y \in DOMAIN u \cup DOMAIN v :
                       Over(u, v)[y] = IF y \in DOMAIN u THEN u[y] ELSE v[y]
    BY DEF Over
  <2>4. \A f \in {V(i)[j], G(i).shared} : x \in DOMAIN f => f[x] \in FieldOf(x)
    BY <1>5, <2>1
  <2> DEFINE u == V(i)[j]
             v == G(i).shared
  <2>a. DOMAIN g.says = DOMAIN u \cup DOMAIN v
    BY <2>2, <2>3
  <2>5. x \in DOMAIN u \cup DOMAIN v
    BY <2>a
  <2>6. g.says[x] = IF x \in DOMAIN u THEN u[x] ELSE v[x]
    BY <2>2, <2>3, <2>5
  <2> HIDE DEF V
  <2> QED
    BY <2>4, <2>5, <2>6
<1> QED
  BY <1>6, <1>7

\* So is what any of them has.
LEMMA AllFields ==
  ASSUME folder \in Folders, profile \in Profiles, NEW k \in 1 .. Len(All),
         NEW x \in {"state", "priority"}, x \in DOMAIN All[k]
  PROVE  All[k][x] \in FieldOf(x)
<1>1. CASE k \in 1 .. Len(Found)
  BY <1>1, AllIs DEF Finding, FieldOf
<1>2. CASE k - Len(Found) \in 1 .. Len(Entries)
  <2>1. Len(Found) + (k - Len(Found)) = k
    BY AllIs
  <2>2. All[k] = Entries[k - Len(Found)]
    BY <1>2, <2>1, AllIs
  <2>3. PICK h \in Bijection(1 .. Len(Entries), Given) :
          \A m \in 1 .. Len(Entries) : SameFields(Entries[m], h[m].says)
    BY EntriesAre
  <2>4. h[k - Len(Found)] \in Given
    BY <1>2, <2>3 DEF Bijection, Injection
  <2>5. SameFields(All[k], h[k - Len(Found)].says)
    BY <1>2, <2>2, <2>3
  <2> QED
    BY <2>4, <2>5, GivenFields DEF SameFields
<1> QED
  BY <1>1, <1>2, AllIs

-----------------------------------------------------------------------------
\* A number is free unless as many identifiers are used.
LEMMA Numbered ==
  ASSUME NEW U, IsFiniteSet(U), NEW s, NEW n \in Nat,
         \A m \in 1 .. n : <<s, m>> \in U
  PROVE  n <= Cardinality(U)
<1> DEFINE f == [m \in 1 .. n |-> <<s, m>>]
<1>1. f \in Injection(1 .. n, U)
  BY DEF Injection, IsInjective
<1>2. IsFiniteSet(1 .. n) /\ Cardinality(1 .. n) = n
  BY FS_Interval
<1> HIDE DEF f
<1> QED
  BY <1>1, <1>2, FS_Injection

\* The identifiers in use are no more than the emotes.
LEMMA UsedAre ==
  ASSUME Sequential(emotes)
  PROVE  /\ Len(emotes) \in Nat /\ DOMAIN emotes = 1 .. Len(emotes)
         /\ IsFiniteSet(UsedIds) /\ Cardinality(UsedIds) \in Nat
         /\ Cardinality(UsedIds) <= Len(emotes)
<1>1. Len(emotes) \in Nat /\ DOMAIN emotes = 1 .. Len(emotes)
  BY DEF Sequential
<1> DEFINE f == [i \in 1 .. Len(emotes) |-> emotes[i].id]
<1>2. f \in Surjection(1 .. Len(emotes), UsedIds)
  BY <1>1 DEF Surjection, UsedIds
<1>3. IsFiniteSet(1 .. Len(emotes)) /\ Cardinality(1 .. Len(emotes)) = Len(emotes)
  <2>1. \A n \in Nat : IsFiniteSet(1 .. n) /\ Cardinality(1 .. n) = n
    BY FS_Interval
  <2> QED
    BY <1>1, <2>1
<1> HIDE DEF f
<1>4. IsFiniteSet(UsedIds) /\ Cardinality(UsedIds) <= Len(emotes)
  BY <1>2, <1>3, FS_Surjection
<1> QED
  BY <1>1, <1>4, FS_CardinalityType

\* The number made up is free, and no more than the emotes it makes.
Numbers == \A s \in States : \A m \in 1 .. counters[s] : <<s, m>> \in UsedIds

LEMMA NumberIs ==
  ASSUME Sequential(emotes), counters \in [States -> Nat], Numbers, NEW s \in States
  PROVE  /\ NextNumber(s) \in 1 .. Len(emotes) + 1
         /\ <<s, NextNumber(s)>> \notin UsedIds
         /\ \A m \in 1 .. NextNumber(s) - 1 : <<s, m>> \in UsedIds
<1> DEFINE c == counters[s]
           K == Cardinality(UsedIds)
           T == {n \in c + 1 .. c + K + 1 : <<s, n>> \notin UsedIds}
<1>1. c \in Nat /\ K \in Nat /\ K <= Len(emotes) /\ Len(emotes) \in Nat /\ IsFiniteSet(UsedIds)
  BY UsedAre
<1>2. \A m \in 1 .. c : <<s, m>> \in UsedIds
  BY DEF Numbers
<1> HIDE DEF c, K
<1>3. T # {}
  <2> SUFFICES ASSUME T = {} PROVE FALSE
    OBVIOUS
  <2>1. \A m \in 1 .. c + K + 1 : <<s, m>> \in UsedIds
    BY <1>1, <1>2
  <2>2. c + K + 1 \in Nat /\ ~(c + K + 1 <= K)
    BY <1>1
  <2> QED
    BY <1>1, <2>1, <2>2, Numbered DEF K
<1>4. T \subseteq Nat /\ \A m \in c + 1 .. c + K + 1 : m \in T \/ <<s, m>> \in UsedIds
  BY <1>1
<1>5. NextNumber(s) = Min(T)
  BY DEF NextNumber, c, K
<1>t. \A n \in T : n \in c + 1 .. c + K + 1 /\ <<s, n>> \notin UsedIds
  OBVIOUS
<1> HIDE DEF T
<1>6. PICK x \in T : \A y \in T : x <= y
  BY <1>3, <1>4, Least
<1>7. NextNumber(s) \in T /\ \A y \in T : NextNumber(s) <= y
  BY <1>5, <1>6 DEF Min
<1> DEFINE n == NextNumber(s)
<1>8. n \in c + 1 .. c + K + 1 /\ <<s, n>> \notin UsedIds /\ n \in Nat
  BY <1>4, <1>7, <1>t
<1> HIDE DEF n
<1>9. \A m \in 1 .. n - 1 : <<s, m>> \in UsedIds
  <2> SUFFICES ASSUME NEW m \in 1 .. n - 1 PROVE <<s, m>> \in UsedIds
    OBVIOUS
  <2>1. m \in 1 .. c \/ m \in c + 1 .. c + K + 1
    BY <1>1, <1>8
  <2>2. m \notin T
    BY <1>7, <1>8, <1>4 DEF n
  <2> QED
    BY <1>2, <1>4, <2>1, <2>2
<1>10. n - 1 <= K
  <2>1. n - 1 \in Nat
    BY <1>1, <1>8
  <2> QED
    BY <1>1, <1>9, <2>1, Numbered DEF K
<1>11. n \in 1 .. Len(emotes) + 1
  BY <1>1, <1>8, <1>10
<1> QED
  BY <1>8, <1>9, <1>11 DEF n

-----------------------------------------------------------------------------
(***************************************************************************)
(* What has been added, and what is left.                                  *)
(***************************************************************************)

\* An emote is added as it is given, under an identifier that is its own or one
\* whose number is no greater than its position.
AddedAs(m, e, i) ==
  /\ {"state", "path"} \subseteq DOMAIN e
  /\ m.path = e.path /\ e.path \in folder /\ Files[e.path].kind # "other"
  /\ IF Get(e, "id", Null) = Null THEN m.id \in States \X (1 .. i) ELSE m.id = e.id

\* What is added and what is left are all of them, in their order.
Rest ==
  /\ Len(emotes) + Len(remaining) = Len(All)
  /\ Sequential(remaining)
  /\ \A i \in 1 .. Len(remaining) : remaining[i] = All[Len(emotes) + i]

IndexInv ==
  /\ folder \in Folders /\ profile \in Profiles
  /\ built \in {"new", "building", "built", "ValueError"}
  /\ Sequential(emotes) /\ counters \in [States -> Nat] /\ Numbers
  /\ IF built = "new" THEN emotes = <<>> ELSE Rest
  /\ \A i \in 1 .. Len(emotes) : AddedAs(emotes[i], All[i], i)
  /\ \A i, j \in 1 .. Len(emotes) : emotes[i].id = emotes[j].id => i = j
  /\ built = "built" => remaining = <<>>
  /\ built = "ValueError" => remaining # <<>> /\ Refused(remaining[1])

\* The empty list is one.
LEMMA Nothing == Sequential(<<>>) /\ Len(<<>>) = 0
<1>1. <<>> \in Seq({}) /\ Range(<<>>) = {}
  BY DEF Range
<1> QED
  BY <1>1 DEF Sequential

LEMMA IndexStarts == IndexInit => IndexInv
<1> SUFFICES ASSUME IndexInit PROVE IndexInv
  OBVIOUS
<1>1. folder \in Folders /\ profile \in Profiles /\ built = "new" /\ emotes = <<>>
  BY DEF IndexInit
<1>2. counters \in [States -> Nat] /\ \A s \in States : 1 .. counters[s] = {}
  BY DEF IndexInit
<1>3. Sequential(emotes) /\ 1 .. Len(emotes) = {}
  BY <1>1, Nothing
<1> QED
  BY <1>1, <1>2, <1>3 DEF IndexInv, Numbers

\* The first that is left is the next of all.
LEMMA NextIs ==
  ASSUME Sequential(emotes), Rest, remaining # <<>>, folder \in Folders, profile \in Profiles
  PROVE  /\ Len(emotes) \in Nat /\ Len(emotes) + 1 \in 1 .. Len(All)
         /\ remaining[1] = All[Len(emotes) + 1]
<1>1. Len(emotes) \in Nat /\ Len(All) \in Nat
  BY AllIs, UsedAre
<1>2. Len(remaining) \in Nat \ {0}
  BY Headed DEF Rest
<1>3. remaining[1] = All[Len(emotes) + 1]
  BY <1>2 DEF Rest
<1> QED
  BY <1>1, <1>2, <1>3 DEF Rest

\* An emote added with an identifier of its own that is not in use keeps the list so.
LEMMA AddKeeps ==
  ASSUME IndexInv, AddEmote
  PROVE  IndexInv'
<1> DEFINE n == Len(emotes)
           e == remaining[1]
           s == e.state
           made == Get(e, "id", Null) = Null
           num == NextNumber(s)
           m == [id |-> IF made THEN <<s, num>> ELSE e.id,
                 path |-> e.path, state |-> s, variant |-> Get(e, "variant", Null),
                 priority |-> Get(e, "priority", 0)]
<1>1. /\ folder \in Folders /\ profile \in Profiles
      /\ Sequential(emotes) /\ counters \in [States -> Nat] /\ Numbers
      /\ Rest /\ built = "building" /\ built' = "building"
      /\ remaining # <<>> /\ ~Refused(e)
      /\ folder' = folder /\ profile' = profile /\ remaining' = Tail(remaining)
  BY DEF IndexInv, AddEmote
<1>2. n \in Nat /\ n + 1 \in 1 .. Len(All) /\ e = All[n + 1]
  BY <1>1, NextIs
<1>3. /\ {"state", "path"} \subseteq DOMAIN e /\ e.path \in folder
      /\ Files[e.path].kind # "other" /\ Get(e, "id", Null) \notin UsedIds
  BY <1>1 DEF Refused
<1>4. s \in States
  BY <1>1, <1>2, <1>3, AllFields DEF FieldOf
<1>5. /\ num \in 1 .. n + 1 /\ <<s, num>> \notin UsedIds
      /\ \A k \in 1 .. num - 1 : <<s, k>> \in UsedIds
  BY <1>1, <1>4, NumberIs
<1>6. emotes' = Append(emotes, m) /\ counters' = IF made THEN [counters EXCEPT ![s] = num] ELSE counters
  BY DEF AddEmote
<1>7. m.path = e.path /\ m.id = IF made THEN <<s, num>> ELSE e.id
  OBVIOUS
<1>8. m.id \notin UsedIds
  BY <1>3, <1>5, <1>7 DEF Get
<1>9. All' = All
  BY <1>1, SameRead
<1>a. AddedAs(m, e, n + 1)
  BY <1>3, <1>4, <1>5, <1>7 DEF AddedAs
<1> HIDE DEF m, num, made, n
<1>10. /\ Sequential(emotes') /\ Len(emotes') = n + 1 /\ emotes'[n + 1] = m
       /\ \A i \in 1 .. n : emotes'[i] = emotes[i]
  BY <1>1, <1>6, Appended DEF n
<1>11. \A i \in 1 .. Len(emotes') : i = n + 1 \/ i \in 1 .. n
  BY <1>2, <1>10
<1>12. DOMAIN emotes' = 1 .. n + 1 /\ DOMAIN emotes = 1 .. n
  BY <1>1, <1>10 DEF Sequential, n
<1>13. UsedIds' = UsedIds \cup {m.id}
  <2>1. UsedIds' = {emotes'[i].id : i \in 1 .. n + 1} /\ UsedIds = {emotes[i].id : i \in 1 .. n}
    BY <1>12 DEF UsedIds
  <2>2. \A i \in 1 .. n : i \in 1 .. n + 1
    BY <1>2
  <2>3. n + 1 \in 1 .. n + 1
    BY <1>2
  <2> QED
    BY <1>10, <1>11, <2>1, <2>2, <2>3
<1>14. counters' \in [States -> Nat]
  <2>1. num \in Nat
    BY <1>2, <1>5
  <2>2. [counters EXCEPT ![s] = num] \in [States -> Nat]
    BY <1>1, <2>1
  <2> QED
    BY <1>1, <1>6, <2>2
<1>15. Numbers'
  <2> SUFFICES ASSUME NEW t \in States, NEW k \in 1 .. counters'[t]
               PROVE  <<t, k>> \in UsedIds'
    BY DEF Numbers
  <2>1. CASE made /\ t = s
    <3>1. k \in 1 .. num
      BY <1>1, <1>6, <2>1
    <3>2. k = num \/ k \in 1 .. num - 1
      BY <1>5, <3>1
    <3> QED
      BY <1>5, <1>7, <1>13, <2>1, <3>2 DEF made, num
  <2>2. CASE ~(made /\ t = s)
    <3>1. k \in 1 .. counters[t]
      BY <1>1, <1>6, <2>2
    <3> QED
      BY <1>1, <1>13, <3>1 DEF Numbers
  <2> QED
    BY <2>1, <2>2
<1>16. Rest'
  <2>1. /\ Sequential(Tail(remaining)) /\ Len(Tail(remaining)) = Len(remaining) - 1
        /\ Len(remaining) \in Nat
        /\ \A i \in 1 .. Len(Tail(remaining)) : Tail(remaining)[i] = remaining[i + 1]
    BY <1>1, Headed DEF Rest
  <2>2. ASSUME NEW i \in 1 .. Len(Tail(remaining))
        PROVE  Tail(remaining)[i] = All[n + 1 + i]
    <3>1. i + 1 \in 1 .. Len(remaining) /\ n + (i + 1) = n + 1 + i
      BY <1>2, <2>1
    <3> QED
      BY <1>1, <2>1, <3>1 DEF Rest, n
  <2>3. n + 1 + Len(Tail(remaining)) = Len(All)
    BY <1>1, <1>2, <2>1 DEF Rest, n
  <2> QED
    BY <1>1, <1>9, <1>10, <2>1, <2>2, <2>3 DEF Rest
<1>17. ASSUME NEW i \in 1 .. n PROVE AddedAs(emotes[i], All[i], i)
  BY DEF IndexInv, n
<1>18. \A i \in 1 .. Len(emotes') : AddedAs(emotes'[i], All[i], i)
  BY <1>2, <1>10, <1>11, <1>17, <1>a
<1>19. (\A i \in 1 .. Len(emotes) : AddedAs(emotes[i], All[i], i))'
  BY <1>1, <1>9, <1>18 DEF AddedAs
<1>20. \A i \in 1 .. n : emotes[i].id # m.id
  BY <1>8, <1>12 DEF UsedIds
<1>21. \A i, j \in 1 .. Len(emotes') : emotes'[i].id = emotes'[j].id => i = j
  <2>1. \A i, j \in 1 .. n : emotes[i].id = emotes[j].id => i = j
    BY DEF IndexInv, n
  <2> QED
    BY <1>10, <1>11, <1>20, <2>1
<1> QED
  BY <1>1, <1>9, <1>10, <1>14, <1>15, <1>16, <1>19, <1>21 DEF IndexInv

LEMMA IndexStep == IndexInv /\ [IndexNext]_indexVars => IndexInv'
<1> SUFFICES ASSUME IndexInv, [IndexNext]_indexVars PROVE IndexInv'
  OBVIOUS
<1> USE DEF IndexInv
<1>1. CASE Begin
  <2>1. /\ folder' = folder /\ profile' = profile /\ emotes' = emotes /\ counters' = counters
        /\ remaining' = All /\ emotes = <<>> /\ built' = "building"
    BY <1>1 DEF Begin, All
  <2>2. All' = All
    BY <2>1, SameRead
  <2>3. UsedIds' = UsedIds
    BY <2>1 DEF UsedIds
  <2>4. Rest'
    <3>1. Len(emotes) = 0
      BY <2>1, Nothing
    <3>2. Sequential(All) /\ Len(All) \in Nat
      BY AllIs
    <3>3. \A i \in 1 .. Len(All) : 0 + i = i
      BY <3>2
    <3> QED
      BY <2>1, <2>2, <3>1, <3>2, <3>3 DEF Rest
  <2>5. 1 .. Len(emotes) = {}
    BY <2>1, Nothing
  <2> QED
    BY <2>1, <2>3, <2>4, <2>5 DEF Numbers
<1>2. CASE AddEmote
  BY <1>2, AddKeeps
<1>3. ASSUME folder' = folder, profile' = profile, emotes' = emotes, counters' = counters,
             remaining' = remaining
      PROVE  /\ All' = All /\ UsedIds' = UsedIds /\ Numbers' /\ (Rest => Rest')
             /\ (\A i \in 1 .. Len(emotes) : AddedAs(emotes[i], All[i], i))'
             /\ \A e : Refused(e)' = Refused(e)
  <2>1. All' = All
    BY <1>3, SameRead
  <2>2. UsedIds' = UsedIds
    BY <1>3 DEF UsedIds
  <2>3. Rest => Rest'
    BY <1>3, <2>1 DEF Rest
  <2>4. (\A i \in 1 .. Len(emotes) : AddedAs(emotes[i], All[i], i))'
    BY <1>3, <2>1 DEF AddedAs
  <2> QED
    BY <1>3, <2>1, <2>2, <2>3, <2>4 DEF Numbers, Refused
<1>4. CASE RefuseEmote
  <2>1. /\ folder' = folder /\ profile' = profile /\ emotes' = emotes /\ counters' = counters
        /\ remaining' = remaining /\ built = "building" /\ built' = "ValueError"
        /\ remaining # <<>> /\ Refused(remaining[1])
    BY <1>4 DEF RefuseEmote
  <2> QED
    BY <1>3, <2>1
<1>5. CASE Finish
  <2>1. /\ folder' = folder /\ profile' = profile /\ emotes' = emotes /\ counters' = counters
        /\ remaining' = remaining /\ built = "building" /\ built' = "built" /\ remaining = <<>>
    BY <1>5 DEF Finish
  <2> QED
    BY <1>3, <2>1
<1>6. CASE UNCHANGED indexVars
  <2>1. /\ folder' = folder /\ profile' = profile /\ emotes' = emotes /\ counters' = counters
        /\ remaining' = remaining /\ built' = built
    BY <1>6 DEF indexVars
  <2> QED
    BY <1>3, <2>1
<1> QED
  BY <1>1, <1>2, <1>4, <1>5, <1>6 DEF IndexNext

-----------------------------------------------------------------------------
LEMMA Interval == \A n \in Nat : IsFiniteSet(1 .. n) /\ Cardinality(1 .. n) = n
  BY FS_Interval

\* A set of emotes that is the image, one to one, of some positions has as many.
LEMMA AsMany ==
  ASSUME NEW n \in Nat, NEW P, P \subseteq 1 .. n, NEW T, NEW f \in Bijection(P, T)
  PROVE  IsFiniteSet(P) /\ IsFiniteSet(T) /\ Cardinality(P) = Cardinality(T)
<1>1. IsFiniteSet(P)
  BY Interval, FS_Subset
<1> QED
  BY <1>1, FS_Bijection, Fun_ExistsBij DEF ExistsBijection

\* What an emote added from the profile says of its fields.
LEMMA SaysIs ==
  ASSUME NEW e, NEW g, SameFields(e, g.says)
  PROVE  /\ \A x \in {"state", "path", "id"} :
              Says(g, x) = Get(e, x, Null)
         /\ \A x \in {"state", "path", "id"} : x \in DOMAIN e => Get(e, x, Null) = e[x]
         /\ \A x \in {"state", "path", "id"} : x \notin DOMAIN e => Get(e, x, Null) = Null
  BY DEF SameFields, Says, Get

\* When all are added, each file has the emotes that the profile gives it, or one.
LEMMA Every ==
  ASSUME IndexInv, remaining = <<>>, Rest, NEW file \in folder
  PROVE  LET many == Cardinality({g \in Given : Says(g, "path") = file}) IN
         Cardinality({i \in DOMAIN emotes : emotes[i].path = file})
           = IF many > 0 THEN many ELSE IF Files[file].kind = "other" THEN 0 ELSE 1
<1> DEFINE n == Len(Found)
           m == Len(Entries)
           P == {k \in 1 .. m : emotes[n + k].path = file}
           T == {g \in Given : Says(g, "path") = file}
           Q == {i \in DOMAIN emotes : emotes[i].path = file}
<1> SUFFICES Cardinality(Q) = IF Cardinality(T) > 0 THEN Cardinality(T)
                              ELSE IF Files[file].kind = "other" THEN 0 ELSE 1
  OBVIOUS
<1>1. /\ folder \in Folders /\ profile \in Profiles /\ Sequential(emotes)
      /\ Len(emotes) = Len(All) /\ DOMAIN emotes = 1 .. Len(All)
      /\ \A i \in 1 .. Len(All) : AddedAs(emotes[i], All[i], i)
  BY Nothing, UsedAre, AllIs DEF IndexInv, Rest
<1>2. /\ n \in Nat /\ m \in Nat /\ Len(All) = n + m
      /\ \A k \in 1 .. n : All[k] = Found[k] /\ k \in 1 .. Len(All)
      /\ \A k \in 1 .. m : All[n + k] = Entries[k] /\ n + k \in 1 .. Len(All)
      /\ \A k \in 1 .. Len(All) : k \in 1 .. n \/ k - n \in 1 .. m
  <2>1. \A k \in 1 .. m : n + k \in 1 .. n + m
    BY <1>1, AllIs
  <2>2. \A k \in 1 .. n : k \in 1 .. n + m
    BY <1>1, AllIs
  <2> QED
    BY <1>1, <2>1, <2>2, AllIs
<1>3. PICK h \in Bijection(1 .. m, Given) :
        \A k \in 1 .. m : SameFields(Entries[k], h[k].says)
  BY <1>1, EntriesAre
<1>4. /\ h \in [1 .. m -> Given]
      /\ \A k, l \in 1 .. m : h[k] = h[l] => k = l
      /\ \A g \in Given : \E k \in 1 .. m : h[k] = g
  BY <1>3 DEF Bijection, Injection, Surjection, IsInjective
<1>5. /\ FoundTo(Found, Len(Files)) /\ file \in 1 .. Len(Files) /\ file # Null
      /\ \A i \in Fresh : i \in 1 .. Len(Files) /\ i <= Len(Files)
  BY <1>1, FoundIs, FilesAre, IndexAssumption
<1>6. \A k \in 1 .. m : Says(h[k], "path") = emotes[n + k].path
  BY <1>1, <1>2, <1>3, SaysIs DEF AddedAs
<1>7. \A k \in 1 .. n : emotes[k].path = Found[k].path /\ Found[k].path \in Fresh
  BY <1>1, <1>2, <1>5 DEF AddedAs, FoundTo
<1>8. \A k \in 1 .. m : emotes[n + k].path \in Named
  <2>1. \A k \in 1 .. m : "path" \in DOMAIN Entries[k] /\ emotes[n + k].path = Entries[k].path
    BY <1>1, <1>2 DEF AddedAs
  <2>2. DOMAIN Entries = 1 .. m
    BY <1>1, EntriesAre DEF Sequential
  <2> QED
    BY <2>1, <2>2 DEF Named
<1>9. \A i \in DOMAIN emotes : Files[emotes[i].path].kind # "other"
  BY <1>1 DEF AddedAs
<1> DEFINE f == [k \in P |-> h[k]]
           q == [k \in P |-> n + k]
<1>10. f \in Bijection(P, T)
  <2>1. \A k \in P : k \in 1 .. m /\ h[k] \in T
    BY <1>4, <1>6
  <2>2. \A g \in T : \E k \in P : h[k] = g
    BY <1>4, <1>6
  <2> HIDE DEF P, T
  <2> QED
    BY <1>4, <2>1, <2>2 DEF Bijection, Injection, Surjection, IsInjective
<1>11. IsFiniteSet(P) /\ IsFiniteSet(T) /\ Cardinality(P) = Cardinality(T)
  <2>1. P \subseteq 1 .. m
    OBVIOUS
  <2> HIDE DEF P, T, f
  <2> QED
    BY <1>2, <1>10, <2>1, AsMany
<1>12. CASE T # {}
  <2>1. file \in Named
    <3>1. PICK g \in Given : Says(g, "path") = file
      BY <1>12
    <3>2. PICK k \in 1 .. m : h[k] = g
      BY <1>4
    <3> QED
      BY <1>6, <1>8, <3>1, <3>2
  <2>2. \A k \in 1 .. n : emotes[k].path # file
    BY <1>7, <2>1 DEF Fresh
  <2>3. q \in Bijection(P, Q)
    <3>1. \A k \in P : k \in 1 .. m /\ n + k \in Q
      BY <1>1, <1>2
    <3>2. ASSUME NEW i \in Q PROVE \E k \in P : n + k = i
      <4>1. i \in 1 .. Len(All) /\ emotes[i].path = file
        BY <1>1
      <4>2. i - n \in 1 .. m /\ n + (i - n) = i
        BY <1>2, <2>2, <4>1
      <4> QED
        BY <4>1, <4>2
    <3>3. \A k, l \in 1 .. m : n + k = n + l => k = l
      BY <1>2
    <3> HIDE DEF P, Q
    <3> QED
      BY <3>1, <3>2, <3>3 DEF Bijection, Injection, Surjection, IsInjective
  <2>4. Cardinality(P) = Cardinality(Q)
    <3>1. P \subseteq 1 .. m
      OBVIOUS
    <3> HIDE DEF P, Q, q
    <3> QED
      BY <1>2, <2>3, <3>1, AsMany
  <2>5. Cardinality(T) > 0
    <3> HIDE DEF T
    <3>1. Cardinality(T) \in Nat /\ Cardinality(T) # 0
      BY <1>11, <1>12, FS_CardinalityType, FS_EmptySet
    <3> QED
      BY <3>1
  <2> QED
    BY <1>11, <2>4, <2>5
<1>13. CASE T = {}
  <2>1. Cardinality(T) = 0
    BY <1>13, FS_EmptySet
  <2>2. \A k \in 1 .. m : emotes[n + k].path # file
    BY <1>4, <1>6, <1>13
  <2>3. CASE Files[file].kind = "other"
    <3>1. Q = {}
      BY <1>9, <2>3
    <3> QED
      BY <2>1, <2>3, <3>1, FS_EmptySet
  <2>4. CASE Files[file].kind # "other"
    <3>1. file \notin Named
      <4> SUFFICES ASSUME file \in Named PROVE FALSE
        OBVIOUS
      <4>1. DOMAIN Entries = 1 .. m
        BY <1>1, EntriesAre DEF Sequential
      <4>2. PICK k \in 1 .. m : Entries[k].path = file
        BY <4>1 DEF Named
      <4> QED
        BY <1>1, <1>2, <2>2, <4>2 DEF AddedAs
    <3>2. file \in Fresh
      BY <2>4, <3>1 DEF Fresh
    <3>3. PICK k \in 1 .. n : Found[k].path = file
      BY <1>5, <3>2 DEF FoundTo
    <3>4. k \in Q
      BY <1>1, <1>2, <1>7, <3>3
    <3>5. ASSUME NEW i \in Q PROVE i = k
      <4>1. i \in 1 .. Len(All) /\ emotes[i].path = file
        BY <1>1
      <4>2. i \in 1 .. n
        <5>1. i \in 1 .. n \/ (i - n \in 1 .. m /\ n + (i - n) = i)
          BY <1>2, <4>1
        <5> QED
          BY <2>2, <4>1, <5>1
      <4> QED
        BY <1>5, <1>7, <3>3, <4>1, <4>2 DEF FoundTo
    <3>6. Q = {k}
      <4> HIDE DEF Q
      <4> QED
        BY <3>4, <3>5
    <3>7. Cardinality(Q) = 1
      BY <3>6, FS_Singleton
    <3> HIDE DEF Q, T
    <3> QED
      BY <2>1, <2>4, <3>7
  <2> QED
    BY <2>3, <2>4
<1> QED
  BY <1>12, <1>13

\* An emote is refused for what the profile says.
LEMMA Refusal ==
  ASSUME IndexInv, Rest, remaining # <<>>, Refused(remaining[1])
  PROVE  Cause
<1> DEFINE n == Len(Found)
           m == Len(Entries)
           k == Len(emotes) + 1
           e == remaining[1]
<1>1. /\ folder \in Folders /\ profile \in Profiles /\ Sequential(emotes)
      /\ \A i \in 1 .. Len(emotes) : AddedAs(emotes[i], All[i], i)
  BY DEF IndexInv
<1>2. Len(emotes) \in Nat /\ k \in 1 .. Len(All) /\ e = All[k]
  BY <1>1, NextIs
<1>3. /\ n \in Nat /\ m \in Nat /\ Len(All) = n + m
      /\ \A i \in 1 .. n : All[i] = Found[i]
      /\ \A i \in 1 .. m : All[n + i] = Entries[i]
      /\ \A i \in 1 .. Len(All) : i \in 1 .. n \/ i - n \in 1 .. m
  BY <1>1, AllIs
<1>4. /\ FoundTo(Found, Len(Files)) /\ n <= Len(Files) /\ Len(Files) \in Nat
  BY <1>1, FoundIs, FilesAre DEF FoundTo
<1>5. PICK h \in Bijection(1 .. m, Given) :
        \A i \in 1 .. m : SameFields(Entries[i], h[i].says)
  BY <1>1, EntriesAre
<1>6. h \in [1 .. m -> Given] /\ \A i, j \in 1 .. m : h[i] = h[j] => i = j
  BY <1>5 DEF Bijection, Injection, IsInjective
<1>7. m = Cardinality(Given)
  <2>1. Cardinality(1 .. m) = m
    BY <1>3, Interval
  <2>2. 1 .. m \subseteq 1 .. m
    OBVIOUS
  <2> HIDE DEF m
  <2> QED
    BY <1>3, <1>5, <2>1, <2>2, AsMany
<1>8. Null \notin UsedIds
  <2> SUFFICES ASSUME NEW i \in 1 .. Len(emotes) PROVE emotes[i].id # Null
    BY <1>1, UsedAre DEF UsedIds
  <2>1. \A j \in Nat : \A x \in States \X (1 .. j) : x # Null
    BY IndexAssumption
  <2>2. i \in Nat
    BY <1>2
  <2>3. CASE Get(All[i], "id", Null) = Null
    BY <1>1, <2>1, <2>2, <2>3 DEF AddedAs
  <2>4. CASE Get(All[i], "id", Null) # Null
    BY <1>1, <2>4 DEF AddedAs, Get
  <2> QED
    BY <2>3, <2>4
<1>9. \A i \in 1 .. n :
        /\ DOMAIN Found[i] = {"state", "path"}
        /\ Found[i].path \in folder /\ Files[Found[i].path].kind # "other"
        /\ Get(All[i], "id", Null) = Null
  <2> SUFFICES ASSUME NEW i \in 1 .. n
               PROVE  /\ DOMAIN Found[i] = {"state", "path"}
                      /\ Found[i].path \in folder /\ Files[Found[i].path].kind # "other"
                      /\ Get(All[i], "id", Null) = Null
    OBVIOUS
  <2>1. Found[i] \in Finding
    BY <1>1, AllIs
  <2>2. DOMAIN Found[i] = {"state", "path"}
    BY <2>1 DEF Finding
  <2>3. Found[i].path \in Fresh
    BY <1>4 DEF FoundTo
  <2> QED
    BY <1>3, <2>2, <2>3 DEF Fresh, Get
<1>10. ~(k \in 1 .. n)
  BY <1>2, <1>3, <1>8, <1>9 DEF Refused
<1> DEFINE j == k - n
           g == h[j]
<1>11. j \in 1 .. m /\ n + j = k
  BY <1>2, <1>3, <1>10
<1>12. g \in Given /\ SameFields(e, g.says)
  BY <1>2, <1>3, <1>5, <1>6, <1>11
<1>13. \A x \in {"state", "path", "id"} :
         /\ Says(g, x) = Get(e, x, Null)
         /\ x \in DOMAIN e => Get(e, x, Null) = e[x]
         /\ x \notin DOMAIN e => Get(e, x, Null) = Null
  BY <1>12, SaysIs
<1> HIDE DEF g, e
<1>14. CASE "state" \notin DOMAIN e
  BY <1>12, <1>13, <1>14 DEF Cause
<1>15. CASE "path" \notin DOMAIN e
  <2>1. Null \notin folder
    BY <1>1, IndexAssumption
  <2> QED
    BY <1>12, <1>13, <1>15, <2>1 DEF Cause
<1>16. CASE {"state", "path"} \subseteq DOMAIN e
  <2>1. CASE e.path \notin folder \/ Files[e.path].kind = "other"
    BY <1>12, <1>13, <1>16, <2>1 DEF Cause
  <2>2. CASE Get(e, "id", Null) \in UsedIds
    <3>1. Says(g, "id") \in UsedIds /\ Says(g, "id") # Null
      BY <1>8, <1>13, <2>2
    <3>2. PICK i \in 1 .. Len(emotes) : emotes[i].id = Says(g, "id")
      BY <1>1, <3>1, UsedAre DEF UsedIds
    <3>3. i \in 1 .. Len(All) /\ i < k /\ i <= n + m
      BY <1>2, <1>3
    <3>4. CASE Get(All[i], "id", Null) = Null
      <4>1. Says(g, "id") \in States \X (1 .. i)
        BY <1>1, <3>2, <3>4 DEF AddedAs
      <4>2. 1 .. i \subseteq 1 .. Len(Files) + Cardinality(Given)
        <5> HIDE DEF n, m, k
        <5> QED
          BY <1>2, <1>3, <1>4, <1>7, <3>3
      <4> QED
        BY <1>12, <4>1, <4>2 DEF Cause
    <3>5. CASE Get(All[i], "id", Null) # Null
      <4>1. i - n \in 1 .. m /\ n + (i - n) = i /\ i - n # j
        BY <1>2, <1>3, <1>9, <3>3, <3>5
      <4>2. All[i] = Entries[i - n]
        BY <1>3, <4>1
      <4>3. h[i - n] \in Given /\ h[i - n] # g /\ SameFields(All[i], h[i - n].says)
        BY <1>5, <1>6, <1>11, <4>1, <4>2 DEF g
      <4>4. Says(h[i - n], "id") = Get(All[i], "id", Null)
        BY <4>3, SaysIs
      <4>5. emotes[i].id = Get(All[i], "id", Null)
        BY <1>1, <3>2, <3>5 DEF AddedAs, Get
      <4>6. Says(h[i - n], "id") = Says(g, "id")
        BY <3>2, <4>4, <4>5
      <4> QED
        BY <1>12, <3>1, <4>3, <4>6 DEF Cause
    <3> QED
      BY <3>4, <3>5
  <2> QED
    BY <1>16, <2>1, <2>2 DEF Refused, e
<1> QED
  BY <1>14, <1>15, <1>16

-----------------------------------------------------------------------------
\* Nothing is typed wrongly before the profile is read.
LEMMA IndexTyped == IndexInit => IndexTypeOK
<1>1. ASSUME IndexInit PROVE 1 .. Len(emotes) = {} /\ DOMAIN emotes = 1 .. Len(emotes)
  BY <1>1, Nothing DEF IndexInit, Sequential
<1> QED
  BY <1>1 DEF IndexInit, IndexTypeOK

\* The default style is what the profile says, or the first there is.
LEMMA Themed ==
  ASSUME profile \in Profiles
  PROVE  LET t == ThemeOf(profile) IN
         t.style = profile.style \/ \E i \in DOMAIN t.styles : t.styles[i].id = t.style
<1> DEFINE t == ThemeOf(profile)
           styles == IF profile.styles = <<>> THEN DefaultStyles ELSE profile.styles
<1>1. t.styles = styles /\ t.style = IF profile.style # Null THEN profile.style ELSE First(styles)
  BY DEF ThemeOf
<1>2. 1 \in DOMAIN styles
  <2>1. CASE profile.styles = <<>>
    BY <2>1 DEF DefaultStyles
  <2>2. CASE profile.styles # <<>>
    <3>1. Sequential(profile.styles)
      BY IndexAssumption DEF Listed
    <3>2. Len(profile.styles) \in Nat \ {0} /\ DOMAIN profile.styles = 1 .. Len(profile.styles)
      BY <2>2, <3>1, Headed DEF Sequential
    <3> QED
      BY <2>2, <3>2
  <2> QED
    BY <2>1, <2>2
<1> HIDE DEF t, styles
<1>3. t.style = profile.style \/ \E i \in DOMAIN t.styles : t.styles[i].id = t.style
  BY <1>1, <1>2 DEF First
<1> QED
  BY <1>3 DEF t

\* An emote is added with a state and a priority.
LEMMA AddTyped ==
  ASSUME IndexInv, IndexTypeOK, AddEmote
  PROVE  IndexTypeOK'
<1> DEFINE n == Len(emotes)
           e == remaining[1]
           s == e.state
           m == [id |-> IF Get(e, "id", Null) = Null THEN <<s, NextNumber(s)>> ELSE e.id,
                 path |-> e.path, state |-> s, variant |-> Get(e, "variant", Null),
                 priority |-> Get(e, "priority", 0)]
<1>1. /\ folder \in Folders /\ profile \in Profiles /\ Sequential(emotes) /\ Rest
      /\ remaining # <<>> /\ ~Refused(e)
  BY DEF IndexInv, AddEmote
<1>2. n \in Nat /\ n + 1 \in 1 .. Len(All) /\ e = All[n + 1]
  BY <1>1, NextIs
<1>3. {"state", "path"} \subseteq DOMAIN e /\ e.path \in folder
  BY <1>1 DEF Refused
<1>4. s \in States
  BY <1>1, <1>2, <1>3, AllFields DEF FieldOf
<1>5. Get(e, "priority", 0) \in Int
  BY <1>1, <1>2, AllFields DEF FieldOf, Get
<1>6. m.path \in folder /\ m.state \in States /\ m.priority \in Int
  BY <1>3, <1>4, <1>5
<1>7. emotes' = Append(emotes, m)
  BY DEF AddEmote
<1> HIDE DEF m, n
<1>8. /\ Sequential(emotes') /\ Len(emotes') = n + 1 /\ emotes'[n + 1] = m
      /\ \A i \in 1 .. n : emotes'[i] = emotes[i]
  BY <1>1, <1>7, Appended DEF n
<1>9. DOMAIN emotes = 1 .. n /\ DOMAIN emotes' = 1 .. n + 1
  BY <1>1, <1>8 DEF Sequential, n
<1>10. \A i \in DOMAIN emotes' : i = n + 1 \/ i \in 1 .. n
  BY <1>2, <1>9
<1>11. (\A i \in DOMAIN emotes :
          emotes[i].path \in folder /\ emotes[i].state \in States /\ emotes[i].priority \in Int)'
  BY <1>6, <1>8, <1>9, <1>10 DEF IndexTypeOK, AddEmote
<1>12. counters' \in [States -> Nat]
  BY AddKeeps DEF IndexInv
<1>13. references' \in [States -> Nat]
  <2>1. [references EXCEPT ![s] = @ + 1] \in [States -> Nat]
    BY <1>4 DEF IndexTypeOK
  <2> QED
    BY <2>1 DEF AddEmote, IndexTypeOK
<1> QED
  BY <1>11, <1>12, <1>13 DEF IndexTypeOK, AddEmote

LEMMA IndexStaysTyped == IndexInv /\ IndexTypeOK /\ [IndexNext]_indexVars => IndexTypeOK'
<1> SUFFICES ASSUME IndexInv, IndexTypeOK, [IndexNext]_indexVars PROVE IndexTypeOK'
  OBVIOUS
<1>1. CASE Begin
  <2>1. profile \in Profiles /\ profile' = profile /\ theme' = ThemeOf(profile)
    BY <1>1 DEF Begin, IndexInv
  <2>2. \/ theme'.style = profile'.style
        \/ \E i \in DOMAIN theme'.styles : theme'.styles[i].id = theme'.style
    BY <2>1, Themed
  <2> QED
    BY <1>1, <2>2 DEF Begin, IndexTypeOK
<1>2. CASE AddEmote
  BY <1>2, AddTyped
<1>3. CASE RefuseEmote
  BY <1>3 DEF RefuseEmote, IndexTypeOK
<1>4. CASE Finish
  BY <1>4 DEF Finish, IndexTypeOK
<1>5. CASE UNCHANGED indexVars
  BY <1>5 DEF indexVars, IndexTypeOK
<1> QED
  BY <1>1, <1>2, <1>3, <1>4, <1>5 DEF IndexNext

\* An index has every emote of its folder, under identifiers that are all different,
\* or was refused for what the profile says.
THEOREM Indexed == IndexSpec => [](IndexTypeOK /\ IndexesAll)
<1>1. IndexInv => IndexesAll
  <2> SUFFICES ASSUME IndexInv PROVE IndexesAll
    OBVIOUS
  <2>1. CASE built = "built"
    <3>1. Rest /\ remaining = <<>> /\ DOMAIN emotes = 1 .. Len(emotes)
      BY <2>1, UsedAre DEF IndexInv
    <3>2. \A i, j \in DOMAIN emotes : emotes[i].id = emotes[j].id => i = j
      BY <3>1 DEF IndexInv
    <3>3. AllIndexed
      BY <3>1, <3>2, Every DEF AllIndexed
    <3> QED
      BY <2>1, <3>3 DEF IndexesAll
  <2>2. CASE built = "ValueError"
    <3>1. Cause
      BY <2>2, Refusal DEF IndexInv
    <3> QED
      BY <2>2, <3>1 DEF IndexesAll
  <2> QED
    BY <2>1, <2>2 DEF IndexesAll
<1> QED
  BY <1>1, IndexStarts, IndexStep, IndexTyped, IndexStaysTyped, PTL DEF IndexSpec

-----------------------------------------------------------------------------
(***************************************************************************)
(* All of them, as the run explores them.                                  *)
(***************************************************************************)

\* Whichever of the components of the demo server moves, every state is typed: the
\* library's too while another one moves, although nothing is read then.
THEOREM TypeCorrect == Spec => []TypeOK
<1> DEFINE IndexedInv == IndexTypeOK /\ (scene = "index" => IndexInv)
<1>1. Spec => ConversationSpec /\ StageSpec /\ MeetingSpec /\ ConfigSpec /\ HealthSpec
  <2>1. Init => ConversationInit /\ StageInit /\ MeetingInit /\ ConfigInit /\ HealthInit
    BY DEF Init
  <2>2. [Next]_vars => /\ [ConversationNext]_conversationVars
                       /\ [StageNext]_stageVars /\ [MeetingNext]_meetingVars
                       /\ [ConfigNext]_configVars /\ [HealthNext]_healthVars
    BY DEF Next, vars
  <2> QED
    BY <2>1, <2>2, PTL DEF Spec, ConversationSpec, StageSpec, MeetingSpec, ConfigSpec, HealthSpec
<1>2. Init => IndexedInv
  <2>1. ASSUME Init, scene = "index" PROVE IndexedInv
    BY <2>1, IndexStarts, IndexTyped DEF Init
  <2>2. ASSUME Init, scene # "index" PROVE IndexedInv
    BY <2>2 DEF Init, IndexTypeOK
  <2> QED
    BY <2>1, <2>2
<1>3. IndexedInv /\ [Next]_vars => IndexedInv'
  <2> SUFFICES ASSUME IndexedInv, [Next]_vars PROVE IndexedInv'
    OBVIOUS
  <2>1. scene' = scene
    BY DEF Next, vars
  <2>2. CASE scene = "index"
    <3>1. [IndexNext]_indexVars
      BY <2>2 DEF Next, vars
    <3> QED
      BY <2>2, <3>1, IndexStep, IndexStaysTyped
  <2>3. CASE scene # "index"
    <3>1. UNCHANGED indexVars
      BY <2>3 DEF Next, vars
    <3> QED
      BY <2>1, <2>3, <3>1 DEF indexVars, IndexTypeOK
  <2> QED
    BY <2>2, <2>3
<1> HIDE DEF IndexedInv
<1>4. Spec => []IndexedInv
  BY <1>2, <1>3, PTL DEF Spec
<1>5. IndexedInv => IndexTypeOK
  BY DEF IndexedInv
<1>6. MeetingSpec => []MeetingTypeOK
  <2>1. MeetingInv => MeetingTypeOK
    BY DEF MeetingInv
  <2> QED
    BY <2>1, MeetingKept, PTL
<1> QED
  BY <1>1, <1>4, <1>5, <1>6, ThinkingIsFor, Belongs, Applies, Exact, PTL DEF TypeOK
=============================================================================
