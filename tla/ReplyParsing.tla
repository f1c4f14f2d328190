---------------------------- MODULE ReplyParsing ----------------------------
(***************************************************************************)
(* _extract_json_block: the object OpenAICompatibleAdapter takes out of    *)
(* what the model wrote.  Endpoints may ignore JSON mode, so there may be  *)
(* prose around the object, or a fence of backticks.  The search for it    *)
(* counts braces, and knows nothing of strings.                            *)
(*                                                                         *)
(* A reply is a sequence of braces, quotes, fences and words.  An object   *)
(* is a pair of braces around strings and objects: names, commas and       *)
(* colons are left out, and so are whitespace and escapes.                 *)
(***************************************************************************)
EXTENDS Naturals, Sequences, FiniteSets, FiniteSetsExt

CONSTANTS
  MaxLength,   \* the longest reply
  Unread, None

ASSUME ReplyAssumption ==
  /\ MaxLength \in Nat
  /\ {Unread, None} \cap [from : 1 .. MaxLength, to : 1 .. MaxLength] = {}
  /\ Unread # None

Signs == {"open", "close", "quote", "fence", "word"}

VARIABLES
  reply,    \* what the model has written
  found     \* Unread, or where the object taken from it begins and ends, or None

replyVars == <<reply, found>>

ReplyInit == reply = <<>> /\ found = Unread

Write(c) ==
  /\ found = Unread /\ Len(reply) < MaxLength
  /\ reply' = Append(reply, c)
  /\ UNCHANGED found

-----------------------------------------------------------------------------
(***************************************************************************)
(* JSON.                                                                   *)
(***************************************************************************)
Count(S, P(_)) == Cardinality({i \in S : P(i)})

\* Seen from an object that begins at p, i is in a string.
Quoted(p, i) == Count(p .. i - 1, LAMBDA j : reply[j] = "quote") % 2 = 1

Balanced(p, i, sees(_)) ==
  Count(p .. i, LAMBDA j : reply[j] = "open" /\ sees(j)) = Count(p .. i, LAMBDA j : reply[j] = "close" /\ sees(j))

\* json.loads(text[p : e + 1]) returns.
IsObject(p, e) ==
  /\ reply[p] = "open" /\ reply[e] = "close" /\ ~Quoted(p, e)
  /\ \A i \in p .. e : ~Quoted(p, i) => reply[i] \notin {"word", "fence"}
  /\ \A i \in p .. e : Balanced(p, i, LAMBDA j : ~Quoted(p, j)) <=> i = e

-----------------------------------------------------------------------------
(***************************************************************************)
(* The search: group 1 of the regular expression, then the scan.           *)
(***************************************************************************)
Block(p, e) == [from |-> p, to |-> e]
Earliest(blocks) == CHOOSE b \in blocks : \A c \in blocks : b.from <= c.from

\* For each place the expression can match at, the shortest match.
Matches ==
  {Block(i + 1, Min({j \in i + 2 .. Len(reply) - 1 : reply[j] = "close" /\ reply[j + 1] = "fence"})) :
     i \in {i \in 1 .. Len(reply) - 2 :
              /\ reply[i] = "fence" /\ reply[i + 1] = "open"
              /\ \E j \in i + 2 .. Len(reply) - 1 : reply[j] = "close" /\ reply[j + 1] = "fence"}}

\* For each brace, what lies between it and the brace that makes the depth 0.
Closings(p) == {e \in p .. Len(reply) : Balanced(p, e, LAMBDA j : TRUE)}
Candidates == {Block(p, Min(Closings(p))) :
                 p \in {q \in 1 .. Len(reply) : reply[q] = "open" /\ Closings(q) # {}}}

-----------------------------------------------------------------------------
\* A mutated form of Scanned:
\* the scan goes on after a candidate that is none, not inside it
ScanGoesOnAfter ==
  {b \in Candidates : /\ IsObject(b.from, b.to)
                      /\ \A c \in Candidates : b.from \in c.from .. c.to => b.from = c.from}

-----------------------------------------------------------------------------
\* The matched block, if it is an object.
Fenced ==
  IF Matches = {} THEN {}
  ELSE {b \in {Earliest(Matches)} : IsObject(b.from, b.to)}

\* After a candidate that is none the scan goes on at the next brace inside it.
Scanned == {b \in Candidates : IsObject(b.from, b.to)}

ExtractJsonBlock ==
  IF Fenced # {} THEN Earliest(Fenced)
  ELSE IF Scanned # {} THEN Earliest(Scanned) ELSE None

Read ==
  /\ found = Unread
  /\ found' = ExtractJsonBlock
  /\ UNCHANGED reply

-----------------------------------------------------------------------------
ReplyNext == Read \/ \E c \in Signs : Write(c)

ReplySpec == ReplyInit /\ [][ReplyNext]_replyVars

-----------------------------------------------------------------------------
Objects == {b \in [from : DOMAIN reply, to : DOMAIN reply] : b.from < b.to /\ IsObject(b.from, b.to)}

ReplyTypeOK ==
  /\ reply \in Seq(Signs) /\ Len(reply) <= MaxLength
  /\ found \in {Unread, None} \cup Objects

BraceInString(b) == \E i \in b.from .. b.to : Quoted(b.from, i) /\ reply[i] \in {"open", "close"}
PassedOver(b) == found = None \/ b.from < found.from

\* An object, and no more, in the first fence that opens with a brace.
InFence(b) ==
  /\ b.from > 1 /\ reply[b.from - 1] = "fence"
  /\ b.to < Len(reply) /\ reply[b.to + 1] = "fence"
  /\ \A i \in b.from .. b.to : reply[i] # "fence"
  /\ \A i \in 1 .. b.from - 2 : reply[i] = "fence" => reply[i + 1] # "open"

\* _extract_json_block passes over no object for what is before it or around it:
\* an object in the first fence is the one it returns, whatever its strings hold;
\* without fences it returns the first, and passes over one only for a brace in
\* one of its strings, which the scan takes for one of the object's own.
FindsObject ==
  found # Unread =>
    \A b \in Objects :
       /\ InFence(b) => found = b
       /\ PassedOver(b) /\ (\A i \in DOMAIN reply : reply[i] # "fence") => BraceInString(b)
=============================================================================
