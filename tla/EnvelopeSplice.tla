---------------------------- MODULE EnvelopeSplice ----------------------------
(***************************************************************************)
(* Removal of the rpc-param approval envelope from a request body, in      *)
(* approval-execution-binding/src/lib.rs: a hand-written scanner finds the *)
(* top-level members of the raw text, one of them is cut out with a comma, *)
(* and the rest is parsed again and compared.                              *)
(*                                                                         *)
(* A text is a sequence of characters, of which only those the scanner     *)
(* looks at matter: letters stand for all others, and a backslash followed *)
(* by one character for every escape, \uXXXX included.  A member is its    *)
(* key, as spelled between the quotes, and the text of its value.          *)
(*                                                                         *)
(* An operator whose name ends in _No... or _With... is a mutant: the      *)
(* mistaken form of the definition that follows it.                        *)
(***************************************************************************)
EXTENDS Integers, Sequences, SequencesExt, FiniteSetsExt

CONSTANT FieldSpellings    \* the keys that unescape to approval_rpc_field

Quote     == "\""
Backslash == "\\"
Fail      == 0             \* a scanner's Err

At(body, i) == IF i \in DOMAIN body THEN body[i] ELSE "end"

SkipWhitespace(body, at) ==
  CHOOSE i \in at .. Len(body) + 1 :
    At(body, i) # " " /\ \A j \in at .. i - 1 : body[j] = " "

SkipString_NoEscape(body, at) ==
  LET after[i \in 1 .. Len(body) + 2] ==
        CASE At(body, i) = "end" -> Fail
          [] At(body, i) = Quote -> i + 1
          [] OTHER               -> after[i + 1]
  IN  IF At(body, at) = Quote THEN after[at + 1] ELSE Fail

(* Just past the string that starts at at; an escape is two characters.    *)
SkipString(body, at) ==
  LET after[i \in 1 .. Len(body) + 2] ==
        CASE At(body, i) = "end"     -> Fail
          [] At(body, i) = Backslash -> after[i + 2]
          [] At(body, i) = Quote     -> i + 1
          [] OTHER                   -> after[i + 1]
  IN  IF At(body, at) = Quote THEN after[at + 1] ELSE Fail

(* Just past the object or array that starts at at: brackets are counted   *)
(* outside strings, whatever their kind.                                   *)
SkipContainer(body, at) ==
  LET after[i \in 0 .. Len(body) + 1, depth \in 0 .. Len(body)] ==
        CASE At(body, i) = "end"      -> Fail
          [] At(body, i) = Quote      -> after[SkipString(body, i), depth]
          [] At(body, i) \in {"{", "["} -> after[i + 1, depth + 1]
          [] At(body, i) \in {"}", "]"} ->
               IF depth = 1 THEN i + 1 ELSE after[i + 1, depth - 1]
          [] OTHER                    -> after[i + 1, depth]
  IN  after[at, 0]

(* Just past the literal that starts at at.                                *)
SkipScalar(body, at) ==
  LET ends == {i \in at .. Len(body) + 1 : At(body, i) \in {",", "}", "]", " ", "end"}}
      stop == CHOOSE i \in ends : \A j \in ends : i <= j
  IN  IF stop = at THEN Fail ELSE stop

SkipValue(body, at) ==
  CASE At(body, at) = Quote        -> SkipString(body, at)
    [] At(body, at) \in {"{", "["} -> SkipContainer(body, at)
    [] At(body, at) = "end"        -> Fail
    [] OTHER                       -> SkipScalar(body, at)

-----------------------------------------------------------------------------
(* The member whose key starts at at and ends before key_end: its key, its *)
(* first character and the one past its value; stop is Fail when the scan  *)
(* does.                                                                   *)
Member(body, at, key_end, colon) ==
  [key   |-> SubSeq(body, at + 1, key_end - 2),
   start |-> at,
   stop  |-> IF key_end = Fail \/ At(body, colon) # ":" THEN Fail
             ELSE SkipValue(body, SkipWhitespace(body, colon + 1))]

MemberAt(body, at) ==
  LET with(key_end) == Member(body, at, key_end, SkipWhitespace(body, key_end))
  IN  with(SkipString(body, at))

(* The members from at on; the last one's stop is Fail when the scan fails.*)
MembersFrom(body, at) ==
  LET from[i \in 1 .. Len(body) + 1] ==
        LET then(member, next) ==
              CASE member.stop = Fail -> <<member>>
                [] At(body, next) = "," -> <<member>> \o from[SkipWhitespace(body, next + 1)]
                [] At(body, next) = "}" -> <<member>>
                [] OTHER -> <<[member EXCEPT !.stop = Fail]>>
            follow(member) == then(member, SkipWhitespace(body, member.stop))
        IN  follow(MemberAt(body, i))
  IN  from[at]

Members(body) ==
  LET starting(first) == IF At(body, first) = "}" THEN <<>> ELSE MembersFrom(body, first)
  IN  starting(SkipWhitespace(body, SkipWhitespace(body, 1) + 1))

(* What is cut: up to the next key; or, for the last of several, from the  *)
(* end of the value before it; or the only member.                         *)
Cut(members, i) ==
  CASE i < Len(members)           -> <<members[i].start, members[i + 1].start>>
    [] i = Len(members) /\ i > 1  -> <<members[i - 1].stop, members[i].stop>>
    [] OTHER                      -> <<members[i].start, members[i].stop>>

Without(body, cut) == SubSeq(body, 1, cut[1] - 1) \o SubSeq(body, cut[2], Len(body))

-----------------------------------------------------------------------------
(* The lexemes of an object with the given members.                        *)
Lexemes(wire) ==
  LET member(i) == (IF i = 1 THEN <<>> ELSE <<<<",">>>>)
                     \o <<<<Quote>> \o wire[i].key \o <<Quote>>, <<":">>, wire[i].value>>
  IN  <<<<"{">>>> \o FlattenSeq([i \in DOMAIN wire |-> member(i)]) \o <<<<"}">>>>

(* serde_json reads text as the object with those members: its lexemes in  *)
(* order, with nothing but whitespace around them.                         *)
Reads(text, wire) ==
  LET eat(at, lexeme) ==
        IF at # Fail /\ IsPrefix(lexeme, SubSeq(text, at, Len(text)))
        THEN SkipWhitespace(text, at + Len(lexeme)) ELSE Fail
      end == FoldLeft(eat, SkipWhitespace(text, 1), Lexemes(wire))
  IN  end = Len(text) + 1

IsField(member) == member.key \in FieldSpellings

OtherMembers(wire) == SelectSeq(wire, LAMBDA member : ~IsField(member))

(* What strip_top_level_member makes of the members it scanned.            *)
StripOne(body, wire, members) ==
  LET targets == {i \in DOMAIN members : IsField(members[i])}
      checked(stripped) ==
        IF Reads(stripped, OtherMembers(wire))
        THEN [result |-> "stripped", body |-> stripped] ELSE [result |-> "failed"]
  IN  CASE members # <<>> /\ Last(members).stop = Fail -> [result |-> "failed"]
        [] members = <<>> -> [result |-> "absent"]
        [] OTHER -> IF targets = {} THEN [result |-> "absent"]
                    ELSE checked(Without(body, Cut(members, Max(targets))))

(* strip_top_level_member on the text of an object whose parsed members    *)
(* are wire, with no duplicate among them: the text without the field.     *)
Strip(body, wire) ==
  IF At(body, SkipWhitespace(body, 1)) # "{" THEN [result |-> "failed"]
  ELSE StripOne(body, wire, Members(body))
=============================================================================
