------------------------------- MODULE NeoStr -------------------------------
(***************************************************************************)
(* Conversions of strings (neo_str.c, wildmat.c) against what they are     *)
(* for.  A string is a sequence of the codes of its letters.  The escapes  *)
(* count the room they need in a first pass and write in a second.         *)
(***************************************************************************)
EXTENDS Integers, Sequences, SequencesExt

CONSTANTS Strings,    \* the strings to convert
          Texts,      \* the strings to match
          Patterns    \* of wildmat(): sequences of Lit, AnyOne, Star and Class

VARIABLES job,        \* the conversion that is asked for, with its input
          result      \* << >> before it

Quote == 34
Percent == 37
Plus == 43
Backslash == 92
Blank == 32

(* A sequence of letters is made of the pieces that each letter becomes *)
Each(s, Piece(_)) == FoldLeft(LAMBDA out, c : out \o Piece(c), << >>, s)

(* The room of the first pass: one for each letter and more for some *)
Room1(s, More(_)) == FoldLeft(LAMBDA n, c : n + 1 + More(c), 0, s)

HexDigit(d) == IF d < 10 THEN 48 + d ELSE 55 + d
Hex(c) == << HexDigit(c \div 16), HexDigit(c % 16) >>
isxdigit(c) == c \in 48 .. 57 \cup 65 .. 70 \cup 97 .. 102
HexValue(c) == IF c >= 65 THEN (IF c >= 97 THEN c - 32 ELSE c) - 65 + 10 ELSE c - 48

-----------------------------------------------------------------------------
(* neos_escape() *)
neos_escape(s, esc, escape) ==
  LET hit(c) == c = esc \/ c \in escape
  IN  [room |-> Room1(s, LAMBDA c : IF hit(c) THEN 2 ELSE 0) + 1,
       text |-> Each(s, LAMBDA c : IF hit(c) THEN << esc >> \o Hex(c) ELSE << c >>)]

(* Mutant: two letters must follow the escape and one more. *)
UnescapeShort(s, esc) ==
  Len(s) > 3 /\ s[1] = esc /\ isxdigit(s[2]) /\ isxdigit(s[3])

(* The string begins with an escaped letter *)
Escaped(s, esc) ==
  Len(s) > 2 /\ s[1] = esc /\ isxdigit(s[2]) /\ isxdigit(s[3])

RECURSIVE neos_unescape(_, _)
neos_unescape(s, esc) ==
  IF s = << >> THEN << >>
  ELSE IF Escaped(s, esc)
       THEN << HexValue(s[2]) * 16 + HexValue(s[3]) >> \o neos_unescape(SubSeq(s, 4, Len(s)), esc)
       ELSE << s[1] >> \o neos_unescape(Tail(s), esc)

-----------------------------------------------------------------------------
(* repr_string_alloc() and what parse_attr() makes of it *)
isprint(c) == c \in 32 .. 126
NameOf(c) == CASE c = 10 -> 110 [] c = 9 -> 116 [] c = 13 -> 114 [] OTHER -> c
LetterOf(c) == CASE c = 110 -> 10 [] c = 116 -> 9 [] c = 114 -> 13 [] OTHER -> c

repr_string_alloc(s) ==
  LET plain(c) == isprint(c) /\ c # Quote /\ c # Backslash
      short(c) == c \in {10, 9, 13, Quote, Backslash}
      octal(c) == << 48 + (c \div 64), 48 + ((c \div 8) % 8), 48 + (c % 8) >>
  IN  [room |-> Room1(s, LAMBDA c : IF plain(c) THEN 0 ELSE IF short(c) THEN 1 ELSE 3) + 3,
       text |-> << Quote >>
                \o Each(s, LAMBDA c : IF plain(c) THEN << c >>
                                      ELSE << Backslash >> \o (IF short(c) THEN << NameOf(c) >> ELSE octal(c)))
                \o << Quote >>]

isdigit(c) == c \in 48 .. 57

(* The letters up to the closing quote; up to three digits are a code *)
RECURSIVE ParseRepr(_)
ParseRepr(s) ==
  IF s = << >> \/ s[1] = Quote THEN << >>
  ELSE IF s[1] # Backslash THEN << s[1] >> \o ParseRepr(Tail(s))
  ELSE LET digits == CHOOSE n \in 0 .. 3 :
                       /\ \A i \in 2 .. n + 1 : i <= Len(s) /\ isdigit(s[i])
                       /\ n < 3 => (n + 2 > Len(s) \/ ~isdigit(s[n + 2]))
           code   == FoldLeft(LAMBDA v, d : v * 8 + d - 48, 0, SubSeq(s, 2, digits + 1))
       IN  IF digits = 0 THEN << LetterOf(s[2]) >> \o ParseRepr(SubSeq(s, 3, Len(s)))
           ELSE << code >> \o ParseRepr(SubSeq(s, digits + 2, Len(s)))

-----------------------------------------------------------------------------
JsReserved == {47, 34, 39, 92, 62, 60, 38, 59} \cup 1 .. 31

neos_js_escape(s) ==
  [room |-> Room1(s, LAMBDA c : IF c \in JsReserved THEN 3 ELSE 0) + 1,
   text |-> Each(s, LAMBDA c : IF c \in JsReserved THEN << Backslash, 120 >> \o Hex(c) ELSE << c >>)]

QueryReservedChars ==
  {36, 38, 43, 44, 47, 58, 59, 61, 63, 64, 32, 34, 60, 62, 35, 37, 123, 125, 124, 92, 94, 126,
   91, 93, 96, 39}

(* url_escape_helper(): a blank that is reserved is written as a plus *)
url_escape_helper(s, reserved, other, nonprint) ==
  LET first(c) == c \in reserved \/ (nonprint /\ ~isprint(c))
      hit(c)   == first(c) \/ c \in other
  IN  [room |-> Room1(s, LAMBDA c : IF hit(c) THEN 2 ELSE 0) + 1,
       text |-> Each(s, LAMBDA c : IF c = Blank /\ c \in reserved THEN << Plus >>
                                   ELSE IF hit(c) THEN << Percent >> \o Hex(c) ELSE << c >>)]

neos_url_escape(s, other) == url_escape_helper(s, QueryReservedChars, other, TRUE)

(* Letters that neos_html_escape() writes as a name, a letter of its own   *)
(* here; a carriage return is dropped                                      *)
HtmlNamed == {38, 60, 62, 34, 39}
neos_html_escape(s) ==
  Each(s, LAMBDA c : IF c = 13 THEN << >> ELSE IF c \in HtmlNamed THEN << 1000 + c >> ELSE << c >>)

-----------------------------------------------------------------------------
(* string_array_split() at one letter, at most max times *)
RECURSIVE string_array_split(_, _, _)
string_array_split(s, sep, max) ==
  LET p == SelectInSeq(s, LAMBDA c : c = sep)
  IN  IF p = 0 \/ max = 0 THEN << s >>
      ELSE << SubSeq(s, 1, p - 1) >> \o string_array_split(SubSeq(s, p + 1, Len(s)), sep, max - 1)

Joined(list, sep) == FoldLeft(LAMBDA out, s : out \o << sep >> \o s, Head(list), Tail(list))

-----------------------------------------------------------------------------
(* wildmat(): an element of a pattern is a letter, any letter, a class of  *)
(* letters or a star                                                       *)
Lit(c) == [star |-> FALSE, set |-> {c}, reverse |-> FALSE]
AnyOne == [star |-> FALSE, set |-> {}, reverse |-> TRUE]
Class(set, reverse) == [star |-> FALSE, set |-> set, reverse |-> reverse]
Star == [star |-> TRUE, set |-> {}, reverse |-> FALSE]

Takes(e, c) == (c \in e.set) # e.reverse

(* The elements after the first and the stars that follow it *)
SkipStars(p) ==
  LET q == SelectInSeq(p, LAMBDA e : ~e.star)
  IN  IF q = 0 THEN << >> ELSE SubSeq(p, q, Len(p))

(* TRUE, FALSE or ABORT; within a star the first answer but FALSE counts *)
RECURSIVE DoMatch(_, _)
DoMatch(text, p) ==
  IF p = << >> THEN IF text = << >> THEN "TRUE" ELSE "FALSE"
  ELSE IF text = << >> /\ ~p[1].star THEN "ABORT"
  ELSE IF ~p[1].star
       THEN IF Takes(p[1], text[1]) THEN DoMatch(Tail(text), Tail(p)) ELSE "FALSE"
  ELSE LET rest == SkipStars(p)
           at(i) == DoMatch(SubSeq(text, i, Len(text)), rest)
           hits  == {i \in 1 .. Len(text) : at(i) # "FALSE"}
       IN  IF rest = << >> THEN "TRUE"
           ELSE IF hits = {} THEN "ABORT"
           ELSE at(CHOOSE i \in hits : \A j \in hits : i <= j)

wildmat(text, p) == p = << Star >> \/ DoMatch(text, p) = "TRUE"

toupper(c) == IF c \in 97 .. 122 THEN c - 32 ELSE c
ToUpper(s) == [i \in DOMAIN s |-> toupper(s[i])]

(* wildmatcase(): DoMatchCaseInsensitive() compares in capitals *)
wildmatcase(text, p) ==
  wildmat(ToUpper(text), [i \in DOMAIN p |-> [p[i] EXCEPT !.set = {toupper(c) : c \in @}]])

tolower(c) == IF c \in 65 .. 90 THEN c + 32 ELSE c
ToLower(s) == [i \in DOMAIN s |-> tolower(s[i])]

(* Reference: the text can be divided so that each part fits its element *)
RECURSIVE Matches(_, _)
Matches(text, p) ==
  IF p = << >> THEN text = << >>
  ELSE IF p[1].star THEN \E i \in 1 .. Len(text) + 1 : Matches(SubSeq(text, i, Len(text)), Tail(p))
  ELSE text # << >> /\ Takes(p[1], text[1]) /\ Matches(Tail(text), Tail(p))

-----------------------------------------------------------------------------
(* A conversion with its way back, if there is one; fits says that what    *)
(* was written, with the NUL, is no more than the room it was given        *)
Done(e, back) == [back |-> back, fits |-> Len(e.text) + 1 <= e.room]

Escape ==
  /\ job.kind = "escape"
  /\ LET e == neos_escape(job.input, Percent, {Plus, 10})
     IN  result' = Done(e, neos_unescape(e.text, Percent))

Repr ==
  /\ job.kind = "repr"
  /\ LET e == repr_string_alloc(job.input)
     IN  result' = Done(e, ParseRepr(Tail(e.text)))

(* A reader of the script undoes \xHH, one of the page the names *)
Js ==
  /\ job.kind = "js"
  /\ LET e == neos_js_escape(job.input)
         plain == SelectSeq(e.text, LAMBDA c : c # 120)
     IN  result' = Done(e, neos_unescape(plain, Backslash))

Url ==
  /\ job.kind = "url"
  /\ LET e == neos_url_escape(job.input, {})
     IN  result' = Done(e, neos_unescape([i \in DOMAIN e.text |-> IF e.text[i] = Plus THEN Blank ELSE e.text[i]],
                                         Percent))

Html ==
  /\ job.kind = "html"
  /\ LET text == neos_html_escape(job.input)
     IN  result' = [back |-> [i \in DOMAIN text |-> text[i] % 1000], fits |-> TRUE]

Split ==
  /\ job.kind = "split"
  /\ LET list == string_array_split(job.input, Plus, 2)
     IN  result' = [back |-> Joined(list, Plus), fits |-> Len(list) <= 3]

Match ==
  /\ job.kind = "match"
  /\ result' = [back |-> wildmat(job.input, job.pattern), fits |-> TRUE]

MatchCase ==
  /\ job.kind = "matchcase"
  /\ result' = [back |-> wildmatcase(job.input, job.pattern), fits |-> TRUE]

StrInit ==
  /\ \/ \E s \in Strings, k \in {"escape", "repr", "js", "url", "html", "split"} :
          job = [kind |-> k, input |-> s]
     \/ \E s \in Texts, p \in Patterns : \E k \in {"match", "matchcase"} :
          job = [kind |-> k, input |-> s, pattern |-> p]
  /\ result = << >>

StrNext ==
  /\ result = << >>
  /\ Escape \/ Repr \/ Js \/ Url \/ Html \/ Split \/ Match \/ MatchCase
  /\ UNCHANGED job

(* An escaped string is read back as it was, but for the carriage returns  *)
(* that HTML drops; both passes of an escape agree on the room; the pieces *)
(* of a split make the string; and wildmat() with its early ABORT finds a  *)
(* match exactly when there is one (neo_str.c:453, 534, 651, wildmat.c:87).*)
StringsFaithful ==
  result # << >> =>
    /\ result.fits
    /\ CASE job.kind = "match" -> result.back = Matches(job.input, job.pattern)
         [] job.kind = "matchcase" ->
              result.back = Matches(ToLower(job.input), [i \in DOMAIN job.pattern |->
                              [job.pattern[i] EXCEPT !.set = {tolower(c) : c \in @}]])
         [] job.kind = "html" -> result.back = SelectSeq(job.input, LAMBDA c : c # 13)
         [] OTHER -> result.back = job.input
=============================================================================
