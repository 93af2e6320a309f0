------------------------------ MODULE StrictJson ------------------------------
(***************************************************************************)
(* The strict reader the repairer tries first (src/src/json_repair/        *)
(* strict.rs): the text, or a prefix of it, as a JSON value.  A result is  *)
(* [i, v], the position after the value, -1 when the text is not JSON.     *)
(*                                                                         *)
(* The infinities, read as NaN is, are left out.                           *)
(*                                                                         *)
(* A value is [str |-> text], [arr |-> values], [obj |-> members], a       *)
(* member being a pair, [num |-> text, kind |-> "int" or "float"] or       *)
(* [word |-> "true"].                                                      *)
(***************************************************************************)
EXTENDS RepairString

NotJson == [i |-> -1, v |-> NoValue]

CharAt(s, i) == IF i >= 0 /\ i < Len(s) THEN s[i + 1] ELSE ""

Past(s, from, chars) ==
  Smallest({Len(s)} \cup {i \in from..(Len(s) - 1) : CharAt(s, i) \notin chars})

\* JSON's white space; a string may hold none of its control characters as it stands.
PastWhitespace(s, i) == Past(s, i, {" ", "tab", "nl", "cr"})
Controls == {"bs", "tab", "nl", "ff", "cr", "us"}

\* Inserting keeps a member's place and gives it the last value.
Insert(members, key, value) ==
  LET at == {k \in 1..Len(members) : members[k][1] = key}
  IN  IF at = {} THEN Append(members, <<key, value>>)
      ELSE [members EXCEPT ![CHOOSE k \in at : TRUE] = <<key, value>>]

\* A whole number as it is kept: no leading zeros, and zero has no sign.
Significant(sign, digits) ==
  LET from == {k \in 1..Len(digits) : digits[k] # "0"}
  IN  IF from = {} THEN <<"0">> ELSE sign \o SubSeq(digits, Smallest(from), Len(digits))

NormalInt(text) ==
  IF text # <<>> /\ text[1] = "-" THEN Significant(<<"-">>, Tail(text)) ELSE Significant(<<>>, text)

Whole(text) == [kind |-> "int", num |-> NormalInt(text)]
Frac(text)  == [kind |-> "float", num |-> text]

words == {<<<<"t", "r", "u", "e">>, "true">>, <<<<"f", "a", "l", "s", "e">>, "false">>,
          <<<<"n", "u", "l", "l">>, "null">>}

NotANumber == Frac(<<"N", "a", "N">>)

expect_literal(s, i) ==
  LET spelt == {w \in words : \A k \in 1..Len(w[1]) : CharAt(s, i + k - 1) = w[1][k]}
      w     == CHOOSE w \in spelt : TRUE
  IN  IF spelt = {} THEN NotJson ELSE [i |-> i + Len(w[1]), v |-> [word |-> w[2]]]

\* Where the digits of a number end, of its fraction, and of its exponent.
WholeEnd(s, i) == IF CharAt(s, i) = "0" THEN i + 1 ELSE Past(s, i, Digits)

FractionEnd(s, i) ==
  IF CharAt(s, i) = "." /\ CharAt(s, i + 1) \in Digits THEN Past(s, i + 1, Digits) ELSE i

ExponentEnd(s, i) ==
  LET digits == IF CharAt(s, i + 1) \in {"+", "-"} THEN i + 2 ELSE i + 1
  IN  IF CharAt(s, i) = "e" /\ CharAt(s, digits) \in Digits THEN Past(s, digits, Digits) ELSE i

NumberOf(text) ==
  IF \E i \in 1..Len(text) : text[i] \in {".", "e"} THEN Frac(text) ELSE Whole(text)

NumberFrom(s, i, end) == [i |-> end, v |-> NumberOf(SubSeq(s, i + 1, end))]

strict_number(s, i) ==
  LET first == IF CharAt(s, i) = "-" THEN i + 1 ELSE i
  IN  IF CharAt(s, first) \notin Digits THEN NotJson
      ELSE NumberFrom(s, i, ExponentEnd(s, FractionEnd(s, WholeEnd(s, first))))

EscapeOf == [c \in {"\"", "\\", "/", "b", "f", "n", "r", "t"} |->
               CASE c = "b" -> "bs" [] c = "f" -> "ff" [] c = "n" -> "nl" [] c = "r" -> "cr"
                 [] c = "t" -> "tab" [] OTHER -> c]

Hex4(s, i) == \A k \in 0..3 : CharAt(s, i + k) \in DOMAIN Hex
Code(s, i) == ((Hex[CharAt(s, i)] * 16 + Hex[CharAt(s, i + 1)]) * 16
                 + Hex[CharAt(s, i + 2)]) * 16 + Hex[CharAt(s, i + 3)]

Half(code) == IsHigh(code) \/ IsLow(code)

\* i is after the u: the position after the escape and its character.
parse_escape_u(s, i) ==
  LET pair == CharAt(s, i + 4) = "\\" /\ CharAt(s, i + 5) = "u"
      paired == IsHigh(Code(s, i)) /\ pair
  IN  IF ~Hex4(s, i) \/ (paired /\ ~Hex4(s, i + 6)) THEN NotJson
      ELSE IF paired /\ IsLow(Code(s, i + 6)) THEN [i |-> i + 10, v |-> "astral"]
      ELSE [i |-> i + 4, v |-> IF Half(Code(s, i)) THEN "replacement" ELSE CharOf(Code(s, i))]

\* The escape whose backslash is at i: the position after it and its character.
EscapeFrom(s, i) ==
  IF CharAt(s, i + 1) = "u" THEN parse_escape_u(s, i + 2)
  ELSE IF CharAt(s, i + 1) \in DOMAIN EscapeOf
  THEN [i |-> i + 2, v |-> EscapeOf[CharAt(s, i + 1)]] ELSE NotJson

CharFrom(s, i) ==
  IF CharAt(s, i) = "\\" THEN EscapeFrom(s, i)
  ELSE IF CharAt(s, i) \in {""} \cup Controls THEN NotJson ELSE [i |-> i + 1, v |-> CharAt(s, i)]

RECURSIVE parse_string_body(_, _), StringBody(_, _, _)
StringBody(s, out, next) ==
  IF next.i = -1 THEN NotJson ELSE parse_string_body(s, [i |-> next.i, out |-> Append(out, next.v)])

parse_string_body(s, at) ==
  IF CharAt(s, at.i) = "\"" THEN [i |-> at.i + 1, v |-> [str |-> at.out]]
  ELSE StringBody(s, at.out, CharFrom(s, at.i))

strict_string(s, i) == parse_string_body(s, [i |-> i + 1, out |-> <<>>])

\* The brackets are read by their elements: [i, depth, all] is the position of the
\* next one, how many containers are open and the elements so far.
RECURSIVE strict_value(_, _, _), strict_object(_, _), strict_array(_, _)

strict_value(s, i, depth) ==
  LET inner == [i |-> PastWhitespace(s, i + 1), depth |-> depth + 1, all |-> <<>>]
  IN  CASE CharAt(s, i) \in {"{", "["} /\ depth >= MAX_NESTING -> NotJson
        [] CharAt(s, i) = "{" /\ depth < MAX_NESTING ->
             IF CharAt(s, inner.i) = "}" THEN [i |-> inner.i + 1, v |-> [obj |-> <<>>]]
             ELSE strict_object(s, inner)
        [] CharAt(s, i) = "[" /\ depth < MAX_NESTING ->
             IF CharAt(s, inner.i) = "]" THEN [i |-> inner.i + 1, v |-> [arr |-> <<>>]]
             ELSE strict_array(s, inner)
        [] CharAt(s, i) = "\"" -> strict_string(s, i)
        [] CharAt(s, i) \in {"t", "f", "n"} -> expect_literal(s, i)
        [] CharAt(s, i) = "N" ->
             IF CharAt(s, i + 1) = "a" /\ CharAt(s, i + 2) = "N"
             THEN [i |-> i + 3, v |-> NotANumber] ELSE NotJson
        [] CharAt(s, i) \in Digits \cup {"-"} -> strict_number(s, i)
        [] OTHER -> NotJson

\* Past the comma after an element; nothing of the text is left at its end.
More(s, at, after, all) == [at EXCEPT !.i = PastWhitespace(s, after + 1), !.all = all]

MemberRead(s, at, key, value, after) ==
  LET all == Insert(at.all, key.v.str, value.v)
  IN  IF value.i = -1 THEN NotJson
      ELSE CASE CharAt(s, after) = "," -> strict_object(s, More(s, at, after, all))
             [] CharAt(s, after) = "}" -> [i |-> after + 1, v |-> [obj |-> all]]
             [] OTHER -> NotJson

ValueRead(s, at, key, value) == MemberRead(s, at, key, value, PastWhitespace(s, value.i))

ColonRead(s, at, key, colon) ==
  IF CharAt(s, colon) # ":" THEN NotJson
  ELSE ValueRead(s, at, key, strict_value(s, PastWhitespace(s, colon + 1), at.depth))

KeyRead(s, at, key) ==
  IF key.i = -1 THEN NotJson ELSE ColonRead(s, at, key, PastWhitespace(s, key.i))

strict_object(s, at) ==
  IF CharAt(s, at.i) # "\"" THEN NotJson ELSE KeyRead(s, at, strict_string(s, at.i))

ItemRead(s, at, value, after) ==
  LET all == Append(at.all, value.v)
  IN  IF value.i = -1 THEN NotJson
      ELSE CASE CharAt(s, after) = "," -> strict_array(s, More(s, at, after, all))
             [] CharAt(s, after) = "]" -> [i |-> after + 1, v |-> [arr |-> all]]
             [] OTHER -> NotJson

ItemFound(s, at, value) == ItemRead(s, at, value, PastWhitespace(s, value.i))

strict_array(s, at) == ItemFound(s, at, strict_value(s, at.i, at.depth))

raw_decode(s, from) == strict_value(s, PastWhitespace(s, from), 0)

AllOf(s, r) == IF r.i # -1 /\ PastWhitespace(s, r.i) = Len(s) THEN r ELSE NotJson

loads_strict(s) == AllOf(s, raw_decode(s, 0))
===============================================================================
