-------------------------------- MODULE MCJson --------------------------------
(***************************************************************************)
(* Small texts for the JSON calls.  A family of texts is a beginning and   *)
(* every short sequence of the tokens that the rules it is about look at.  *)
(***************************************************************************)
EXTENDS JsonCalls, SequencesExt, TLC

Join(parts) == FoldLeft(LAMBDA out, s : out \o s, <<>>, parts)

After(prefix, tokens, n) ==
  {prefix \o Join(w) : w \in UNION {[1..k -> tokens] : k \in 0..n}}

Chars(cs) == {<<c>> : c \in cs}

Name(c) == <<"\"", c, "\"", ":">>
Obj(c)  == <<"{">> \o Name(c)
Ticks   == <<"tick", "tick", "tick">>

Controlled == Chars({"us", "tab", "cr", "bs", "ff"})

\* A broken value of an object, and of a list; escapes; control characters as they
\* stand, in a string and between tokens; numbers; comments; several
\* values; parentheses; a name twice; a fence inside a string.
BrokenTexts ==
  After(Obj("a"), Chars({"\"", ",", "b", ":", "}", "{", "[", " "}), 3)
  \cup After(<<"[">>, Chars({"\"", ",", "b", "]", "{", ":", "(", "'"}), 3)
  \cup After(Obj("a") \o <<"\"">>,
             Chars({"\\", "\"", "n", "}", "nl"})
               \cup {<<"u", "0", "0", "2", "2">>, <<"\\", "u", "d", "8", "3", "c">>,
                     <<"\\", "u", "d", "f", "3", "2">>, <<"\\", "u", "0", "0", "1", "f">>,
                     <<"\\", "u", "0", "0", "0", "8">>, <<"\\", "u", "0", "0", "0", "c">>}, 3)
  \cup After(Obj("a") \o <<"\"">>, Controlled \cup Chars({"\"", "}", "\\", ",", "b"}), 3)
  \cup After(<<"[">>, Controlled \cup Chars({"1", ",", "]", "\""}), 3)
  \cup After(<<"[">>, Chars({"1", ".", "e", "-", ",", "_", "/", "]"}), 3)
  \cup After(Obj("a") \o <<"1">>,
             Chars({"/", "*", "#", "nl", "}"}) \cup {<<",">> \o Name("b") \o <<"2">>}, 4)
  \cup After(<<>>, Chars({",", " ", "a", "}"}) \cup {Obj("a") \o <<"1", "}">>, <<"[", "1", "]">>}, 3)
  \cup After(<<"(">>, Chars({"1", ",", ")", "(", "\"", "]", ":", "["}), 3)
  \cup After(<<"[">> \o Obj("a") \o <<"1", ",">>,
             Chars({"2", ",", "{"}) \cup {<<"}", "]">>, Name("a"), Name("b")}, 3)
  \cup After(Obj("a") \o <<"\"">>,
             Chars({"nl", "{", "\"", "}"}) \cup {Ticks, <<"j", "s", "o", "n">>, Name("b")}, 3)
  \cup {Ticks \o <<"nl">> \o s \o <<"nl">> \o Ticks :
          s \in After(Obj("a"), Chars({"\"", "b", "}", "nl"}), 3)}

\* Well-formed texts: every short string in every place of a value.
Str(x) == [str |-> x]

Shapes(x) ==
  {[obj |-> <<<<<<"a">>, Str(x)>>>>], [obj |-> <<<<<<"a">>, Str(x)>>, <<<<"b">>, Str(<<"a">>)>>>>],
   [arr |-> <<Str(x), Whole(<<"1">>)>>], [arr |-> <<[arr |-> <<Str(<<"a">>), Str(x)>>], Str(<<"a">>)>>],
   [obj |-> <<<<<<"a">>, [arr |-> <<>>]>>, <<x, Str(<<"a">>)>>>>],
   [arr |-> <<[obj |-> <<<<<<"a">>, Str(x)>>>>], [obj |-> <<<<x, Frac(<<"0", ".", "2">>)>>>>]>>]}

WellFormed ==
  {dumps(v, TRUE) : v \in UNION {Shapes(x) : x \in
     After(<<>>, Chars({"a", ",", ":", "}", "]", " ", "/", "#", "{", "*", "'", "1"}), 2)
       \cup After(<<>>, Controlled \cup Chars({"acute", "\\", "\"", "lq", "nl"}), 1)}}

MCRepairTexts == BrokenTexts \cup WellFormed

MCRepairOptions == {<<FALSE, FALSE, {6}>>, <<TRUE, FALSE, {2}>>, <<TRUE, TRUE, {}>>}

\* Fences anywhere, and a fence indented by up to four blanks, or by a tab.  A form
\* feed, which trim takes and a closing fence may not have behind it, is left out.
MCFenceTexts ==
  After(<<>>, Chars({" ", "a", "nl"}) \cup {Ticks, <<"tick">>, <<"~", "~", "~">>}, 5)
  \cup UNION {After(indent \o Ticks \o <<"nl">>, Chars({" ", "a", "nl", "tab", "cr"}) \cup {Ticks}, 4) :
                indent \in {<<" ">>, <<" ", " ", " ">>, <<" ", " ", " ", " ">>, <<"tab">>, <<"nl", " ">>}}

\* Containers inside one another past the stack's words, one of them after a
\* container that was closed at its depth.
Nest(kinds, at, sibling) ==
  FoldLeft(LAMBDA v, k :
             LET inner == IF k = at THEN <<sibling, v>> ELSE <<v>>
             IN  IF kinds[k] THEN [obj |-> [i \in 1..Len(inner) |-> <<<<IF i = 1 THEN "a" ELSE "b">>, inner[i]>>]]
                 ELSE [arr |-> inner],
           Whole(<<"1">>), [k \in 1..Len(kinds) |-> k])

Nested == {dumps(Nest(kinds, at, sibling), TRUE) :
             kinds \in UNION {[1..n -> BOOLEAN] : n \in 1..5}, at \in 0..4,
             sibling \in {[arr |-> <<>>], [obj |-> <<>>], [arr |-> <<[obj |-> <<>>]>>]}}

\* Every bracket of a text in every other form.
Misread(t) ==
  {[t EXCEPT ![i] = c] : i \in {k \in 1..Len(t) : t[k] \in {"]", "}", ",", ":"}},
                         c \in {"]", "}", ",", ":", "{"}}

MCValidTexts ==
  Nested \cup UNION {Misread(dumps(Nest(<<a, b, c>>, 2, [arr |-> <<>>]), TRUE)) :
                       a \in BOOLEAN, b \in BOOLEAN, c \in BOOLEAN}
  \cup {<<"[">> \o t \o <<"]">> :
          t \in After(<<>>, Chars({"0", "1", "8", ".", "e", "-"}) \cup {<<"e", "3">>, <<"1", "8", "0">>}, 4)}
  \cup {<<"[", "\"">> \o t \o <<"\"", "]">> :
          t \in After(<<>>, Chars({"\\", "\"", "/", "nl", "x"})
                              \cup {<<"\\", "u", "d", "8", "3", "c">>, <<"\\", "u", "d", "f", "3", "2">>,
                                    <<"u", "0", "0", "2">>, <<"2">>}, 4)}
  \cup After(<<>>, Chars({"[", "]", "{", "}", ",", " ", "1"})
                     \cup {Name("a"), <<"t", "r", "u", "e">>, <<"N", "a", "N">>}, 3)
  \cup {<<"[", "\"">> \o t \o <<"\"", "]">> :
          t \in After(<<>>, Controlled \cup {<<"nl">>, <<"x">>, <<"\\">>}, 2)}
  \cup After(<<>>, Controlled \cup Chars({"nl", "[", "]", ",", "1"}), 4)
  \cup {<<>>}

MCCodes == [c \in {8, 10, 12, 31, 34, 44, 225, 8220, 8221, 8222, 65533} |->
              CASE c = 8 -> "bs" [] c = 10 -> "nl" [] c = 12 -> "ff" [] c = 31 -> "us"
                [] c = 34 -> "\"" [] c = 44 -> "," [] c = 225 -> "acute" [] c = 8220 -> "lq"
                [] c = 8221 -> "rq" [] c = 8222 -> "low" [] OTHER -> "replacement"]

MCCodeOf == [c \in {"bs", "tab", "nl", "ff", "cr", "us", "acute", "lq", "rq", "low", "astral", "replacement"} |->
               CASE c = "bs" -> 8 [] c = "tab" -> 9 [] c = "nl" -> 10 [] c = "ff" -> 12
                 [] c = "cr" -> 13 [] c = "us" -> 31 [] c = "acute" -> 225 [] c = "lq" -> 8220
                 [] c = "rq" -> 8221 [] c = "low" -> 8222 [] c = "astral" -> 127794 [] OTHER -> 65533]
===============================================================================
