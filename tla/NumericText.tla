------------------------------ MODULE NumericText ------------------------------
(***************************************************************************)
(* The numbers the schema repairer reads out of a string                   *)
(* (src/src/json_schema_impl.rs): the spellings of a locale, the single    *)
(* number of a text, and the two readings of a text whose separators do    *)
(* not say which they are.                                                 *)
(*                                                                         *)
(* A number is kept as the shortest decimal text of its value.  Exponents, *)
(* infinities, whole numbers past 64 bits and digits of other scripts than *)
(* the wide one are left out.                                              *)
(***************************************************************************)
EXTENDS RepairParser
LOCAL INSTANCE SequencesExt

Locale(decimal, grouping) == [decimal |-> decimal, grouping |-> grouping]

DOT_COMMA == Locale(".", ",")
EU_MIRROR == Locale(",", ".")
Auto      == Locale("", "")

\* The spelling of a language; a grouping blank is any whitespace.
locale_spec_from_tag ==
  [tag \in {"auto", "en-US", "de-DE", "de-CH", "fr-FR"} |->
     CASE tag = "auto" -> Auto [] tag = "en-US" -> DOT_COMMA [] tag = "de-DE" -> EU_MIRROR
       [] tag = "de-CH" -> Locale(".", "rsquo") [] tag = "fr-FR" -> Locale(",", " ")]

Narrow == [c \in {"wide1", "wide-", "wide,"} |->
             CASE c = "wide1" -> "1" [] c = "wide-" -> "-" [] OTHER -> ","]

Without(text, char) == SelectSeq(text, LAMBDA c : c # char)

Narrowed(text) ==
  [i \in 1..Len(text) |-> IF text[i] \in DOMAIN Narrow THEN Narrow[text[i]] ELSE text[i]]

normalize_script(text) == Narrowed(Without(text, "_"))

Groups(spec, c) == c = "," \/ c = spec.grouping \/ (spec.grouping = " " /\ c \in White)

\* The text with the separators of plain numbers.
normalize_locale(t, spec) ==
  [i \in 1..Len(t) |-> IF t[i] = spec.decimal THEN "." ELSE IF Groups(spec, t[i]) THEN "," ELSE t[i]]

Separated(t, spec) == IF spec = Auto THEN t ELSE normalize_locale(t, spec)

Noiseless(text, spec) == Separated(normalize_script(text), spec)

-----------------------------------------------------------------------------
(* The one number of a text.                                               *)

DigitsAt(t, i) == Past(t, i, Digits) - i

\* How many groups of three digits follow, each after the separator c.
GroupsAt(t, i, c) ==
  LET full(k) == CharAt(t, i + 4 * k) = c /\ DigitsAt(t, i + 4 * k + 1) >= 3
  IN  Smallest({n \in 0..Len(t) : ~full(n)})

NoToken == [from |-> -1, to |-> -1, eu |-> FALSE]
Token(from, to, eu) == [from |-> from, to |-> to, eu |-> eu]

FirstFound(found, otherwise) == FoldLeft(LAMBDA v, x : IF v = otherwise THEN x ELSE v, otherwise, found)

\* One to three digits at i, [end, groups], with the groups after them.
HeadAt(t, i, digits, c) ==
  [end |-> i + digits, groups |-> IF digits \in 1..3 THEN GroupsAt(t, i + digits, c) ELSE -1]

HeadFrom(t, i, c) == HeadAt(t, i, DigitsAt(t, i), c)

SeveralGroups(t, i, h) ==
  IF h.groups >= 2 THEN Token(i, FractionEnd(t, h.end + 4 * h.groups), FALSE) ELSE NoToken

OneGroup(t, i, h) ==
  IF h.groups >= 1 /\ FractionEnd(t, h.end + 4) > h.end + 4
  THEN Token(i, FractionEnd(t, h.end + 4), FALSE) ELSE NoToken

PointGroups(t, i, h) ==
  LET comma == h.end + 4 * h.groups
  IN  IF h.groups >= 1 /\ CharAt(t, comma) = "," /\ DigitsAt(t, comma + 1) >= 1
      THEN Token(i, comma + 1 + DigitsAt(t, comma + 1), TRUE) ELSE NoToken

Plain(t, i, h, known) ==
  IF known /\ h.groups >= 1 THEN Token(i, h.end + 4, FALSE)
  ELSE IF CharAt(t, i) \in Digits THEN Token(i, FractionEnd(t, h.end), FALSE) ELSE NoToken

\* The forms of a number at i, the first that fits: several groups, with a sign; one
\* group and a fraction; the form with points for groups; one group, when the locale
\* is known; digits.
TokenAt(t, i, known) ==
  LET sign == IF CharAt(t, i) \in {"-", "+"} THEN i + 1 ELSE i
      h    == HeadFrom(t, i, ",")
  IN  FirstFound(<<SeveralGroups(t, i, HeadFrom(t, sign, ",")), OneGroup(t, i, h), PointGroups(t, i, HeadFrom(t, i, ".")),
              Plain(t, i, h, known)>>, NoToken)

TokenFrom(t, i, known) ==
  FoldLeft(LAMBDA found, k : IF found = NoToken THEN TokenAt(t, k - 1, known) ELSE found,
           NoToken, [k \in 1..(Len(t) - i) |-> i + k])

NothingFound == [token |-> <<>>, percent |-> FALSE]

TokenDigits(t, tok) ==
  LET whole == SubSeq(t, tok.from + 1, tok.to)
      int   == Without(whole, ".")
  IN  IF tok.eu THEN [i \in 1..Len(int) |-> IF int[i] = "," THEN "." ELSE int[i]]
      ELSE Without(whole, ",")

FoundAt(t, tok) ==
  LET minus == Cardinality({i \in 1..tok.from : t[i] = "-"}) = 1
  IN  [token   |-> (IF minus THEN <<"-">> ELSE <<>>) \o TokenDigits(t, tok),
       percent |-> CharAt(t, Past(t, tok.to, White)) = "%"]

OnlyToken(t, first, known) ==
  IF \/ first = NoToken
     \/ TokenFrom(t, first.to, known) # NoToken
     \/ CharAt(t, first.from - 1) \in {".", ","}
  THEN NothingFound ELSE FoundAt(t, first)

FirstToken(t, known) == OnlyToken(t, TokenFrom(t, 0, known), known)

extract_single_number(text, spec) == FirstToken(Noiseless(text, spec), spec # Auto)

-----------------------------------------------------------------------------
(* The value of a spelling.                                                *)

NoNumber == [none |-> TRUE]
Refused  == [refused |-> TRUE]

Unsigned(t) == IF t # <<>> /\ t[1] \in {"-", "+"} THEN Tail(t) ELSE t
Minus(t)    == t # <<>> /\ t[1] = "-"

parse_exact_integer(t) ==
  LET digits == Unsigned(t)
  IN  IF digits = <<>> \/ ~AllDigits(digits) THEN NoNumber
      ELSE Whole(IF Minus(t) THEN t ELSE digits)

\* The shortest text of the number with these digits before and after its point.
Decimal(minus, int, frac) ==
  LET last == {k \in 1..Len(frac) : frac[k] # "0"}
      tail == IF last = {} THEN <<"0">> ELSE SubSeq(frac, 1, Largest(last))
  IN  Frac((IF minus THEN <<"-">> ELSE <<>>) \o NormalInt(int) \o <<".">> \o tail)

\* A text in its parts, [ok, int, frac].
PointOf(digits) == Smallest({Len(digits) + 1} \cup {k \in 1..Len(digits) : digits[k] = "."})

Split(digits, point) ==
  LET int  == SubSeq(digits, 1, point - 1)
      frac == SubSeq(digits, point + 1, Len(digits))
  IN  [ok |-> int \o frac # <<>> /\ AllDigits(int \o frac), int |-> int, frac |-> frac]

Parts(t) == Split(Unsigned(t), PointOf(Unsigned(t)))

OfParts(minus, p) == IF p.ok THEN Decimal(minus, p.int, p.frac) ELSE NoNumber

parse_float(t) == OfParts(Minus(t), Parts(t))

WholeOf(minus, p) ==
  IF p.frac \in {<<>>, <<"0">>} THEN Whole((IF minus THEN <<"-">> ELSE <<>>) \o p.int) ELSE NoNumber

integral_value(v) == IF v = NoNumber THEN NoNumber ELSE WholeOf(Minus(v.num), Parts(v.num))

PointAfter(minus, digits, k, frac) ==
  Decimal(minus, SubSeq(digits, 1, k), SubSeq(digits, k + 1, Len(digits)) \o frac)

HundredthOf(minus, p) == PointAfter(minus, <<"0", "0">> \o p.int, Len(p.int), p.frac)

Hundredth(v) == HundredthOf(Minus(v.num), Parts(v.num))

-----------------------------------------------------------------------------
(* Reading a number from a string: the text as it is, without the noise of *)
(* its locale, its one number.  NoNumber leaves it to the next reading.    *)

Integral(exact, float) == IF exact # NoNumber THEN exact ELSE integral_value(float)

AsIs(text, integral) ==
  IF integral THEN Integral(parse_exact_integer(trim(text)), parse_float(trim(text)))
  ELSE parse_float(trim(text))

\* A number that had to be whole and is not is refused, and read no further.
WholeOrRefused(v) == IF v = NoNumber THEN Refused ELSE v

OrRefused(v, integral) == IF v = NoNumber \/ ~integral THEN v ELSE WholeOrRefused(integral_value(v))

ReadAs(t, float, integral) ==
  IF integral /\ parse_exact_integer(t) # NoNumber THEN parse_exact_integer(t) ELSE OrRefused(float, integral)

WithoutNoise(text, t, integral) == IF t = text THEN NoNumber ELSE ReadAs(t, parse_float(t), integral)

\* The number that was found; per cent are hundredths where it need not be whole.
OfFound(percent, v, integral) == IF percent /\ ~integral /\ v # NoNumber THEN Hundredth(v) ELSE v

Extracted(found, integral) ==
  IF found.percent THEN OrRefused(OfFound(TRUE, parse_float(found.token), integral), integral)
  ELSE ReadAs(found.token, parse_float(found.token), integral)

parse_extracted(found, integral) ==
  IF ~integral THEN OfFound(found.percent, parse_float(found.token), FALSE)
  ELSE Integral(IF found.percent THEN NoNumber ELSE parse_exact_integer(found.token),
                parse_float(found.token))

\* What the text says when nothing of it is ambiguous.
Plainly(text, integral, spec) ==
  FirstFound(<<AsIs(text, integral), WithoutNoise(text, Noiseless(text, spec), integral),
          Extracted(extract_single_number(text, spec), integral)>>, NoNumber)

Differing(first, second) ==
  SelectSeq(IF first = second THEN <<first>> ELSE <<first, second>>, LAMBDA v : v # NoNumber)

\* The two readings of an ambiguous text, or the one that both or only one give.
Readings(text, integral) ==
  IF ~\E i \in 1..Len(text) : text[i] \in Digits THEN <<>>
  ELSE Differing(parse_extracted(extract_single_number(text, DOT_COMMA), integral),
                 parse_extracted(extract_single_number(text, EU_MIRROR), integral))
===============================================================================
