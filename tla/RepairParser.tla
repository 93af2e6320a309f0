----------------------------- MODULE RepairParser -----------------------------
(***************************************************************************)
(* The whole-text JSON repairer (src/src/json_repair/parser.rs, array.rs,  *)
(* object.rs, parenthesized.rs, mod.rs), without a schema: a recursive     *)
(* descent over a text that need not be JSON, which it may edit on the     *)
(* way.  A step is [p, v], the parser after it and the value it read; once *)
(* p.err is set nothing more is read.                                      *)
(***************************************************************************)
EXTENDS StrictJson, CodeFences
LOCAL INSTANCE SequencesExt

Ret(p, v)    == [p |-> p, v |-> v]
Raise(p, why) == [p |-> Fail(p, why), v |-> NoValue]
Text(t)      == [str |-> t]
EmptyText    == Text(<<>>)
Failed(r)    == r.p.err # ""

IsText(v)   == DOMAIN v = {"str"}
IsArray(v)  == DOMAIN v = {"arr"}
IsObject(v) == DOMAIN v = {"obj"}

is_truthy(v) ==
  CASE IsText(v)   -> v.str # <<>>
    [] IsArray(v)  -> v.arr # <<>>
    [] IsObject(v) -> v.obj # <<>>
    [] DOMAIN v = {"word"} -> v.word = "true"
    [] v = NotANumber -> TRUE
    [] OTHER -> \E i \in 1..Len(v.num) : v.num[i] \in Digits \ {"0"}
                  /\ \A k \in 1..i : v.num[k] # "e"

RECURSIVE is_same_object(_, _)
is_same_object(a, b) ==
  /\ DOMAIN a = DOMAIN b
  /\ CASE IsArray(a)  -> /\ Len(a.arr) = Len(b.arr)
                         /\ \A i \in 1..Len(a.arr) : is_same_object(a.arr[i], b.arr[i])
       [] IsObject(a) -> /\ Len(a.obj) = Len(b.obj)
                         /\ \A i \in 1..Len(a.obj) : \E k \in 1..Len(b.obj) :
                              /\ a.obj[i][1] = b.obj[k][1]
                              /\ is_same_object(a.obj[i][2], b.obj[k][2])
       [] IsText(a)   -> TRUE
       [] DOMAIN a = {"word"} -> (a.word = "null") = (b.word = "null")
       [] OTHER -> a.kind = b.kind

-----------------------------------------------------------------------------
(* Lookaheads of the containers.                                           *)

\* Whether the container the text starts with closes and something that is no
\* comma follows it.  A text read past its first character has something before.
NextQuote(s, i) ==
  LET ends == {j \in (i + 1)..Len(s) : s[j] = "\"" /\
                 (j - 1 - Largest({i} \cup {k \in (i + 1)..(j - 1) : s[k] # "\\"})) % 2 = 0}
  IN  IF ends = {} THEN Len(s) + 1 ELSE Smallest(ends)

RECURSIVE TrailsAfter(_, _, _)
TrailsAfter(s, i, open) ==
  LET c == IF i > Len(s) THEN "" ELSE s[i]
      after == CharAt(s, Past(s, i, Whitespace))
  IN  CASE c = "" -> FALSE
        [] c = "\"" -> TrailsAfter(s, NextQuote(s, i) + 1, open)
        [] c \in {"{", "["} -> TrailsAfter(s, i + 1, Append(open, c))
        [] c \in {"}", "]"} ->
             /\ open # <<>> /\ open[Len(open)] = Pairs[c]
             /\ IF Len(open) = 1 THEN after \notin {"", ","}
                ELSE TrailsAfter(s, i + 1, Front1(open))
        [] OTHER -> TrailsAfter(s, i + 1, open)

initial_container_has_non_comma_trailing_content(p) ==
  p.index # 0 \/ TrailsAfter(p.s, 1, <<>>)

\* A walk over the text between parentheses: `w` counts the open ones of each kind,
\* and stops at the ")" that closes them all, at a comma when asked to, or at the
\* end.  `floor` says that a ")" too many is not counted.
RECURSIVE InsideParens(_, _, _, _)
InsideParens(p, i, w, tuple) ==
  LET c      == At(p, i)
      free   == w.slashes % 2 = 0
      plain  == [w EXCEPT !.slashes = 0]
      top    == w.paren = 0 /\ w.square = 0 /\ w.brace = 0
      seen   == [plain EXCEPT !.saw = @ \/ (top /\ c \notin Whitespace \cup {",", ")"})]
      next   == CASE c = "(" -> [seen EXCEPT !.paren = @ + 1]
                  [] c = ")" -> [seen EXCEPT !.paren = IF @ > 0 \/ ~tuple THEN @ - 1 ELSE @]
                  [] c = "[" -> [seen EXCEPT !.square = @ + 1]
                  [] c = "]" -> [seen EXCEPT !.square = IF @ > 0 THEN @ - 1 ELSE @]
                  [] c = "{" -> [seen EXCEPT !.brace = @ + 1]
                  [] c = "}" -> [seen EXCEPT !.brace = IF @ > 0 THEN @ - 1 ELSE @]
                  [] OTHER -> seen
  IN  IF c = "" THEN [i |-> i, saw |-> w.saw]
      ELSE IF c = "\\" THEN InsideParens(p, i + 1, [w EXCEPT !.slashes = @ + 1], tuple)
      ELSE IF w.quote # ""
      THEN InsideParens(p, i + 1, [plain EXCEPT !.quote = IF c = @ /\ free THEN "" ELSE @], tuple)
      ELSE IF c \in STRING_DELIMITERS /\ free
      THEN InsideParens(p, i + 1, [plain EXCEPT !.quote = c, !.saw = @ \/ top], tuple)
      ELSE IF top /\ (c = ")" \/ (tuple /\ c = ",")) THEN [i |-> i, saw |-> w.saw]
      ELSE InsideParens(p, i + 1, next, tuple)

Parens(p, tuple) ==
  InsideParens(p, p.index + 1, [paren |-> 0, square |-> 0, brace |-> 0, quote |-> "",
                                slashes |-> 0, saw |-> FALSE], tuple)

parenthesized_is_explicit_tuple(p) ==
  LET end == Parens(p, TRUE) IN At(p, end.i) = "," \/ ~end.saw

SpelledBare(p, i) ==
  \E w \in LITERAL_VALUES : \A k \in 1..Len(w[1]) : lower_char(At(p, i + k - 1)) = w[1][k]

top_level_parenthesized_can_start_value(p) ==
  LET before == {i \in 0..(p.index - 1) : At(p, i) \notin Whitespace \ LineEnds}
      inner  == PastAll(p, p.index + 1, Whitespace)
      close  == Parens(p, FALSE).i
      rest   == PastAll(p, close + 1, Whitespace \ LineEnds)
  IN  /\ before = {} \/ At(p, Largest(before)) \in LineEnds
      /\ \/ At(p, inner) \in {")", "{", "[", "(", "-", "."} \cup STRING_DELIMITERS \cup Digits
         \/ SpelledBare(p, inner)
      /\ At(p, close) = "" \/ At(p, rest) \in LineEnds \cup {""}

next_top_level_value_is_comma_separated(p) ==
  LET before == {i \in 0..(p.index - 1) : At(p, i) \notin Whitespace}
  IN  \/ get(p, scroll_whitespaces(p, 0)) = ","
      \/ before # {} /\ At(p, Largest(before)) = ","

-----------------------------------------------------------------------------
(* Numbers.                                                                *)

\* The text of the number at the cursor ends here.
NumberEnd(p) ==
  LET array == ctx_current(p) = "Array"
      last(i)  == {k \in p.index..(i - 1) : At(p, k) # "_"}
      taken(i) == \/ At(p, i) \in NUMBER_CHARS /\ ~(array /\ At(p, i) = ",")
                  \/ At(p, i) \in {"+", "-"} /\ last(i) # {} /\ At(p, Largest(last(i))) = "e"
      stops == {i \in p.index..(Len(p.s) - 1) : ~taken(i)}
  IN  IF stops = {} THEN Len(p.s) ELSE Smallest(stops)

HasAny(text, chars) == \E i \in 1..Len(text) : text[i] \in chars

IsWhole(text) ==
  LET digits == IF text # <<>> /\ text[1] = "-" THEN Tail(text) ELSE text
  IN  digits # <<>> /\ \A i \in 1..Len(digits) : digits[i] \in Digits

AllDigits(text) == \A i \in 1..Len(text) : text[i] \in Digits

IsFloat(text) ==
  LET body  == IF text # <<>> /\ text[1] \in {"-", "+"} THEN Tail(text) ELSE text
      es    == {i \in 1..Len(body) : body[i] = "e"}
      e     == IF es = {} THEN Len(body) + 1 ELSE Smallest(es)
      power == SubSeq(body, e + 1, Len(body))
      bare  == IF power # <<>> /\ power[1] \in {"-", "+"} THEN Tail(power) ELSE power
      mant  == SelectSeq(SubSeq(body, 1, e - 1), LAMBDA c : c # ".")
  IN  /\ mant # <<>> /\ AllDigits(mant) /\ Len(mant) >= e - 2
      /\ es # {} => bare # <<>> /\ AllDigits(bare)

NumberValue(text) ==
  IF HasAny(text, {","}) THEN Text(text)
  ELSE IF HasAny(text, {".", "e"}) THEN IF IsFloat(text) THEN Frac(text) ELSE Text(text)
  ELSE IF IsWhole(text) THEN Whole(text) ELSE Text(text)

\* [p, v], or `string` when a letter follows.
ReadNumber(p) ==
  LET end  == NumberEnd(p)
      text == SelectSeq(SubSeq(p.s, p.index + 1, end), LAMBDA c : c # "_")
      cut  == text # <<>> /\ text[Len(text)] \in {"-", "e", "/", ",", "+"}
  IN  [string |-> At(p, end) \in Letters,
       p |-> Seek(p, IF cut THEN end - 1 ELSE end),
       v |-> NumberValue(IF cut THEN Front1(text) ELSE text)]

-----------------------------------------------------------------------------
(* Comments.                                                               *)

CommentStops(p) ==
  LineEnds \cup (IF ctx_has(p, "Array") THEN {"]"} ELSE {})
    \cup (IF ctx_has(p, "ObjectValue") THEN {"}"} ELSE {})
    \cup (IF ctx_has(p, "ObjectKey") THEN {":"} ELSE {})

\* Past the comment at the cursor.  The star that opens a block may close it too.
PastComment(p) ==
  LET ends == {i \in (p.index + 2)..(Len(p.s) - 1) : At(p, i) = "/" /\ At(p, i - 1) = "*"}
  IN  CASE cur(p) = "#" -> Seek(p, Until(p, p.index, CommentStops(p)))
        [] cur(p) = "/" /\ get(p, 1) = "/" -> Seek(p, Until(p, p.index + 2, LineEnds))
        [] cur(p) = "/" /\ get(p, 1) = "*" ->
             Seek(p, IF ends = {} THEN Len(p.s) ELSE Smallest(ends) + 1)
        [] cur(p) = "/" /\ get(p, 1) \notin {"/", "*"} -> Move(p, 1)
        [] OTHER -> p

RECURSIVE PastComments(_)
PastComments(p) ==
  LET q == skip_whitespaces(PastComment(p)) IN IF cur(q) \in {"#", "/"} THEN PastComments(q) ELSE q

-----------------------------------------------------------------------------
(* An object that came out empty though its braces hold something.         *)

Holds(text, word) ==
  \E i \in 0..(Len(text) - Len(word)) : SubSeq(text, i + 1, i + Len(word)) = word
StartsWith(text, word) == Len(text) >= Len(word) /\ SubSeq(text, 1, Len(word)) = word

\* An escaped quote is a quote.
NormalizeQuotes(text) ==
  LET drop(i) == text[i] = "\\" /\ i < Len(text) /\ text[i + 1] \in {"\"", "'"}
  IN  FoldLeft(LAMBDA acc, i : IF drop(i) THEN acc ELSE Append(acc, text[i]), <<>>,
               [i \in 1..Len(text) |-> i])

\* The text without its comments; a quote opens and closes unless escaped.
RECURSIVE strip_comments(_, _, _, _)
strip_comments(b, i, quote, slashes) ==
  LET c    == IF i > Len(b) THEN "" ELSE b[i]
      c2   == IF i + 1 > Len(b) THEN "" ELSE b[i + 1]
      lf   == {j \in i..Len(b) : b[j] \in LineEnds}
      line == IF lf = {} THEN Len(b) + 1 ELSE Smallest(lf)
      ends == {j \in (i + 2)..(Len(b) - 1) : b[j] = "*" /\ b[j + 1] = "/"}
      free == slashes % 2 = 0
  IN  IF c = "" THEN <<>>
      ELSE IF c = "\\" THEN <<c>> \o strip_comments(b, i + 1, quote, slashes + 1)
      ELSE IF quote # ""
      THEN <<c>> \o strip_comments(b, i + 1, IF c = quote /\ free THEN "" ELSE quote, 0)
      ELSE IF c \in STRING_DELIMITERS /\ free THEN <<c>> \o strip_comments(b, i + 1, c, 0)
      ELSE IF c = "#" \/ (c = "/" /\ c2 = "/") THEN strip_comments(b, line, "", 0)
      ELSE IF c = "/" /\ c2 = "*"
      THEN strip_comments(b, IF ends = {} THEN Len(b) + 1 ELSE Smallest(ends) + 2, "", 0)
      ELSE <<c>> \o strip_comments(b, i + 1, "", 0)

RECURSIVE ColonOutsideQuotes(_, _, _, _)
ColonOutsideQuotes(b, i, quote, slashes) ==
  LET c    == IF i > Len(b) THEN "" ELSE b[i]
      free == slashes % 2 = 0
  IN  CASE c = "" -> FALSE
        [] c = "\\" -> ColonOutsideQuotes(b, i + 1, quote, slashes + 1)
        [] c \notin {"", "\\"} /\ quote # "" ->
             ColonOutsideQuotes(b, i + 1, IF c = quote /\ free THEN "" ELSE quote, 0)
        [] c \in STRING_DELIMITERS /\ quote = "" ->
             ColonOutsideQuotes(b, i + 1, IF free THEN c ELSE "", 0)
        [] OTHER -> (c = ":" /\ free) \/ ColonOutsideQuotes(b, i + 1, "", 0)

LStrip(text) == Drop(text, Lead(text, Whitespace))

\* [kind, text]: what to read the braces as, and the text an "Object" becomes.
classify_empty_object_repair(p, start) ==
  LET end   == IF p.index + 1 < Len(p.s) THEN p.index + 1 ELSE Len(p.s)
      whole == SubSeq(p.s, start, end)
      inner == Tail(whole)
      body  == LStrip(IF inner # <<>> /\ inner[Len(inner)] = "}" THEN Front1(inner) ELSE inner)
      bare  == LStrip(strip_comments(body, 1, "", 0))
      escaped(q) == StartsWith(body, <<"\\", q>>) /\ Holds(body, <<"\\", q, ":">>)
  IN  IF body = <<>> THEN [kind |-> "Keep", text |-> <<>>]
      ELSE IF escaped("\"") \/ escaped("'")
      THEN [kind |-> "Object", text |-> NormalizeQuotes(whole)]
      ELSE IF bare = <<>> \/ ColonOutsideQuotes(bare, 1, "", 0)
      THEN [kind |-> "Keep", text |-> <<>>]
      ELSE [kind |-> "Array", text |-> <<>>]

-----------------------------------------------------------------------------
(* Duplicate names and continued arrays.                                   *)

HasKey(obj, key) == \E i \in 1..Len(obj) : obj[i][1] = key

\* Mutant: a name read twice always starts an object of its own.
split_on_every_repeat(p, rollback) == TRUE

should_split_duplicate_object(p, rollback) ==
  LET before == {i \in 0..(rollback - 1) : At(p, i) \notin Whitespace}
      prev   == IF before = {} THEN "" ELSE At(p, Largest(before))
  IN  ~(/\ At(p, rollback) \in STRING_DELIMITERS /\ prev = ","
        /\ get(p, scroll_whitespaces(p, 0)) = ":")

split_object_on_duplicate_key(p, rollback) ==
  [p EXCEPT !.s = SubSeq(@, 1, rollback) \o <<"{">> \o SubSeq(@, rollback + 1, Len(@)),
            !.index = rollback - 1, !.memo = {}]

\* The widths of the rows among the values of an array.
Widths(items) == {Len(items[i].arr) : i \in {k \in 1..Len(items) : IsArray(items[k])}}

\* The values after the last row, by rows of n when they fill them.
Rows(items, n) ==
  LET rows == {i \in 1..Len(items) : IsArray(items[i])}
      cut  == IF rows = {} THEN 0 ELSE Largest(rows)
      tail == SubSeq(items, cut + 1, Len(items))
      row(k) == [arr |-> SubSeq(tail, n * (k - 1) + 1, n * k)]
  IN  IF tail = <<>> \/ Len(tail) % n # 0 THEN items
      ELSE SubSeq(items, 1, cut) \o [k \in 1..(Len(tail) \div n) |-> row(k)]

\* An array that continues the last member's, as rows when that has rows of one
\* width.  `widths` are the widths seen so far, {-1} before any look.
MergeItems(items, more, widths) ==
  LET w    == IF widths = {-1} THEN Widths(items) ELSE widths
      n    == CHOOSE k \in w : TRUE
      rows == more # <<>> /\ \A i \in 1..Len(more) : IsArray(more[i])
      flat == IF Len(more) = 1 /\ rows THEN more[1].arr ELSE more
  IN  IF Cardinality(w) = 1 /\ n # 0
      THEN [items |-> Rows(items, n) \o (IF more = <<>> \/ rows THEN more ELSE <<[arr |-> more]>>),
            widths |-> w \cup (IF rows \/ more = <<>> THEN Widths(more) ELSE {Len(more)})]
      ELSE [items |-> items \o flat, widths |-> w \cup Widths(flat)]

Continues(p, obj) ==
  /\ cur(p) = "[" /\ obj # <<>> /\ ~p.strict
  /\ obj[Len(obj)][1] # <<>> /\ IsArray(obj[Len(obj)][2])

-----------------------------------------------------------------------------
(* The recursive descent: what the cursor is at, read as one of the things *)
(* the parsers call one another for.                                       *)

RECURSIVE Read(_, _)

Leave(r) == [r EXCEPT !.p = leave_depth(@)]
InContext(r, n) ==
  [r EXCEPT !.p.context = SubSeq(@, 1, IF Len(@) > n THEN Len(@) - n ELSE 0)]

CommentAt(q) ==
  IF q.comments > MAX_NESTING THEN Raise(q, "nesting")
  ELSE IF ctx_empty(q) THEN Read("value", PastComments(q)) ELSE Ret(PastComment(q), EmptyText)

parse_comment(p) ==
  LET r == CommentAt([p EXCEPT !.comments = @ + 1]) IN [r EXCEPT !.p.comments = @ - 1]

\* A fenced object in a string's place.
FencedJson(p) ==
  /\ Fence(p, 0) /\ Spells(p, 3, <<"j", "s", "o", "n">>)
  /\ Fence(p, skip_to_character(p, {"tick"}, 7))

\* Mutant: what was read when the clock ran out is the string.
ScanCutShort(z) == finalize_string_result(z)

ScanEnded(z) == IF z.p.late THEN Raise(z.p, "deadline") ELSE finalize_string_result(z)

\* Where a string's scan starts, or the answer without one: [p, st, v].
ScanFrom(p, st) == [p |-> p, st |-> st, v |-> NoValue]
NoScan(r)       == [p |-> r.p, st |-> StringParseState("\""), v |-> r.v]

Start(s) == IF s.v # NoValue \/ s.p.err # "" THEN Ret(s.p, s.v)
            ELSE ScanEnded(scan_string_body(s.p, s.st))

\* Two quotes at the start: an empty string, a doubled quote, or one that is text.
DoubledAt(p, st, close, second, next) ==
  LET c1      == get(p, 1)
      context == ctx_current(p)
  IN  IF \/ context = "ObjectKey" /\ c1 = ":"
         \/ context = "ObjectValue" /\ c1 \in {",", "}"}
         \/ context = "Array" /\ c1 \in {",", "]"}
      THEN NoScan(Ret(Move(p, 1), EmptyText))
      ELSE IF c1 = st.lq
      THEN NoScan(IF p.strict THEN Raise(p, "doubled quotes") ELSE Ret(p, EmptyText))
      ELSE IF get(p, close + 1) = outer(st)
      THEN ScanFrom(Move(p, 1), [st EXCEPT !.doubled = TRUE])
      ELSE IF /\ get(p, close) = outer(st) /\ context = "ObjectValue"
              /\ ~only_whitespace_until(p, close) /\ get(p, second) = outer(st)
              /\ get(p, scroll_whitespaces(p, second + 1)) \in {",", "}", ""}
      THEN ScanFrom(Move(p, 1), [append_string_content(st, <<st.lq>>) EXCEPT !.unmatched = TRUE])
      ELSE IF next \in STRING_DELIMITERS \cup {"{", "["}
      THEN NoScan(IF p.strict THEN Raise(p, "doubled quotes") ELSE Ret(Move(p, 1), EmptyText))
      ELSE ScanFrom(IF next \in {",", "]", "}"} THEN p ELSE Move(p, 1), st)

DoubledQuotes(p, st) ==
  LET With(close) == DoubledAt(p, st, close, skip_to_character(p, {outer(st)}, close + 1),
                               get(p, scroll_whitespaces(p, 1)))
  IN  With(skip_to_character(p, {outer(st)}, 1))

Opened(p, st) == IF cur(p) = st.lq THEN DoubledQuotes(p, st) ELSE ScanFrom(p, st)

AfterBlock(p, st, block) ==
  IF FencedJson(p) /\ (block.v # [word |-> "false"] \/ block.p.err # "") THEN NoScan(block)
  ELSE Opened(IF FencedJson(p) THEN block.p ELSE p, st)

\* From the opening quote, or the first character of a string without one.
prepare_string_entry(p, st) ==
  LET q == IF st.missing THEN p ELSE Move(p, 1)
  IN  IF cur(q) = "tick" THEN AfterBlock(q, st, Read("value", Move(q, 7))) ELSE Opened(q, st)

NoValueYet(q) == [p |-> q, v |-> NoValue, ok |-> FALSE]

Unscanned(q) ==
  IF cur(q) \in Alnum /\ ctx_current(q) # "ObjectKey" THEN parse_boolean_or_null(q)
  ELSE IF cur(q) = "\"" THEN try_parse_simple_quoted_string(q) ELSE NoValueYet(q)

StringFrom(q) ==
  LET Of(r) == IF r.ok THEN Ret(r.p, r.v)
               ELSE Start(prepare_string_entry(q, StringParseState(cur(q))))
  IN  IF cur(q) = "" THEN Ret(q, EmptyText) ELSE Of(Unscanned(q))

parse_string(p) ==
  LET starts == {i \in p.index..(Len(p.s) - 1) : At(p, i) \in STRING_DELIMITERS \cup Alnum}
  IN  IF cur(p) \in {"#", "/"} THEN Read("comment", p)
      ELSE StringFrom(Seek(p, IF starts = {} THEN Largest({p.index, Len(p.s)}) ELSE Smallest(starts)))

parse_number(p) ==
  LET Number(n) == IF n.string THEN Read("string", p) ELSE Ret(n.p, n.v) IN Number(ReadNumber(p))

\* The text from here, when what it starts with is JSON as it stands: tried once.
SuffixAt(p) ==
  LET Tried(r) == [p |-> [p EXCEPT !.tried_suffix = TRUE, !.index = IF r.i = -1 THEN @ ELSE r.i],
                   v |-> r.v, ok |-> r.i # -1]
  IN  IF /\ cur(p) \in {"{", "["} /\ ~p.tried_suffix /\ ctx_empty(p)
         /\ initial_container_has_non_comma_trailing_content(p)
      THEN Tried(raw_decode(p.s, p.index)) ELSE NoValueYet(p)

Inside(what, q) == IF q.err # "" THEN Ret(q, NoValue) ELSE Leave(Read(what, q))

\* One container deeper.
Enter(what, p) == Inside(what, enter_depth(p))

\* The value at the cursor, or the first one after it.
RECURSIVE ValueAt(_)
ValueHere(p, suffix) ==
  LET c      == cur(p)
      inside == ~ctx_empty(p)
      q      == Move(suffix.p, 1)
  IN  IF p.err # "" THEN Ret(p, NoValue)
      ELSE IF c = "" THEN Ret(p, EmptyText)
      ELSE IF suffix.ok THEN Ret(suffix.p, suffix.v)
      ELSE IF c = "{" THEN Enter("object", q)
      ELSE IF c = "[" THEN Enter("array", q)
      ELSE IF c = "(" /\ (inside \/ top_level_parenthesized_can_start_value(p))
      THEN Enter("parenthesized", p)
      ELSE IF inside /\ c \in STRING_DELIMITERS \cup Letters THEN Read("string", p)
      ELSE IF inside /\ c \in Digits \cup {"-", "."} THEN parse_number(p)
      ELSE IF c \in {"#", "/"} THEN Read("comment", p)
      ELSE ValueAt(Move(p, 1))

ValueChecked(p) == ValueHere(p, SuffixAt(p))

ValueAt(p) == ValueChecked(check_deadline(p))

parse_json(p) ==
  InContext(ValueAt([p EXCEPT !.context = @ \o p.deferred, !.deferred = <<>>]), Len(p.deferred))

-----------------------------------------------------------------------------
(* Arrays.                                                                 *)

IsEmptyValue(v) == v \in {EmptyText, [arr |-> <<>>], [obj |-> <<>>]}

\* The elements so far are `items`; r is the next one.
RECURSIVE ArrayItems(_, _, _, _)
AfterItem(items, closing, in_value, r) ==
  LET nothing == IsEmptyValue(r.v) /\ cur(r.p) \notin {closing, ","}
      dots    == r.v = Text(<<".", ".", ".">>) /\ get(r.p, -1) = "."
      q       == IF nothing THEN Move(r.p, 1) ELSE r.p
  IN  IF Failed(r) THEN r
      ELSE ArrayItems(Seek(q, PastAll(q, q.index, (Whitespace \cup {","}) \ {closing})),
                      IF nothing \/ dots THEN items ELSE Append(items, r.v), closing, in_value)

ArrayItems(p, items, closing, in_value) ==
  LET c     == cur(p)
      named == c \in STRING_DELIMITERS /\ ColonAfter(p, skip_to_character(p, {c}, 1) + 1)
  IN  IF c \in {"", closing, "}"} THEN Ret(Move(p, 1), [arr |-> items])
      ELSE IF /\ named /\ in_value /\ items # <<>>
              /\ \A i \in 1..Len(items) : ~IsArray(items[i]) /\ ~IsObject(items[i])
      THEN Ret(p, [arr |-> items])
      ELSE AfterItem(items, closing, in_value,
             Read(IF named THEN "object" ELSE IF c \in STRING_DELIMITERS THEN "string" ELSE "value", p))

parse_array(p, closing) ==
  InContext(ArrayItems(skip_whitespaces(ctx_push(p, "Array")), <<>>, closing,
                       ctx_current(p) = "ObjectValue"), 1)

parse_parenthesized(p) ==
  LET Of(r) == IF ~Failed(r) /\ ~parenthesized_is_explicit_tuple(p) /\ Len(r.v.arr) = 1
               THEN Ret(r.p, r.v.arr[1]) ELSE r
  IN  Of(Read("tuple", Move(p, 1)))

-----------------------------------------------------------------------------
(* Objects.  A step over the members is [p, v] with v their sequence; one  *)
(* over a name is [p, obj, key, rollback].                                 *)

\* An array after a member: [p, obj, widths].
Merged(obj, widths, r, q) ==
  LET last == obj[Len(obj)]
      Of(m) == [p |-> skip_whitespaces([(IF cur(q) = "," THEN Move(q, 1) ELSE q) EXCEPT
                                          !.exact = @ /\ widths \in {{-1}, Widths(last[2].arr)}]),
                obj |-> [obj EXCEPT ![Len(obj)] = <<last[1], [arr |-> m.items]>>],
                widths |-> m.widths]
  IN  IF Failed(r) THEN [p |-> r.p, obj |-> obj, widths |-> widths]
      ELSE Of(MergeItems(last[2].arr, r.v.arr, widths))

MergedFrom(obj, widths, r) == Merged(obj, widths, r, skip_whitespaces(r.p))

merge_object_array_continuation(p, obj, widths) ==
  MergedFrom(obj, widths, Enter("array", Move(p, 1)))

\* A name is looked for from p on; `back` is where the last look began.
RECURSIVE KeyAt(_, _, _, _)
KeyTold(q, obj, key, back) == [p |-> q, obj |-> obj, key |-> key, rollback |-> back]

KeyFound(q, obj, widths, key, back) ==
  IF key # <<>> \/ q.err # "" THEN KeyTold(q, obj, key, back)
  ELSE IF cur(q) \notin {":", "}"} THEN KeyAt(q, obj, widths, back)
  ELSE KeyTold(IF q.strict THEN Fail(q, "empty key") ELSE q, obj, <<>>, back)

NameRead(obj, widths, back, r) ==
  LET key == IF IsText(r.v) THEN r.v.str ELSE <<>>
  IN  KeyFound(IF key = <<>> /\ ~Failed(r) THEN skip_whitespaces(r.p) ELSE r.p, obj, widths,
               IF Failed(r) THEN <<>> ELSE key, back)

KeyAfter(m, back) ==
  IF m.p.err # "" THEN KeyTold(m.p, m.obj, <<>>, back) ELSE KeyAt(m.p, m.obj, m.widths, back)

KeyAt(p, obj, widths, back) ==
  IF cur(p) = "" THEN KeyTold(p, obj, <<>>, back)
  ELSE IF Continues(p, obj) THEN KeyAfter(merge_object_array_continuation(p, obj, widths), p.index)
  ELSE NameRead(obj, widths, p.index, Read("string", p))

parse_object_key(p, obj) ==
  LET k == KeyAt(ctx_push(p, "ObjectKey"), obj, {-1}, p.index)
  IN  [k EXCEPT !.p = ctx_pop(@)]

parse_object_value(p) ==
  LET q == skip_whitespaces(ctx_push(p, "ObjectValue"))
  IN  InContext(IF cur(q) \in {",", "}"} THEN Ret(q, EmptyText) ELSE parse_json(q), 1)

\* The members are read one by one; at = [obj, in_value].
RECURSIVE Members(_, _)

\* After the value of a member: the next one, or the end of the object.
AfterComma(q, at) ==
  IF cur(q) = "]" /\ ctx_has(q, "Array") THEN Ret(Move(q, -1), at.obj)
  ELSE Members(skip_whitespaces(q), at)

AfterMember(p, at) == AfterComma(IF cur(p) \in {",", "'", "\""} THEN Move(p, 1) ELSE p, at)

ValueFound(k, at, r) ==
  IF Failed(r) THEN r
  ELSE IF r.p.strict /\ r.v = EmptyText /\ get(r.p, -1) \notin STRING_DELIMITERS
  THEN Raise(r.p, "empty value")
  ELSE AfterMember(r.p, [at EXCEPT !.obj = Insert(k.obj, k.key, r.v)])

AfterKey(p, at, k) ==
  IF cur(p) \in {"", "}"} THEN Members(p, [at EXCEPT !.obj = k.obj])
  ELSE IF cur(p) # ":" /\ p.strict THEN Raise(p, "missing colon")
  ELSE ValueFound(k, at, parse_object_value(Move(p, 1)))

KeyTaken(at, k) ==
  LET twice == ctx_has(k.p, "Array") /\ HasKey(at.obj, k.key)
  IN  IF k.p.err # "" THEN Ret(k.p, at.obj)
      ELSE IF twice /\ k.p.strict THEN Raise(k.p, "duplicate key")
      ELSE IF twice /\ ~at.in_value /\ should_split_duplicate_object(k.p, k.rollback)
      THEN Ret(split_object_on_duplicate_key(k.p, k.rollback), k.obj)
      ELSE AfterKey(skip_whitespaces(k.p), at, k)

MemberAt(p, at) == KeyTaken(at, parse_object_key(IF cur(p) = ":" THEN Move(p, 1) ELSE p, at.obj))

Members(p, at) ==
  IF cur(p) \in {"", "}"} THEN Ret(p, at.obj) ELSE MemberAt(skip_whitespaces(p), at)

\* Braces that held no member are read again, as what they seem to be: [p, v, done].
NotAgain(p) == [p |-> p, v |-> NoValue, done |-> FALSE]

ReadAgain(q, what, start) ==
  LET Done(r) == [p |-> [r.p EXCEPT !.deferred = Append(@, "ObjectKey")], v |-> r.v, done |-> TRUE]
  IN  Done(InContext(Read(what, ctx_push(Seek(q, start), "ObjectKey")), 1))

Spliced(p, start, text) ==
  [p EXCEPT !.s = SubSeq(@, 1, start - 1) \o text
                    \o SubSeq(@, IF p.index + 1 < Len(@) THEN p.index + 2 ELSE Len(@) + 1, Len(@)),
            !.memo = {}]

repair_empty_object_result(p, obj, start) ==
  LET As(repair) ==
        CASE repair.kind = "Keep"   -> NotAgain(p)
          [] repair.kind = "Object" -> ReadAgain(Spliced(p, start, repair.text), "object", start)
          [] repair.kind = "Array"  -> ReadAgain(p, "array", start)
  IN  IF obj # <<>> \/ p.index - start <= 2 THEN NotAgain(p)
      ELSE IF p.strict THEN NotAgain(Fail(p, "empty object"))
      ELSE As(classify_empty_object_repair(p, start))

\* A name after the object's end continues it, at the top level.
Continued(obj, more) ==
  IF Failed(more) \/ ~IsObject(more.v)
  THEN Ret(more.p, IF Failed(more) THEN more.v ELSE [obj |-> obj])
  ELSE Ret(more.p, [obj |-> FoldLeft(LAMBDA o, m : Insert(o, m[1], m[2]), obj, more.v.obj)])

AfterObject(q, obj) ==
  IF cur(q) \notin STRING_DELIMITERS \/ q.strict THEN Ret(q, [obj |-> obj])
  ELSE Continued(obj, Enter("object", q))

complete_object_parse(p, obj) ==
  LET q == skip_whitespaces(p)
  IN  IF ~ctx_empty(p)
      THEN Ret(IF cur(p) = "}" /\ ctx_current(p) \notin {"ObjectKey", "ObjectValue"}
               THEN Move(p, 1) ELSE p, [obj |-> obj])
      ELSE IF cur(q) # "," THEN Ret(q, [obj |-> obj])
      ELSE AfterObject(skip_whitespaces(Move(q, 1)), obj)

Completed(empty, obj) ==
  IF empty.p.err # "" \/ empty.done THEN Ret(empty.p, empty.v)
  ELSE complete_object_parse(empty.p, obj)

ObjectRead(m, start) ==
  IF Failed(m) THEN m ELSE Completed(repair_empty_object_result(Move(m.p, 1), m.v, start), m.v)

parse_object(p) ==
  ObjectRead(Members(p, [obj |-> <<>>, in_value |-> ctx_current(p) = "ObjectValue"]), p.index)

Read(what, p) ==
  CASE what = "value"   -> parse_json(p)
    [] what = "string"  -> parse_string(p)
    [] what = "comment" -> parse_comment(p)
    [] what = "object"  -> parse_object(p)
    [] what = "array"   -> parse_array(p, "]")
    [] what = "tuple"   -> parse_array(p, ")")
    [] what = "parenthesized" -> parse_parenthesized(p)

-----------------------------------------------------------------------------
(* The text.                                                               *)

HasMore(p) == p.index < Len(p.s)

\* The next value of the text: it replaces the last one when that is nothing or,
\* without a comma between them, when the two are alike.
Collect(items, v, comma) ==
  LET last == items[Len(items)]
  IN  IF (~comma /\ is_same_object(last, v)) \/ ~is_truthy(last) THEN Append(Front1(items), v)
      ELSE Append(items, v)

\* The values so far are `items`; r is the next one, read from p.
RECURSIVE Elements(_, _)
Element(p, items, r) ==
  IF Failed(r) \/ (items = <<>> /\ ~HasMore(r.p)) THEN r
  ELSE IF items = <<>> THEN Elements(r.p, <<r.v>>)
  ELSE IF p.strict /\ r.p.index > p.index THEN Raise(r.p, "several elements")
  ELSE IF is_truthy(r.v)
  THEN Elements(r.p, Collect(items, r.v, next_top_level_value_is_comma_separated(p)))
  ELSE Elements(Move(r.p, 1), items)

ElementAt(p, items) == Element(p, items, Read("value", p))

Elements(p, items) ==
  IF items # <<>> /\ ~HasMore(p) THEN Ret(p, IF Len(items) = 1 THEN items[1] ELSE [arr |-> items])
  ELSE ElementAt([p EXCEPT !.context = <<>>, !.deferred = <<>>], items)

parse_top_level(p) == Elements(p, <<>>)

Parsed(p) == IF p.err # "" THEN Ret(p, NoValue) ELSE parse_top_level(p)

\* The call: the value, or the error.  The text may be one fenced block.
repair(s, skip_json_loads, strict, polls) ==
  LET New(text) == NewParser(text, strict, polls)
      Loaded(text, r) == IF ~skip_json_loads /\ r.i # -1 THEN Ret(New(text), r.v)
                         ELSE Parsed(check_deadline(New(text)))
      Text0(inner) == IF trim(inner) = <<>> THEN s ELSE inner
      Of(text) == Loaded(text, loads_strict(text))
  IN  Of(Text0(unwrap_code_fence(s)))
===============================================================================
