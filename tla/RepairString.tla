----------------------------- MODULE RepairString -----------------------------
(***************************************************************************)
(* Reading one string of a broken text (src/src/json_repair/string.rs):    *)
(* where it ends when its quotes are missing, doubled, mixed or unescaped. *)
(* `st` is the state of the scan; `z` is the parser, the state, the        *)
(* character the scan is at and the rule that looks at it next, with `go`  *)
(* FALSE once the scan has decided.                                        *)
(***************************************************************************)
EXTENDS RepairText
LOCAL INSTANCE SequencesExt

CONSTANTS CODES   \* the characters a \u or \x escape names, by their code

Hex == [c \in {"0", "1", "2", "3", "8", "a", "b", "c", "d", "e", "f"} |->
          CASE c = "0" -> 0 [] c = "1" -> 1 [] c = "2" -> 2 [] c = "3" -> 3
            [] c = "8" -> 8 [] c = "a" -> 10 [] c = "b" -> 11 [] c = "c" -> 12 [] c = "d" -> 13
            [] c = "e" -> 14 [] c = "f" -> 15]

lower_char(c) == CASE c = "T" -> "t" [] c = "N" -> "n" [] OTHER -> c

\* class, ws_found and ws_probed are the open regex character class: the offset
\* after its "[", -1 without one, and the probe of its text for whitespace.
StringParseState(c) ==
  LET l == IF c \in {"'", "lq"} THEN c ELSE "\""
  IN  [missing |-> c \in Alnum, doubled |-> FALSE, lq |-> l,
       rs |-> <<matching_string_delimiter(l)>>, acc |-> <<>>, unmatched |-> FALSE,
       pending |-> FALSE, inline |-> <<>>, no_future |-> FALSE, braces |-> 0,
       class |-> -1, ws_found |-> FALSE, ws_probed |-> 0, pairing |-> {}]

outer(st)   == st.rs[1]
active(st)  == st.rs[Len(st.rs)]
in_span(st) == active(st) = "span"
Ends(st, c) == st.acc # <<>> /\ st.acc[Len(st.acc)] = c
Front1(q)   == SubSeq(q, 1, Len(q) - 1)

AppendChar(st, c) ==
  LET s1 == [st EXCEPT !.acc = Append(@, c)]
  IN  CASE c = "{" -> [s1 EXCEPT !.braces = @ + 1]
        [] c = "}" -> [s1 EXCEPT !.braces = IF @ > 0 THEN @ - 1 ELSE @]
        [] c = "[" -> [s1 EXCEPT !.class = Len(s1.acc), !.ws_found = FALSE,
                                 !.ws_probed = Len(s1.acc)]
        [] c = "]" -> [s1 EXCEPT !.class = -1, !.ws_found = FALSE, !.ws_probed = 0]
        [] OTHER -> s1

append_string_content(st, content) == FoldLeft(AppendChar, st, content)

rewrite_escape_tail(st, content) ==
  append_string_content(
    [st EXCEPT !.acc = Front1(@),
               !.ws_probed = IF @ < Len(st.acc) THEN @ ELSE Len(st.acc) - 1], content)

Again(z)  == [z EXCEPT !.ch = cur(z.p)]
Stop(z)   == [z EXCEPT !.go = FALSE]
Ask(z, rule) == [z EXCEPT !.at = rule]
append_literal_char(z) ==
  Again([z EXCEPT !.p = Move(@, 1), !.st = append_string_content(@, <<z.ch>>)])

push_span(z) == [z EXCEPT !.st.rs = Append(@, "span")]
pop_span(z)  == [z EXCEPT !.st.rs = Front1(@)]

rstrip(acc) ==
  LET keep == {i \in 1..Len(acc) : acc[i] \notin Whitespace}
  IN  IF keep = {} THEN <<>> ELSE SubSeq(acc, 1, Largest(keep))

-----------------------------------------------------------------------------
(* Escapes.  z.ch is the character after a backslash already accumulated.  *)

Replace(z, content, by) ==
  Again([z EXCEPT !.p = Move(@, by), !.st = rewrite_escape_tail(@, content)])

RECURSIVE CollapseBackslashes(_)
CollapseBackslashes(z) ==
  IF z.ch # "" /\ Ends(z.st, "\\") /\ z.ch \in {active(z.st), "\\"}
  THEN CollapseBackslashes(Replace(z, <<z.ch>>, 1)) ELSE z

HexRun(p, lo, n) == lo + n <= Len(p.s) /\ \A i \in lo..(lo + n - 1) : At(p, i) \in DOMAIN Hex
HexValue(p, lo, n) == FoldLeft(LAMBDA v, c : 16 * v + Hex[c], 0, SubSeq(p.s, lo + 1, lo + n))

IsHigh(code) == code \in 55296..56319
IsLow(code)  == code \in 56320..57343
CharOf(code) == IF code \in DOMAIN CODES THEN CODES[code] ELSE "other"

\* Whether a low half of a pair follows the high one at `hi`.
decode_surrogate_pair(p, code, hi) ==
  /\ IsHigh(code) /\ At(p, hi) = "\\" /\ At(p, hi + 1) = "u"
  /\ HexRun(p, hi + 2, 4) /\ IsLow(HexValue(p, hi + 2, 4))

DecodeCode(z) ==
  LET n    == IF z.ch = "u" THEN 4 ELSE 2
      lo   == z.p.index + 1
      code == HexValue(z.p, lo, n)
  IN  IF decode_surrogate_pair(z.p, code, lo + n) THEN Replace(z, <<"astral">>, n + 7)
      ELSE IF IsHigh(code) \/ IsLow(code) THEN Replace(z, <<"replacement">>, n + 1)
      ELSE Replace(z, <<CharOf(code)>>, n + 1)

SimpleEscape(c) ==
  CASE c = "t" -> "tab" [] c = "n" -> "nl" [] c = "r" -> "cr" [] c = "b" -> "bs" [] OTHER -> c

\* [z, handled]
normalize_escape_sequence(z) ==
  LET c   == z.ch
      end == PastAll(z.p, z.p.index, {"\\"})
      run == end - z.p.index + 1
  IN  IF in_span(z.st) /\ c = "\""
      THEN [z |-> pop_span(Replace(z, <<c>>, 1)), handled |-> TRUE]
      ELSE IF c = "\\" /\ run % 2 = 0 /\ At(z.p, end) # active(z.st)
      THEN [z |-> Replace(z, [i \in 1..(run \div 2) |-> "\\"], end - z.p.index), handled |-> TRUE]
      ELSE IF c = active(z.st) \/ c \in {"t", "n", "r", "b", "\\"}
      THEN [z |-> CollapseBackslashes(Replace(z, <<SimpleEscape(c)>>, 1)), handled |-> TRUE]
      ELSE IF c \in {"u", "x"} /\ HexRun(z.p, z.p.index + 1, IF c = "u" THEN 4 ELSE 2)
      THEN [z |-> DecodeCode(z), handled |-> TRUE]
      ELSE IF c \in STRING_DELIMITERS \cup {"low"}
      THEN [z |-> Replace(z, <<c>>, 1), handled |-> TRUE]
      ELSE [z |-> z, handled |-> FALSE]

-----------------------------------------------------------------------------
(* A comma in a member's value: [p, kind].                                 *)

literals == {<<"t", "r", "u", "e">>, <<"f", "a", "l", "s", "e">>, <<"n", "u", "l", "l">>}

Spells(p, idx, word) == \A k \in 1..Len(word) : get(p, idx + k - 1) = word[k]

SpelledOut(p, at) ==
  \/ get(p, at) \in STRING_DELIMITERS \cup Digits \cup {"{", "[", "-"}
  \/ \E w \in literals : /\ Spells(p, at, w)
                         /\ get(p, at + Len(w)) \in Whitespace \cup {"", ",", "}", "]"}

Comma(p, kind)  == [p |-> p, kind |-> kind]
Member(p, yes)  == Comma(p, IF yes THEN "member" ELSE "string")

MemberBefore(p, end) == Member(p, get(p, end) # "" /\ ColonAfter(p, end + 1))

\* Past the first delimiter ahead, which is the character c at `special`.
QuotedAhead(special, c) ==
  LET Closed(end) == MemberBefore(end.p, end.i)
  IN  IF c = "" THEN Comma(special.p, "string_no_future_delimiter")
      ELSE IF c \in {"{", "["} THEN Member(special.p, FALSE)
      ELSE Closed(cached_skip_to_character(special.p, {c}, special.i + 1))

\* Past the quoted or bare name at next, or at the first delimiter ahead.
ClassifyAhead(p, next) ==
  LET Ahead(special) == QuotedAhead(special, get(special.p, special.i))
  IN  IF get(p, next) \in {"{", "["} THEN Comma(p, "container")
      ELSE Ahead(cached_skip_to_character(p, STRING_DELIMITERS \cup {"{", "["}, next))

\* What follows the name and the colon of a bare member at next.
bare_member_has_recoverable_value(p, next, end) ==
  IF get(end.p, end.i) = "}" THEN Member(end.p, TRUE) ELSE ClassifyAhead(end.p, next)

BareMember(p, next, value) ==
  IF SpelledOut(p, value) THEN Member(p, TRUE)
  ELSE bare_member_has_recoverable_value(p, next,
         cached_skip_to_character(p, STRING_DELIMITERS \cup {"}"}, value))

BareName(p, next, colon) ==
  IF get(p, next) \in Alnum \cup {"_"} /\ get(p, colon) = ":"
  THEN BareMember(p, next, scroll_whitespaces(p, colon + 1)) ELSE Comma(p, "unknown")

NameAhead(p, next, c) ==
  LET end == skip_to_character(p, {c}, next + 1)
  IN  IF c \in {"", "}"} THEN Member(p, TRUE)
      ELSE IF c \in STRING_DELIMITERS THEN MemberBefore(p, end)
      ELSE IF c = "tick" THEN Member(p, ColonAfter(p, BareKeyEnd(p, next + 1)))
      ELSE BareName(p, next, scroll_whitespaces(p, BareKeyEnd(p, next)))

Classified(p, next, named) == IF named.kind = "unknown" THEN ClassifyAhead(p, next) ELSE named

CommaBefore(p, next) == Classified(p, next, NameAhead(p, next, get(p, next)))

classify_object_value_comma(p) == CommaBefore(p, scroll_whitespaces(p, 1))

CommaTold(z, asked) ==
  LET z1 == [z EXCEPT !.p = asked.p]
  IN  IF asked.kind = "member" THEN Stop(z1)
      ELSE append_literal_char(
             [z1 EXCEPT !.st.no_future = @ \/ asked.kind = "string_no_future_delimiter",
                        !.st.pending   = asked.kind = "container"])

AtComma(z) ==
  CommaTold(z, IF z.st.no_future THEN Member(z.p, FALSE) ELSE classify_object_value_comma(z.p))

-----------------------------------------------------------------------------
(* Brackets inside a string.                                               *)

Pairs == [c \in {"}", "]"} |-> IF c = "}" THEN "{" ELSE "["]

\* [st, keep]
update_inline_container_stack(st, c) ==
  LET open  == c \in {"{", "["}
      stack == IF open /\ (st.pending \/ st.inline # <<>>) THEN Append(st.inline, c) ELSE st.inline
      close == c \in {"}", "]"} /\ stack # <<>> /\ stack[Len(stack)] = Pairs[c]
  IN  [st |-> [st EXCEPT !.inline  = IF close THEN Front1(stack) ELSE stack,
                         !.pending = @ /\ ~open],
       keep |-> close]

\* An object inside the string is taken whole.
TakesContainer(z) ==
  /\ \/ z.st.pending
     \/ /\ ctx_current(z.p) = "ObjectValue" /\ z.ch = "{" /\ get(z.p, -1) # "\\"
        /\ bare_key_is_followed_by_colon(z.p, scroll_whitespaces(z.p, 1))
  /\ z.ch \in INLINE_CONTAINER_OPENERS
  /\ ~Ends(z.st, "\\")
  /\ skip_inline_container(z.p, 0) # -1

KeepContainer(z) ==
  LET Taken(n) ==
        Again([z EXCEPT
          !.p  = Move(@, n),
          !.st = append_string_content([@ EXCEPT !.pending = FALSE, !.inline = <<>>],
                                       SubSeq(z.p.s, z.p.index + 1, z.p.index + n))])
  IN  Taken(skip_inline_container(z.p, 0))

\* No quote follows the "}" at the cursor: [p, missing].
NoQuoteAhead(p, body) ==
  [p |-> p,
   missing |-> \/ get(p, skip_to_character(p, {":"}, 1)) # ""
               \/ get(p, 1) # "\\" /\ skip_to_character(p, {"}"}, body) - body <= 1]

\* One does, and then the name of a member.
NameFollows(p, quote) ==
  [p |-> p, missing |-> /\ get(p, 1) # "\\" /\ get(p, quote) # ""
                        /\ get(p, scroll_whitespaces(p, quote + 1)) \in {"", ":"}]

QuoteAhead(z, p, from) ==
  LET Next(l) == NameFollows(l.p, l.i)
  IN  IF get(p, from) \in {"", ",", "}"} THEN [p |-> p, missing |-> FALSE]
      ELSE Next(cached_skip_to_character(p, {z.st.lq}, from))

\* Whether the "}" at the cursor ends the member: [p, missing].
rstring_delimiter_missing(z) ==
  LET From(a) == IF get(a.p, a.i) = "" THEN NoQuoteAhead(a.p, scroll_whitespaces(a.p, 1))
                 ELSE QuoteAhead(z, a.p, scroll_whitespaces(a.p, a.i + 1))
  IN  From(cached_skip_to_character(z.p, {outer(z.st)}, 1))

RECURSIVE ClosesAfter(_, _, _)
ClosesAfter(p, quote, i) ==
  /\ get(p, i) = quote
  /\ \/ get(p, scroll_whitespaces(p, i + 1)) \in {"", ",", "}", "]"}
     \/ ClosesAfter(p, quote, skip_to_character(p, {quote}, i + 1))

\* `end` is where the container after the fence ends, `inner` that there is one.
BraceBeforeFence(p, st, fence, end, inner) ==
  [keep  |-> /\ ~(inner /\ post_fence_container_starts_next_member(p, end))
             /\ ClosesAfter(p, outer(st), skip_to_character(p, {outer(st)},
                                                            IF inner THEN end ELSE fence + 3)),
   inner |-> inner]

FenceContainer(p, st, fence, next, end) ==
  BraceBeforeFence(p, st, fence, end, get(p, next) \in INLINE_CONTAINER_OPENERS /\ end # -1)

AfterFence(p, st, fence, next) ==
  FenceContainer(p, st, fence, next, skip_inline_container(p, next))

\* [keep, inner]
brace_before_code_fence_belongs_to_string(p, st, fence) ==
  AfterFence(p, st, fence, scroll_comment_prefixed_member_start(p, fence + 3))

Fence(p, i) == \A k \in 0..2 : get(p, i + k) = "tick"

-----------------------------------------------------------------------------
(* A quote that may or may not end the string.                             *)

\* [p, st, yes]
quote_belongs_to_regex_character_class(p, st) ==
  LET tail    == {st.acc[i] : i \in (st.ws_probed + 1)..Len(st.acc)}
      found   == st.ws_found \/ tail \cap Whitespace # {}
      class   == {st.acc[i] : i \in (st.class + 1)..Len(st.acc)}
      Probed(b, yes) ==
        [p |-> [b EXCEPT !.exact = @ /\ (found <=> class \cap Whitespace # {})],
         st |-> [st EXCEPT !.ws_found = found,
                           !.ws_probed = IF @ < Len(st.acc) THEN Len(st.acc) ELSE @],
         yes |-> yes]
      Asked(bracket) == Probed(bracket.p, get(bracket.p, bracket.i) = "]")
  IN  IF st.class = -1 THEN [p |-> p, st |-> st, yes |-> FALSE]
      ELSE IF found THEN Probed(p, FALSE)
      ELSE Asked(cached_skip_to_character(p, {"]"}, 1))

\* The next quote or "]" after t that is not escaped, the text's end without one.
NextTarget(p, t, quote) ==
  LET hits == {i \in (t + 1)..(Len(p.s) - 1) :
                 At(p, i) \in {quote, "]"} /\ Unescaped(p, i, t + 1)}
  IN  IF hits = {} THEN Len(p.s) ELSE Smallest(hits)

\* The quotes from t on, up to the first "]".
RECURSIVE QuoteChain(_, _, _)
QuoteChain(p, t, quote) ==
  LET u == NextTarget(p, t, quote)
  IN  IF At(p, u) = quote THEN <<t>> \o QuoteChain(p, u, quote) ELSE <<t>>

PairingStops(p, st) ==
  {outer(st), st.lq, "]", ","}
    \cup (IF ctx_has(p, "ObjectKey") THEN {":", "}"} ELSE {})
    \cup (IF ctx_has(p, "ObjectValue") THEN {"}"} ELSE {})

\* Where the walk from the k-th quote of the chain stops, -1 at the next one.
ChainStop(p, st, t) ==
  LET stops == {i \in (t + 1)..(NextTarget(p, t, outer(st)) - 1) : At(p, i) \in PairingStops(p, st)}
  IN  IF stops = {} THEN -1 ELSE Smallest(stops)

\* What the walk says of a quote it passes; `left` quotes of the chain follow it.
ChainNote(p, st, t, left, stop) ==
  IF stop = -1 THEN IF left > 0 THEN {<<t, left % 2 = 0>>} ELSE {}
  ELSE IF At(p, stop) = outer(st) /\ At(p, stop - 1) # "\\" THEN {<<t, (left + 1) % 2 = 0>>} ELSE {}

Noted(st, notes) ==
  [st EXCEPT !.pairing = {n \in @ : n[1] \notin {k[1] : k \in notes}} \cup notes]

WalkChain(p, st, chain) ==
  [st |-> Noted(st, UNION {ChainNote(p, st, chain[j], Len(chain) - j, ChainStop(p, st, chain[j]))
                             : j \in 1..Len(chain)}),
   even |-> Len(chain) % 2 = 0]

\* [st, even]: whether the quotes from stop on pair up, and what the walk says of
\* every quote it passes.
array_pairing_walk(p, st, stop) == WalkChain(p, st, QuoteChain(p, p.index + stop, outer(st)))

Literal(z) == append_literal_char(z)

\* The first offset after the cursor where a walk over the text stops.
WalkTo(p, from, stops) == Until(p, p.index + from, stops) - p.index

\* A missing opening quote: the next pair of quotes is the next member's name.
BareValueQuote(z) ==
  LET i == WalkTo(z.p, 1, {outer(z.st), z.st.lq})
  IN  IF get(z.p, i) # "" /\ ColonAfter(z.p, i + 1)
      THEN Stop(Again([z EXCEPT !.p = Move(@, -1)])) ELSE z

\* The stops of the walk from a candidate: a comma counts in a member's value only
\* before the first letter.
CandidateStop(z) ==
  LET p     == z.p
      stops == {outer(z.st), z.st.lq}
                 \cup (IF ctx_has(p, "ObjectKey") THEN {":", "}"} ELSE {})
                 \cup (IF ctx_has(p, "ObjectValue") THEN {"}"} ELSE {})
                 \cup (IF ctx_has(p, "Array") THEN {"]", ","} ELSE {})
      i     == WalkTo(p, 1, stops)
      comma == WalkTo(p, 1, {","})
  IN  IF /\ ctx_current(p) = "ObjectValue" /\ comma < i
         /\ \A k \in 1..(comma - 1) : get(p, k) \notin Letters
      THEN comma ELSE i

\* What the walk past the quote at offset i, the next in a member's value, stops at.
AfterValueQuote(p, quote, after) ==
  LET ends == {k \in after..(Len(p.s) - p.index - 1) :
                 \/ get(p, k) \in {":", ",", "]", "}"}
                 \/ get(p, k) = quote /\ get(p, k - 1) # "\\"}
  IN  IF ends = {} THEN "" ELSE get(p, Smallest(ends))

ValueQuote(z, i) ==
  IF quoted_object_member_follows(z.p, i) THEN Literal(z)
  ELSE IF AfterValueQuote(z.p, outer(z.st), skip_to_character(z.p, {outer(z.st)}, i + 1) + 1) # ":"
  THEN Literal([z EXCEPT !.st.unmatched = ~@]) ELSE z

PairsUp(z, walk, told) ==
  LET even == IF told = {} THEN walk.even ELSE (CHOOSE n \in told : TRUE)[2]
      z1   == [z EXCEPT !.st = IF told = {} THEN walk.st ELSE @,
                        !.p.exact = @ /\ (even <=> walk.even)]
  IN  IF even THEN Literal([z1 EXCEPT !.st.unmatched = ~@]) ELSE Stop(z1)

ArrayQuote(z, i) ==
  PairsUp(z, array_pairing_walk(z.p, z.st, i), {n \in z.st.pairing : n[1] = z.p.index})

QuoteAt(z, i) ==
  CASE ctx_current(z.p) = "ObjectValue" -> ValueQuote(z, i)
    [] ctx_current(z.p) = "Array"       -> ArrayQuote(z, i)
    [] ctx_current(z.p) = "ObjectKey"   -> Literal(z)
    [] OTHER -> z

\* The walk from the candidate stops at offset i.
CandidateAt(z, i) ==
  LET p     == z.p
      value == ctx_current(p) = "ObjectValue"
      close == skip_to_character(p, {outer(z.st)}, i + 1)
  IN  IF get(p, i) = "," /\ value
      THEN IF get(p, scroll_whitespaces(p, close + 1)) \in {"}", ","} THEN Literal(z) ELSE z
      ELSE IF get(p, i) # outer(z.st) \/ get(p, i - 1) = "\\" THEN z
      ELSE IF only_whitespace_until(p, i) /\ ~(value /\ quoted_object_member_follows(p, i))
      THEN Stop(z)
      ELSE QuoteAt(z, i)

handle_right_delimiter_candidate(z) ==
  IF z.st.doubled /\ get(z.p, 1) = outer(z.st) THEN [z EXCEPT !.p = Move(@, 1)]
  ELSE IF z.st.missing /\ ctx_current(z.p) = "ObjectValue" THEN BareValueQuote(z)
  ELSE IF z.st.unmatched THEN Literal([z EXCEPT !.st.unmatched = FALSE])
  ELSE CandidateAt(z, CandidateStop(z))

-----------------------------------------------------------------------------
(* The scan: one rule after another, the character's first rule again once *)
(* one has taken or passed it.                                             *)

\* A ":" inside a quoted name: does it end the name?
AtColon(z) ==
  LET Told(r) == IF get(r.p, r.i) # "" /\ get(r.p, scroll_whitespaces(r.p, r.i + 1)) \in {",", "}"}
                 THEN Stop([z EXCEPT !.p = r.p]) ELSE Ask([z EXCEPT !.p = r.p], "quote")
      Next(l) == IF get(l.p, l.i) = "" THEN Stop([z EXCEPT !.p = l.p])
                 ELSE Told(cached_skip_to_character(l.p, {outer(z.st)}, l.i + 1))
  IN  Next(cached_skip_to_character(z.p, {z.st.lq}, 1))

EndsString(z) ==
  IF z.ch = outer(z.st) /\ z.st.acc # <<>> /\ ~Ends(z.st, "\\") THEN Ask(z, "candidate") ELSE z

AtQuote(z) ==
  LET Told(class) == LET z1 == [z EXCEPT !.p = class.p, !.st = class.st]
                     IN  IF class.yes THEN Literal(z1) ELSE EndsString(z1)
  IN  IF in_span(z.st) /\ z.ch = "\"" THEN Literal(pop_span(z))
      ELSE IF z.ch = outer(z.st) /\ ctx_current(z.p) = "ObjectValue"
      THEN Told(quote_belongs_to_regex_character_class(z.p, z.st))
      ELSE EndsString(z)

AfterEscape(z) ==
  Ask(z, IF z.ch = ":" /\ ~z.st.missing /\ ctx_current(z.p) = "ObjectKey" THEN "colon" ELSE "quote")

AfterChar(z) ==
  LET Told(esc) == IF esc.handled THEN esc.z ELSE AfterEscape(z)
  IN  IF z.ch = "" THEN Stop(z)
      ELSE IF Ends(z.st, "\\") THEN Told(normalize_escape_sequence(z))
      ELSE AfterEscape(z)

TakeChar(z) == AfterChar(Literal(z))

\* A "}" that a code fence or nothing follows.
BeforeFence(z, i) ==
  LET Told(brace) == IF brace.keep THEN Literal([z EXCEPT !.st.pending = @ \/ brace.inner])
                     ELSE Stop(z)
  IN  IF Fence(z.p, i) THEN Told(brace_before_code_fence_belongs_to_string(z.p, z.st, i))
      ELSE IF get(z.p, i) = "" THEN Stop(z) ELSE Ask(z, "take")

AtFence(z) ==
  IF ctx_current(z.p) = "ObjectValue" /\ z.ch = "}"
  THEN BeforeFence(z, scroll_whitespaces(z.p, 1)) ELSE Ask(z, "take")

AtCloser(z) ==
  LET Told(p, ends) == IF ends THEN Stop([z EXCEPT !.p = p]) ELSE Ask([z EXCEPT !.p = p], "fence")
      Brace(b) == Told(b.p, b.missing)
      Quote(q) == Told(q.p, get(q.p, q.i) = "")
      plain == ~Ends(z.st, outer(z.st))
  IN  IF ctx_current(z.p) = "ObjectValue" /\ z.ch = "}" /\ plain
      THEN IF z.st.braces > 0 THEN Literal(z) ELSE Brace(rstring_delimiter_missing(z))
      ELSE IF z.ch = "]" /\ ctx_has(z.p, "Array") /\ plain
      THEN Quote(cached_skip_to_character(z.p, {outer(z.st)}, 0))
      ELSE Ask(z, "fence")

\* A string without an opening quote ends with its name or element.
EndsBare(z) ==
  /\ z.st.missing
  /\ \/ ctx_current(z.p) = "ObjectKey" /\ z.ch \in Whitespace \cup {":"}
     \/ ctx_current(z.p) = "Array" /\ z.ch \in {"]", ","}

AtBracket(z) ==
  LET Told(stack) == IF stack.keep THEN Literal([z EXCEPT !.st = stack.st])
                     ELSE Ask([z EXCEPT !.st = stack.st], "closer")
  IN  Told(update_inline_container_stack(z.st, z.ch))

CharRule(z) ==
  IF z.p.late \/ EndsBare(z) THEN Stop(z)
  ELSE IF z.ch = "low" /\ ~Ends(z.st, "\\") THEN Literal(push_span(z))
  ELSE IF z.ch = "rq" /\ in_span(z.st) THEN Literal(pop_span(z))
  ELSE IF TakesContainer(z) THEN KeepContainer(z)
  ELSE IF /\ ctx_current(z.p) = "ObjectValue" /\ z.ch = ","
          /\ ~z.st.pending /\ z.st.inline = <<>>
  THEN Ask(z, "comma")
  ELSE Ask(z, "bracket")

ScanChar(z) == CharRule([z EXCEPT !.p = Poll(@)])

Rule(at, z) ==
  CASE at = "char"      -> ScanChar(z)
    [] at = "comma"     -> AtComma(z)
    [] at = "bracket"   -> AtBracket(z)
    [] at = "closer"    -> AtCloser(z)
    [] at = "fence"     -> AtFence(z)
    [] at = "take"      -> TakeChar(z)
    [] at = "colon"     -> AtColon(z)
    [] at = "quote"     -> AtQuote(z)
    [] at = "candidate" -> handle_right_delimiter_candidate(z)

Scanning(z) ==
  z.go /\ (z.at = "char" => z.ch # "" /\ (z.ch # outer(z.st) \/ in_span(z.st)))

RECURSIVE Scan(_)
Scan(z) == IF Scanning(z) THEN Scan(Rule(z.at, Ask(z, "char"))) ELSE z

scan_string_body(p, st) ==
  Scan([p |-> p, st |-> st, ch |-> cur(p), go |-> TRUE, at |-> "char"])

\* [p, v]
finalize_string_result(z) ==
  LET bare  == z.st.missing /\ ctx_current(z.p) = "ObjectKey" /\ z.ch \in Whitespace
      p1    == IF bare THEN skip_whitespaces(z.p) ELSE z.p
      acc1  == IF z.ch = outer(z.st) THEN z.st.acc ELSE rstrip(z.st.acc)
      strip == z.st.missing \/ (acc1 # <<>> /\ acc1[Len(acc1)] = "nl")
  IN  IF bare /\ cur(p1) \notin {":", ","} THEN [p |-> p1, v |-> [str |-> <<>>]]
      ELSE [p |-> IF z.ch = outer(z.st) THEN Move(p1, 1) ELSE p1,
            v |-> [str |-> IF strip THEN rstrip(acc1) ELSE acc1]]

-----------------------------------------------------------------------------
(* What needs no scan: [p, v, ok].                                         *)

NoValue == [word |-> "none"]

AfterString == [c \in {"ObjectKey", "ObjectValue", "Array", ""} |->
                  CASE c = "ObjectKey" -> {":"} [] c = "ObjectValue" -> {"", ",", "}"}
                    [] c = "Array" -> {"", ",", "]"} [] OTHER -> {""}]

try_parse_simple_quoted_string(p) ==
  LET end  == Until(p, p.index + 1, {"\""})
      text == SubSeq(p.s, p.index + 2, end)
      next == At(p, PastAll(p, end + 1, Whitespace))
  IN  IF /\ cur(p) = "\"" /\ end < Len(p.s)
         /\ \A i \in 1..Len(text) : text[i] \notin {"\\"} \cup LineEnds
         /\ next \in AfterString[ctx_current(p)]
      THEN [p |-> Seek(p, end + 1), v |-> [str |-> text], ok |-> TRUE]
      ELSE [p |-> p, v |-> NoValue, ok |-> FALSE]

LITERAL_VALUES == {<<<<"t", "r", "u", "e">>, "true">>, <<<<"f", "a", "l", "s", "e">>, "false">>,
                   <<<<"n", "u", "l", "l">>, "null">>, <<<<"n", "o", "n", "e">>, "null">>}

parse_boolean_or_null(p) ==
  LET spelt == {w \in LITERAL_VALUES :
                  /\ \A k \in 1..Len(w[1]) : lower_char(get(p, k - 1)) = w[1][k]
                  /\ get(p, Len(w[1])) \in Whitespace \cup {"", ",", ")", "]", "}"}}
      w     == CHOOSE w \in spelt : TRUE
  IN  IF spelt = {} THEN [p |-> p, v |-> NoValue, ok |-> FALSE]
      ELSE [p |-> Move(p, Len(w[1])), v |-> [word |-> w[2]], ok |-> TRUE]
===============================================================================
