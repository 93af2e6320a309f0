------------------------------ MODULE RepairText ------------------------------
(***************************************************************************)
(* What the whole-text JSON repairer (src/src/json_repair/parser.rs,       *)
(* string.rs) reads with: the parser over one text, its cursor and its     *)
(* lookaheads.  A text is a sequence of characters; a letter, a digit or a *)
(* punctuation mark is itself, "nl" is a line break, "tick" a backquote,   *)
(* "lq" and "rq" the curly quotes and "low" the low one; "tab", "cr",      *)
(* "ff", "bs" and "us" are the control characters of those names.          *)
(* Positions count from 0, as in the code; "" is what a read outside the   *)
(* text gives.                                                             *)
(***************************************************************************)
EXTENDS Integers, Sequences, FiniteSets

CONSTANTS
  MAX_NESTING,          \* containers open at once
  MAX_ENTRIES_PER_KEY   \* remembered lookaheads for one set of targets

Whitespace == {" ", "nl", "tab", "cr", "ff", "us"}
White      == Whitespace \ {"us"}     \* as Rust has it, where Whitespace is Python's
LineEnds   == {"nl", "cr"}
Digits     == {"0", "1", "2", "3", "8"}
Letters    == {"a", "b", "c", "d", "e", "f", "j", "l", "n", "o", "r", "s", "t", "u", "x", "T", "N"}
Alnum      == Digits \cup Letters
STRING_DELIMITERS == {"\"", "'", "lq", "rq"}
NUMBER_CHARS == Digits \cup {"-", ".", "e", "/", ",", "_"}
INLINE_CONTAINER_OPENERS == {"[", "{", "("}

closer_of == [c \in INLINE_CONTAINER_OPENERS |->
                CASE c = "[" -> "]" [] c = "{" -> "}" [] OTHER -> ")"]

matching_string_delimiter(c) == IF c = "lq" THEN "rq" ELSE c

Largest(S)  == CHOOSE x \in S : \A y \in S : y <= x
Smallest(S) == CHOOSE x \in S : \A y \in S : x <= y

-----------------------------------------------------------------------------
(* The parser.  `err` is the error a call is returning, "" for none.       *)
(* `polls` is the number of looks at the clock before the deadline has     *)
(* passed, -1 without one; `late` that it was seen to have passed.         *)
(* `exact` records that every remembered answer was the answer a fresh     *)
(* scan gives.                                                             *)

NewParser(s, strict, polls) ==
  [s |-> s, index |-> 0, context |-> <<>>, deferred |-> <<>>, strict |-> strict,
   tried_suffix |-> FALSE, depth |-> 0, comments |-> 0, memo |-> {},
   polls |-> polls, late |-> FALSE, exact |-> TRUE, err |-> ""]

At(p, i) == IF i >= 0 /\ i < Len(p.s) THEN p.s[i + 1] ELSE ""

\* A negative position counts from the end of the text.
get(p, count) ==
  LET pos == p.index + count
  IN  IF pos >= 0 THEN At(p, pos) ELSE At(p, Len(p.s) + pos)

cur(p) == get(p, 0)

Seek(p, i)  == [p EXCEPT !.index = i]
Move(p, by) == [p EXCEPT !.index = @ + by]
Fail(p, why) == [p EXCEPT !.err = why]

\* The first position at or after `from` that holds none of the characters, or
\* the text's end.
PastAll(p, from, chars) ==
  LET stops == {i \in from..(Len(p.s) - 1) : At(p, i) \notin chars}
  IN  IF stops # {} THEN Smallest(stops) ELSE IF from > Len(p.s) THEN from ELSE Len(p.s)

\* The first one that does.
Until(p, from, chars) ==
  LET stops == {i \in from..(Len(p.s) - 1) : At(p, i) \in chars}
  IN  IF stops # {} THEN Smallest(stops) ELSE IF from > Len(p.s) THEN from ELSE Len(p.s)

skip_whitespaces(p) == Seek(p, PastAll(p, p.index, Whitespace))

\* Offsets from the cursor.
scroll_whitespaces(p, idx) == PastAll(p, p.index + idx, Whitespace) - p.index

\* The backslashes right before position i, no further back than `from`.
BackslashRun(p, i, from) ==
  i - Largest({from} \cup {j + 1 : j \in {k \in from..(i - 1) : At(p, k) # "\\"}})

Unescaped(p, i, from) == BackslashRun(p, i, from) % 2 = 0

\* The offset of the first target that an even run of backslashes precedes, or of
\* the text's end.
skip_to_character(p, targets, idx) ==
  LET from == p.index + idx
      hits == {i \in from..(Len(p.s) - 1) : At(p, i) \in targets /\ Unescaped(p, i, from)}
  IN  (IF hits # {} THEN Smallest(hits) ELSE Len(p.s)) - p.index

-----------------------------------------------------------------------------
(* The memo of lookaheads: [targets, start, found], `found` -1 when there  *)
(* was none.                                                               *)

\* Mutant: an answer is still given past the place it found.
CoversPast(entry, targets, start) == entry.targets = targets /\ entry.start <= start

Covers(entry, targets, start) ==
  /\ entry.targets = targets /\ entry.start <= start
  /\ entry.found = -1 \/ start <= entry.found

SameKey(memo, targets) == {e \in memo : e.targets = targets}

cache_put(memo, entry) ==
  LET kept == IF entry.found = -1
              THEN {e \in memo : e.targets # entry.targets \/ e.found # -1} ELSE memo
      found == {e \in SameKey(kept, entry.targets) : e.found # -1}
      victim == CHOOSE e \in found : \A f \in found : e.found <= f.found
  IN  {entry} \cup
      IF Cardinality(SameKey(kept, entry.targets)) >= MAX_ENTRIES_PER_KEY /\ found # {}
      THEN kept \ {victim} ELSE kept

Answer(p, entry) == (IF entry.found = -1 THEN Len(p.s) ELSE entry.found) - p.index

Remembered(p, entries, fresh) ==
  [p |-> [p EXCEPT !.exact = @ /\ \A e \in entries : Answer(p, e) = fresh],
   i |-> Answer(p, CHOOSE e \in entries : TRUE)]

Scouted(p, entry, fresh) ==
  [p |-> [p EXCEPT !.memo = cache_put(@, [entry EXCEPT !.found =
                              IF p.index + fresh >= Len(p.s) THEN -1 ELSE p.index + fresh])],
   i |-> fresh]

LookAhead(p, entry, entries, fresh) ==
  IF entries # {} THEN Remembered(p, entries, fresh) ELSE Scouted(p, entry, fresh)

\* [p, i]: the parser with its memo, and the offset.
cached_skip_to_character(p, targets, idx) ==
  LookAhead(p, [targets |-> targets, start |-> p.index + idx, found |-> -1],
            {e \in p.memo : Covers(e, targets, p.index + idx)},
            skip_to_character(p, targets, idx))

-----------------------------------------------------------------------------
(* Contexts, depth and the deadline.                                       *)

ctx_current(p) == IF p.context = <<>> THEN "" ELSE p.context[Len(p.context)]
ctx_has(p, c)  == \E i \in 1..Len(p.context) : p.context[i] = c
ctx_empty(p)   == p.context = <<>>
ctx_push(p, c) == [p EXCEPT !.context = Append(@, c)]
ctx_pop(p)     == [p EXCEPT !.context = IF @ = <<>> THEN @ ELSE SubSeq(@, 1, Len(@) - 1)]

enter_depth(p) ==
  LET q == [p EXCEPT !.depth = @ + 1]
  IN  IF q.depth > MAX_NESTING THEN Fail(q, "nesting") ELSE q

leave_depth(p) == [p EXCEPT !.depth = @ - 1]

\* One look at the clock.
Poll(p) ==
  IF p.polls = 0 THEN [p EXCEPT !.late = TRUE]
  ELSE IF p.polls > 0 THEN [p EXCEPT !.polls = @ - 1] ELSE p

check_deadline(p) == LET q == Poll(p) IN IF q.late THEN Fail(q, "deadline") ELSE q

-----------------------------------------------------------------------------
(* Lookaheads that do not use the memo.                                    *)

only_whitespace_until(p, end) ==
  \A j \in 1..(end - 1) : get(p, j) \in Whitespace \cup {""}

\* Where the name of a bare key ends.
BareKeyEnd(p, idx) == PastAll(p, p.index + idx, Alnum \cup {"_", "-"}) - p.index

ColonAfter(p, idx) == get(p, scroll_whitespaces(p, idx)) = ":"

bare_key_is_followed_by_colon(p, idx) ==
  get(p, idx) \in Alnum \cup {"_"} /\ ColonAfter(p, BareKeyEnd(p, idx))

object_member_starts_at(p, idx) ==
  LET c    == get(p, idx)
      stop == matching_string_delimiter(c)
      end  == skip_to_character(p, {stop}, idx + 1)
  IN  IF c \in STRING_DELIMITERS THEN get(p, end) = stop /\ ColonAfter(p, end + 1)
      ELSE bare_key_is_followed_by_colon(p, idx)

\* The end of the comment at idx, or idx.
CommentEnd(p, idx) ==
  LET line  == Until(p, p.index + idx, LineEnds) - p.index
      stars == {i \in (p.index + idx + 2)..(Len(p.s) - 1) : At(p, i) = "*" /\ At(p, i + 1) = "/"}
  IN  CASE get(p, idx) = "#" -> line
        [] get(p, idx) = "/" /\ get(p, idx + 1) = "/" -> line
        [] get(p, idx) = "/" /\ get(p, idx + 1) = "*" ->
             IF stars # {} THEN Smallest(stars) + 2 - p.index ELSE Len(p.s) - p.index
        [] OTHER -> idx

RECURSIVE scroll_comment_prefixed_member_start(_, _)
scroll_comment_prefixed_member_start(p, idx) ==
  LET at == scroll_whitespaces(p, idx)
  IN  IF CommentEnd(p, at) = at THEN at
      ELSE scroll_comment_prefixed_member_start(p, CommentEnd(p, at))

quoted_object_member_follows(p, quote_idx) ==
  LET comma == scroll_whitespaces(p, quote_idx + 1)
  IN  /\ get(p, comma) = ","
      /\ object_member_starts_at(p, scroll_comment_prefixed_member_start(p, comma + 1))

\* Whether the opener at idx opens a container inside the one being skipped.
starts_nested_inline_container(p, idx) ==
  LET before == {i \in 0..(p.index + idx - 1) : At(p, i) \notin Whitespace}
      prev   == IF before = {} THEN "" ELSE At(p, Largest(before))
      next   == scroll_whitespaces(p, idx + 1)
      c      == get(p, next)
  IN  \/ prev = "" \/ prev \in INLINE_CONTAINER_OPENERS
      \/ /\ prev \in {",", ":"}
         /\ IF get(p, idx) \in {"[", "("}
            THEN c \in {"]", ")", "-", "t", "f", "n"} \cup STRING_DELIMITERS
                        \cup INLINE_CONTAINER_OPENERS \cup Digits
            ELSE \/ c = "}" \/ c \in STRING_DELIMITERS
                 \/ prev = ":" /\ bare_key_is_followed_by_colon(p, next)

RECURSIVE SkipInside(_, _, _)
SkipInside(p, i, stack) ==
  LET c    == get(p, i)
      stop == matching_string_delimiter(c)
      end  == skip_to_character(p, {stop}, i + 1)
  IN  CASE c = "" -> -1
        [] c \in STRING_DELIMITERS ->
             IF get(p, end) # stop THEN -1 ELSE SkipInside(p, end + 1, stack)
        [] c \in INLINE_CONTAINER_OPENERS /\ starts_nested_inline_container(p, i) ->
             SkipInside(p, i + 1, Append(stack, closer_of[c]))
        [] c = stack[Len(stack)] ->
             IF Len(stack) = 1 THEN i + 1
             ELSE SkipInside(p, i + 1, SubSeq(stack, 1, Len(stack) - 1))
        [] OTHER -> SkipInside(p, i + 1, stack)

\* The offset after the container at idx, -1 when it never closes.
skip_inline_container(p, idx) ==
  IF get(p, idx) = "" THEN -1
  ELSE IF get(p, idx) \notin INLINE_CONTAINER_OPENERS THEN idx
  ELSE SkipInside(p, idx + 1, <<closer_of[get(p, idx)]>>)

post_fence_container_starts_next_member(p, idx) ==
  LET after == scroll_whitespaces(p, idx)
      next  == scroll_comment_prefixed_member_start(p, after + 1)
  IN  \/ get(p, after) \in {"}", ""}
      \/ /\ get(p, after) = ","
         /\ get(p, next) \in {"}", ""} \/ object_member_starts_at(p, next)
===============================================================================
