-------------------------- MODULE StreamingRepairer --------------------------
(***************************************************************************)
(* The per-character machine of tors.JsonRepairer                          *)
(* (src/src/json_repair/streaming.rs): one left-to-right pass that holds   *)
(* the container stack, the open string, one pending token and a handful   *)
(* of deferred decisions, and emits canonical JSON as it goes.             *)
(*                                                                         *)
(* The struct is the record `s` every operator here maps to its next       *)
(* value; RepairSession makes it a variable and adds the calls.  Text is a *)
(* sequence of characters, one TLA+ string each; the two separators the    *)
(* emitter writes are single tokens, so a position counts tokens where the *)
(* code counts bytes.                                                      *)
(*                                                                         *)
(* Inputs: every character class the dispatch tells apart except the       *)
(* backslash and the curly quotes.  Without them no escape ever opens and  *)
(* no deferred-escape mark is ever armed, so the fields only those marks   *)
(* read (escape_marks, repair_decided, saw_paren, top_tail_token,          *)
(* top_tail_ws_pending, top_led, StrState.raw/esc/high/spans) are left out.*)
(***************************************************************************)
EXTENDS Integers, Sequences

CONSTANT MAX_NESTING   \* the container-depth cap of push

ASSUME NestingAssumption == MAX_NESTING \in Nat \ {0}

None == -1             \* an absent position

-----------------------------------------------------------------------------
(* Character classes.                                                      *)

Whitespace == {" ", "\n", "\t"}
Digits     == {"0", "1", "2", "3", "4", "5", "6", "7", "8", "9"}
Letters    == {"a", "b", "e", "E", "f", "i", "l", "n", "o", "r", "s", "t",
               "u", "x", "y", "N", "I"}
Quotes     == {"\"", "'"}
Closers    == {"]", "}", ")"}
Alnum      == Letters \cup Digits
NumberLead == Digits \cup {"-", "."}

is_value_start(c) == c \in {"{", "[", "("} \cup Quotes \cup Letters \cup NumberLead

SepTok   == ", "
ColonTok == ": "

-----------------------------------------------------------------------------
(* The struct.                                                             *)

FrameOf(kind, pos) ==
  [kind |-> kind, brace |-> pos, chars |-> 0, nonspace |-> 0,
   begun |-> FALSE, colon |-> FALSE, count |-> 0, start |-> None,
   elems |-> 0, comma |-> FALSE, groupish |-> FALSE]

NoPending == [kind |-> "none"]

Fresh ==
  [out |-> <<>>, frames |-> <<>>, pos |-> "Value", string |-> [open |-> FALSE],
   pending |-> NoPending, comment |-> [kind |-> "none"],
   top_clean |-> TRUE, top_done |-> FALSE,
   last_string_start |-> None, string_raw_tail |-> "", prev_char_ws |-> FALSE,
   empty_marks |-> <<>>, empty_pending |-> [armed |-> FALSE],
   last_key_empty |-> FALSE, garbage_run |-> FALSE,
   paren_gate |-> [kind |-> "none"],
   emitted |-> 0, error |-> FALSE, replay |-> <<>>]

LessOf(a, b)  == IF a < b THEN a ELSE b
Pred(n)       == IF n = 0 THEN 0 ELSE n - 1          \* saturating_sub(1)
TopOf(s)      == s.frames[Len(s.frames)]
SetTop(s, f)  == [s EXCEPT !.frames[Len(s.frames)] = f]
InObject(s)   == s.frames # <<>> /\ TopOf(s).kind = "Obj"
Emit(s, toks) == [s EXCEPT !.out = @ \o toks]
Quoted(text)  == <<"\"">> \o text \o <<"\"">>
Replay(s, cs) == [s EXCEPT !.replay = cs]

Members(t) == {t[i] : i \in DOMAIN t}

\* The members of t that are not in S, in their order.
Except(t, S) ==
  LET kept[n \in 0..Len(t)] ==
        IF n = 0 THEN <<>> ELSE IF t[n] \in S THEN kept[n - 1] ELSE Append(kept[n - 1], t[n])
  IN  kept[Len(t)]

\* Mutant: the delta cursor stays where it was.
Truncate_keeps_cursor(s, start) ==
  IF start <= Len(s.out) THEN [s EXCEPT !.out = SubSeq(@, 1, start)] ELSE s

\* out.truncate(start), the delta cursor pulled back with it.
Truncate(s, start) ==
  IF start <= Len(s.out)
  THEN [s EXCEPT !.out = SubSeq(@, 1, start), !.emitted = LessOf(@, start)]
  ELSE s

\* out.drain(pos..pos + 1) and shift_deferred_spans(pos, -1).
shift_deferred_spans(s, pos) ==
  LET Left(m) == IF m.start > pos THEN [m EXCEPT !.start = @ - 1, !.end = @ - 1] ELSE m
  IN  [s EXCEPT !.empty_marks = [i \in DOMAIN @ |-> Left(@[i])],
                !.empty_pending = IF @.armed THEN Left(@) ELSE @]

DrainOne(s, pos, tok) ==
  IF pos < Len(s.out) /\ s.out[pos + 1] = tok
  THEN shift_deferred_spans(
         [s EXCEPT !.out = SubSeq(@, 1, pos) \o SubSeq(@, pos + 2, Len(@)),
                   !.emitted = LessOf(@, pos)], pos)
  ELSE s

-----------------------------------------------------------------------------
(* Members: beginning one, and the three ways its rendering retracts.      *)

begin_common(s) ==
  IF s.frames = <<>> THEN s ELSE
  LET f == TopOf(s) IN
  SetTop(IF f.count > 0 THEN Emit(s, <<SepTok>>) ELSE s,
         [f EXCEPT !.begun = TRUE, !.start = Len(s.out), !.count = @ + 1,
                   !.elems = @ + 1])

\* Mutant: the member's slot is not given back.
DropMember_keeps_count(s, start) ==
  SetTop(Truncate(s, start), [TopOf(s) EXCEPT !.start = None])

DropMember(s, start) ==
  SetTop(Truncate(s, start),
         [TopOf(s) EXCEPT !.start = None, !.count = Pred(@)])

\* Mutant: the whole frame's body goes, not its last member.
retract_in_flight_member_to_brace(s) ==
  IF s.frames = <<>> \/ TopOf(s).start = None THEN s
  ELSE DropMember(s, TopOf(s).brace + 1)

retract_in_flight_member(s) ==
  IF s.frames = <<>> \/ TopOf(s).start = None THEN s ELSE
  LET t == DropMember(s, TopOf(s).start) IN SetTop(t, [TopOf(t) EXCEPT !.elems = Pred(@)])

\* Mutant: the key is dropped but the position stays behind it.
drop_dangling_member_keeps_pos(s) ==
  IF s.frames = <<>> \/ TopOf(s).start = None THEN s ELSE DropMember(s, TopOf(s).start)

drop_dangling_member(s) ==
  IF s.frames = <<>> \/ TopOf(s).start = None THEN s
  ELSE [DropMember(s, TopOf(s).start) EXCEPT !.pos = "Key"]

drop_marked_member(s, start) ==
  IF s.frames = <<>> THEN s ELSE
  LET t == DropMember(s, start) IN SetTop(t, [TopOf(t) EXCEPT !.elems = Pred(@)])

note_comma(s) ==
  IF s.frames = <<>> THEN s ELSE SetTop(s, [TopOf(s) EXCEPT !.comma = TRUE])

mark_body_colon(s) ==
  IF s.frames = <<>> THEN s ELSE SetTop(s, [TopOf(s) EXCEPT !.colon = TRUE])

-----------------------------------------------------------------------------
(* Opening and closing.                                                    *)

open_string(s, delim, is_key) ==
  [Emit(s, <<"\"">>) EXCEPT
     !.last_string_start = Len(s.out), !.string_raw_tail = "",
     !.pos = IF is_key THEN "Key" ELSE @,
     !.string = [open |-> TRUE, delim |-> delim, is_key |-> is_key]]

\* Mutant: one level too many.
open_container_one_deeper(s, kind) ==
  IF Len(s.frames) > MAX_NESTING THEN [s EXCEPT !.error = TRUE] ELSE
  [Emit(s, <<IF kind = "Obj" THEN "{" ELSE "[">>) EXCEPT
     !.pos = IF kind = "Obj" THEN "Key" ELSE "Value",
     !.frames = Append(@, FrameOf(kind, Len(s.out)))]

\* Mutant: the bracket's place is read after it was written.
open_container_late_brace(s, kind) ==
  IF Len(s.frames) >= MAX_NESTING THEN [s EXCEPT !.error = TRUE] ELSE
  [Emit(s, <<IF kind = "Obj" THEN "{" ELSE "[">>) EXCEPT
     !.pos = IF kind = "Obj" THEN "Key" ELSE "Value",
     !.frames = Append(@, FrameOf(kind, Len(s.out) + 1))]

open_container(s, kind) ==
  IF Len(s.frames) >= MAX_NESTING THEN [s EXCEPT !.error = TRUE] ELSE
  [Emit(s, <<IF kind = "Obj" THEN "{" ELSE "[">>) EXCEPT
     !.pos = IF kind = "Obj" THEN "Key" ELSE "Value",
     !.frames = Append(@, FrameOf(kind, Len(s.out)))]

\* Mutant: any element that closes counts as empty.
StrictlyEmpty_any(content) == TRUE

StrictlyEmpty(content) == content \in {<<"[", "]">>, <<"{", "}">>, <<"\"", "\"">>}

Unseparated(raw) == IF raw # <<>> /\ Head(raw) = SepTok THEN Tail(raw) ELSE raw

\* The strictly-empty element's one-char decision is armed over the parent.
arm_empty_pending(s, elem_paren) ==
  IF s.frames = <<>> THEN s ELSE
  LET p == TopOf(s)
  IN  IF /\ p.kind # "Obj" /\ p.start # None /\ p.start <= Len(s.out)
         /\ StrictlyEmpty(Unseparated(SubSeq(s.out, p.start + 1, Len(s.out))))
      THEN [s EXCEPT !.empty_pending =
             [armed |-> TRUE, start |-> p.start, end |-> Len(s.out),
              was_first |-> p.count = 1, frame |-> Len(s.frames) - 1,
              parent_paren |-> p.kind = "Paren",
              never_defers |-> \/ elem_paren
                               \/ \E i \in 1..Len(s.frames) : s.frames[i].kind = "Paren",
              ws_seen |-> FALSE]]
      ELSE s

\* A (...) that held one comma-less element unwraps to that element.
PopParen(s, f) ==
  IF \/ f.comma \/ f.elems # 1
     \/ s.empty_pending.armed /\ s.empty_pending.parent_paren
  THEN LET t == Emit(s, <<"]">>) IN
       [m |-> t, groupish |-> SubSeq(t.out, f.brace + 1, Len(t.out)) = <<"[", "]">>]
  ELSE LET t == DrainOne(s, f.brace, "[") IN
       [m |-> t, groupish |-> \/ f.groupish
                              \/ Len(t.out) <= f.brace
                              \/ t.out[f.brace + 1] \notin {"[", "{"}]

\* Mutant: the closer that is being read counts as body.
BodyFallback_counts_closer(f, closer) ==
  ~f.colon /\ ~f.begun /\ f.chars >= 1 /\ f.nonspace >= 1

\* The empty-object fallback: a memberless, colon-free, non-blank body.  The
\* counters include the `closer` characters (1 at a pop, 0 at a cut).
BodyFallback(f, closer) ==
  ~f.colon /\ ~f.begun /\ f.chars >= 2 /\ f.nonspace >= 1 + closer

\* An object that falls back renders [].
PopObject(s, f) ==
  IF BodyFallback(f, 1)
  THEN Emit(DrainOne(s, f.brace, "{"), <<"[", "]">>)
  ELSE Emit(s, <<"}">>)

\* Mutant: the shape the array closed with is not looked at.
Verdict_drops(mark, depth, trailing) ==
  IF mark.frame = depth THEN [mark EXCEPT !.dropped = "drop"] ELSE mark

\* An array's close decides its own deferred elements: they drop behind a
\* trailing separator and stay otherwise.
Verdict(mark, depth, trailing) ==
  IF mark.frame = depth /\ mark.dropped = "open"
  THEN [mark EXCEPT !.dropped = IF trailing THEN "drop" ELSE "keep"] ELSE mark

pop_frame(s) ==
  IF s.frames = <<>> THEN s ELSE
  LET f        == TopOf(s)
      depth    == Len(s.frames) - 1
      trailing == s.pos = "Value" /\ f.count > 0
      t1 == [s EXCEPT !.frames = SubSeq(@, 1, depth),
                      !.empty_marks = [i \in DOMAIN @ |-> Verdict(@[i], depth, trailing)]]
      pp == IF f.kind = "Paren" THEN PopParen(t1, f)
            ELSE [m |-> IF f.kind = "Obj" THEN PopObject(t1, f) ELSE Emit(t1, <<"]">>),
                  groupish |-> FALSE]
      t2 == IF pp.groupish /\ depth > 0
            THEN SetTop(pp.m, [TopOf(pp.m) EXCEPT !.groupish = TRUE]) ELSE pp.m
      t3 == [t2 EXCEPT !.pos = "AfterValue", !.top_done = depth = 0,
               !.empty_pending = IF depth = 0 \/ (@.armed /\ @.frame >= depth)
                                 THEN [armed |-> FALSE] ELSE @]
      t4 == IF depth > 0 THEN t3 ELSE
            [t3 EXCEPT !.empty_marks = Except(@, {m \in Members(@) : m.dropped = "keep"}),
                       !.paren_gate = IF pp.groupish THEN [kind |-> "TailCheck"] ELSE @]
  IN  arm_empty_pending(t4, f.kind = "Paren")

\* Every level above depth idx closes, then idx itself.
PopTo(s, idx) ==
  LET after[n \in 0..Len(s.frames)] == IF n = 0 THEN s ELSE pop_frame(after[n - 1])
  IN  after[Len(s.frames) - idx + 1]

Matches(kind, closer) ==
  <<kind, closer>> \in {<<"Obj", "}">>, <<"Arr", "]">>, <<"Paren", ")">>}

close_up(s, closer) ==
  LET open == {i \in 1..Len(s.frames) : Matches(s.frames[i].kind, closer)}
  IN  IF s.frames # <<>> /\ TopOf(s).kind = "Paren" /\ closer = "]" THEN s
      ELSE IF s.frames # <<>> /\ TopOf(s).kind = "Paren" /\ closer = "}" THEN pop_frame(s)
      ELSE IF open = {} THEN s
      ELSE PopTo(s, CHOOSE i \in open : \A j \in open : j <= i)


-----------------------------------------------------------------------------
(* Scalars.  A number renders as the one token "num", a literal as "lit";  *)
(* a string keeps its characters, the escaped ones as one token each.      *)

FirstOf(I) == CHOOSE i \in I : \A j \in I : i <= j
LastOf(I)  == CHOOSE i \in I : \A j \in I : j <= i
DropUntil(t, S) ==                       \* trim_start_matches(not in S)
  LET kept == {i \in DOMAIN t : t[i] \in S}
  IN  IF kept = {} THEN <<>> ELSE SubSeq(t, FirstOf(kept), Len(t))
Trim(t) ==
  LET kept == {i \in DOMAIN t : t[i] \notin Whitespace}
  IN  IF kept = {} THEN <<>> ELSE SubSeq(t, FirstOf(kept), LastOf(kept))
NoUnderscore(t) == Except(t, {"_"})
Over(t, S)      == \A i \in DOMAIN t : t[i] \in S
Holds(t, c)     == \E i \in DOMAIN t : t[i] = c
Unsigned(t)     == IF t # <<>> /\ Head(t) = "-" THEN Tail(t) ELSE t
DigitRun(t)     == t # <<>> /\ Over(t, Digits)

Escaped(c) == CASE c = "\"" -> "\\\"" [] c = "\n" -> "\\n" [] c = "\t" -> "\\t"
                [] OTHER -> c
StrTok(t)  == Quoted([i \in DOMAIN t |-> Escaped(t[i])])

Lower(t) == [i \in DOMAIN t |-> CASE t[i] = "E" -> "e" [] t[i] = "N" -> "n"
                                  [] t[i] = "I" -> "i" [] OTHER -> t[i]]
Literals == {<<"t","r","u","e">>, <<"f","a","l","s","e">>,
             <<"n","u","l","l">>, <<"n","o","n","e">>}
Infinity == <<"I","n","f","i","n","i","t","y">>
Floats   == {<<"N","a","N">>, Infinity, <<"-">> \o Infinity}

\* Rust's f64 grammar on the run: a mantissa with a digit, an exponent.
Mantissa(t) ==
  \/ DigitRun(t)
  \/ \E k \in DOMAIN t : /\ t[k] = "." /\ Len(t) > 1
                         /\ Over(SubSeq(t, 1, k - 1), Digits)
                         /\ Over(SubSeq(t, k + 1, Len(t)), Digits)
IsFloat(t) ==
  \/ Mantissa(t)
  \/ \E k \in DOMAIN t :
       /\ t[k] \in {"e", "E"} /\ Mantissa(SubSeq(t, 1, k - 1))
       /\ LET x == SubSeq(t, k + 1, Len(t))
          IN  DigitRun(IF x # <<>> /\ Head(x) \in {"+", "-"} THEN Tail(x) ELSE x)
Numeric(t) == IF Holds(t, ".") \/ Holds(t, "e") \/ Holds(t, "E")
              THEN IsFloat(Unsigned(t)) ELSE DigitRun(Unsigned(t))

render_number_value(text) ==
  LET t == NoUnderscore(text)
  IN  IF ~Holds(t, ",") /\ Numeric(t) THEN <<"num">> ELSE StrTok(t)

literal_or_str(w) == IF Lower(w) \in Literals THEN <<"lit">> ELSE StrTok(w)
keyword_or_str(w) == IF w \in Floats THEN <<"num">> ELSE literal_or_str(w)
render_word(w, from_number_run) ==
  IF from_number_run /\ w # <<"-">> \o Infinity
  THEN literal_or_str(DropUntil(w, Alnum)) ELSE keyword_or_str(w)

\* loads_strict on a bare scalar: the text is one strict JSON token.
StrictInt(t)  == DigitRun(t) /\ (Head(t) = "0" => Len(t) = 1)
StrictMantissa(t) ==
  \/ StrictInt(t)
  \/ \E k \in DOMAIN t : t[k] = "." /\ StrictInt(SubSeq(t, 1, k - 1))
                                    /\ DigitRun(SubSeq(t, k + 1, Len(t)))
StrictNumber(t) ==
  \/ StrictMantissa(t)
  \/ \E k \in DOMAIN t :
       /\ t[k] \in {"e", "E"} /\ StrictMantissa(SubSeq(t, 1, k - 1))
       /\ LET x == SubSeq(t, k + 1, Len(t))
          IN  DigitRun(IF x # <<>> /\ Head(x) \in {"+", "-"} THEN Tail(x) ELSE x)
loads_scalar(t) ==                       \* the rendering, <<>> when it fails
  IF StrictNumber(Unsigned(t)) \/ t \in Floats THEN <<"num">>
  ELSE IF t \in Literals \ {<<"n","o","n","e">>} THEN <<"lit">> ELSE <<>>

Ellipsis == <<".", ".", ".">>
is_stray_ellipsis(s, text) ==
  NoUnderscore(text) = Ellipsis /\ s.frames # <<>> /\ ~InObject(s)
    /\ text[Len(text)] = "."

Rollback == {"-", "e", "E", "/", ",", "+"}
Rolled(t) == IF t # <<>> /\ t[Len(t)] \in Rollback THEN SubSeq(t, 1, Len(t) - 1) ELSE t

finish_number(s, text, key) ==
  LET name == DropUntil(NoUnderscore(text), Alnum) IN
  IF key /\ name = <<>> THEN drop_dangling_member(s)
  ELSE IF key THEN [Emit(s, StrTok(name)) EXCEPT !.last_key_empty = FALSE, !.pos = "Colon"]
  ELSE IF is_stray_ellipsis(s, text)
  THEN [retract_in_flight_member(s) EXCEPT !.pos = "AfterValue"]
  ELSE [Emit(s, render_number_value(text)) EXCEPT !.pos = "AfterValue"]

-----------------------------------------------------------------------------
(* Structure: the positions inside the innermost frame.                    *)

NumPending(text, key)        == [kind |-> "Num", text |-> text, key |-> key]
WordPending(text, key, born) == [kind |-> "Word", text |-> text, key |-> key, born |-> born]
WithPending(s, p)            == [s EXCEPT !.pending = p]

hash_comment(s) ==
  [kind |-> "Hash",
   stops |-> {"\n"}
     \cup (IF \E i \in DOMAIN s.frames : s.frames[i].kind = "Arr" THEN {"]"} ELSE {})
     \cup (IF s.pos = "Value" /\ InObject(s) THEN {"}"} ELSE {})
     \cup (IF s.pos \in {"Key", "Colon"} THEN {":"} ELSE {})]

\* Mutant: every slash opens a line comment.
OpenComment_line(s, c) ==
  [s EXCEPT !.comment = IF c = "#" THEN hash_comment(s) ELSE [kind |-> "Line"]]

OpenComment(s, c) ==
  [s EXCEPT !.comment = IF c = "#" THEN hash_comment(s) ELSE [kind |-> "Slash"]]

feed_comment(s, c) ==
  LET k == s.comment.kind
      Done == [s EXCEPT !.comment = [kind |-> "none"]]
  IN  CASE k = "Hash"  -> IF c \in s.comment.stops THEN Replay(Done, <<c>>) ELSE s
        [] k = "Line"  -> IF c = "\n" THEN Done ELSE s
        [] k = "Block" -> IF s.comment.prev = "*" /\ c = "/" THEN Done
                          ELSE [s EXCEPT !.comment.prev = c]
        [] k = "Slash" -> IF c = "/" THEN [s EXCEPT !.comment = [kind |-> "Line"]]
                          ELSE IF c = "*" THEN [s EXCEPT !.comment = [kind |-> "Block", prev |-> "*"]]
                          ELSE Done

feed_structure_value(s, c) ==
  CASE c = "{" -> open_container(s, "Obj")
    [] c = "[" -> open_container(s, "Arr")
    [] c = "(" -> open_container(s, "Paren")
    [] c \in Quotes  -> open_string(s, c, FALSE)
    [] c \in Letters -> WithPending(s, WordPending(<<c>>, FALSE, FALSE))
    [] c \in NumberLead -> WithPending(s, NumPending(<<c>>, FALSE))
    [] OTHER -> s

KeyPos(s, c) ==
  CASE c = "}" -> close_up(s, c)
    [] c = ":" -> mark_body_colon(s)
    [] c \in Quotes -> open_string(begin_common(s), c, TRUE)
    [] c \in Alnum  -> WithPending(begin_common(s), WordPending(<<c>>, TRUE, FALSE))
    [] c \in {"-", "."} -> WithPending(begin_common(s), NumPending(<<c>>, TRUE))
    [] OTHER -> s

\* ':' passes; a ',' or a foreign closer acts as the colon, unless the key
\* was empty; '}' drops the dangling key; a value start gets a colon.
ColonPos(s, c) ==
  LET Colon == [Emit(s, <<ColonTok>>) EXCEPT !.pos = "MemberValue"] IN
  CASE c = ":" -> Colon
    [] c \in {",", "]", ")"} /\ s.last_key_empty -> Replay(drop_dangling_member(s), <<c>>)
    [] c \in {",", "]", ")"} /\ ~s.last_key_empty -> Colon
    [] c = "}" -> Replay(drop_dangling_member(s), <<c>>)
    [] is_value_start(c) -> Replay(Colon, <<c>>)
    [] OTHER -> s

ValuePos(s0, c) ==
  LET healed == s0.pos = "MemberValue" /\ c \in Closers \cup {","}
      s == IF healed THEN [Emit(s0, <<"\"", "\"">>) EXCEPT !.pos = "AfterValue"] ELSE s0
  IN  CASE c \in Closers -> close_up(s, c)
        [] c = "," /\ s.pos = "Value" -> [note_comma(s) EXCEPT !.garbage_run = TRUE]
        [] c = "," /\ s.pos # "Value" -> note_comma(s)
        [] is_value_start(c) /\ s.pos = "MemberValue" -> feed_structure_value(s, c)
        [] is_value_start(c) /\ s.pos = "Value" -> feed_structure_value(begin_common(s), c)
        [] OTHER -> s

AfterValuePos(s, c) ==
  CASE c = "," -> [note_comma(s) EXCEPT !.pos = IF InObject(s) THEN "Key" ELSE "Value"]
    [] c \in Closers -> close_up(s, c)
    [] InObject(s) /\ c \in Quotes -> open_string(begin_common(s), c, TRUE)
    [] InObject(s) /\ c \in Letters ->
         WithPending(begin_common(s), WordPending(<<c>>, TRUE, FALSE))
    [] InObject(s) /\ c \in NumberLead -> WithPending(begin_common(s), NumPending(<<c>>, TRUE))
    [] ~InObject(s) /\ is_value_start(c) -> feed_structure_value(begin_common(s), c)
    [] OTHER -> s

feed_structure(s, c) ==
  CASE c \in Whitespace -> s
    [] c \in {"#", "/"} -> OpenComment(s, c)
    [] OTHER -> CASE s.pos = "Key"   -> KeyPos(s, c)
                  [] s.pos = "Colon" -> ColonPos(s, c)
                  [] s.pos = "AfterValue" -> AfterValuePos(s, c)
                  [] OTHER -> ValuePos(s, c)

-----------------------------------------------------------------------------
(* The top level: prose, a provisional scalar, the root container.         *)

Prose(s, c) ==
  LET t == [s EXCEPT !.top_clean = FALSE]
  IN  IF c \in {"{", "["} THEN Replay(t, <<c>>) ELSE t

feed_top(s, c) ==
  IF s.top_done
  THEN IF c \in {"#", "/"} THEN OpenComment(s, c) ELSE s
  ELSE CASE c \in Whitespace -> s
         [] c \in {"{", "["} -> feed_structure_value(s, c)
         [] c = "(" /\ s.top_clean -> [s EXCEPT !.paren_gate = [kind |-> "FirstChar", buf |-> <<>>]]
         [] c \in Quotes /\ s.top_clean ->
              WithPending(s, [kind |-> "TopStr", buf |-> <<"\"">>, delim |-> c, done |-> FALSE])
         [] c \in NumberLead /\ s.top_clean ->
              WithPending(s, [kind |-> "TopNum", text |-> <<c>>, done |-> FALSE])
         [] c \in Letters /\ s.top_clean ->
              WithPending(s, [kind |-> "TopWord", text |-> <<c>>, done |-> FALSE])
         [] OTHER -> [s EXCEPT !.top_clean = FALSE]

SignAfterE(text, c) ==
  LET t == NoUnderscore(text) IN c \in {"+", "-"} /\ t # <<>> /\ t[Len(t)] \in {"e", "E"}

\* A run of the provisional scalar: grow it, or (once ended) become prose.
TopRun(s, c) ==
  IF s.pending.done THEN [s EXCEPT !.top_clean = FALSE, !.pending = NoPending]
  ELSE [s EXCEPT !.pending.text = Append(@, c)]

feed_top_pending(s, c) ==
  LET p == s.pending
      lost == Prose([s EXCEPT !.pending = NoPending], c)
  IN  CASE c \in Whitespace /\ (p.kind # "TopStr" \/ p.done) -> [s EXCEPT !.pending.done = TRUE]
        [] p.kind = "TopNum" /\ c \notin Whitespace ->
             IF \/ c \in Digits \cup {"-", ".", "e", "E", "/", ","} \/ SignAfterE(p.text, c)
                \/ c \in Letters /\ Over(Unsigned(p.text), Letters \cup {"_"})
             THEN TopRun(s, c) ELSE lost
        [] p.kind = "TopWord" /\ c \notin Whitespace ->
             IF c \in Letters THEN TopRun(s, c) ELSE lost
        [] p.kind = "TopStr" /\ ~p.done ->
             IF c = p.delim THEN [s EXCEPT !.pending.buf = Append(@, "\""), !.pending.done = TRUE]
             ELSE [s EXCEPT !.pending.buf = Append(@, Escaped(c))]
        [] OTHER -> lost

-----------------------------------------------------------------------------
(* The pending token of a container: a number run, a bare word.            *)

feed_number(s, c) ==
  LET p    == s.pending
      more == Append(p.text, c)
      run  == IF p.key THEN p.text ELSE Rolled(p.text)
      back == SubSeq(p.text, Len(run) + 1, Len(p.text))   \* the popped char, if any
      idle == [s EXCEPT !.pending = NoPending]
  IN  CASE c = "_" -> WithPending(s, NumPending(more, p.key))
        [] p.key /\ c \in Whitespace -> WithPending(s, WordPending(p.text, TRUE, TRUE))
        [] p.key /\ c \notin Whitespace \cup {"_", "}", ":"} ->
             WithPending(s, WordPending(more, TRUE, TRUE))
        [] ~p.key /\ c # "_" /\ (\/ c = "," /\ InObject(s)
                                 \/ c \in Digits \cup {"-", ".", "e", "E", "/"}
                                 \/ SignAfterE(p.text, c)) ->
             WithPending(s, NumPending(more, FALSE))
        [] ~p.key /\ c \in Letters \ {"e", "E"} -> WithPending(s, WordPending(more, FALSE, TRUE))
        [] OTHER ->
             IF run = <<>> /\ ~p.key /\ ~InObject(s)
             THEN Replay([retract_in_flight_member(idle) EXCEPT !.pos = "AfterValue"], <<c>>)
             ELSE Replay(finish_number(idle, run, p.key),
                         IF run = <<>> THEN <<c>> ELSE Append(back, c))

KeyName(text) == DropUntil(Trim(text), Alnum)
CommitKey(s, name) ==
  [Emit(s, StrTok(name) \o <<ColonTok>>) EXCEPT !.pos = "MemberValue", !.pending = NoPending]

\* The one comma glued into an object's number run was a member separator.
GluedComma(p) == {i \in DOMAIN p.text : p.text[i] = ","}
SplitsAt(s, p, i) ==
  LET name == Trim(SubSeq(p.text, i + 1, Len(p.text)))
  IN  /\ p.born /\ InObject(s) /\ GluedComma(p) = {i}
      /\ name # <<>> /\ Head(name) \in Alnum \cup {"_"} /\ Over(name, Alnum \cup {"_", "-"})

key_word(s, c) ==
  LET p == s.pending
      idle == [s EXCEPT !.pending = NoPending]
      name == KeyName(p.text)
      keep == WithPending(s, [p EXCEPT !.text = Append(@, c)])
      drop == Replay(drop_dangling_member(idle), <<c>>)
  IN  CASE c = ":" -> IF name = <<>> THEN drop
                      ELSE [CommitKey(s, name) EXCEPT !.last_key_empty = FALSE]
        [] c = "}" -> drop
        [] c = "," -> IF s.prev_char_ws /\ name # <<>> THEN CommitKey(s, name) ELSE keep
        [] c = "]" -> keep
        [] c \notin Whitespace \cup {":", "}", ",", "]"} /\ s.prev_char_ws -> drop
        [] OTHER -> keep

value_word(s, c) ==
  LET p == s.pending
      idle == [s EXCEPT !.pending = NoPending]
      w == Trim(p.text)
      commas == GluedComma(p)
  IN  CASE c = ":" /\ (\E i \in commas : SplitsAt(s, p, i)) ->
             LET i == FirstOf(commas)
                 t == begin_common(Emit(idle, render_word(Trim(SubSeq(p.text, 1, i - 1)), TRUE)))
             IN  Replay(WithPending(t, WordPending(Trim(SubSeq(p.text, i + 1, Len(p.text))),
                                                   TRUE, FALSE)), <<c>>)
        [] c \in {",", "}", "]"} ->
             Replay([Emit(idle, render_word(w, p.born)) EXCEPT !.pos = "AfterValue"], <<c>>)
        [] c = ")" /\ ~p.born /\ Lower(w) \in Literals ->
             Replay([Emit(idle, keyword_or_str(w)) EXCEPT !.pos = "AfterValue"], <<c>>)
        [] OTHER -> WithPending(s, [p EXCEPT !.text = Append(@, c)])

feed_pending(s, c) ==
  CASE s.pending.kind = "Num" -> feed_number(s, c)
    [] s.pending.kind = "Word" -> IF s.pending.key THEN key_word(s, c) ELSE value_word(s, c)
    [] OTHER -> feed_top_pending(s, c)

-----------------------------------------------------------------------------
(* The per-character dispatch.                                             *)

feed_string(s0, c) ==
  LET s == [s0 EXCEPT !.string_raw_tail = c] IN
  IF c # s.string.delim THEN Emit(s, <<Escaped(c)>>) ELSE
  LET t == Emit([s EXCEPT !.string = [open |-> FALSE]], <<"\"">>) IN
  arm_empty_pending(
    IF s.string.is_key
    THEN [t EXCEPT !.pos = "Colon", !.last_key_empty = s.last_string_start = Len(t.out) - 1]
    ELSE [t EXCEPT !.pos = "AfterValue"], FALSE)

Capped(n) == LessOf(n + 1, 2)      \* the counters are only compared with 2

process_inner(s0, c) ==
  IF s0.garbage_run /\ c = "}" THEN pop_frame([s0 EXCEPT !.garbage_run = FALSE])
  ELSE IF s0.garbage_run /\ ~is_value_start(c) THEN s0 ELSE
  LET Count(f) == IF f.kind # "Obj" THEN f
                  ELSE [f EXCEPT !.chars = Capped(@),
                                 !.nonspace = IF c \in Whitespace THEN @ ELSE Capped(@)]
      s == [s0 EXCEPT !.garbage_run = FALSE,
                      !.frames = [i \in DOMAIN @ |-> Count(@[i])]]
  IN  CASE s.comment.kind # "none" -> feed_comment(s, c)
        [] s.comment.kind = "none" /\ s.string.open -> feed_string(s, c)
        [] s.comment.kind = "none" /\ ~s.string.open ->
             IF s.pending.kind # "none" THEN feed_pending(s, c)
             ELSE IF s.frames = <<>> THEN feed_top(s, c)
             ELSE feed_structure(s, c)

\* The one-char look-back settles after the dispatch (after the replays).
Settle(s, c) == IF s.replay = <<>> THEN [s EXCEPT !.prev_char_ws = c \in Whitespace] ELSE s

paren_gate_first_char(s0, c) ==
  LET s   == [s0 EXCEPT !.paren_gate = [kind |-> "none"]]
      old == s0.paren_gate.buf
      buf == Append(old, c)
      hold == [s EXCEPT !.paren_gate = [kind |-> "FirstChar", buf |-> buf]]
      prose(cs) == Replay([s EXCEPT !.top_clean = FALSE], cs)
      group(cs) == Replay(open_container(s, "Paren"), cs)
      literal == \/ Len(buf) >= 4 /\ Lower(SubSeq(buf, 1, 4)) \in Literals
                 \/ Len(buf) >= 5 /\ Lower(SubSeq(buf, 1, 5)) \in Literals
  IN  IF c \in Letters /\ Len(old) < 5
      THEN IF Len(buf) < 4 \/ (Len(buf) = 4 /\ ~literal) THEN hold
           ELSE IF literal THEN group(buf) ELSE prose(buf)
      ELSE IF old # <<>> THEN prose(buf)
      ELSE IF c \in {")", "{", "[", "("} \cup Quotes \cup NumberLead THEN group(<<c>>)
      ELSE prose(<<c>>)

gate_or_inner(s, c) ==
  CASE s.paren_gate.kind = "FirstChar" ->
         IF c \in Whitespace THEN s ELSE paren_gate_first_char(s, c)
    [] s.paren_gate.kind = "TailCheck" ->
         CASE c = "\n" -> [s EXCEPT !.paren_gate = [kind |-> "none"]]
           [] c \in Whitespace \ {"\n"} -> s
           [] OTHER -> Replay([s EXCEPT !.paren_gate = [kind |-> "none"], !.out = <<>>,
                                        !.emitted = 0, !.top_clean = FALSE], <<c>>)
    [] OTHER -> Settle(process_inner(s, c), c)

\* The element retracts; its frame may be gone, the root's closer re-emits.
SkipDrop(s, start) ==
  IF s.frames # <<>> THEN drop_marked_member(s, start)
  ELSE IF start <= Len(s.out) THEN Emit(Truncate(s, start), <<"]">>) ELSE s

\* One call of process; `replay` holds the characters it re-enters with.
process(s0, c) ==
  LET p == s0.empty_pending
      s == [s0 EXCEPT !.empty_pending = [armed |-> FALSE], !.replay = <<>>]
      mark == [start |-> p.start, end |-> p.end, was_first |-> p.was_first,
               frame |-> p.frame, dropped |-> "open"]
      separator == c = "," \/ c = (IF p.parent_paren THEN ")" ELSE "]")
  IN  IF ~p.armed THEN gate_or_inner(s, c)
      ELSE CASE separator /\ (p.never_defers \/ ~p.ws_seen) -> gate_or_inner(s, c)
             [] separator /\ ~p.never_defers /\ p.ws_seen ->
                  gate_or_inner([s EXCEPT !.empty_marks = Append(@, mark)], c)
             [] ~separator /\ ~p.never_defers /\ c \in Whitespace ->
                  gate_or_inner([s EXCEPT !.empty_pending = [p EXCEPT !.ws_seen = TRUE]], c)
             [] ~separator /\ ~p.never_defers /\ c \notin Whitespace /\ p.ws_seen ->
                  Replay(SkipDrop(s, p.start), <<c>>)
             [] OTHER -> Settle(SkipDrop(s, p.start), c)

=============================================================================
