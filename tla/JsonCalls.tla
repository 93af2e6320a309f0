------------------------------- MODULE JsonCalls -------------------------------
(***************************************************************************)
(* The calls on one text: repair_json (src/src/json_repair/mod.rs), with   *)
(* and without the strict read first, in strict mode, and with a deadline; *)
(* the code-fence functions; and is_valid_json, which runs step by step in *)
(* JsonValid.                                                              *)
(***************************************************************************)
EXTENDS RepairParser, JsonValid
LOCAL INSTANCE SequencesExt

CONSTANTS
  RepairTexts, RepairOptions,   \* <<skip_json_loads, strict, deadlines>>
  FenceTexts,
  CODE_OF                       \* the code of each character that may be written as \uXXXX

VARIABLES
  call,    \* what was asked
  answer   \* what came back

json_vars == <<valid_vars, call, answer>>

-----------------------------------------------------------------------------
(* The repaired value as text (dumps.rs).  The digits of a float are left  *)
(* out: every finite one is written "0.2".                                 *)

\* \u and the four digits of the code.
push_u4(code) ==
  LET digit(n) == CHOOSE h \in DOMAIN Hex : Hex[h] = n
  IN  <<"\\", "u", digit(code \div 4096), digit((code \div 256) % 16),
        digit((code \div 16) % 16), digit(code % 16)>>

\* Mutant: a character outside the basic plane is written as one code.
push_one_code(code) == push_u4(code % 65536)

\* A pair of surrogates where four digits do not do.
push_code(code) ==
  IF code > 65535
  THEN push_u4(55296 + (code - 65536) \div 1024) \o push_u4(56320 + ((code - 65536) % 1024))
  ELSE push_u4(code)

Short == [c \in {"\"", "\\", "bs", "tab", "nl", "ff", "cr"} |->
            CASE c = "bs" -> "b" [] c = "tab" -> "t" [] c = "nl" -> "n"
              [] c = "ff" -> "f" [] c = "cr" -> "r" [] OTHER -> c]

\* Mutant: only what is not ASCII is written by its code.
only_wide(c, ensure_ascii) == c \in DOMAIN CODE_OF /\ ensure_ascii /\ CODE_OF[c] > 126

by_code(c, ensure_ascii) ==
  c \in DOMAIN CODE_OF /\ (CODE_OF[c] < 32 \/ (ensure_ascii /\ CODE_OF[c] > 126))

push_escaped_char(c, ensure_ascii) ==
  IF c \in DOMAIN Short THEN <<"\\", Short[c]>>
  ELSE IF by_code(c, ensure_ascii) THEN push_code(CODE_OF[c]) ELSE <<c>>

write_string(s, ensure_ascii) ==
  FoldLeft(LAMBDA out, c : out \o push_escaped_char(c, ensure_ascii), <<"\"">>, s) \o <<"\"">>

Spelling(word) ==
  CASE word = "true" -> <<"t", "r", "u", "e">>
    [] word = "false" -> <<"f", "a", "l", "s", "e">>
    [] OTHER -> <<"n", "u", "l", "l">>

\* Parts, with a comma and a space between them.
Listed(parts) ==
  FoldLeft(LAMBDA out, k : out \o (IF k > 1 THEN <<",", " ">> ELSE <<>>) \o parts[k],
           <<>>, [k \in 1..Len(parts) |-> k])

RECURSIVE dumps(_, _)
dumps(v, ensure_ascii) ==
  LET items   == [k \in 1..Len(v.arr) |-> dumps(v.arr[k], ensure_ascii)]
      members == [k \in 1..Len(v.obj) |-> write_string(v.obj[k][1], ensure_ascii)
                                            \o <<":", " ">> \o dumps(v.obj[k][2], ensure_ascii)]
  IN  CASE "str" \in DOMAIN v -> write_string(v.str, ensure_ascii)
        [] "num" \in DOMAIN v -> IF v.kind = "int" \/ v = NotANumber THEN v.num ELSE <<"0", ".", "2">>
        [] "word" \in DOMAIN v -> Spelling(v.word)
        [] "arr" \in DOMAIN v -> <<"[">> \o Listed(items) \o <<"]">>
        [] "obj" \in DOMAIN v -> <<"{">> \o Listed(members) \o <<"}">>
        [] OTHER -> <<"\"", "\"">>

-----------------------------------------------------------------------------
(* The calls.                                                              *)

Unanswered == <<>>

RepairCalls ==
  {[how |-> "repair", s |-> s, skip |-> o[1], strict |-> o[2], deadlines |-> o[3]] :
     s \in RepairTexts, o \in RepairOptions}

FenceCalls == {[how |-> "fences", s |-> s] : s \in FenceTexts}

NoDeadline == -1

\* `polls` is how often the clock is looked at before the deadline has passed.
Outcome(s, skip, strict, polls) ==
  LET r == repair(s, skip, strict, polls)
  IN  [v |-> r.v, err |-> r.p.err, exact |-> r.p.exact]

\* The outcome without a deadline, and with each one.
RepairJson ==
  /\ call.how = "repair" /\ answer = Unanswered
  /\ answer' = [polls \in call.deadlines \cup {NoDeadline} |->
                  Outcome(call.s, call.skip, call.strict, polls)]
  /\ UNCHANGED <<valid_vars, call>>

ReadFences ==
  /\ call.how = "fences" /\ answer = Unanswered
  /\ answer' = [blocks |-> extract_code_blocks(call.s), stripped |-> strip_code_fences(call.s),
                inner |-> unwrap_code_fence(call.s), dedented |-> dedent(call.s)]
  /\ UNCHANGED <<valid_vars, call>>

Validate == call.how = "valid" /\ ValidNext /\ UNCHANGED <<call, answer>>

JsonInit ==
  /\ ValidInit /\ answer = Unanswered
  /\ \/ call = [how |-> "valid", s |-> text]
     \/ text = <<>> /\ call \in RepairCalls \cup FenceCalls

JsonNext == RepairJson \/ ReadFences \/ Validate

JsonSpec == JsonInit /\ [][JsonNext]_json_vars

-----------------------------------------------------------------------------
(* Repairing.                                                              *)

Answered(how) == call.how = how /\ answer # Unanswered

Repaired == Answered("repair") /\ answer[NoDeadline].err = ""

\* What a value shows once written: the digits of floats are left out.
RECURSIVE Shown(_)
Shown(v) ==
  CASE IsArray(v)  -> [arr |-> [k \in 1..Len(v.arr) |-> Shown(v.arr[k])]]
    [] IsObject(v) -> [obj |-> [k \in 1..Len(v.obj) |-> <<v.obj[k][1], Shown(v.obj[k][2])>>]]
    [] "kind" \in DOMAIN v -> IF v.kind = "float" /\ v # NotANumber THEN Frac(<<"0", ".", "2">>) ELSE v
    [] OTHER -> v

\* What a repair answers, written in either form, is a JSON text, and the strict
\* reader, which refuses every raw control character, reads the same value back from
\* it: no repair leaves half of a pair of surrogates, a quote, a control character or
\* a name that the writer does not escape, or a number that is none (docs/api.md:2145,
\* the serializer's byte parity in dumps.rs).
RepairedIsJson ==
  Repaired => \A ascii \in BOOLEAN :
                LET again == loads_strict(dumps(answer[NoDeadline].v, ascii))
                IN  again.i # -1 /\ again.v = Shown(answer[NoDeadline].v)

\* A lookahead that answers from the memo, from the whitespace probe, from the
\* remembered pairing of an array's quotes or from the remembered widths of a
\* merge answers what a fresh scan of the text as it now is would, also after a
\* splice has moved the text under it (string.rs 817-848).
LookaheadsExact == Answered("repair") => \A polls \in DOMAIN answer : answer[polls].exact

\* A deadline refuses, or changes nothing: whenever the clock runs out, the call
\* raises or gives the value it gives without a deadline, never the part of it
\* read so far (docs/api.md:2252).
DeadlineRefuses ==
  Answered("repair") =>
    \A polls \in DOMAIN answer :
      \/ answer[polls].err = "deadline"
      \/ /\ answer[polls].err = answer[NoDeadline].err
         /\ answer[polls].v = answer[NoDeadline].v

\* Where the repair parser is asked to read a container that is JSON already, it
\* reads what the strict reader does: none of its guesses fires on a well-formed
\* text.  Left out are the spellings it is known to read its own way: escapes,
\* and an object of blanks.
BothReadersAgree ==
  LET loaded  == loads_strict(call.s)
      escapes == \E i \in 1..Len(call.s) : call.s[i] = "\\"
      blanks  == \E i \in 1..(Len(call.s) - 1) : call.s[i] = "{" /\ call.s[i + 1] \in Whitespace
  IN  /\ Answered("repair") /\ call.skip /\ ~call.strict
      /\ loaded.i # -1 /\ Head(call.s) \in {"{", "["} /\ ~escapes /\ ~blanks
      => answer[NoDeadline].err = "" /\ answer[NoDeadline].v = loaded.v

-----------------------------------------------------------------------------
(* Fences.                                                                 *)

\* The four readings of a text's fences agree.  The blocks follow one another, a
\* block's text is the slice at its offsets without the fence's indentation, and no
\* line outside of them opens a fence.  What is unwrapped for a repair is what the
\* stripper gives (docs/api.md:2176 calls it the same unwrapping; the trim leaves the
\* fence no indentation to take off): the slice at the offsets of the text's one
\* block, but for blanks at the very end, where nothing but blanks is outside of it,
\* and the text as it was where it begins with something else or goes on behind the
\* block.  Dedented, a text has no common indentation left.
FenceViewsAgree ==
  LET s     == call.s
      bs    == answer.blocks
      inner == answer.inner
      raw(b)  == SubSeq(s, b.code_start + 1, b.code_end)
      code(b) ==
        LET ls == lines(raw(b))
        IN  FoldLeft(LAMBDA out, k : out \o strip_indent(ls[k].content, b.indent)
                                         \o (IF ls[k].newline THEN <<"nl">> ELSE <<>>),
                     <<>>, [k \in 1..Len(ls) |-> k])
      blank(t)  == \A i \in 1..Len(t) : t[i] \in Blank
      only(b)   == blank(SubSeq(s, 1, b.start)) /\ blank(Drop(s, b.end))
      one_block == Len(bs) = 1 /\ only(bs[1])
  IN  Answered("fences") =>
        /\ \A n \in 1..Len(bs) :
             /\ bs[n].start < bs[n].code_start \/ bs[n].code_start = Len(s)
             /\ bs[n].code_start <= bs[n].code_end /\ bs[n].code_end <= bs[n].end
             /\ bs[n].end <= (IF n < Len(bs) THEN bs[n + 1].start ELSE Len(s))
             /\ bs[n].code = code(bs[n])
        /\ \A k \in 1..Len(lines(s)) :
             match_open_fence(lines(s)[k].content) # NoFence
               => \E n \in 1..Len(bs) : bs[n].start <= lines(s)[k].start
                                        /\ lines(s)[k].start < bs[n].end
        /\ inner = answer.stripped
        /\ one_block => /\ IsPrefix(inner, raw(bs[1]))
                        /\ blank(Drop(raw(bs[1]), Len(inner)))
        /\ ~one_block /\ s # <<>> /\ Head(s) \notin Blank => inner = s
        /\ dedent(answer.dedented) = answer.dedented

-----------------------------------------------------------------------------
(* The validator.                                                          *)

RECURSIVE Height(_), Leaves(_)
Height(v) ==
  LET inner == IF IsArray(v) THEN {Height(v.arr[k]) : k \in 1..Len(v.arr)}
               ELSE IF IsObject(v) THEN {Height(v.obj[k][2]) : k \in 1..Len(v.obj)} ELSE {}
  IN  IF IsArray(v) \/ IsObject(v) THEN 1 + Largest({0} \cup inner) ELSE 0

\* The strings, names and scalars of a value.
Leaves(v) ==
  CASE IsArray(v)  -> UNION {Leaves(v.arr[k]) : k \in 1..Len(v.arr)}
    [] IsObject(v) -> UNION {{[str |-> v.obj[k][1]]} \cup Leaves(v.obj[k][2]) : k \in 1..Len(v.obj)}
    [] OTHER -> {v}

\* The power of ten a number's first digit stands for, and its first two digits.
Magnitude(num) ==
  LET e      == Smallest({Len(num) + 1} \cup {i \in 1..Len(num) : num[i] = "e"})
      point  == Smallest({e} \cup {i \in 1..(e - 1) : num[i] = "."})
      digits == {i \in 1..(e - 1) : num[i] \in Digits}
      lead   == {i \in digits : num[i] # "0"}
      next   == {i \in digits : i > Smallest(lead)}
      power  == FoldLeft(LAMBDA n, c : IF c \in Digits THEN 10 * n + Hex[c] ELSE n, 0,
                         SubSeq(num, e + 1, Len(num)))
  IN  IF lead = {} THEN [power |-> -1, two |-> 0]
      ELSE [power |-> (IF e < Len(num) /\ num[e + 1] = "-" THEN -power ELSE power)
                        + (IF Smallest(lead) < point THEN point - Smallest(lead) - 1
                           ELSE point - Smallest(lead)),
            two   |-> 10 * Hex[num[Smallest(lead)]]
                        + (IF next = {} THEN 0 ELSE Hex[num[Smallest(next)]])]

Infinite(v) ==
  /\ "num" \in DOMAIN v
  /\ LET m == Magnitude(v.num)
     IN  v = NotANumber \/ m.power > MAX_EXPONENT \/ (m.power = MAX_EXPONENT /\ m.two >= 18)

\* The validator accepts exactly what the strict reader reads, but for what it says
\* it refuses: halves of surrogate pairs, numbers no float holds and NaN, and more open
\* containers than its bits (json_valid_impl.rs 1-60).
ValidatorAgrees ==
  LET loaded == loads_strict(text)
      leaves == Leaves(loaded.v)
      halves == \E v \in leaves : "str" \in DOMAIN v /\ \E i \in 1..Len(v.str) : v.str[i] = "replacement"
  IN  call.how = "valid" /\ verdict # "none" =>
        (verdict = "valid" <=> /\ loaded.i # -1 /\ ~halves
                               /\ Height(loaded.v) <= MAX_DEPTH
                               /\ \A v \in leaves : ~Infinite(v))

\* The three readers of JSON agree where they promise to: the repair parser on a
\* well-formed text, and the validator on every text.
ReadersAgree == BothReadersAgree /\ ValidatorAgrees
===============================================================================
