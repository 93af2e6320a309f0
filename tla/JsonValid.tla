------------------------------- MODULE JsonValid -------------------------------
(***************************************************************************)
(* The JSON validator (src/src/json_valid_impl.rs): one pass over a text   *)
(* with a state, a cursor and a stack of the open containers, one bit for  *)
(* each, kept in words of a fixed width.  No container is opened past      *)
(* STACK_WORDS * WORD.                                                     *)
(*                                                                         *)
(* A text is a sequence of characters: a letter, a digit or a mark is      *)
(* itself; "nl", "cr", "tab", "ff", "bs" and "us" are control characters.  *)
(* A word is the set of its bits that are set.                             *)
(***************************************************************************)
EXTENDS Integers, Sequences, FiniteSets

CONSTANTS
  ValidTexts,    \* the texts that may be asked about
  STACK_WORDS, WORD,
  INT_DIGITS,    \* longer whole numbers are compared with the largest float
  MAX_EXPONENT   \* of the largest float

ASSUME StackAssumption == STACK_WORDS \in Nat \ {0} /\ WORD \in Nat \ {0}
ASSUME TextAssumption  == \A t \in ValidTexts : t \in Seq(STRING)

VARIABLES
  text, st, pos, stack, depth,
  open,     \* the kinds of the open containers, outermost first: not in the code
  verdict   \* "none" until is_valid returns

valid_vars == <<text, st, pos, stack, depth, open, verdict>>

MAX_DEPTH == STACK_WORDS * WORD

Char(i) == IF i >= 0 /\ i < Len(text) THEN text[i + 1] ELSE ""

First(S) == CHOOSE x \in S : \A y \in S : x <= y

DigitOf == [d \in {"0", "1", "2", "3", "8", "a", "b", "c", "d", "e", "f"} |->
              CASE d = "0" -> 0 [] d = "1" -> 1 [] d = "2" -> 2 [] d = "3" -> 3 [] d = "8" -> 8
                [] d = "a" -> 10 [] d = "b" -> 11 [] d = "c" -> 12 [] d = "d" -> 13
                [] d = "e" -> 14 [] OTHER -> 15]

TenDigits == {"0", "1", "2", "3", "8"}

\* The first position at or after i that holds none of the characters.
PastRun(i, chars) == First({Len(text)} \cup {j \in i..(Len(text) - 1) : Char(j) \notin chars})

skip_ws(i) == PastRun(i, {" ", "tab", "nl", "cr"})

\* What no string holds as it stands: the codes below that of a space.
Raw == {"bs", "tab", "nl", "ff", "cr", "us"}

-----------------------------------------------------------------------------
(* Strings.                                                                *)

hex4(i) == \A k \in 0..3 : Char(i + k) \in DOMAIN DigitOf

CodeAt(i) == ((DigitOf[Char(i)] * 16 + DigitOf[Char(i + 1)]) * 16
                + DigitOf[Char(i + 2)]) * 16 + DigitOf[Char(i + 3)]

High(code) == code \in 55296..56319
Low(code)  == code \in 56320..57343

\* How many backslashes stand right before j, none of them before `from`.
Slashes(from, j) ==
  j - First({k \in from..j : \A m \in k..(j - 1) : Char(m) = "\\"})

\* Whether an escape begins at j in the string whose content is from `from` on.
EscapeAt(from, j) == j >= from /\ Char(j) = "\\" /\ Slashes(from, j) % 2 = 0

UnicodeAt(from, j) == EscapeAt(from, j) /\ Char(j + 1) = "u" /\ hex4(j + 2)

HighAt(from, j) == UnicodeAt(from, j) /\ High(CodeAt(j + 2))
LowAt(from, j)  == UnicodeAt(from, j) /\ Low(CodeAt(j + 2))

\* Mutant: a low half may stand alone.
LoneLowHalf(from, j) ==
  \/ Char(j + 1) \in {"\"", "\\", "/", "b", "f", "n", "r", "t"}
  \/ UnicodeAt(from, j) /\ (High(CodeAt(j + 2)) => LowAt(from, j + 6))

\* A half of a surrogate pair stands beside the other half.
GoodEscape(from, j) ==
  \/ Char(j + 1) \in {"\"", "\\", "/", "b", "f", "n", "r", "t"}
  \/ /\ UnicodeAt(from, j)
     /\ High(CodeAt(j + 2)) => LowAt(from, j + 6)
     /\ Low(CodeAt(j + 2)) => HighAt(from, j - 6)

\* The position after the string whose content starts at i, or -1.
scan_string(i) ==
  LET quotes == {j \in i..(Len(text) - 1) : Char(j) = "\"" /\ Slashes(i, j) % 2 = 0}
      end    == First(quotes)
  IN  IF /\ quotes # {}
         /\ \A j \in i..(end - 1) : Char(j) \notin Raw /\ (EscapeAt(i, j) => GoodEscape(i, j))
      THEN end + 1 ELSE -1

-----------------------------------------------------------------------------
(* Numbers.                                                                *)

DigitsValue(i, j) ==
  LET v[k \in i..j] == IF k = i THEN 0 ELSE 10 * v[k - 1] + DigitOf[Char(k - 1)]
  IN  v[j]

\* Whether the number whose digits are at whole, frac and power overflows: its
\* first digit that is not zero stands for a power of ten above the largest
\* float's, or for that power with a number from 1.8 on.
finite_f64(whole, frac, power, negative) ==
  LET digits == {j \in whole[1]..(whole[2] - 1) \cup frac[1]..(frac[2] - 1) : Char(j) # "0"}
      lead   == First(digits)
      second == First({j \in whole[1]..(whole[2] - 1) \cup frac[1]..(frac[2] - 1) : j > lead}
                        \cup {Len(text)})
      exp    == DigitsValue(power[1], power[2])
      scale  == (IF lead < whole[2] THEN whole[2] - lead - 1 ELSE frac[1] - lead - 1)
                  + (IF negative THEN -exp ELSE exp)
  IN  digits = {} \/ scale < MAX_EXPONENT
        \/ (scale = MAX_EXPONENT /\ Char(lead) = "1" /\ Char(second) # "8")

\* The position after the number at i, or -1.
scan_number(i) ==
  LET first == IF Char(i) = "-" THEN i + 1 ELSE i
      whole == IF Char(first) = "0" THEN first + 1 ELSE PastRun(first, TenDigits)
      point == Char(whole) = "."
      frac  == IF point THEN PastRun(whole + 1, TenDigits) ELSE whole
      power == Char(frac) = "e"
      sign  == IF Char(frac + 1) \in {"+", "-"} THEN frac + 2 ELSE frac + 1
      end   == IF power THEN PastRun(sign, TenDigits) ELSE frac
  IN  IF /\ Char(first) \in TenDigits
         /\ Char(first) = "0" => Char(whole) \notin TenDigits
         /\ point => Char(whole + 1) \in TenDigits
         /\ power => Char(sign) \in TenDigits
         /\ (point \/ power \/ end - i > INT_DIGITS + (IF Char(i) = "-" THEN 1 ELSE 0))
              => finite_f64(<<first, whole>>, <<whole + 1, frac>>,
                            IF power THEN <<sign, end>> ELSE <<end, end>>, Char(frac + 1) = "-")
      THEN end ELSE -1

-----------------------------------------------------------------------------
(* The stack.  Container number d, from 0, is bit d % WORD of word         *)
(* d \div WORD, and set for an object.                                     *)

top_is_object == (depth - 1) % WORD \in stack[(depth - 1) \div WORD]

\* Mutant: the bit a container of that depth left behind is not cleared.
pushed_stale(is_object) ==
  [stack EXCEPT ![depth \div WORD] = IF is_object THEN @ \cup {depth % WORD} ELSE @]

\* The stack with one container more.
pushed(is_object) ==
  [stack EXCEPT ![depth \div WORD] =
     IF is_object THEN @ \cup {depth % WORD} ELSE @ \ {depth % WORD}]

Return(v) == verdict' = v /\ UNCHANGED <<text, st, pos, stack, depth, open>>

\* The scan goes on in another state, at another position.
Goto(state, i) == st' = state /\ pos' = i /\ UNCHANGED <<text, stack, depth, open, verdict>>

push(is_object, state, i) ==
  IF depth >= MAX_DEPTH THEN Return("invalid")
  ELSE /\ stack' = pushed(is_object) /\ depth' = depth + 1
       /\ open' = Append(open, is_object)
       /\ st' = state /\ pos' = i
       /\ UNCHANGED <<text, verdict>>

Close(i) ==
  /\ depth' = depth - 1 /\ open' = SubSeq(open, 1, Len(open) - 1)
  /\ st' = "AfterValue" /\ pos' = i
  /\ UNCHANGED <<text, stack, verdict>>

-----------------------------------------------------------------------------
(* One step for each round of the loop.                                    *)

Running(states) == verdict = "none" /\ st \in states

Here == Char(skip_ws(pos))

\* A comma is read in the context of the container it stands in.
AfterValue ==
  LET i == skip_ws(pos)
  IN  /\ Running({"AfterValue"})
      /\ CASE Here = "" -> Return(IF depth = 0 THEN "valid" ELSE "invalid")
           [] Here = "," /\ depth > 0 -> Goto(IF top_is_object THEN "ObjKey" ELSE "Value", i + 1)
           [] Here = "]" /\ depth > 0 /\ ~top_is_object -> Close(i + 1)
           [] Here = "}" /\ depth > 0 /\ top_is_object -> Close(i + 1)
           [] OTHER -> Return("invalid")

Containers ==
  /\ Running({"Value", "ArrayOrEnd"})
  /\ \/ Here = "[" /\ push(FALSE, "ArrayOrEnd", skip_ws(pos) + 1)
     \/ Here = "{" /\ push(TRUE, "ObjKeyOrEnd", skip_ws(pos) + 1)
     \/ Here = "]" /\ st = "ArrayOrEnd" /\ Close(skip_ws(pos) + 1)

Spelt(i, word) == \A k \in 1..Len(word) : Char(i + k - 1) = word[k]

LITERALS == {<<"t", "r", "u", "e">>, <<"f", "a", "l", "s", "e">>, <<"n", "u", "l", "l">>}

\* The position after the scalar at i, or -1.
ScalarEnd(i) ==
  LET found == {w \in LITERALS : Spelt(i, w)}
  IN  CASE Char(i) = "\"" -> scan_string(i + 1)
        [] Char(i) \in TenDigits \cup {"-"} -> scan_number(i)
        [] found # {} -> i + Len(CHOOSE w \in found : TRUE)
        [] OTHER -> -1

Scalar ==
  /\ Running({"Value", "ArrayOrEnd"})
  /\ Here \notin {"[", "{"} /\ ~(Here = "]" /\ st = "ArrayOrEnd")
  /\ IF ScalarEnd(skip_ws(pos)) = -1 THEN Return("invalid")
     ELSE Goto("AfterValue", ScalarEnd(skip_ws(pos)))

ObjectKey ==
  LET i   == skip_ws(pos)
      end == scan_string(i + 1)
      key == Here = "\"" /\ end # -1 /\ Char(skip_ws(end)) = ":"
  IN  /\ Running({"ObjKey", "ObjKeyOrEnd"})
      /\ IF Here = "}" /\ st = "ObjKeyOrEnd" THEN Close(i + 1)
         ELSE IF key THEN Goto("Value", skip_ws(end) + 1) ELSE Return("invalid")

ValidInit ==
  /\ text \in ValidTexts /\ st = "Value" /\ pos = 0 /\ depth = 0
  /\ stack = [w \in 0..(STACK_WORDS - 1) |-> {}]
  /\ open = <<>> /\ verdict = "none"

ValidNext == AfterValue \/ Containers \/ Scalar \/ ObjectKey

ValidSpec == ValidInit /\ [][ValidNext]_valid_vars

-----------------------------------------------------------------------------
(* What it promises.                                                       *)

\* The shapes of a check's state.
ValidTypeOK ==
  /\ st \in {"Value", "ArrayOrEnd", "ObjKeyOrEnd", "ObjKey", "AfterValue"}
  /\ stack \in [0..(STACK_WORDS - 1) -> SUBSET (0..(WORD - 1))]
  /\ depth \in 0..MAX_DEPTH
  /\ open \in Seq(BOOLEAN) /\ Len(open) = depth
  /\ verdict \in {"none", "valid", "invalid"}

\* The bits below the depth are the kinds of the containers that are open, in
\* every word and across the words' edges, whatever was closed before at the same
\* depth; and a state that closes or continues a container has one open.
StackIsFaithful ==
  /\ \A d \in 0..(depth - 1) : (d % WORD \in stack[d \div WORD]) <=> open[d + 1]
  /\ st = "ArrayOrEnd" => depth > 0 /\ ~open[depth]
  /\ st \in {"ObjKeyOrEnd", "ObjKey"} => depth > 0 /\ open[depth]
===============================================================================
