------------------------------ MODULE CodeFences ------------------------------
(***************************************************************************)
(* Fenced code in a text (src/src/fence_impl.rs): where the blocks are,    *)
(* the text between the fences of a text that is one block, and the text   *)
(* without its common indentation.  A text is a sequence of characters;    *)
(* "nl" ends a line, "tick" and "~" are the fence marks.                   *)
(***************************************************************************)
EXTENDS Integers, Sequences, FiniteSets
LOCAL INSTANCE SequencesExt

FenceChars == {"tick", "~"}
Blank      == {" ", "tab", "nl", "cr", "ff"}

LeastOf(S) == CHOOSE x \in S : \A y \in S : x <= y

\* How many of the first characters of a line satisfy the set.
Lead(line, chars) ==
  LeastOf({Len(line)} \cup {i - 1 : i \in {k \in 1..Len(line) : line[k] \notin chars}})

Drop(line, n) == SubSeq(line, n + 1, Len(line))

trim(text) ==
  LET keep == {i \in 1..Len(text) : text[i] \notin Blank}
  IN  IF keep = {} THEN <<>>
      ELSE SubSeq(text, LeastOf(keep), CHOOSE x \in keep : \A y \in keep : y <= x)

\* The lines of a text: where each starts and where its content ends.
lines(text) ==
  LET ends   == SelectSeq([i \in 1..Len(text) |-> i], LAMBDA i : text[i] = "nl")
      start(k) == IF k = 1 THEN 0 ELSE ends[k - 1]
  IN  [k \in 1..(Len(ends) + 1) |->
         LET stop == IF k <= Len(ends) THEN ends[k] - 1 ELSE Len(text)
         IN  [content |-> SubSeq(text, start(k) + 1, stop), start |-> start(k),
              end |-> IF k <= Len(ends) THEN stop + 1 ELSE stop, newline |-> k <= Len(ends)]]

Indent(line) == IF Lead(line, {" "}) < 3 THEN Lead(line, {" "}) ELSE 3

NoFence == [mark |-> "", len |-> 0, indent |-> 0]

match_open_fence(line) ==
  LET rest == Drop(line, Indent(line))
      mark == IF rest = <<>> THEN "" ELSE rest[1]
      len  == Lead(rest, {mark})
  IN  IF mark \notin FenceChars \/ len < 3 THEN NoFence
      ELSE IF mark = "tick" /\ \E i \in (len + 1)..Len(rest) : rest[i] = "tick" THEN NoFence
      ELSE [mark |-> mark, len |-> len, indent |-> Indent(line)]

is_closing_fence(line, open) ==
  LET rest == Drop(line, Indent(line))
      len  == Lead(rest, {open.mark})
  IN  len >= open.len /\ \A i \in (len + 1)..Len(rest) : rest[i] \in {" ", "tab", "cr"}

strip_indent(line, n) ==
  Drop(line, IF Lead(line, {" "}) < n THEN Lead(line, {" "}) ELSE n)

\* What the lines after the opening one, line k, hold up to line `close`, where the
\* closing one is, if any is.
CodeOf(ls, k, close, indent) ==
  LET line(j) == strip_indent(ls[j].content, indent)
                   \o (IF ls[j].newline \/ j + 1 < close THEN <<"nl">> ELSE <<>>)
  IN  FoldLeft(LAMBDA acc, j : acc \o line(j), <<>>, [n \in 1..(close - k - 1) |-> k + n])

Block(text, ls, k, close, indent) ==
  LET closed == close <= Len(ls)
  IN  [start |-> ls[k].start,
       end   |-> IF closed THEN ls[close].end ELSE Len(text),
       code_start |-> IF k < Len(ls) THEN ls[k + 1].start ELSE ls[k].end,
       code_end   |-> IF closed THEN ls[close].start ELSE Len(text),
       indent |-> indent,
       code   |-> CodeOf(ls, k, close, indent)]

\* Mutant: the line that opens the block may close it.
CloseFromOpen(ls, k, open) ==
  LeastOf({Len(ls) + 1} \cup {j \in k..Len(ls) : is_closing_fence(ls[j].content, open)})

CloseLine(ls, k, open) ==
  LeastOf({Len(ls) + 1} \cup {j \in (k + 1)..Len(ls) : is_closing_fence(ls[j].content, open)})

\* `open` is the fence that line k is, if any.
RECURSIVE ScanFences(_, _, _), FencedFrom(_, _, _, _)
FencedFrom(text, ls, at, close) ==
  <<Block(text, ls, at.k, close, at.open.indent)>> \o ScanFences(text, ls, close + 1)

ScanLine(text, ls, k, open) ==
  IF open = NoFence THEN ScanFences(text, ls, k + 1)
  ELSE FencedFrom(text, ls, [k |-> k, open |-> open], CloseLine(ls, k, open))

ScanFences(text, ls, k) ==
  IF k > Len(ls) THEN <<>> ELSE ScanLine(text, ls, k, match_open_fence(ls[k].content))

extract_code_blocks(text) == ScanFences(text, lines(text), 1)

IsOneBlock(text, blocks) == Len(blocks) = 1 /\ blocks[1].start = 0 /\ blocks[1].end = Len(text)

strip_code_fences(text) ==
  LET Stripped(blocks) == IF IsOneBlock(trim(text), blocks) THEN blocks[1].code ELSE text
  IN  Stripped(extract_code_blocks(trim(text)))

\* Mutant: the block's offsets in the trimmed text are used in the text.
unwrap_untrimmed(text) ==
  LET Inner(t, blocks) ==
        IF IsOneBlock(t, blocks) THEN SubSeq(text, blocks[1].code_start + 1, blocks[1].code_end)
        ELSE text
  IN  Inner(trim(text), extract_code_blocks(trim(text)))

\* The text between the fences, as it stands; the text without them.
unwrap_code_fence(text) ==
  LET Inner(t, blocks) ==
        IF IsOneBlock(t, blocks) THEN SubSeq(t, blocks[1].code_start + 1, blocks[1].code_end)
        ELSE text
  IN  Inner(trim(text), extract_code_blocks(trim(text)))

CommonLead(a, b) ==
  LET n == IF Len(a) < Len(b) THEN Len(a) ELSE Len(b)
      differ == {i \in 1..n : a[i] # b[i]}
  IN  SubSeq(a, 1, IF differ = {} THEN n ELSE LeastOf(differ) - 1)

dedent(text) ==
  LET ls     == lines(text)
      shown  == {k \in 1..Len(ls) : \E i \in 1..Len(ls[k].content) : ls[k].content[i] \notin Blank \cup {"us"}}
      lead(k) == SubSeq(ls[k].content, 1, Lead(ls[k].content, {" ", "tab"}))
      order  == SelectSeq([k \in 1..Len(ls) |-> k], LAMBDA k : k \in shown)
      margin == IF shown = {} THEN <<>>
                ELSE FoldLeft(LAMBDA m, k : CommonLead(m, lead(k)), lead(order[1]), order)
      line(k) == (IF k \in shown THEN Drop(ls[k].content, Len(margin)) ELSE <<>>)
                   \o (IF k < Len(ls) THEN <<"nl">> ELSE <<>>)
  IN  FoldLeft(LAMBDA acc, k : acc \o line(k), <<>>, [k \in 1..Len(ls) |-> k])
===============================================================================
