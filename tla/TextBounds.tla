------------------------------ MODULE TextBounds ------------------------------
(***************************************************************************)
(* The boundaries the chunkers cut at, computed from a text: paragraphs    *)
(* and lines (src/src/chunk_by_segment_impl.rs), headings and literal      *)
(* separators (src/src/chunk_hierarchical_impl.rs).  A text is a sequence  *)
(* of "a" and "b" (letters), " ", "nl", "cr", "#", and "m" (a combining    *)
(* mark, which joins the cluster before it).  Position p lies between the  *)
(* characters p and p + 1.                                                 *)
(***************************************************************************)
EXTENDS Integers, Sequences, SequencesExt

Breaks == {"nl", "cr"}

\* The character after position p, and the stretch between two positions.
After(t, p) == t[p + 1]
Slice(t, p, q) == SubSeq(t, p + 1, q)

IsPair(t, p) == p >= 0 /\ p + 2 <= Len(t) /\ Slice(t, p, p + 2) = <<"cr", "nl">>

-----------------------------------------------------------------------------
(* The segmenters of unicode-segmentation over these characters.           *)

Edges(t) == {0, Len(t)}

Grid(t) == Edges(t) \cup
  {p \in 1..(Len(t) - 1) :
     /\ ~IsPair(t, p - 1)
     /\ After(t, p) = "m" => t[p] \in Breaks}

Class(ch) == IF ch \in {"a", "b"} THEN "letter" ELSE ch

\* Word ends: runs of letters and of spaces stay together; a mark may end a
\* word inside a cluster, as Thai vowels do.
WordEnds(t) ==
  {p \in 1..Len(t) :
     \/ p = Len(t)
     \/ /\ ~IsPair(t, p - 1)
        /\ Class(t[p]) # Class(After(t, p)) \/ Class(t[p]) \notin {"letter", " "}}

\* Sentence ends: after every line break.
SentenceEnds(t) ==
  {p \in 1..Len(t) : p = Len(t) \/ (t[p] \in Breaks /\ ~IsPair(t, p - 1))}

\* The segments between consecutive ends.
Partition(ends) ==
  LET s == SetToSortSeq(ends, <)
  IN  [i \in 1..Len(s) |-> [start |-> IF i = 1 THEN 0 ELSE s[i - 1], end |-> s[i]]]

-----------------------------------------------------------------------------
(* Paragraphs and lines: one walk over the break units.                    *)

IsBreak(t, p) == p < Len(t) /\ After(t, p) \in Breaks

\* Mutant: a CRLF pair counts as two units.
UnitEnd_single(t, p) == p + 1

\* A CRLF pair is one unit.
UnitEnd(t, p) == IF IsPair(t, p) THEN p + 2 ELSE p + 1

\* The positions after one unit, two units, ... of the run that starts at p.
RunEnds(t, p) ==
  LET end[q \in 0..Len(t)] == IF IsBreak(t, q) THEN {q} \cup end[UnitEnd(t, q)] ELSE {q}
  IN  end[p]

\* One stretch of content and the run of breaks behind it.
ContentEnd(t, p) ==
  LET end[q \in 0..Len(t)] == IF q = Len(t) \/ IsBreak(t, q) THEN q ELSE end[q + 1]
  IN  end[p]

\* The paragraphs from the walk's position p on, the open one starting at `from`.
ParagraphsFrom(t) ==
  LET n == Len(t)
      walk[p \in 0..n, from \in 0..n] ==
        LET brk  == ContentEnd(t, p)
            ends == RunEnds(t, brk)
            next == CHOOSE q \in ends : \A r \in ends : r <= q
            open(to) == IF from < to THEN <<[start |-> from, end |-> to]>> ELSE <<>>
        IN  IF p = n THEN open(n)
            ELSE IF brk = n THEN open(n)
            ELSE IF Cardinality(ends) > 2 THEN open(brk) \o walk[next, next]
            ELSE walk[next, from]
  IN  walk

\* A run of two or more break units separates two paragraphs.
paragraph_bounds(t) == ParagraphsFrom(t)[0, 0]

HasContent(t, p, q) == \E i \in p..(q - 1) : After(t, i) \notin Breaks \cup {" "}

\* A line counts when it has something besides white space.
line_bounds(t) ==
  LET n == Len(t)
      walk[p \in 0..n] ==
        LET end  == ContentEnd(t, p)
            line == IF HasContent(t, p, end) THEN <<[start |-> p, end |-> end]>> ELSE <<>>
        IN  IF p = n THEN <<>>
            ELSE IF end = n THEN line ELSE line \o walk[UnitEnd(t, end)]
  IN  walk[0]

\* Segments that meet inside a cluster are one.
merge_mid_cluster_boundaries(ends, grid) == Partition(ends \cap grid)

retain_non_whitespace_segments(t, segs) ==
  SelectSeq(segs, LAMBDA s : HasContent(t, s.start, s.end))

word_segments(t) ==
  retain_non_whitespace_segments(t, merge_mid_cluster_boundaries(WordEnds(t), Grid(t)))

sentence_segments(t) == merge_mid_cluster_boundaries(SentenceEnds(t), Grid(t))

-----------------------------------------------------------------------------
(* The hierarchy's levels.                                                 *)

Row(end, next) == [end |-> end, next |-> next]

level_from_contiguous_bounds(ends) == {Row(p, p) : p \in ends}

level_from_paragraph_bounds(segs) ==
  {Row(segs[i].end, segs[i + 1].start) : i \in 1..(Len(segs) - 1)}

Matches(t, sep) ==
  {p \in 0..(Len(t) - Len(sep)) : Slice(t, p, p + Len(sep)) = sep}

\* The matches that start behind the previous match.
ApartMatches(t, sep) ==
  LET n == Len(sep)
      taken[p \in Nat] == /\ p \in Matches(t, sep)
                          /\ \A q \in Matches(t, sep) : (q < p /\ p < q + n) => ~taken[q]
  IN  {p \in Matches(t, sep) : taken[p]}

LiteralRows(ps, sep) == {Row(p, p + Len(sep)) : p \in ps}

LineStarts(t) ==
  {p \in 0..(Len(t) - 1) : p = 0 \/ (t[p] \in Breaks /\ ~IsPair(t, p - 1))}

\* Up to three spaces, one to six hashes, then a space or the line's end.
is_atx_heading_line(line) ==
  \E k \in 0..3, h \in 1..6 :
    /\ k + h <= Len(line)
    /\ \A i \in 1..k : line[i] = " "
    /\ \A i \in (k + 1)..(k + h) : line[i] = "#"
    /\ k + h = Len(line) \/ line[k + h + 1] = " "

\* A heading's chunk starts with the heading; the line breaks behind the last
\* line with anything on it are lost.
level_from_heading_starts(t) ==
  LET last(p) == {ContentEnd(t, q) : q \in {q \in LineStarts(t) : q < p /\ ContentEnd(t, q) > q}}
  IN  {Row(CHOOSE e \in last(p) \cup {0} : \A d \in last(p) : d <= e, p) :
         p \in {p \in LineStarts(t) : p > 0 /\ is_atx_heading_line(Slice(t, p, ContentEnd(t, p)))}}

OnGrid(rows, grid) == {r \in rows : r.end \in grid /\ r.next \in grid}

\* A slot of the hierarchy, realized.
realize(t, spec) ==
  LET cuts == CASE spec.kind = "heading"   -> level_from_heading_starts(t)
                [] spec.kind = "paragraph" -> level_from_paragraph_bounds(paragraph_bounds(t))
                [] spec.kind = "sentence"  -> level_from_contiguous_bounds(SentenceEnds(t))
                [] spec.kind = "word"      -> level_from_contiguous_bounds(WordEnds(t))
                [] spec.kind = "literal"   -> LiteralRows(ApartMatches(t, spec.sep), spec.sep)
      skips == IF spec.kind = "literal" THEN LiteralRows(Matches(t, spec.sep), spec.sep) ELSE {}
  IN  [kind |-> spec.kind, cuts |-> OnGrid(cuts, Grid(t)), skips |-> OnGrid(skips, Grid(t)),
       leads |-> spec.kind = "literal" /\ 0 \in Matches(t, spec.sep)]

-----------------------------------------------------------------------------
(* The separators argument.                                                *)

LevelSpec(kind, sep) == [kind |-> kind, sep |-> sep]

default_level_specs ==
  <<LevelSpec("heading", <<>>), LevelSpec("paragraph", <<>>), LevelSpec("sentence", <<>>), LevelSpec("word", <<>>)>>

Splice == [kind |-> "none", sep |-> <<>>]

\* A specification that is there already is not repeated.
Added(slots, specs) == slots \o SelectSeq(specs, LAMBDA s : s \notin ToSet(slots))

\* None splices the default levels, "heading" is the heading level, an empty
\* literal is no level.
custom_level_specs(seps) ==
  FoldLeft(LAMBDA slots, e : IF e = Splice THEN Added(slots, default_level_specs)
                             ELSE IF e.kind = "literal" /\ e.sep = <<>> THEN slots
                             ELSE Added(slots, <<e>>),
           <<>>, seps)
==============================================================================
