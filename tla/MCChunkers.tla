------------------------------ MODULE MCChunkers ------------------------------
(***************************************************************************)
(* The text chunkers on small texts: every text of a few lengths over      *)
(* small alphabets, every budget and overlap up to a bound, and separator  *)
(* lists that exercise each kind of level.                                 *)
(***************************************************************************)
EXTENDS TextChunks, SegmentChunks, HierarchicalChunks

Texts(alphabet, n) == [1..n -> alphabet]

Budgets == {<<m, o>> \in (1..3) \X (0..2) : o < m}

Blank(t) ==
  {g \in Grid(t) \ {0} : After(t, g - 1) \in Breaks \cup {" "}}

\* chunk_text over words and over sentences.
MCTextCalls ==
  {[how |-> "text", len |-> Len(t), grid |-> Grid(t), bounds |-> bounds,
    blank |-> Blank(t), max |-> b[1], overlap |-> b[2]] :
     <<t, bounds, b>> \in
       UNION {{t} \X {WordEnds(t), SentenceEnds(t)} \X Budgets :
                t \in Texts({"a", " ", "m"}, 5) \cup Texts({"a", "cr", "nl"}, 5)
                      \cup {<<>>}}}

MCSegmentCalls ==
  {[how |-> "segments", len |-> Len(t), grid |-> Grid(t), text |-> t, unit |-> u,
    segs |-> Units(t, u), per |-> b[1], overlap |-> b[2]] :
     <<t, u, b>> \in
       UNION {{t} \X {"word", "sentence", "paragraph", "line"} \X Budgets :
                t \in Texts({"a", "cr", "nl"}, 4) \cup Texts({"a", " ", "m"}, 4)
                      \cup Texts({"a", " ", "nl"}, 4) \cup {<<>>}}}

Literal(sep) == LevelSpec("literal", sep)

Heading == LevelSpec("heading", <<>>)

Hierarchical(t, seps, max, overlap, snap) ==
  LET specs == custom_level_specs(seps)
  IN  [how |-> "hierarchical", len |-> Len(t), grid |-> Grid(t), max |-> max,
       overlap |-> overlap, snap |-> snap, words |-> WordEnds(t) \cap Grid(t),
       hash |-> "#" \in {t[i] : i \in 1..Len(t)},
       slots |-> [k \in 1..Len(specs) |-> realize(t, specs[k])]]

Budgeted(texts, lists, budgets) ==
  {Hierarchical(t, seps, b[1], b[2], snap) :
     t \in texts, seps \in lists, b \in budgets, snap \in {"grapheme", "word"}}

\* A line, and up to two sections behind it, that an overlap of one can reach back
\* into, in budgets that hold all of them.
Sections == {<<"a", "a", "nl">> \o t : t \in Texts({"a", "#", "nl"}, 3)}

\* Headings and paragraphs, before and behind a literal; a literal that
\* overlaps itself; two literals; spaces and marks.
MCHierarchicalCalls ==
  Budgeted(Texts({"a", "#", "nl"}, 5),
           {<<Splice>>, <<Literal(<<"a">>), Heading>>, <<Heading, Literal(<<"a">>)>>}, Budgets)
  \cup Budgeted(Texts({"a", "b"}, 5),
                {<<Literal(<<"b", "b">>)>>, <<Literal(<<"a", "b">>), Literal(<<"b">>)>>}, Budgets)
  \cup Budgeted(Texts({"a", " ", "m"}, 4), {<<Literal(<<" ">>), Splice>>, <<Splice>>}, Budgets)
  \cup Budgeted(Sections, {<<Splice>>, <<Heading>>}, (4..6) \X {1})

Init == TextInit \/ SegmentInit \/ HierarchicalInit

Next == TextNext \/ SegmentNext \/ HierarchicalNext

Spec == Init /\ [][Next]_vars
===============================================================================
