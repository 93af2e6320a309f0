---------------------------- MODULE MCTokenBudget ----------------------------
(* Small texts for TokenBudget: each a sequence of sentences, each sentence  *)
(* the lengths of its words.                                                 *)
EXTENDS TokenBudget, SequencesExt

\* Words of these lengths laid end to end from codepoint `from`.
Lay(lengths, from) ==
  [w \in 1..Len(lengths) |->
    [start |-> from + FoldSeq(+, 0, SubSeq(lengths, 1, w - 1)),
     end   |-> from + FoldSeq(+, 0, SubSeq(lengths, 1, w))]]

TextOf(shape) ==
  LET sizes == [i \in 1..Len(shape) |-> FoldSeq(+, 0, shape[i])]
      at    == Lay(sizes, 0)
  IN  [total     |-> FoldSeq(+, 0, sizes),
       sentences |-> [i \in 1..Len(shape) |->
                        [start |-> at[i].start, end |-> at[i].end,
                         words |-> Lay(shape[i], at[i].start)]]]

\* Sentences of one, two and three words, single-word texts and no text.
CallbackTexts == {TextOf(<<>>), TextOf(<<<<2>>>>),
                  TextOf(<<<<1, 1>>, <<1>>, <<1, 1>>>>),
                  TextOf(<<<<1>>, <<1>>, <<1>>, <<1>>>>)}

OffsetTexts == {TextOf(<<<<1, 1>>, <<2>>, <<1, 1, 1>>>>),
                TextOf(<<<<1>>, <<1>>, <<1>>, <<2>>, <<1>>, <<1>>>>),
                TextOf(<<<<3, 1>>, <<1, 2>>>>)}

\* Every sorted run of token spans of one or two codepoints over 0..7.
Starts == 0..6
SpanRuns == {SetToSortSeq(ts, LAMBDA a, b : a.start < b.start) :
               ts \in {ts \in SUBSET {[start |-> s, end |-> s + n] :
                                        s \in Starts, n \in {1, 2}} :
                         \A a, b \in ts : a # b => \/ a.end <= b.start
                                                   \/ b.end <= a.start}}

\* A counter that may answer anything, with an overlap and without; and token
\* spans counted by search.
MCCalls ==
  [text : CallbackTexts, tokens : {<<>>}, overlap : {0, 1}, by_offsets : {FALSE}]
  \cup [text : OffsetTexts, tokens : SpanRuns, overlap : {1}, by_offsets : {TRUE}]
==============================================================================
