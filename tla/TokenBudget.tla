----------------------------- MODULE TokenBudget -----------------------------
(* pack, the packing core chunk_to_budget and chunk_to_offsets share         *)
(* (src/src/chunk_budget_impl.rs): sentences are measured once, the ones     *)
(* over the budget re-cut into words, and the segments packed greedily into  *)
(* chunks whose candidate span is measured before it grows.  A chunk may     *)
(* start inside its predecessor (the overlap), and is re-cut from the        *)
(* predecessor's end when that would not get past it.                        *)
(*                                                                           *)
(* The counter is the caller's Python callable, called between native steps: *)
(* each call may return any member of Counts, whatever it returned before,   *)
(* or fail.  The offsets spelling counts precomputed token spans instead.    *)
EXTENDS Naturals, Integers, Sequences, FiniteSets

CONSTANTS Calls,      \* the calls that may be made
          MaxTokens,  \* max_tokens, at least 1
          Counts      \* what the counter may return

\* UAX #29 segmentation: sentences tile the text and words tile a sentence.
\* (Segments tile also says pairwise what it says of neighbours.)
Tiles(spans, from, to) ==
  /\ Len(spans) = 0 => from = to
  /\ Len(spans) > 0 => spans[1].start = from /\ spans[Len(spans)].end = to
  /\ \A i \in 1..Len(spans) : spans[i].start < spans[i].end
  /\ \A i \in 1..Len(spans) - 1 : spans[i].end = spans[i + 1].start
  /\ \A i, l \in 1..Len(spans) : i < l => spans[i].end <= spans[l].start

Span == [start : Nat, end : Nat]
Sentence == [start : Nat, end : Nat, words : Seq(Span)]

IsText(t) ==
  /\ t \in [total : Nat, sentences : Seq(Sentence)]
  /\ Tiles(t.sentences, 0, t.total)
  /\ \A i \in 1..Len(t.sentences) :
       Tiles(t.sentences[i].words, t.sentences[i].start, t.sentences[i].end)

\* The binding's walk admits sorted, non-overlapping, non-empty spans only.
IsSpans(ts) ==
  /\ ts \in Seq(Span)
  /\ \A i \in 1..Len(ts) : ts[i].start < ts[i].end
  /\ \A i, l \in 1..Len(ts) : i < l => ts[i].end <= ts[l].start

ASSUME CallsAssumption ==
  \A c \in Calls : /\ IsText(c.text)
                   /\ IsSpans(c.tokens)
                   /\ c.overlap \in 0..MaxTokens - 1
                   /\ c.by_offsets \in BOOLEAN
ASSUME BudgetAssumption == MaxTokens \in Nat \ {0}
ASSUME CountsAssumption == Counts \subseteq Nat

VARIABLES text, tokens,      \* the call's arguments: the text, its tokens,
          overlap,           \* the resolved overlap, less than max_tokens,
          by_offsets,        \* chunk_to_offsets rather than chunk_to_budget
          phase,             \* where pack's control is
          k,                 \* the sentence being measured
          segs,              \* the packing list
          si, fallback_si, last, end, j, prev_end,
          count,             \* what the candidate chunk was last measured at
          chunks,
          calls              \* counter calls so far, of a call without overlap
args == <<text, tokens, overlap, by_offsets>>
vars == <<text, tokens, overlap, by_offsets, phase, k, segs, si,
          fallback_si, last, end, j, prev_end, count, chunks, calls>>

Uncached == -1
Seg == [start : Nat, end : Nat, cached : Nat \cup {Uncached}]

------------------------------------------------------------------------------
(* Measurement *)

\* Mutant: a token ending exactly at the span's end is missed.
OffsetCount_misses_last(s, e) ==
  LET base == Cardinality({i \in 1..Len(tokens) : tokens[i].start < s})
      top  == Cardinality({i \in 1..Len(tokens) : tokens[i].end < e})
  IN  IF top < base THEN 0 ELSE top - base

\* Two binary searches over the sorted spans, the difference saturating at 0.
OffsetCount(s, e) ==
  LET base == Cardinality({i \in 1..Len(tokens) : tokens[i].start < s})
      top  == Cardinality({i \in 1..Len(tokens) : tokens[i].end <= e})
  IN  IF top < base THEN 0 ELSE top - base

Measured(s, e) == IF by_offsets THEN {OffsetCount(s, e)} ELSE Counts

\* A segment whose sentence was measured in phase A is not measured again.
SegCount(i) == IF segs[i].cached = Uncached
                 THEN Measured(segs[i].start, segs[i].end)
                 ELSE {segs[i].cached}
\* Mutant: the phase-A count is not reused.
SegCalls_always(i) == 1

SegCalls(i) == IF segs[i].cached = Uncached THEN 1 ELSE 0

\* Mutants: every count fits; one that fills the budget exactly does not.
Fits_always(c) == c >= 0
Fits_below(c) == c < MaxTokens
Fits(c) == c <= MaxTokens

\* Mutant: an overlap of exactly the requested tokens is passed over.
Reaches_beyond(c) == c > overlap
Reaches(c) == c >= overlap

\* The documented cost is that of a call without overlap: with one, the
\* walk-back measures too.
Cost(n) == IF overlap = 0 THEN n ELSE 0

------------------------------------------------------------------------------
(* Phase A: sentences to segments *)

Init == /\ \E c \in Calls : /\ text = c.text /\ tokens = c.tokens
                             /\ overlap = c.overlap
                             /\ by_offsets = c.by_offsets
        /\ phase = "measure"
        /\ k = 1
        /\ segs = <<>>
        /\ si = 1 /\ fallback_si = 1 /\ last = 1 /\ j = 1
        /\ end = 0 /\ prev_end = 0 /\ count = 0
        /\ chunks = <<>>
        /\ calls = 0

packing == <<si, fallback_si, last, end, j, prev_end, count, chunks>>

WordSegs(s) == [w \in 1..Len(s.words) |->
                  [start |-> s.words[w].start, end |-> s.words[w].end,
                   cached |-> Uncached]]

SentenceSeg(s, c) == [start |-> s.start, end |-> s.end, cached |-> c]

MeasureSentence ==
  /\ phase = "measure"
  /\ k <= Len(text.sentences)
  /\ LET s == text.sentences[k]
     IN  \E c \in Measured(s.start, s.end) :
           /\ c > 0 \/ by_offsets
           /\ segs' = IF Fits(c) THEN Append(segs, SentenceSeg(s, c))
                              ELSE segs \o WordSegs(s)
  /\ k' = k + 1
  /\ calls' = calls + Cost(1)
  /\ UNCHANGED <<args, phase, packing>>

\* A sentence of no tokens is a broken counter: the call is refused.
RefuseZero ==
  /\ phase = "measure"
  /\ k <= Len(text.sentences)
  /\ ~by_offsets
  /\ 0 \in Counts
  /\ phase' = "refused"
  /\ calls' = calls + Cost(1)
  /\ UNCHANGED <<args, k, segs, packing>>

Segmented ==
  /\ phase = "measure"
  /\ k > Len(text.sentences)
  /\ phase' = "open"
  /\ UNCHANGED <<args, k, segs, packing, calls>>

------------------------------------------------------------------------------
(* Greedy packing *)

\* The while loop's exit: only the empty text has no segment to start at.
Exhausted ==
  /\ phase = "open"
  /\ si > Len(segs)
  /\ phase' = "done"
  /\ UNCHANGED <<args, k, segs, packing, calls>>

\* The first segment is forced in; one wider than the budget goes out alone.
Open ==
  /\ phase = "open"
  /\ si <= Len(segs)
  /\ last' = si
  /\ end' = segs[si].end
  /\ count' \in SegCount(si)
  /\ phase' = IF Fits(count') THEN "extend" ELSE "close"
  /\ calls' = calls + Cost(SegCalls(si))
  /\ UNCHANGED <<args, k, segs, si, fallback_si, j, prev_end, chunks>>

Extend ==
  /\ phase = "extend"
  /\ last < Len(segs)
  /\ LET candidate == segs[last + 1].end
     IN  \E c \in Measured(segs[si].start, candidate) :
           IF Fits(c)
             THEN /\ last' = last + 1
                  /\ end' = candidate
                  /\ count' = c
                  /\ UNCHANGED phase
             ELSE /\ phase' = "close"
                  /\ UNCHANGED <<last, end, count>>
  /\ calls' = calls + Cost(1)
  /\ UNCHANGED <<args, k, segs, si, fallback_si, j, prev_end, chunks>>

ExtendedToTheEnd ==
  /\ phase = "extend"
  /\ last = Len(segs)
  /\ phase' = "close"
  /\ UNCHANGED <<args, k, segs, packing, calls>>

\* Mutant: the containment check admits an equal end.
Contained_strictly == chunks # <<>> /\ end < prev_end

\* The overlap's start gave a chunk that does not get past its predecessor.
Contained == chunks # <<>> /\ end <= prev_end

Recut ==
  /\ phase = "close"
  /\ Contained
  /\ si' = fallback_si
  /\ phase' = "open"
  /\ UNCHANGED <<args, k, segs, fallback_si, last, end, j, prev_end, count,
                 chunks, calls>>

AtTextEnd == end >= text.total

Emit ==
  /\ phase = "close"
  /\ ~Contained
  /\ chunks' = Append(chunks, [start |-> segs[si].start, end |-> end,
                               count |-> count])
  /\ prev_end' = end
  /\ phase' = IF AtTextEnd THEN "done" ELSE "walk"
  /\ j' = last
  /\ UNCHANGED <<args, k, segs, si, fallback_si, last, end, count, calls>>

------------------------------------------------------------------------------
(* The overlap walk-back: from the chunk's last segment, never to its first *)

WalkCount == IF j = last THEN SegCount(j) ELSE Measured(segs[j].start, end)
WalkCalls == IF j = last THEN SegCalls(j) ELSE 1
Walking == overlap > 0 /\ j > si

\* Mutant: the zero-overlap position is not kept for the re-cut.
StartNextAt_stale_fallback(n) ==
  /\ si' = n
  /\ phase' = "open"
  /\ UNCHANGED fallback_si
StartNextAt(n) ==
  /\ si' = n
  /\ fallback_si' = last + 1
  /\ phase' = "open"

Walk ==
  /\ phase = "walk"
  /\ Walking
  /\ \E c \in WalkCount :
       IF Reaches(c)
         THEN /\ StartNextAt(IF Fits(c) THEN j ELSE last + 1)
              /\ UNCHANGED j
         ELSE /\ j' = j - 1
              /\ UNCHANGED <<si, fallback_si, phase>>
  /\ calls' = calls + Cost(WalkCalls)
  /\ UNCHANGED <<args, k, segs, last, end, prev_end, count, chunks>>

WalkedOut ==
  /\ phase = "walk"
  /\ ~Walking
  /\ StartNextAt(last + 1)
  /\ UNCHANGED <<args, k, segs, last, end, j, prev_end, count, chunks, calls>>

------------------------------------------------------------------------------
(* The counter's own failures: it raises, or returns something that is no    *)
(* int, is negative or does not fit 64 bits.                                 *)

Measuring == \/ phase = "measure" /\ k <= Len(text.sentences)
             \/ phase = "open" /\ si <= Len(segs) /\ SegCalls(si) = 1
             \/ phase = "extend" /\ last < Len(segs)
             \/ phase = "walk" /\ Walking /\ WalkCalls = 1

CounterFails ==
  /\ ~by_offsets
  /\ Measuring
  /\ phase' = "refused"
  /\ calls' = calls + Cost(1)
  /\ UNCHANGED <<args, k, segs, packing>>

------------------------------------------------------------------------------

Next == \/ MeasureSentence \/ RefuseZero \/ Segmented
        \/ Exhausted \/ Open \/ Extend \/ ExtendedToTheEnd \/ Recut \/ Emit
        \/ Walk \/ WalkedOut
        \/ CounterFails

Spec == Init /\ [][Next]_vars
FairSpec == Spec /\ WF_vars(Next)

------------------------------------------------------------------------------
(* Properties *)

\* Every variable keeps its type, and the packing indices stay in the list.
Chunk == [start : Nat, end : Nat, count : Nat]
TypeOK ==
  /\ IsText(text) /\ IsSpans(tokens)
  /\ overlap \in 0..MaxTokens - 1 /\ by_offsets \in BOOLEAN
  /\ phase \in {"measure", "open", "extend", "close", "walk", "done",
                "refused"}
  /\ k \in 1..Len(text.sentences) + 1
  /\ segs \in Seq(Seg)
  /\ chunks \in Seq(Chunk)
  /\ {end, prev_end, count, calls} \subseteq Nat
  /\ {si, fallback_si, last, j} \subseteq Nat \ {0}
  /\ phase = "walk" => j >= si
  /\ phase \in {"extend", "close", "walk"} => last \in si..Len(segs)

\* "Forward progress is unconditional: every accepted chunk starts strictly
\* after its predecessor's start and ends strictly after its predecessor's
\* end", whatever the counter answers (the walk-back and its re-cut).
ChunksAdvance ==
  \A i \in 1..Len(chunks) - 1 :
    /\ chunks[i].start < chunks[i + 1].start
    /\ chunks[i].end < chunks[i + 1].end

\* Every codepoint lands in some chunk: the first starts at 0, none leaves a
\* gap behind its predecessor, and a call returns only at the text's end.
ChunksCover ==
  /\ Len(chunks) > 0 => chunks[1].start = 0
  /\ \A i \in 1..Len(chunks) - 1 : chunks[i + 1].start <= chunks[i].end
  /\ phase = "done" => IF chunks = <<>> THEN text.total = 0
                       ELSE chunks[Len(chunks)].end = text.total

\* A word wider than the budget is the one chunk that may exceed it: any other
\* measured within it by the very measurement the packing took.
Oversized(c) == \E i \in 1..Len(segs) : /\ segs[i].cached = Uncached
                                        /\ segs[i].start = c.start
                                        /\ segs[i].end = c.end
BudgetKept == \A i \in 1..Len(chunks) :
                chunks[i].count <= MaxTokens \/ Oversized(chunks[i])

\* The counter is the cost: without overlap a call measures each sentence
\* once, each segment at most once as the next one a chunk may take, and a word
\* once more as its chunk's first.
CallsLinear ==
  overlap = 0 =>
    calls <= Len(text.sentences) + Len(segs)
             + Cardinality({i \in 1..Len(segs) : segs[i].cached = Uncached})

\* The token spans lying wholly inside s..e, counted without the searches.
TokensIn(s, e) == Cardinality({i \in 1..Len(tokens) :
                                 s <= tokens[i].start /\ tokens[i].end <= e})

\* The offsets spelling: no emitted chunk holds more than max_tokens tokens
\* unless it is a single word, with tokens straddling boundaries or not.
TokensFit ==
  by_offsets =>
    \A i \in 1..Len(chunks) :
      \/ TokensIn(chunks[i].start, chunks[i].end) <= MaxTokens
      \/ Oversized(chunks[i])

\* The offsets spelling: a start inside the predecessor repeats at least
\* overlap tokens of it and no more than the budget, and no later segment
\* boundary would have repeated enough ("the shortest the counter certifies").
OverlapCertified ==
  by_offsets =>
  \A i \in 1..Len(chunks) - 1 :
    LET s == chunks[i + 1].start
        e == chunks[i].end
    IN  s < e => /\ TokensIn(s, e) \in overlap..MaxTokens
                 /\ \A l \in 1..Len(segs) :
                      s < segs[l].start /\ segs[l].start < e =>
                        TokensIn(segs[l].start, e) < overlap

\* What the searches over the token offsets count is what lies in the span: by them
\* no chunk is over the budget, and no overlap too short or longer than it must be.
CountsCertified == TokensFit /\ OverlapCertified

\* The offsets spelling packs greedily: a chunk stops short of a segment only
\* when taking it would exceed the budget.
PackedFull ==
  by_offsets => \A i \in 1..Len(chunks) : \A l \in 1..Len(segs) :
    segs[l].start = chunks[i].end =>
      \/ TokensIn(chunks[i].start, segs[l].end) > MaxTokens
      \/ TokensIn(chunks[i].start, chunks[i].end) > MaxTokens

\* Nothing is wasted: no chunk more than needed, no measurement more than needed.
NothingWasted == PackedFull /\ CallsLinear

\* Packing ends, whatever the counter answers.
Terminates == <>(phase \in {"done", "refused"})

\* pack implements the covering chunker's promise.
status == CASE phase = "done"    -> "covered"
            [] phase = "refused" -> "refused"
            [] OTHER             -> "packing"
spans == [i \in 1..Len(chunks) |->
            [start |-> chunks[i].start, end |-> chunks[i].end]]
Covering == INSTANCE Cover WITH total <- text.total
Covers == Covering!Spec
==============================================================================
