------------------------- MODULE TokenBudget_proofs -------------------------
(* Theorems of TokenBudget: for every segmented text, every budget and       *)
(* overlap and every answer of the counter, packing advances, covers the     *)
(* text, keeps to the budget and implements the covering chunker.            *)
EXTENDS TokenBudget, FiniteSetTheorems, SequenceTheorems, TLAPS

------------------------------------------------------------------------------
(* The inductive invariant *)

\* Where the segments built so far end.
Frontier == IF k <= Len(text.sentences) THEN text.sentences[k].start
                                        ELSE text.total

LastChunk == chunks[Len(chunks)]
Packing == phase \in {"open", "extend", "close", "walk", "done"}

Segments ==
  /\ Tiles(segs, 0, Frontier)
  /\ \A i \in 1..Len(segs) : segs[i].cached # Uncached =>
                               segs[i].cached <= MaxTokens
  /\ Packing => k = Len(text.sentences) + 1
  /\ phase = "measure" => chunks = <<>> /\ si = 1

\* What the chunks out so far satisfy, in every phase.
Emitted ==
  /\ \A i \in 1..Len(chunks) : /\ chunks[i].start < chunks[i].end
                               /\ chunks[i].end <= text.total
  /\ Len(chunks) > 0 => chunks[1].start = 0 /\ prev_end = LastChunk.end
  /\ \A i \in 1..Len(chunks) - 1 :
       /\ chunks[i].start < chunks[i + 1].start
       /\ chunks[i + 1].start <= chunks[i].end
       /\ chunks[i].end < chunks[i + 1].end

\* A start waiting to be packed lies inside the last chunk or at its end, and
\* the fallback exactly at its end: a re-cut gets past it.
Start ==
  phase \in {"open", "extend", "close"} =>
    IF chunks = <<>> THEN si = 1
    ELSE /\ si \in 1..Len(segs) /\ fallback_si \in 1..Len(segs)
         /\ segs[fallback_si].start = prev_end
         /\ LastChunk.start < segs[si].start /\ segs[si].start <= prev_end

Candidate ==
  /\ phase \in {"extend", "close", "walk"} => end = segs[last].end
  /\ phase = "extend" => count <= MaxTokens
  /\ phase = "close" => \/ count <= MaxTokens
                        \/ (last = si /\ segs[si].cached = Uncached)
  /\ phase = "walk" => /\ chunks # <<>>
                       /\ LastChunk.start = segs[si].start
                       /\ prev_end = end
                       /\ end < text.total
                       /\ j \in si..last
  /\ phase = "done" => IF chunks = <<>> THEN text.total = 0
                                        ELSE LastChunk.end = text.total

IInv == TypeOK /\ Segments /\ Emitted /\ Start /\ Candidate /\ BudgetKept
------------------------------------------------------------------------------
(* Segments *)

\* Word segments and sentence segments are appended to the packing list: runs
\* of spans that meet concatenate to a run of spans.
LEMMA TilesConcat ==
  ASSUME NEW a \in Seq(Seg), NEW b \in Seq(Seg),
         NEW p \in Nat, NEW q \in Nat, NEW r \in Nat,
         Tiles(a, p, q), Tiles(b, q, r)
  PROVE  Tiles(a \o b, p, r)
<1> DEFINE c == a \o b
<1>1. /\ c \in Seq(Seg)
      /\ Len(c) = Len(a) + Len(b)
      /\ \A i \in 1..Len(a) : c[i] = a[i]
      /\ \A i \in Len(a) + 1..Len(c) : c[i] = b[i - Len(a)]
  BY ConcatProperties
<1>2. \A i \in 1..Len(a) : a[i].start \in Nat /\ a[i].end \in Nat
  <2> SUFFICES ASSUME NEW i \in 1..Len(a) PROVE a[i] \in Seg
    BY DEF Seg
  <2> QED BY ElementOfSeq
<1>3. \A i \in 1..Len(b) : b[i].start \in Nat /\ b[i].end \in Nat
  <2> SUFFICES ASSUME NEW i \in 1..Len(b) PROVE b[i] \in Seg
    BY DEF Seg
  <2> QED BY ElementOfSeq
<1>4. \A i \in Len(a) + 1..Len(c) : i - Len(a) \in 1..Len(b)
  BY <1>1
<1>5. Len(a) \in Nat /\ Len(b) \in Nat
  OBVIOUS
<1> HIDE DEF c
\* The last span of a ends at q, where the first of b starts.
<1>6. \A i \in 1..Len(a) : a[i].end <= q
  <2> SUFFICES ASSUME NEW i \in 1..Len(a) PROVE a[i].end <= q
    OBVIOUS
  <2>1. a[Len(a)].end = q /\ a[Len(a)].start < a[Len(a)].end
    BY <1>5 DEF Tiles
  <2>2. CASE i = Len(a)
    BY <2>1, <2>2, <1>2
  <2>3. CASE i < Len(a)
    BY <2>1, <2>3, <1>2, <1>5 DEF Tiles
  <2> QED BY <2>2, <2>3, <1>5
<1>7. \A l \in 1..Len(b) : q <= b[l].start
  <2> SUFFICES ASSUME NEW l \in 1..Len(b) PROVE q <= b[l].start
    OBVIOUS
  <2>1. b[1].start = q /\ b[1].start < b[1].end
    BY <1>5 DEF Tiles
  <2>2. CASE l = 1
    BY <2>1, <2>2
  <2>3. CASE l > 1
    <3>1. b[1].end <= b[l].start
      BY <2>3, <1>5 DEF Tiles
    <3> QED BY <2>1, <3>1, <1>3, <1>5
  <2> QED BY <2>2, <2>3, <1>5
<1>8. Len(c) = 0 => p = r
  BY <1>1, <1>5 DEF Tiles
<1>9. Len(c) > 0 => c[1].start = p /\ c[Len(c)].end = r
  <2> SUFFICES ASSUME Len(c) > 0 PROVE c[1].start = p /\ c[Len(c)].end = r
    OBVIOUS
  <2>1. c[1].start = p
    <3>1. CASE Len(a) = 0
      <4>1. c[1] = b[1] /\ p = q /\ Len(b) > 0
        BY <3>1, <1>1, <1>5 DEF Tiles
      <4> QED BY <4>1 DEF Tiles
    <3>2. CASE Len(a) > 0
      <4>1. c[1] = a[1]
        BY <3>2, <1>1, <1>5
      <4> QED BY <3>2, <4>1 DEF Tiles
    <3> QED BY <3>1, <3>2, <1>5
  <2>2. c[Len(c)].end = r
    <3>1. CASE Len(b) = 0
      <4>1. c[Len(c)] = a[Len(a)] /\ q = r /\ Len(a) > 0
        BY <3>1, <1>1, <1>5 DEF Tiles
      <4> QED BY <4>1 DEF Tiles
    <3>2. CASE Len(b) > 0
      <4>1. c[Len(c)] = b[Len(b)]
        BY SMTT(40), <3>2, <1>1, <1>5
      <4> QED BY <3>2, <4>1 DEF Tiles
    <3> QED BY <3>1, <3>2, <1>5
  <2> QED BY <2>1, <2>2
<1>10. \A i \in 1..Len(c) : c[i].start < c[i].end
  <2> SUFFICES ASSUME NEW i \in 1..Len(c) PROVE c[i].start < c[i].end
    OBVIOUS
  <2>1. CASE i <= Len(a)
    BY SMTT(40), <2>1, <1>1, <1>5 DEF Tiles
  <2>2. CASE i > Len(a)
    <3>1. c[i] = b[i - Len(a)] /\ i - Len(a) \in 1..Len(b)
      BY <2>2, <1>1, <1>4, <1>5
    <3> QED BY <3>1 DEF Tiles
  <2> QED BY <2>1, <2>2, <1>5
<1>11. \A i, l \in 1..Len(c) : i < l => c[i].end <= c[l].start
  <2> SUFFICES ASSUME NEW i \in 1..Len(c), NEW l \in 1..Len(c), i < l
               PROVE  c[i].end <= c[l].start
    OBVIOUS
  <2>1. CASE l <= Len(a)
    BY SMTT(40), <2>1, <1>1, <1>5 DEF Tiles
  <2>2. CASE i <= Len(a) /\ l > Len(a)
    <3>1. c[i] = a[i] /\ i \in 1..Len(a)
      BY <2>2, <1>1, <1>5
    <3>2. c[l] = b[l - Len(a)] /\ l - Len(a) \in 1..Len(b)
      BY <2>2, <1>1, <1>4, <1>5
    <3> QED BY SMTT(40), <3>1, <3>2, <1>2, <1>3, <1>6, <1>7
  <2>3. CASE i > Len(a)
    <3>1. c[i] = b[i - Len(a)] /\ i - Len(a) \in 1..Len(b)
      BY <2>3, <1>1, <1>4, <1>5
    <3>2. c[l] = b[l - Len(a)] /\ l - Len(a) \in 1..Len(b)
      BY <2>3, <1>1, <1>4, <1>5
    <3>3. i - Len(a) < l - Len(a)
      BY <1>5
    <3> HIDE DEF c
    <3> QED BY <3>1, <3>2, <3>3 DEF Tiles
  <2> QED BY <2>1, <2>2, <2>3, <1>5
<1>12. \A i \in 1..Len(c) - 1 : c[i].end = c[i + 1].start
  <2> SUFFICES ASSUME NEW i \in 1..Len(c) - 1
               PROVE  c[i].end = c[i + 1].start
    OBVIOUS
  <2>1. CASE i < Len(a)
    <3>1. c[i] = a[i] /\ c[i + 1] = a[i + 1] /\ i \in 1..Len(a) - 1
      BY <2>1, <1>1, <1>5
    <3> QED BY <3>1 DEF Tiles
  <2>2. CASE i = Len(a)
    <3>1. c[i] = a[Len(a)] /\ c[i + 1] = b[1] /\ Len(a) > 0 /\ Len(b) > 0
      BY <2>2, <1>1, <1>5
    <3> QED BY <3>1 DEF Tiles
  <2>3. CASE i > Len(a)
    <3>1. /\ c[i] = b[i - Len(a)] /\ c[i + 1] = b[(i - Len(a)) + 1]
          /\ i - Len(a) \in 1..Len(b) - 1
      BY <2>3, <1>1, <1>5
    <3> QED BY <3>1 DEF Tiles
  <2> QED BY <2>1, <2>2, <2>3, <1>5
<1> QED BY <1>8, <1>9, <1>10, <1>11, <1>12 DEF Tiles, c

\* A measured count is a natural number, by either spelling.
LEMMA MeasuredNat ==
  ASSUME NEW s, NEW e, IsSpans(tokens)
  PROVE  Measured(s, e) \subseteq Nat
<1> DEFINE B == {i \in 1..Len(tokens) : tokens[i].start < s}
           T == {i \in 1..Len(tokens) : tokens[i].end <= e}
<1>1. Len(tokens) \in Nat
  BY DEF IsSpans
<1>2. IsFiniteSet(1..Len(tokens))
  BY <1>1, FS_Interval
<1>3. IsFiniteSet(B) /\ IsFiniteSet(T)
  BY <1>2, FS_Subset
<1>4. Cardinality(B) \in Nat /\ Cardinality(T) \in Nat
  BY <1>3, FS_CardinalityType
<1>5. OffsetCount(s, e) \in Nat
  BY <1>4 DEF OffsetCount
<1> QED BY <1>5, CountsAssumption DEF Measured
\* Once every sentence is measured the segments tile the text: both their ends
\* grow with the index, and only the last one ends where the text does.
LEMMA SegmentFacts ==
  ASSUME TypeOK, Segments, Packing
  PROVE  /\ Len(segs) \in Nat
         /\ \A i \in 1..Len(segs) :
              /\ segs[i].start \in Nat /\ segs[i].end \in Nat
              /\ segs[i].start < segs[i].end
              /\ segs[i].end <= text.total
              /\ segs[i].end = text.total <=> i = Len(segs)
         /\ \A i, l \in 1..Len(segs) : i < l =>
              segs[i].start < segs[l].start /\ segs[i].end < segs[l].end
         /\ \A i \in 1..Len(segs) - 1 : segs[i].end = segs[i + 1].start
         /\ Len(segs) > 0 => segs[1].start = 0
         /\ Len(segs) = 0 => text.total = 0
         /\ text.total \in Nat
<1>1. Len(segs) \in Nat /\ segs \in Seq(Seg)
  BY DEF TypeOK
<1>2. text.total \in Nat /\ Len(text.sentences) \in Nat
  BY CallsAssumption DEF TypeOK, IsText
<1>3. Tiles(segs, 0, text.total)
  <2>1. k = Len(text.sentences) + 1
    BY DEF Segments
  <2> QED BY <2>1, <1>2 DEF Segments, Frontier
<1>4. \A i \in 1..Len(segs) : segs[i].start \in Nat /\ segs[i].end \in Nat
  <2> SUFFICES ASSUME NEW i \in 1..Len(segs) PROVE segs[i] \in Seg
    BY DEF Seg
  <2> QED BY <1>1, ElementOfSeq
<1>5. \A i \in 1..Len(segs) : segs[i].start < segs[i].end
  BY <1>3 DEF Tiles
<1>6. \A i, l \in 1..Len(segs) : i < l =>
        segs[i].start < segs[l].start /\ segs[i].end < segs[l].end
  <2> SUFFICES ASSUME NEW i \in 1..Len(segs), NEW l \in 1..Len(segs), i < l
               PROVE segs[i].start < segs[l].start /\ segs[i].end < segs[l].end
    OBVIOUS
  <2>1. segs[i].end <= segs[l].start
    BY <1>3 DEF Tiles
  <2> QED BY <2>1, <1>4, <1>5
<1>7. /\ \A i \in 1..Len(segs) - 1 : segs[i].end = segs[i + 1].start
      /\ Len(segs) > 0 => segs[1].start = 0 /\ segs[Len(segs)].end = text.total
      /\ Len(segs) = 0 => text.total = 0
  BY <1>3 DEF Tiles
<1>8. \A i \in 1..Len(segs) : /\ segs[i].end <= text.total
                              /\ segs[i].end = text.total <=> i = Len(segs)
  <2> SUFFICES ASSUME NEW i \in 1..Len(segs)
               PROVE  /\ segs[i].end <= text.total
                      /\ segs[i].end = text.total <=> i = Len(segs)
    OBVIOUS
  <2>1. Len(segs) \in 1..Len(segs) /\ segs[Len(segs)].end = text.total
    BY <1>1, <1>7
  <2>2. CASE i = Len(segs)
    BY <2>1, <2>2, <1>2
  <2>3. CASE i < Len(segs)
    <3>1. segs[i].end < segs[Len(segs)].end
      BY <2>1, <2>3, <1>6
    <3> QED BY <2>1, <2>3, <3>1, <1>1, <1>2, <1>4
  <2> QED BY <2>2, <2>3, <1>1
<1> QED BY <1>1, <1>2, <1>4, <1>5, <1>6, <1>7, <1>8

\* The last chunk, when there is one, is a chunk.
LEMMA LastChunkFacts ==
  ASSUME TypeOK, chunks # <<>>
  PROVE  /\ Len(chunks) \in 1..Len(chunks)
         /\ LastChunk \in Chunk
         /\ LastChunk.start \in Nat /\ LastChunk.end \in Nat
<1>1. chunks \in Seq(Chunk) /\ Len(chunks) \in Nat /\ Len(chunks) # 0
  BY EmptySeq DEF TypeOK
<1>2. Len(chunks) \in 1..Len(chunks)
  BY <1>1
<1>3. LastChunk \in Chunk
  BY <1>1, <1>2, ElementOfSeq DEF LastChunk
<1> QED BY <1>2, <1>3 DEF Chunk

------------------------------------------------------------------------------
(* The invariant holds initially and is kept by every action *)

\* An empty packing list, nothing emitted: the initial states.
THEOREM InitIInv == Init => IInv
<1> SUFFICES ASSUME Init PROVE IInv
  OBVIOUS
<1> USE DEF Init
<1>1. /\ IsText(text) /\ IsSpans(tokens)
      /\ overlap \in 0..MaxTokens - 1 /\ by_offsets \in BOOLEAN
  BY CallsAssumption
<1> HIDE DEF Init
<1>2. Len(text.sentences) \in Nat
  BY <1>1 DEF IsText
<1> USE DEF Init
<1>3. TypeOK
  BY <1>1, <1>2 DEF TypeOK
<1>4. Frontier = 0
  BY <1>1, <1>2 DEF Frontier, IsText, Tiles
<1>5. Segments
  BY <1>4 DEF Segments, Tiles, Packing
<1>6. Emitted /\ Start /\ Candidate /\ BudgetKept
  BY DEF Emitted, Start, Candidate, BudgetKept
<1> QED BY <1>3, <1>5, <1>6 DEF IInv

\* Appending a measured sentence, or its words, keeps the list a tiling.
LEMMA MeasureSentenceIInv ==
  ASSUME IInv, MeasureSentence
  PROVE  IInv'
<1> DEFINE s == text.sentences[k]
<1> USE DEF MeasureSentence, args, packing
<1>1. /\ TypeOK /\ Segments /\ k \in 1..Len(text.sentences)
      /\ IsText(text) /\ Len(text.sentences) \in Nat
  BY SMTT(40), CallsAssumption DEF IInv, TypeOK, IsText
<1>2. PICK c \in Measured(s.start, s.end) :
        segs' = IF Fits(c) THEN Append(segs, SentenceSeg(s, c))
                           ELSE segs \o WordSegs(s)
  OBVIOUS
<1>3. c \in Nat
  BY <1>1, <1>2, MeasuredNat DEF TypeOK
<1>4. s \in Sentence /\ s.start < s.end /\ Tiles(s.words, s.start, s.end)
  <2>1. s \in Sentence
    BY <1>1, ElementOfSeq DEF IsText
  <2> QED BY <2>1, <1>1 DEF IsText, Tiles
<1>5. Tiles(segs, 0, s.start) /\ s.end = Frontier'
  <2>1. Tiles(segs, 0, s.start)
    BY <1>1 DEF Segments, Frontier
  <2>2. CASE k = Len(text.sentences)
    <3>1. Frontier' = text.total /\ s.end = text.total
      BY <2>2, <1>1 DEF Frontier, IsText, Tiles
    <3> QED BY <2>1, <3>1
  <2>3. CASE k < Len(text.sentences)
    <3>1. k \in 1..Len(text.sentences) - 1 /\ k + 1 <= Len(text.sentences)
      BY <2>3, <1>1
    <3>2. Frontier' = text.sentences[k + 1].start
      BY <3>1 DEF Frontier
    <3>3. s.end = text.sentences[k + 1].start
      BY <3>1, <1>1 DEF IsText, Tiles
    <3> QED BY <2>1, <3>2, <3>3
  <2> QED BY <2>2, <2>3, <1>1
<1> HIDE DEF s, MeasureSentence, args, packing
<1>6. PICK new \in Seq(Seg) :
        /\ segs' = segs \o new
        /\ Tiles(new, s.start, s.end)
        /\ \A i \in 1..Len(new) :
             new[i].cached # Uncached => new[i].cached <= MaxTokens
  <2>1. CASE Fits(c)
    <3> DEFINE one == <<SentenceSeg(s, c)>>
    <3>1. SentenceSeg(s, c) \in Seg
      BY <1>3, <1>4 DEF SentenceSeg, Seg, Sentence
    <3>2. one \in Seq(Seg) /\ Len(one) = 1 /\ one[1] = SentenceSeg(s, c)
      BY <3>1
    <3>3. segs' = segs \o one
      BY <2>1, <1>1, <1>2, <3>1, AppendIsConcat DEF TypeOK
    <3>4. /\ one[1].start = s.start /\ one[1].end = s.end
          /\ one[1].cached = c
      BY <3>2 DEF SentenceSeg
    <3> HIDE DEF one
    <3>5. Tiles(one, s.start, s.end)
      BY <3>2, <3>4, <1>4 DEF Tiles
    <3>6. c <= MaxTokens
      BY <2>1 DEF Fits
    <3> QED BY <3>2, <3>3, <3>4, <3>5, <3>6
  <2>2. CASE ~Fits(c)
    <3> DEFINE ws == WordSegs(s)
    <3>1. s.words \in Seq(Span) /\ Len(s.words) \in Nat
      BY <1>4 DEF Sentence
    <3>2. \A w \in 1..Len(s.words) : s.words[w] \in Span
      BY <3>1, ElementOfSeq
    <3>3. ws \in Seq(Seg) /\ Len(ws) = Len(s.words)
      <4>1. \A w \in 1..Len(s.words) :
              [start |-> s.words[w].start, end |-> s.words[w].end,
               cached |-> Uncached] \in Seg
        BY <3>2 DEF Seg, Span
      <4> QED BY <3>1, <4>1, IsASeq DEF WordSegs
    <3>4. \A i \in 1..Len(ws) : /\ ws[i].start = s.words[i].start
                                /\ ws[i].end = s.words[i].end
                                /\ ws[i].cached = Uncached
      BY <3>3 DEF WordSegs
    <3> HIDE DEF ws
    <3>5. Tiles(ws, s.start, s.end)
      <4> DEFINE v == s.words
      <4>1. Tiles(v, s.start, s.end) /\ Len(v) \in Nat /\ Len(ws) = Len(v)
        BY <1>4, <3>1, <3>3
      <4>2. \A i \in 1..Len(v) : ws[i].start = v[i].start /\ ws[i].end = v[i].end
        BY <3>3, <3>4
      <4> HIDE DEF v
      <4>3. /\ \A i \in 1..Len(v) : ws[i].start < ws[i].end
            /\ \A i \in 1..Len(v) - 1 : ws[i].end = ws[i + 1].start
        BY <4>1, <4>2 DEF Tiles
      <4>4. \A i, l \in 1..Len(v) : i < l => ws[i].end <= ws[l].start
        BY <4>1, <4>2 DEF Tiles
      <4>5. /\ Len(v) = 0 => s.start = s.end
            /\ Len(v) > 0 => ws[1].start = s.start /\ ws[Len(v)].end = s.end
        BY <4>1, <4>2 DEF Tiles
      <4> QED BY <4>1, <4>3, <4>4, <4>5 DEF Tiles
    <3>6. segs' = segs \o ws
      BY <2>2, <1>2 DEF ws
    <3> QED BY <3>3, <3>4, <3>5, <3>6
  <2> QED BY <2>1, <2>2
<1> USE DEF MeasureSentence, args, packing
<1>7. segs' \in Seq(Seg) /\ Tiles(segs', 0, Frontier')
  <2>1. s.start \in Nat /\ s.end \in Nat /\ segs \in Seq(Seg)
    BY <1>1, <1>4 DEF Sentence, TypeOK
  <2>2. segs' \in Seq(Seg)
    BY <1>6, <2>1, ConcatProperties
  <2> QED BY <1>5, <1>6, <2>1, <2>2, TilesConcat
<1>8. \A i \in 1..Len(segs') : segs'[i].cached # Uncached =>
                                 segs'[i].cached <= MaxTokens
  <2>1. segs \in Seq(Seg) /\ new \in Seq(Seg)
    BY <1>1, <1>6 DEF TypeOK
  <2> SUFFICES ASSUME NEW i \in 1..Len(segs'), segs'[i].cached # Uncached
               PROVE  segs'[i].cached <= MaxTokens
    OBVIOUS
  <2>2. CASE i <= Len(segs)
    <3>1. segs'[i] = segs[i] /\ i \in 1..Len(segs)
      BY <2>1, <2>2, <1>6, ConcatProperties
    <3> QED BY <3>1, <1>1 DEF Segments
  <2>3. CASE i > Len(segs)
    <3>1. /\ segs'[i] = new[i - Len(segs)]
          /\ i - Len(segs) \in 1..Len(new)
      BY <2>1, <2>3, <1>6, ConcatProperties
    <3> QED BY <3>1, <1>6
  <2> QED BY <2>1, <2>2, <2>3
<1>9. chunks = <<>> /\ si = 1
  BY <1>1 DEF Segments
<1>10. TypeOK'
  <2>1. calls' \in Nat
    BY <1>1 DEF TypeOK, Cost
  <2> QED BY SMTT(40), <2>1, <1>1, <1>7, <1>9 DEF TypeOK
<1>11. Segments'
  BY <1>1, <1>7, <1>8, <1>9 DEF Segments, Packing
<1>12. Emitted' /\ Start' /\ Candidate' /\ BudgetKept'
  BY <1>9 DEF Emitted, Start, Candidate, BudgetKept
<1> QED BY <1>10, <1>11, <1>12 DEF IInv
\* After phase A no action touches the segments.
LEMMA SegmentsKept ==
  ASSUME Segments, UNCHANGED <<text, k, segs>>, phase' # "measure",
         Packing \/ phase' = "refused" \/ k = Len(text.sentences) + 1
  PROVE  Segments'
BY DEF Segments, Frontier, Packing, Tiles

\* A refused call hands over nothing more.
LEMMA RefusedIInv ==
  ASSUME IInv, phase' = "refused", calls' \in Nat,
         UNCHANGED <<args, k, segs, packing>>
  PROVE  IInv'
<1> USE DEF args, packing
<1>1. TypeOK'
  BY DEF IInv, TypeOK
<1>2. Segments'
  BY SegmentsKept DEF IInv
<1>3. Emitted' /\ Start' /\ Candidate'
  BY DEF IInv, Emitted, Start, Candidate, LastChunk
<1>4. BudgetKept'
  BY DEF IInv, BudgetKept, Oversized
<1> QED BY <1>1, <1>2, <1>3, <1>4 DEF IInv

\* Packing starts at the first segment with nothing emitted.
LEMMA SegmentedIInv == ASSUME IInv, Segmented PROVE IInv'
<1> USE DEF Segmented, args, packing
<1>1. /\ k = Len(text.sentences) + 1
      /\ chunks = <<>> /\ si = 1
  <2>1. Len(text.sentences) \in Nat
    BY CallsAssumption DEF IInv, TypeOK, IsText
  <2> QED BY <2>1 DEF IInv, TypeOK, Segments
<1>2. TypeOK'
  BY DEF IInv, TypeOK
<1>3. Segments'
  BY <1>1, SegmentsKept DEF IInv
<1>4. Emitted' /\ Start' /\ Candidate' /\ BudgetKept'
  BY <1>1 DEF Emitted, Start, Candidate, BudgetKept
<1> QED BY <1>2, <1>3, <1>4 DEF IInv

\* The loop is left before its first chunk only when there is no text.
LEMMA ExhaustedIInv == ASSUME IInv, Exhausted PROVE IInv'
<1> USE DEF Exhausted, args, packing
<1>1. Packing /\ TypeOK /\ Segments /\ Start
  BY DEF IInv, Packing
<1>2. Len(segs) \in Nat
  BY <1>1, SegmentFacts
<1>3. chunks = <<>> /\ Len(segs) = 0
  BY <1>1, <1>2 DEF Start, TypeOK
<1>4. text.total = 0
  BY <1>1, <1>3, SegmentFacts
<1>5. TypeOK'
  BY <1>1 DEF TypeOK
<1>6. Segments'
  BY <1>1, SegmentsKept
<1>7. Emitted' /\ Start' /\ Candidate' /\ BudgetKept'
  BY <1>3, <1>4 DEF Emitted, Start, Candidate, BudgetKept
<1> QED BY <1>5, <1>6, <1>7 DEF IInv

\* The forced first segment fits the budget, or is a word that does not.
LEMMA OpenIInv == ASSUME IInv, Open PROVE IInv'
<1> USE DEF Open, args, packing
<1>1. Packing /\ TypeOK /\ Segments /\ Start /\ Emitted /\ BudgetKept
  BY DEF IInv, Packing
<1>2. Len(segs) \in Nat /\ si \in 1..Len(segs) /\ segs[si] \in Seg
  <2>1. Len(segs) \in Nat /\ si \in 1..Len(segs)
    BY <1>1, SegmentFacts DEF TypeOK
  <2> QED BY <2>1, <1>1, ElementOfSeq DEF TypeOK
<1>3. /\ count' \in Nat
      /\ Fits(count') \/ segs[si].cached = Uncached
  <2>1. CASE segs[si].cached = Uncached
    <3>1. count' \in Measured(segs[si].start, segs[si].end)
      BY <2>1 DEF SegCount
    <3> QED BY <2>1, <3>1, <1>1, MeasuredNat DEF TypeOK
  <2>2. CASE segs[si].cached # Uncached
    <3>1. count' = segs[si].cached
      BY <2>2 DEF SegCount
    <3> QED BY <2>2, <3>1, <1>1, <1>2 DEF Segments, Seg, Fits
  <2> QED BY <2>1, <2>2
<1>4. TypeOK'
  <2>1. calls' \in Nat
    BY <1>1 DEF TypeOK, SegCalls, Cost
  <2>2. end' \in Nat
    BY <1>2 DEF Seg
  <2> QED BY <2>1, <2>2, <1>1, <1>2, <1>3 DEF TypeOK
<1>5. Segments'
  BY <1>1, SegmentsKept
<1>6. Emitted' /\ BudgetKept'
  BY <1>1 DEF Emitted, BudgetKept, Oversized, LastChunk
<1>7. Start'
  BY <1>1 DEF Start, LastChunk
<1>8. Candidate'
  BY <1>3 DEF Candidate, Fits
<1> QED BY <1>4, <1>5, <1>6, <1>7, <1>8 DEF IInv

\* A larger candidate replaces the chunk only when it measured within budget.
LEMMA ExtendIInv == ASSUME IInv, Extend PROVE IInv'
<1> USE DEF Extend, args, packing
<1>1. /\ Packing /\ TypeOK /\ Segments /\ Start /\ Emitted /\ BudgetKept
      /\ Candidate
  BY DEF IInv, Packing
<1>2. Len(segs) \in Nat /\ last + 1 \in 1..Len(segs) /\ si <= last
  BY SMTT(40), <1>1, SegmentFacts DEF TypeOK
<1>3. PICK c \in Measured(segs[si].start, segs[last + 1].end) :
        IF Fits(c) THEN /\ last' = last + 1 /\ end' = segs[last + 1].end
                        /\ count' = c /\ phase' = phase
                   ELSE phase' = "close" /\ UNCHANGED <<last, end, count>>
  OBVIOUS
<1>4. c \in Nat /\ segs[last + 1].end \in Nat
  BY <1>1, <1>2, <1>3, MeasuredNat, SegmentFacts DEF TypeOK
<1>5. TypeOK'
  <2>1. last' \in si..Len(segs) /\ last' \in Nat \ {0}
    BY SMTT(40), <1>1, <1>2, <1>3 DEF TypeOK
  <2>2. count' \in Nat /\ end' \in Nat
    BY <1>1, <1>3, <1>4 DEF TypeOK
  <2>3. calls' \in Nat
    BY SMTT(40), <1>1 DEF TypeOK, Cost
  <2>4. phase' \in {"extend", "close"}
    BY <1>3
  <2> QED BY <2>1, <2>2, <2>3, <2>4, <1>1 DEF TypeOK
<1>6. phase' \in {"extend", "close"}
  BY <1>3
<1>7. Segments'
  BY <1>1, <1>6, SegmentsKept
<1>8. Emitted' /\ BudgetKept'
  BY <1>1 DEF Emitted, BudgetKept, Oversized, LastChunk
<1>9. Start'
  BY <1>1, <1>6 DEF Start, LastChunk
<1>10. Candidate'
  BY <1>1, <1>3, <1>6 DEF Candidate, Fits
<1> QED BY <1>5, <1>7, <1>8, <1>9, <1>10 DEF IInv

\* No segment is left to try.
LEMMA ExtendedToTheEndIInv == ASSUME IInv, ExtendedToTheEnd PROVE IInv'
<1> USE DEF ExtendedToTheEnd, args, packing
<1>1. /\ Packing /\ TypeOK /\ Segments /\ Start /\ Emitted /\ BudgetKept
      /\ Candidate
  BY DEF IInv, Packing
<1>2. TypeOK'
  BY <1>1 DEF TypeOK
<1>3. Segments'
  BY <1>1, SegmentsKept
<1>4. Emitted' /\ BudgetKept'
  BY <1>1 DEF Emitted, BudgetKept, Oversized, LastChunk
<1>5. Start' /\ Candidate'
  BY <1>1 DEF Start, Candidate, LastChunk
<1> QED BY <1>2, <1>3, <1>4, <1>5 DEF IInv

\* The fallback starts at the predecessor's end, so past its start.
LEMMA RecutIInv == ASSUME IInv, Recut PROVE IInv'
<1> USE DEF Recut, Contained, args, packing
<1>1. /\ Packing /\ TypeOK /\ Segments /\ Start /\ Emitted /\ BudgetKept
  BY DEF IInv, Packing
<1>2. /\ chunks # <<>>
      /\ fallback_si \in 1..Len(segs)
      /\ segs[fallback_si].start = prev_end
  BY <1>1 DEF Start
<1>3. LastChunk.start < prev_end /\ prev_end \in Nat
  <2>1. Len(chunks) \in 1..Len(chunks)
    BY <1>1, <1>2, LastChunkFacts
  <2>2. LastChunk.start < LastChunk.end /\ LastChunk.end = prev_end
    BY <2>1, <1>1 DEF Emitted, LastChunk
  <2> QED BY <2>2, <1>1 DEF TypeOK
<1>4. TypeOK'
  BY <1>1 DEF TypeOK
<1>5. Segments'
  BY <1>1, SegmentsKept
<1>6. Emitted' /\ BudgetKept'
  BY <1>1 DEF Emitted, BudgetKept, Oversized, LastChunk
<1>7. Start'
  BY <1>2, <1>3 DEF Start, LastChunk
<1>8. Candidate'
  BY DEF Candidate
<1> QED BY <1>4, <1>5, <1>6, <1>7, <1>8 DEF IInv
\* Where the candidate chunk stands before it is emitted: it starts past the
\* last chunk's start without a gap, and ends past the last chunk's end.
LEMMA CandidateFacts ==
  ASSUME IInv, phase = "close", ~Contained
  PROVE  /\ segs[si].start \in Nat /\ end \in Nat
         /\ segs[si].start < end /\ end <= text.total
         /\ end = text.total <=> last = Len(segs)
         /\ chunks = <<>> => segs[si].start = 0
         /\ chunks # <<>> => /\ LastChunk.start < segs[si].start
                             /\ segs[si].start <= LastChunk.end
                             /\ LastChunk.end < end
<1>1. /\ Packing /\ TypeOK /\ Segments /\ Start /\ Emitted /\ Candidate
  BY DEF IInv, Packing
<1>2. /\ si \in 1..Len(segs) /\ last \in 1..Len(segs) /\ si <= last
      /\ Len(segs) \in Nat
  BY <1>1, SegmentFacts DEF TypeOK
<1>3. end = segs[last].end
  BY <1>1 DEF Candidate
<1>4. segs[si].start < segs[last].end
  <2>1. CASE si = last
    BY <2>1, <1>1, <1>2, SegmentFacts
  <2>2. CASE si < last
    <3>1. segs[si].start < segs[last].start /\ segs[last].start < segs[last].end
      BY <2>2, <1>1, <1>2, SegmentFacts
    <3> QED BY <3>1, <1>1, <1>2, SegmentFacts
  <2> QED BY <2>1, <2>2, <1>2
<1>5. CASE chunks = <<>>
  BY <1>1, <1>2, <1>3, <1>4, <1>5, SegmentFacts DEF Start
<1>6. CASE chunks # <<>>
  <2>1. /\ LastChunk.start < segs[si].start
        /\ segs[si].start <= prev_end
    BY <1>1, <1>6 DEF Start
  <2>2. prev_end = LastChunk.end /\ prev_end \in Nat
    BY <1>1, <1>6, LastChunkFacts DEF Emitted, TypeOK
  <2>3. prev_end < end
    BY <2>2, <1>6, <1>1 DEF Contained, TypeOK
  <2> QED BY <2>1, <2>2, <2>3, <1>1, <1>2, <1>3, <1>4, <1>6, SegmentFacts
<1> QED BY <1>5, <1>6

\* The emitted chunk continues the cover.
LEMMA EmitIInv == ASSUME IInv, Emit PROVE IInv'
<1> DEFINE new == [start |-> segs[si].start, end |-> end, count |-> count]
<1> USE DEF Emit, args, packing
<1>1. /\ Packing /\ TypeOK /\ Segments /\ Start /\ Emitted /\ Candidate
      /\ BudgetKept
  BY DEF IInv, Packing
<1>2. /\ si \in 1..Len(segs) /\ last \in si..Len(segs)
      /\ Len(segs) \in Nat /\ text.total \in Nat
  BY <1>1, SegmentFacts DEF TypeOK
<1>3. /\ segs[si].start \in Nat /\ end \in Nat
      /\ segs[si].start < end /\ end <= text.total
      /\ end = segs[last].end
  BY <1>1, CandidateFacts DEF Candidate
<1>4. new \in Chunk /\ chunks \in Seq(Chunk)
  BY <1>1, <1>3 DEF Chunk, TypeOK
<1>5. /\ chunks' \in Seq(Chunk)
      /\ Len(chunks') = Len(chunks) + 1 /\ Len(chunks) \in Nat
      /\ \A i \in 1..Len(chunks) : chunks'[i] = chunks[i]
      /\ chunks'[Len(chunks')] = new
  BY <1>4, AppendProperties
<1>6. /\ new.start = segs[si].start /\ new.end = end /\ new.count = count
  OBVIOUS
<1> HIDE DEF new
<1>7. LastChunk' = new /\ chunks' # <<>>
  BY <1>5 DEF LastChunk
<1>8. TypeOK'
  <2>1. phase' \in {"done", "walk"}
    OBVIOUS
  <2> QED BY <1>1, <1>2, <1>3, <1>5, <2>1 DEF TypeOK
<1>9. Segments'
  BY <1>1, SegmentsKept
<1>10. Emitted'
  <2>1. \A i \in 1..Len(chunks') : /\ chunks'[i].start < chunks'[i].end
                                   /\ chunks'[i].end <= text.total
    BY <1>1, <1>3, <1>5, <1>6 DEF Emitted
  <2>2. chunks'[1].start = 0
    <3>1. CASE chunks = <<>>
      <4>1. segs[si].start = 0
        BY <3>1, CandidateFacts
      <4> QED BY <3>1, <4>1, <1>5, <1>6
    <3>2. CASE chunks # <<>>
      <4>1. 1 \in 1..Len(chunks)
        BY <3>2, <1>1, LastChunkFacts
      <4> QED BY <4>1, <1>1, <1>5 DEF Emitted
    <3> QED BY <3>1, <3>2
  <2>3. ASSUME NEW i \in 1..Len(chunks') - 1
        PROVE  /\ chunks'[i].start < chunks'[i + 1].start
               /\ chunks'[i + 1].start <= chunks'[i].end
               /\ chunks'[i].end < chunks'[i + 1].end
    <3>1. CASE i < Len(chunks)
      <4>1. /\ i \in 1..Len(chunks) - 1
            /\ chunks'[i] = chunks[i] /\ chunks'[i + 1] = chunks[i + 1]
        BY <3>1, <1>5
      <4> QED BY <4>1, <1>1 DEF Emitted
    <3>2. CASE i = Len(chunks)
      <4>1. /\ chunks # <<>>
            /\ chunks'[i] = LastChunk /\ chunks'[i + 1] = new
        BY <3>2, <1>5 DEF LastChunk
      <4> QED BY <4>1, <1>6, CandidateFacts
    <3> QED BY <3>1, <3>2, <1>5
  <2>4. prev_end' = LastChunk'.end
    BY <1>6, <1>7
  <2> QED BY <2>1, <2>2, <2>3, <2>4 DEF Emitted
<1>11. Start'
  BY DEF Start
<1>12. Candidate'
  <2>1. CASE AtTextEnd
    <3>1. end = text.total
      BY <2>1, <1>2, <1>3 DEF AtTextEnd
    <3> QED BY <2>1, <3>1, <1>6, <1>7 DEF Candidate
  <2>2. CASE ~AtTextEnd
    <3>1. end < text.total
      BY <2>2, <1>2, <1>3 DEF AtTextEnd
    <3> QED BY <2>2, <3>1, <1>2, <1>3, <1>6, <1>7 DEF Candidate
  <2> QED BY <2>1, <2>2
<1>13. BudgetKept'
  <2>1. new.count <= MaxTokens \/ Oversized(new)
    <3>1. CASE count <= MaxTokens
      BY <3>1, <1>6
    <3>2. CASE last = si /\ segs[si].cached = Uncached
      BY <3>2, <1>2, <1>3, <1>6 DEF Oversized
    <3> QED BY <3>1, <3>2, <1>1 DEF Candidate
  <2>2. \A i \in 1..Len(chunks') :
          chunks'[i].count <= MaxTokens \/ Oversized(chunks'[i])
    BY <2>1, <1>1, <1>5 DEF BudgetKept
  <2> QED BY <2>2 DEF BudgetKept, Oversized
<1> QED BY <1>8, <1>9, <1>10, <1>11, <1>12, <1>13 DEF IInv

\* A chunk that ends short of the text leaves a segment to start at, and every
\* start the walk may choose lies past the chunk's own.
LEMMA StartNextIInv ==
  ASSUME IInv, phase = "walk", NEW n \in si + 1..last + 1, StartNextAt(n),
         UNCHANGED <<args, k, segs, last, end, prev_end, count, chunks>>,
         j' \in Nat \ {0}, calls' \in Nat
  PROVE  IInv'
<1> USE DEF StartNextAt, args
<1>1. /\ Packing /\ TypeOK /\ Segments /\ Emitted /\ Candidate /\ BudgetKept
  BY DEF IInv, Packing
<1>2. /\ si \in 1..Len(segs) /\ last \in si..Len(segs) /\ Len(segs) \in Nat
      /\ chunks # <<>> /\ LastChunk.start = segs[si].start
      /\ prev_end = segs[last].end /\ segs[last].end < text.total
  <2>1. Len(segs) \in Nat /\ last \in si..Len(segs) /\ si \in Nat \ {0}
    BY <1>1, SegmentFacts DEF TypeOK
  <2>2. /\ chunks # <<>> /\ LastChunk.start = segs[si].start
        /\ prev_end = end /\ end < text.total /\ end = segs[last].end
    BY <1>1 DEF Candidate
  <2> QED BY <2>1, <2>2
<1>3. last \in 1..Len(segs) - 1 /\ n \in 1..Len(segs)
  <2>1. last # Len(segs)
    BY <1>1, <1>2, SegmentFacts
  <2> QED BY <2>1, <1>2
<1>4. segs[last + 1].start = prev_end
  BY <1>1, <1>2, <1>3, SegmentFacts
<1>5. LastChunk.start < segs[n].start /\ segs[n].start <= prev_end
  <2>1. segs[si].start < segs[n].start
    BY <1>1, <1>2, <1>3, SegmentFacts
  <2>2. segs[n].start <= segs[last + 1].start
    <3>1. CASE n = last + 1
      BY <3>1, <1>1, <1>3, SegmentFacts
    <3>2. CASE n < last + 1
      <4>1. segs[n].start < segs[last + 1].start
        BY <3>2, <1>1, <1>3, SegmentFacts
      <4> QED BY <4>1, <1>1, <1>3, SegmentFacts
    <3> QED BY <3>1, <3>2, <1>2, <1>3
  <2> QED BY <2>1, <2>2, <1>2, <1>4
<1>6. TypeOK'
  BY SMTT(40), <1>1, <1>2, <1>3 DEF TypeOK
<1>7. Segments'
  BY <1>1, SegmentsKept
<1>8. Emitted' /\ BudgetKept'
  BY <1>1 DEF Emitted, BudgetKept, Oversized, LastChunk
<1>9. Start'
  BY <1>2, <1>3, <1>4, <1>5 DEF Start, LastChunk
<1>10. Candidate'
  BY DEF Candidate
<1> QED BY <1>6, <1>7, <1>8, <1>9, <1>10 DEF IInv

LEMMA WalkIInv == ASSUME IInv, Walk PROVE IInv'
<1> USE DEF Walk, Walking, args
<1>1. /\ Packing /\ TypeOK /\ Segments /\ Emitted /\ Candidate /\ BudgetKept
  BY DEF IInv, Packing
<1>2. j \in si + 1..last /\ si \in Nat /\ last \in Nat
  BY <1>1 DEF Candidate, TypeOK
<1>3. calls' \in Nat
  BY <1>1 DEF TypeOK, WalkCalls, SegCalls, Cost
<1>4. PICK c \in WalkCount :
        IF Reaches(c)
          THEN StartNextAt(IF Fits(c) THEN j ELSE last + 1) /\ UNCHANGED j
          ELSE j' = j - 1 /\ UNCHANGED <<si, fallback_si, phase>>
  OBVIOUS
<1>5. CASE Reaches(c)
  <2>1. (IF Fits(c) THEN j ELSE last + 1) \in si + 1..last + 1
    BY <1>2
  <2>2. j' \in Nat \ {0}
    BY <1>1, <1>4, <1>5 DEF TypeOK
  <2> QED BY <1>3, <1>4, <1>5, <2>1, <2>2, StartNextIInv
<1>6. CASE ~Reaches(c)
  <2>1. j' = j - 1 /\ UNCHANGED <<si, fallback_si, phase>>
    BY <1>4, <1>6
  <2>2. j' \in si..last /\ j' \in Nat \ {0}
    BY <2>1, <1>1, <1>2 DEF TypeOK
  <2>3. TypeOK'
    BY <2>1, <2>2, <1>1, <1>3 DEF TypeOK
  <2>4. Segments'
    BY <2>1, <1>1, SegmentsKept
  <2>5. Emitted' /\ BudgetKept'
    BY <1>1 DEF Emitted, BudgetKept, Oversized, LastChunk
  <2>6. Start' /\ Candidate'
    BY <2>1, <2>2, <1>1 DEF Start, Candidate, LastChunk
  <2> QED BY <2>3, <2>4, <2>5, <2>6 DEF IInv
<1> QED BY <1>5, <1>6

LEMMA WalkedOutIInv == ASSUME IInv, WalkedOut PROVE IInv'
<1>1. last + 1 \in si + 1..last + 1 /\ j \in Nat \ {0} /\ calls \in Nat
  BY DEF WalkedOut, IInv, TypeOK
<1> QED BY <1>1, StartNextIInv DEF WalkedOut, args
\* Every step keeps the invariant, whatever the counter answers.
THEOREM StepIInv == IInv /\ [Next]_vars => IInv'
<1> SUFFICES ASSUME IInv, [Next]_vars PROVE IInv'
  OBVIOUS
<1>1. CASE MeasureSentence
  BY <1>1, MeasureSentenceIInv
<1>2. CASE RefuseZero \/ CounterFails
  <2>1. phase' = "refused" /\ UNCHANGED <<args, k, segs, packing>>
    BY <1>2 DEF RefuseZero, CounterFails
  <2>2. calls' \in Nat
    BY <1>2 DEF RefuseZero, CounterFails, IInv, TypeOK, Cost
  <2> QED BY <2>1, <2>2, RefusedIInv
<1>3. CASE Segmented
  BY <1>3, SegmentedIInv
<1>4. CASE Exhausted
  BY <1>4, ExhaustedIInv
<1>5. CASE Open
  BY <1>5, OpenIInv
<1>6. CASE Extend
  BY <1>6, ExtendIInv
<1>7. CASE ExtendedToTheEnd
  BY <1>7, ExtendedToTheEndIInv
<1>8. CASE Recut
  BY <1>8, RecutIInv
<1>9. CASE Emit
  BY <1>9, EmitIInv
<1>10. CASE Walk
  BY <1>10, WalkIInv
<1>11. CASE WalkedOut
  BY <1>11, WalkedOutIInv
<1>12. CASE UNCHANGED vars
  BY <1>12 DEF vars, IInv, TypeOK, Segments, Tiles, Frontier, Packing, Emitted,
               Start, Candidate, BudgetKept, Oversized, LastChunk
<1> QED BY <1>1, <1>2, <1>3, <1>4, <1>5, <1>6, <1>7, <1>8, <1>9, <1>10, <1>11,
           <1>12 DEF Next

\* The invariant of every reachable state.
THEOREM Invariance == Spec => []IInv
BY InitIInv, StepIInv, PTL DEF Spec

------------------------------------------------------------------------------
(* What packing promises *)

\* Every variable keeps its type and the packing indices stay in the list: no
\* slice of segs in pack is out of bounds.
THEOREM TypeCorrect == Spec => []TypeOK
<1>1. IInv => TypeOK
  BY DEF IInv
<1> QED BY <1>1, Invariance, PTL

\* Chunks advance strictly at both ends for every text and every counter.
THEOREM Advancing == Spec => []ChunksAdvance
<1>1. IInv => ChunksAdvance
  BY DEF IInv, Emitted, ChunksAdvance
<1> QED BY <1>1, Invariance, PTL

\* Chunks cover the text from 0 without a gap, and a call that returns has
\* covered it to its end.
THEOREM CoveringInv == Spec => []ChunksCover
<1>1. IInv => ChunksCover
  BY DEF IInv, Emitted, Candidate, LastChunk, ChunksCover
<1> QED BY <1>1, Invariance, PTL

\* A chunk over the budget is a single word, for every counter.
THEOREM WithinBudget == Spec => []BudgetKept
<1>1. IInv => BudgetKept
  BY DEF IInv
<1> QED BY <1>1, Invariance, PTL

------------------------------------------------------------------------------
(* pack implements the covering chunker *)

\* A chunk's bounds as the abstract span.
LEMMA SpanOfChunk ==
  ASSUME TypeOK
  PROVE  /\ Len(chunks) \in Nat
         /\ Len(spans) = Len(chunks)
         /\ \A i \in 1..Len(chunks) : /\ spans[i].start = chunks[i].start
                                      /\ spans[i].end = chunks[i].end
         /\ spans = <<>> <=> chunks = <<>>
<1>1. Len(chunks) \in Nat /\ chunks \in Seq(Chunk)
  BY DEF TypeOK
<1>2. Len(spans) = Len(chunks)
  BY <1>1 DEF spans
<1> QED BY <1>1, <1>2, EmptySeq DEF spans

\* Only Emit adds a span, and it is the abstract Emit; Exhausted is Nothing, a
\* refusal is Refuse, and every other step leaves the abstract state alone.
THEOREM StepCovers == IInv /\ [Next]_vars =>
                      [Covering!Next]_<<text.total, spans, status>>
<1> SUFFICES ASSUME IInv, [Next]_vars
             PROVE  [Covering!Next]_<<text.total, spans, status>>
  OBVIOUS
<1>1. CASE Emit
  <2> DEFINE s == segs[si].start
  <2>1. IInv' /\ TypeOK /\ TypeOK'
    BY <1>1, EmitIInv DEF IInv
  <2>2. phase = "close" /\ ~Contained
    BY <1>1 DEF Emit
  <2>3. /\ s \in Nat /\ end \in Nat /\ s < end /\ end <= text.total
        /\ text.total \in Nat
    <3>1. text.total \in Nat
      BY <2>1, CallsAssumption DEF TypeOK, IsText
    <3> QED BY <3>1, <2>2, CandidateFacts
  <2>4. s \in 0..text.total /\ end \in 0..text.total
    BY <2>3
  <2>5. Covering!Continues(s, end)
    <3>1. CASE chunks = <<>>
      BY <3>1, <2>1, <2>2, SpanOfChunk, CandidateFacts DEF Covering!Continues
    <3>2. CASE chunks # <<>>
      <4>1. Len(chunks) \in 1..Len(chunks)
        BY <3>2, <2>1, LastChunkFacts
      <4>2. /\ spans # <<>> /\ Len(spans) = Len(chunks)
            /\ spans[Len(spans)].start = LastChunk.start
            /\ spans[Len(spans)].end = LastChunk.end
        BY <3>2, <4>1, <2>1, SpanOfChunk DEF LastChunk
      <4> QED BY <3>2, <4>2, <2>2, CandidateFacts DEF Covering!Continues
    <3> QED BY <3>1, <3>2
  <2>6. spans' = Append(spans, [start |-> s, end |-> end])
    <3> DEFINE new == [start |-> s, end |-> end, count |-> count]
    <3>1. /\ chunks' = Append(chunks, new)
          /\ chunks \in Seq(Chunk) /\ new \in Chunk
      BY <1>1, <2>1, <2>3 DEF Emit, TypeOK, Chunk
    <3>2. /\ Len(chunks') = Len(chunks) + 1 /\ Len(chunks) \in Nat
          /\ \A i \in 1..Len(chunks) : chunks'[i] = chunks[i]
          /\ chunks'[Len(chunks) + 1] = new
      BY <3>1, AppendProperties
    <3>3. new.start = s /\ new.end = end
      OBVIOUS
    <3> HIDE DEF new, s
    <3>4. Append(spans, [start |-> s, end |-> end]) =
            [i \in 1..Len(chunks) + 1 |->
               IF i <= Len(chunks)
                 THEN [start |-> chunks[i].start, end |-> chunks[i].end]
                 ELSE [start |-> s, end |-> end]]
      BY <3>2 DEF spans
    <3>5. spans' = [i \in 1..Len(chunks) + 1 |->
               IF i <= Len(chunks)
                 THEN [start |-> chunks[i].start, end |-> chunks[i].end]
                 ELSE [start |-> s, end |-> end]]
      BY <3>2, <3>3 DEF spans
    <3> QED BY <3>4, <3>5
  <2>7. /\ status = "packing" /\ text.total' = text.total
        /\ status' = IF end = text.total THEN "covered" ELSE "packing"
    BY <1>1, <2>3 DEF Emit, AtTextEnd, status, args
  <2>8. Covering!Emit
    BY <2>3, <2>4, <2>5, <2>6, <2>7 DEF Covering!Emit
  <2> QED BY <2>8 DEF Covering!Next
<1>2. CASE Exhausted
  <2>1. IInv'
    BY <1>2, ExhaustedIInv
  <2>2. phase' = "done" /\ UNCHANGED <<args, chunks>> /\ phase = "open"
    BY <1>2 DEF Exhausted, packing
  <2>3. chunks = <<>> /\ text.total = 0
    <3>1. Packing /\ TypeOK /\ Segments /\ Start
      BY <2>2 DEF IInv, Packing
    <3>2. Len(segs) \in Nat /\ si > Len(segs)
      BY <3>1, <1>2, SegmentFacts DEF Exhausted
    <3>3. chunks = <<>>
      BY <3>1, <3>2, <2>2 DEF Start
    <3> QED BY <2>1, <2>2, <3>3 DEF IInv, Candidate, args
  <2>4. Covering!Nothing
    BY <2>2, <2>3 DEF Covering!Nothing, status, spans, args
  <2> QED BY <2>4 DEF Covering!Next
<1>3. CASE RefuseZero \/ CounterFails
  <2>1. /\ phase' = "refused" /\ UNCHANGED <<args, chunks>>
        /\ phase \in {"measure", "open", "extend", "walk"}
    BY <1>3 DEF RefuseZero, CounterFails, Measuring, packing
  <2>2. Covering!Refuse
    BY <2>1 DEF Covering!Refuse, status, spans, args
  <2> QED BY <2>2 DEF Covering!Next
<1>4. CASE MeasureSentence \/ Segmented \/ Open \/ Extend \/ ExtendedToTheEnd
           \/ Recut \/ Walk \/ WalkedOut
  <2>1. /\ UNCHANGED <<text, chunks>>
        /\ phase \notin {"done", "refused"} /\ phase' \notin {"done", "refused"}
    BY <1>4 DEF MeasureSentence, Segmented, Open, Extend, ExtendedToTheEnd,
                Recut, Walk, WalkedOut, StartNextAt, args, packing
  <2> QED BY <2>1 DEF status, spans
<1>5. CASE UNCHANGED vars
  BY <1>5 DEF vars, status, spans
<1> QED BY <1>1, <1>2, <1>3, <1>4, <1>5 DEF Next

\* Whatever the counter answers, packing is a covering chunker.
THEOREM Refinement == Spec => Covers
<1>1. Init => Covering!Init
  <2> SUFFICES ASSUME Init PROVE Covering!Init
    OBVIOUS
  <2>1. text.total \in Nat
    BY CallsAssumption DEF Init, IsText
  <2>2. spans = <<>> /\ status = "packing"
    BY DEF Init, spans, status
  <2> QED BY <2>1, <2>2 DEF Covering!Init
<1> QED BY <1>1, StepCovers, Invariance, PTL DEF Spec, Covers, Covering!Spec

------------------------------------------------------------------------------
(* What the counts certify *)

\* Two binary searches over the sorted token spans count what lies in a span:
\* a token straddling it makes the count zero, as nothing else fits beside it.
LEMMA SearchesCount ==
  ASSUME IsSpans(tokens), NEW s \in Nat, NEW e \in Nat
  PROVE  OffsetCount(s, e) = TokensIn(s, e) /\ TokensIn(s, e) \in Nat
<1> DEFINE N == 1..Len(tokens)
           B == {i \in N : tokens[i].start < s}
           T == {i \in N : tokens[i].end <= e}
           I == {i \in N : s <= tokens[i].start /\ tokens[i].end <= e}
<1>1. Len(tokens) \in Nat
  BY DEF IsSpans
<1>2. \A i \in N : /\ tokens[i].start \in Nat /\ tokens[i].end \in Nat
                    /\ tokens[i].start < tokens[i].end
  <2> SUFFICES ASSUME NEW i \in N
               PROVE  /\ tokens[i].start \in Nat /\ tokens[i].end \in Nat
                      /\ tokens[i].start < tokens[i].end
    OBVIOUS
  <2>1. tokens[i] \in Span
    BY ElementOfSeq DEF IsSpans
  <2> QED BY <2>1 DEF IsSpans, Span
<1>3. \A i, l \in N : i < l => tokens[i].end <= tokens[l].start
  BY DEF IsSpans
<1>4. N \subseteq Nat
  OBVIOUS
<1>5. IsFiniteSet(B) /\ IsFiniteSet(T)
  <2>1. IsFiniteSet(N)
    BY <1>1, FS_Interval
  <2> QED BY <2>1, FS_Subset
<1>6. I = T \ B
  BY <1>2
<1>7. B \subseteq T \/ T \subseteq B
  <2> SUFFICES ASSUME NEW i \in B, i \notin T, NEW l \in T PROVE l \in B
    OBVIOUS
  <2>1. CASE i < l
    BY <2>1, <1>2, <1>3
  <2>2. CASE i = l
    BY <2>2
  <2>3. CASE l < i
    <3>1. tokens[l].end <= tokens[i].start
      BY <2>3, <1>3
    <3> QED BY <3>1, <1>2
  <2> QED BY <2>1, <2>2, <2>3, <1>4
<1>8. OffsetCount(s, e) = IF Cardinality(T) < Cardinality(B) THEN 0
                          ELSE Cardinality(T) - Cardinality(B)
  BY DEF OffsetCount
<1>9. TokensIn(s, e) = Cardinality(I)
  BY DEF TokensIn
<1> HIDE DEF N, B, T, I
<1>10. Cardinality(B) \in Nat /\ Cardinality(T) \in Nat
  BY <1>5, FS_CardinalityType
<1>11. IsFiniteSet(I) /\ Cardinality(I) = Cardinality(T) - Cardinality(T \cap B)
  BY <1>5, <1>6, FS_Difference
<1>12. CASE B \subseteq T
  <2>1. T \cap B = B
    BY <1>12
  <2>2. Cardinality(B) <= Cardinality(T)
    BY <1>5, <1>12, FS_Subset
  <2> QED BY <2>1, <2>2, <1>8, <1>9, <1>10, <1>11
<1>13. CASE T \subseteq B
  <2>1. T \cap B = T
    BY <1>13
  <2>2. Cardinality(T) <= Cardinality(B)
    BY <1>5, <1>13, FS_Subset
  <2>3. Cardinality(I) = 0
    BY <2>1, <1>10, <1>11
  <2>4. OffsetCount(s, e) = 0
    BY <2>2, <1>8, <1>10
  <2> QED BY <2>3, <2>4, <1>9
<1> QED BY <1>7, <1>12, <1>13

\* The tokens of every span of the call, as one function no step changes.
Weight == [c \in Nat \X Nat |-> TokensIn(c[1], c[2])]

LEMMA WeightKept == ASSUME UNCHANGED tokens PROVE Weight' = Weight
BY DEF Weight, TokensIn

LEMMA WeightIsCount ==
  ASSUME IsSpans(tokens), NEW s \in Nat, NEW e \in Nat
  PROVE  /\ TokensIn(s, e) = Weight[<<s, e>>] /\ Weight[<<s, e>>] \in Nat
         /\ by_offsets => Measured(s, e) = {Weight[<<s, e>>]}
<1>1. Weight[<<s, e>>] = TokensIn(s, e)
  BY DEF Weight
<1> QED BY <1>1, SearchesCount DEF Measured

\* Phase A's counts, the candidate's and the chunks' are the tokens they hold.
Exact ==
  by_offsets =>
    /\ \A i \in 1..Len(segs) : segs[i].cached # Uncached =>
         segs[i].cached = Weight[<<segs[i].start, segs[i].end>>]
    /\ phase \in {"extend", "close"} => count = Weight[<<segs[si].start, end>>]
    /\ \A i \in 1..Len(chunks) :
         chunks[i].count = Weight[<<chunks[i].start, chunks[i].end>>]

\* A start s before the end e repeats enough, and no later segment would.
Certifies(s, e) ==
  s < e => /\ Weight[<<s, e>>] \in overlap..MaxTokens
           /\ \A l \in 1..Len(segs) : s < segs[l].start /\ segs[l].start < e =>
                Weight[<<segs[l].start, e>>] < overlap

\* The start waiting to be packed is certified, and while the walk-back is
\* under way the segments it has passed repeat too little.
Certified ==
  by_offsets =>
    /\ phase \in {"open", "extend", "close"} /\ chunks # <<>> =>
         Certifies(segs[si].start, prev_end)
    /\ phase = "walk" => \A l \in j + 1..last :
                           Weight[<<segs[l].start, end>>] < overlap
    /\ \A i \in 1..Len(chunks) - 1 :
         Certifies(chunks[i + 1].start, chunks[i].end)

\* What starts where a chunk ends does not fit it.
Stuffed(s, e) ==
  \A l \in 1..Len(segs) : segs[l].start = e =>
    Weight[<<s, segs[l].end>>] > MaxTokens \/ Weight[<<s, e>>] > MaxTokens

Filled ==
  by_offsets =>
    /\ phase = "close" => Stuffed(segs[si].start, end)
    /\ \A i \in 1..Len(chunks) : Stuffed(chunks[i].start, chunks[i].end)

------------------------------------------------------------------------------

\* What a segment is measured at is its tokens.
LEMMA SegCountExact ==
  ASSUME IInv, Packing, Exact, by_offsets, NEW i \in 1..Len(segs)
  PROVE  SegCount(i) = {Weight[<<segs[i].start, segs[i].end>>]}
<1>1. segs[i].start \in Nat /\ segs[i].end \in Nat /\ IsSpans(tokens)
  BY SegmentFacts DEF IInv, TypeOK
<1>2. Measured(segs[i].start, segs[i].end)
        = {Weight[<<segs[i].start, segs[i].end>>]}
  BY <1>1, WeightIsCount
<1> QED BY <1>2 DEF SegCount, Exact

\* The words and the sentence a measurement appends carry exact counts.
LEMMA MeasureSentenceExact ==
  ASSUME IInv, Exact, MeasureSentence PROVE Exact'
<1> USE DEF MeasureSentence, args, packing
<1> SUFFICES ASSUME by_offsets PROVE Exact'
  BY DEF Exact
<1> DEFINE s == text.sentences[k]
<1>1. /\ k \in 1..Len(text.sentences) /\ IsText(text) /\ IsSpans(tokens)
      /\ segs \in Seq(Seg) /\ chunks = <<>> /\ phase = "measure"
  BY DEF IInv, TypeOK, Segments, IsText
<1>2. s \in Sentence
  BY <1>1, ElementOfSeq DEF IsText
<1>3. s.start \in Nat /\ s.end \in Nat /\ s.words \in Seq(Span)
  BY <1>2 DEF Sentence
<1> DEFINE w == Weight[<<s.start, s.end>>]
<1>4. Measured(s.start, s.end) = {w} /\ w \in Nat
  BY <1>1, <1>3, WeightIsCount
<1>5. segs' = IF Fits(w) THEN Append(segs, SentenceSeg(s, w))
                         ELSE segs \o WordSegs(s)
  BY <1>4
<1>6. Weight' = Weight
  BY WeightKept
<1> HIDE DEF w
<1>7. \A i \in 1..Len(segs') : segs'[i].cached # Uncached =>
        segs'[i].cached = Weight[<<segs'[i].start, segs'[i].end>>]
  <2>1. CASE Fits(w)
    <3>1. segs' = Append(segs, SentenceSeg(s, w))
      BY <2>1, <1>5
    <3>2. SentenceSeg(s, w) = [start |-> s.start, end |-> s.end, cached |-> w]
      BY DEF SentenceSeg
    <3> QED BY <3>1, <3>2, <1>1 DEF Exact, w
  <2>2. CASE ~Fits(w)
    <3>1. segs' = segs \o WordSegs(s)
      BY <2>2, <1>5
    <3>2. Len(WordSegs(s)) = Len(s.words) /\ Len(s.words) \in Nat
      BY <1>3 DEF WordSegs
    <3>3. \A i \in 1..Len(WordSegs(s)) : WordSegs(s)[i].cached = Uncached
      BY <3>2 DEF WordSegs
    <3>4. WordSegs(s) \in Seq(Seg)
      <4>1. \A i \in 1..Len(s.words) : s.words[i] \in Span
        BY <1>3, ElementOfSeq
      <4>2. \A i \in 1..Len(s.words) :
              [start |-> s.words[i].start, end |-> s.words[i].end,
               cached |-> Uncached] \in Seg
        BY <4>1 DEF Span, Seg
      <4> QED BY <4>2, <3>2 DEF WordSegs
    <3> HIDE DEF s
    <3>5. /\ Len(segs') = Len(segs) + Len(WordSegs(s))
          /\ \A i \in 1..Len(segs) : segs'[i] = segs[i]
          /\ \A i \in Len(segs) + 1..Len(segs') :
                segs'[i] = WordSegs(s)[i - Len(segs)]
      BY <3>1, <3>4, <1>1, ConcatProperties
    <3> QED BY <3>2, <3>3, <3>5, <1>1 DEF Exact
  <2> QED BY <2>1, <2>2
<1>8. phase' = "measure" /\ chunks' = <<>>
  BY <1>1
<1> QED BY <1>6, <1>7, <1>8 DEF Exact

\* The arguments never change, and the segments only in phase A.
LEMMA ArgsKept ==
  ASSUME [Next]_vars
  PROVE  /\ UNCHANGED args
         /\ ~MeasureSentence => UNCHANGED segs
BY DEF Next, vars, args, packing, MeasureSentence, RefuseZero, Segmented,
       Exhausted, Open, Extend, ExtendedToTheEnd, Recut, Emit, Walk, WalkedOut,
       CounterFails, StartNextAt

LEMMA OtherStepExact ==
  ASSUME IInv, Exact, [Next]_vars, ~MeasureSentence PROVE Exact'
<1> USE DEF args, packing
<1>2. UNCHANGED <<text, tokens, overlap, by_offsets, segs>>
  BY ArgsKept
<1> SUFFICES ASSUME by_offsets PROVE Exact'
  BY <1>2 DEF Exact
<1>3. Weight' = Weight
  BY <1>2, WeightKept
<1>4. CASE Open
  <2>1. Packing /\ si \in 1..Len(segs)
    BY <1>4, SegmentFacts DEF Open, Packing, IInv, TypeOK
  <2>2. count' = Weight[<<segs[si].start, segs[si].end>>]
    BY <1>4, <2>1, SegCountExact DEF Open
  <2> QED BY <2>2, <1>2, <1>3, <1>4 DEF Exact, Open
<1>5. CASE Extend
  <2>1. Packing /\ si \in 1..Len(segs) /\ last + 1 \in 1..Len(segs)
    BY <1>5, SegmentFacts DEF Extend, Packing, IInv, TypeOK
  <2>2. /\ segs[si].start \in Nat /\ segs[last + 1].end \in Nat
        /\ IsSpans(tokens)
    BY <2>1, SegmentFacts DEF IInv, TypeOK
  <2>3. Measured(segs[si].start, segs[last + 1].end)
          = {Weight[<<segs[si].start, segs[last + 1].end>>]}
    BY <2>2, WeightIsCount
  <2> DEFINE w == Weight[<<segs[si].start, segs[last + 1].end>>]
  <2>4. \/ count' = w /\ end' = segs[last + 1].end
        \/ UNCHANGED <<last, end, count>>
    BY <2>3, <1>5 DEF Extend
  <2>5. UNCHANGED <<si, chunks>> /\ phase = "extend"
    BY <1>5 DEF Extend
  <2> QED BY <2>4, <2>5, <1>2, <1>3 DEF Exact
<1>6. CASE ExtendedToTheEnd
  BY <1>2, <1>3, <1>6 DEF Exact, ExtendedToTheEnd
<1>7. CASE Emit
  <2>1. chunks \in Seq(Chunk)
    BY DEF IInv, TypeOK
  <2>2. chunks' = Append(chunks, [start |-> segs[si].start, end |-> end,
                                  count |-> count])
        /\ phase = "close" /\ phase' \notin {"extend", "close"}
    BY <1>7 DEF Emit
  <2>3. count = Weight[<<segs[si].start, end>>]
    BY <2>2 DEF Exact
  <2> DEFINE c == [start |-> segs[si].start, end |-> end, count |-> count]
  <2>4. /\ Len(chunks') = Len(chunks) + 1 /\ Len(chunks) \in Nat
        /\ \A i \in 1..Len(chunks) : chunks'[i] = chunks[i]
        /\ chunks'[Len(chunks) + 1] = c
    BY <2>1, <2>2, AppendProperties
  <2>5. c.count = Weight[<<c.start, c.end>>]
    BY <2>3
  <2> HIDE DEF c
  <2>6. \A i \in 1..Len(chunks') :
          chunks'[i].count = Weight[<<chunks'[i].start, chunks'[i].end>>]
    BY <2>4, <2>5 DEF Exact
  <2> QED BY <2>2, <2>6, <1>2, <1>3 DEF Exact
<1>8. CASE RefuseZero \/ Segmented \/ Exhausted \/ Recut \/ Walk \/ WalkedOut
           \/ CounterFails
  <2>1. phase' \notin {"extend", "close"} /\ UNCHANGED chunks
    BY <1>8 DEF RefuseZero, Segmented, Exhausted, Recut, Walk, WalkedOut,
                CounterFails, StartNextAt
  <2> QED BY <2>1, <1>2, <1>3 DEF Exact
<1>9. CASE UNCHANGED vars
  BY <1>9, <1>2, <1>3 DEF Exact, vars
<1> QED BY <1>4, <1>5, <1>6, <1>7, <1>8, <1>9 DEF Next


LEMMA StepExact == ASSUME IInv, Exact, [Next]_vars PROVE Exact'
<1>1. CASE MeasureSentence
  BY <1>1, MeasureSentenceExact
<1>2. CASE ~MeasureSentence
  BY <1>2, OtherStepExact
<1> QED BY <1>1, <1>2

\* The next start is certified: the one the walk-back stopped at, or the end.
LEMMA StartNextCertified ==
  ASSUME IInv, Certified, by_offsets, phase = "walk",
         UNCHANGED <<args, segs, chunks, prev_end>>,
         NEW n, StartNextAt(n),
         \/ n = last + 1
         \/ n \in 1..Len(segs) /\ Certifies(segs[n].start, end)
  PROVE  Certified'
<1>1. Packing /\ TypeOK /\ Segments /\ Candidate
  BY DEF IInv, Packing
<1>2. prev_end = end /\ end < text.total /\ end = segs[last].end
  BY <1>1 DEF Candidate
<1>3. last \in 1..Len(segs) /\ Len(segs) \in Nat
  BY <1>1, SegmentFacts DEF TypeOK
<1>4. last + 1 \in 1..Len(segs) /\ segs[last + 1].start = end /\ end \in Nat
  BY <1>1, <1>2, <1>3, SegmentFacts
<1>5. Certifies(segs[n].start, end)
  <2>1. CASE n = last + 1
    BY <2>1, <1>4 DEF Certifies
  <2> QED BY <2>1
<1>6. phase' = "open" /\ si' = n
  BY DEF StartNextAt
<1>7. Certifies(segs[n].start, prev_end)'
  <2> DEFINE s == segs[n].start
             e == prev_end
  <2> HIDE DEF s, e
  <2>1. Certifies(s, e)
    BY <1>2, <1>5 DEF s, e
  <2>2. s' = s /\ e' = e
    BY <1>6 DEF s, e
  <2> QED BY <2>1, <2>2, WeightKept DEF Certifies, s, e, args
<1>8. \A i \in 1..Len(chunks) - 1 :
        Certifies(chunks[i + 1].start, chunks[i].end)'
  BY WeightKept DEF Certified, Certifies, args
<1> QED BY <1>6, <1>7, <1>8 DEF Certified, Certifies

LEMMA WalkCertified == ASSUME IInv, Exact, Certified, by_offsets, Walk
                       PROVE  Certified'
<1> USE DEF Walk, Walking
<1>1. Packing /\ TypeOK /\ Segments /\ Candidate
  BY DEF IInv, Packing
<1>2. j \in si + 1..last /\ last \in 1..Len(segs) /\ end = segs[last].end
      /\ j \in 1..Len(segs) /\ Len(segs) \in Nat /\ si \in Nat
  BY <1>1, SegmentFacts DEF Candidate, TypeOK
<1> DEFINE w == Weight[<<segs[j].start, end>>]
<1>3. w \in Nat /\ WalkCount = {w}
  <2>1. segs[j].start \in Nat /\ end \in Nat /\ IsSpans(tokens)
    BY <1>1, <1>2, SegmentFacts DEF TypeOK
  <2>2. Measured(segs[j].start, end) = {w} /\ w \in Nat
    BY <2>1, WeightIsCount
  <2>3. j = last => SegCount(j) = {w}
    BY <1>1, <1>2, SegCountExact
  <2> QED BY <2>2, <2>3 DEF WalkCount
<1>4. \A l \in j + 1..last : Weight[<<segs[l].start, end>>] < overlap
  BY DEF Certified
<1> HIDE DEF w
<1>5. IF Reaches(w)
        THEN StartNextAt(IF Fits(w) THEN j ELSE last + 1) /\ UNCHANGED j
        ELSE j' = j - 1 /\ UNCHANGED <<si, fallback_si, phase>>
  BY <1>3
<1>6. CASE Reaches(w) /\ Fits(w)
  <2>1. w \in overlap..MaxTokens /\ overlap \in Nat
    BY <1>1, <1>3, <1>6, BudgetAssumption DEF Reaches, Fits, TypeOK
  <2>2. \A l \in 1..Len(segs) :
          segs[j].start < segs[l].start /\ segs[l].start < end => l \in j + 1..last
    <3> SUFFICES ASSUME NEW l \in 1..Len(segs),
                        segs[j].start < segs[l].start, segs[l].start < end
                 PROVE  l \in j + 1..last
      OBVIOUS
    <3>1. ~(l <= j)
      <4>1. l = j => segs[l].start = segs[j].start
        OBVIOUS
      <4>2. l < j => segs[l].start < segs[j].start
        BY <1>1, <1>2, SegmentFacts
      <4> QED BY <4>1, <4>2, <1>1, <1>2, SegmentFacts
    <3>2. ~(last < l)
      <4>1. last < l => last + 1 \in 1..Len(segs) /\ segs[last + 1].start = end
        BY <1>1, <1>2, SegmentFacts
      <4>2. last + 1 < l => segs[last + 1].start < segs[l].start
        BY <1>1, <1>2, <4>1, SegmentFacts
      <4> QED BY <4>1, <4>2, <1>1, <1>2, SegmentFacts
    <3> QED BY <3>1, <3>2, <1>2
  <2>3. Certifies(segs[j].start, end)
    BY <2>1, <2>2, <1>4 DEF Certifies, w
  <2>4. StartNextAt(j)
    BY <1>5, <1>6
  <2> QED BY <2>3, <2>4, <1>2, StartNextCertified
<1>7. CASE Reaches(w) /\ ~Fits(w)
  <2>1. StartNextAt(last + 1)
    BY <1>5, <1>7
  <2> QED BY <2>1, StartNextCertified
<1>8. CASE ~Reaches(w)
  <2>1. j' = j - 1 /\ UNCHANGED <<si, fallback_si, phase>>
    BY <1>5, <1>8
  <2>2. w < overlap
    BY <1>1, <1>3, <1>8 DEF Reaches, TypeOK
  <2>3. \A l \in j..last : Weight[<<segs[l].start, end>>] < overlap
    <3> SUFFICES ASSUME NEW l \in j..last
                 PROVE  Weight[<<segs[l].start, end>>] < overlap
      OBVIOUS
    <3>1. CASE l = j
      BY <3>1, <2>2 DEF w
    <3>2. CASE l # j
      <4>1. l \in j + 1..last
        BY <3>2, <1>2
      <4> QED BY <4>1, <1>4
    <3> QED BY <3>1, <3>2
  <2>4. j' + 1 = j
    BY <2>1, <1>2
  <2>5. Weight' = Weight
    BY WeightKept DEF args
  <2> QED BY <2>1, <2>3, <2>4, <2>5 DEF Certified, Certifies, args
<1> QED BY <1>6, <1>7, <1>8

\* The chunk that goes out starts where it was certified to.
LEMMA EmitCertified == ASSUME IInv, Certified, by_offsets, Emit PROVE Certified'
<1> USE DEF Emit
<1>1. TypeOK /\ Emitted
  BY DEF IInv
<1> DEFINE c == [start |-> segs[si].start, end |-> end, count |-> count]
           n == Len(chunks)
<1>2. /\ Len(chunks') = n + 1 /\ n \in Nat
      /\ \A i \in 1..n : chunks'[i] = chunks[i]
      /\ chunks'[n + 1] = c
  BY <1>1, AppendProperties DEF TypeOK
<1>3. c.start = segs[si].start
  OBVIOUS
<1>4. Weight' = Weight
  BY WeightKept DEF args
<1>5. phase' \in {"done", "walk"} /\ (phase' = "walk" => j' = last)
  OBVIOUS
<1>6. \A i \in 1..n : Certifies(chunks'[i + 1].start, chunks'[i].end)
  <2> SUFFICES ASSUME NEW i \in 1..n
               PROVE  Certifies(chunks'[i + 1].start, chunks'[i].end)
    OBVIOUS
  <2>1. CASE i < n
    <3>1. i \in 1..n - 1 /\ i + 1 \in 1..n
      BY <2>1, <1>2
    <3> QED BY <3>1, <1>2 DEF Certified
  <2>2. CASE i = n
    <3>1. chunks # <<>> /\ chunks[n].end = prev_end
      BY <2>2, <1>1, <1>2 DEF Emitted, LastChunk
    <3>2. Certifies(segs[si].start, prev_end)
      BY <3>1 DEF Certified
    <3> QED BY <2>2, <3>1, <3>2, <1>2, <1>3
  <2> QED BY <2>1, <2>2, <1>2
<1> HIDE DEF c, n
<1>7. \A i \in 1..Len(chunks') - 1 :
        Certifies(chunks'[i + 1].start, chunks'[i].end)
  BY <1>2, <1>6
<1>8. \A l \in j' + 1..last' : phase' # "walk"
  BY <1>1, <1>5 DEF TypeOK
<1> QED BY <1>4, <1>5, <1>7, <1>8 DEF Certified, Certifies, args

LEMMA StepCertified ==
  ASSUME IInv, Exact, Certified, [Next]_vars PROVE Certified'
<1>1. UNCHANGED args
  BY ArgsKept
<1> SUFFICES ASSUME by_offsets PROVE Certified'
  BY <1>1 DEF Certified, args
<1>2. CASE MeasureSentence \/ Segmented
  <2>1. phase' \in {"measure", "open"} /\ chunks' = <<>>
    BY <1>2 DEF MeasureSentence, Segmented, packing, IInv, Segments
  <2> QED BY <2>1 DEF Certified
<1>3. ~MeasureSentence => UNCHANGED segs /\ Weight' = Weight
  BY ArgsKept, WeightKept DEF args
<1>4. CASE Walk
  BY <1>4, WalkCertified
<1>5. CASE WalkedOut
  BY <1>5, StartNextCertified DEF WalkedOut
<1>6. CASE Emit
  BY <1>6, EmitCertified
<1>7. CASE Recut
  <2>1. phase' = "open" /\ si' = fallback_si /\ UNCHANGED <<chunks, prev_end, segs>>
    BY <1>7 DEF Recut
  <2>2. chunks # <<>> => segs[fallback_si].start = prev_end /\ prev_end \in Nat
    BY <1>7 DEF Recut, IInv, Start, TypeOK
  <2>3. chunks # <<>> => Certifies(segs[si].start, prev_end)'
    BY <2>1, <2>2 DEF Certifies
  <2>4. Weight' = Weight
    BY <1>1, WeightKept DEF args
  <2> QED BY <2>1, <2>3, <2>4, <1>1 DEF Certified, Certifies, args
<1>8. CASE Open \/ Extend \/ ExtendedToTheEnd
  <2>1. /\ UNCHANGED <<si, prev_end, chunks, segs>>
        /\ phase \in {"open", "extend"} /\ phase' \in {"extend", "close"}
    BY <1>8 DEF Open, Extend, ExtendedToTheEnd, packing
  <2>2. Weight' = Weight
    BY <1>1, WeightKept DEF args
  <2> QED BY <2>1, <2>2, <1>1 DEF Certified, Certifies, args
<1>9. CASE RefuseZero \/ Exhausted \/ CounterFails
  <2>1. UNCHANGED <<chunks, segs>> /\ phase' \in {"refused", "done"}
    BY <1>9 DEF RefuseZero, Exhausted, CounterFails, packing
  <2>2. Weight' = Weight
    BY <1>1, WeightKept DEF args
  <2> QED BY <2>1, <2>2, <1>1 DEF Certified, Certifies, args
<1>10. CASE UNCHANGED vars
  <2>1. Weight' = Weight
    BY <1>1, WeightKept DEF args
  <2> QED BY <2>1, <1>10 DEF Certified, Certifies, vars
<1> QED BY <1>2, <1>4, <1>5, <1>6, <1>7, <1>8, <1>9, <1>10 DEF Next

\* A chunk is closed over a segment it could not take, or over none.
LEMMA CloseFilled ==
  ASSUME IInv, Exact, Filled, by_offsets,
         Open \/ Extend \/ ExtendedToTheEnd, phase' = "close"
  PROVE  Stuffed(segs[si].start, end)'
<1>1. Packing /\ TypeOK /\ Segments /\ Candidate /\ IsSpans(tokens)
  BY DEF IInv, Packing, Open, Extend, ExtendedToTheEnd, TypeOK
<1>2. UNCHANGED <<segs, si>> /\ UNCHANGED args
  BY DEF Open, Extend, ExtendedToTheEnd, packing
<1>3. Weight' = Weight
  BY <1>2, WeightKept DEF args
<1>4. CASE Open
  <2>1. si \in 1..Len(segs)
    BY <1>1, <1>4, SegmentFacts DEF Open, TypeOK
  <2>2. /\ count' = Weight[<<segs[si].start, segs[si].end>>]
        /\ end' = segs[si].end /\ ~Fits(count')
    BY <1>1, <1>4, <2>1, SegCountExact DEF Open
  <2>3. segs[si].start \in Nat /\ segs[si].end \in Nat
    BY <1>1, <2>1, SegmentFacts
  <2>4. Weight[<<segs[si].start, segs[si].end>>] > MaxTokens
    BY <1>1, <2>2, <2>3, WeightIsCount, BudgetAssumption DEF Fits
  <2> QED BY <2>2, <2>4, <1>2, <1>3 DEF Stuffed
<1>5. CASE Extend
  <2>1. si \in 1..Len(segs) /\ last \in 1..Len(segs) - 1 /\ Len(segs) \in Nat
    BY <1>1, <1>5, SegmentFacts DEF Extend, TypeOK
  <2>2. /\ segs[si].start \in Nat /\ segs[last + 1].end \in Nat
        /\ end = segs[last].end /\ segs[last].end = segs[last + 1].start
    BY <1>1, <1>5, <2>1, SegmentFacts DEF Candidate, Extend
  <2> DEFINE w == Weight[<<segs[si].start, segs[last + 1].end>>]
  <2>3. Measured(segs[si].start, segs[last + 1].end) = {w} /\ w \in Nat
    BY <1>1, <2>2, WeightIsCount
  <2>4. ~Fits(w) /\ end' = end
    BY <1>5, <2>3 DEF Extend
  <2>5. w > MaxTokens
    BY <2>3, <2>4, BudgetAssumption DEF Fits
  <2>6. \A l \in 1..Len(segs) : segs[l].start = end => l = last + 1
    <3> SUFFICES ASSUME NEW l \in 1..Len(segs), segs[l].start = end
                 PROVE  l = last + 1
      OBVIOUS
    <3> DEFINE m == last + 1
    <3>1. m \in 1..Len(segs)
      BY <2>1
    <3>2. segs[m].start = end
      BY <2>2
    <3> HIDE DEF m
    <3>3. l < m => segs[l].start < segs[m].start
      BY <1>1, <3>1, SegmentFacts
    <3>4. m < l => segs[m].start < segs[l].start
      BY <1>1, <3>1, SegmentFacts
    <3>5. segs[l].start \in Nat /\ segs[m].start \in Nat
      BY <1>1, <3>1, SegmentFacts
    <3>6. l = m
      BY <3>1, <3>2, <3>3, <3>4, <3>5
    <3> QED BY <3>6 DEF m
  <2> QED BY <2>4, <2>5, <2>6, <1>2, <1>3 DEF Stuffed
<1>6. CASE ExtendedToTheEnd
  <2>1. last \in 1..Len(segs) /\ last = Len(segs) /\ Len(segs) \in Nat
    BY <1>1, <1>6, SegmentFacts DEF ExtendedToTheEnd, TypeOK
  <2>2. end = text.total /\ end' = end
    BY <1>1, <1>6, <2>1, SegmentFacts DEF ExtendedToTheEnd, Candidate, packing
  <2>3. \A l \in 1..Len(segs) : segs[l].start # end
    BY <1>1, <2>2, SegmentFacts
  <2> QED BY <2>2, <2>3, <1>2 DEF Stuffed
<1> QED BY <1>4, <1>5, <1>6

LEMMA StepFilled == ASSUME IInv, Exact, Filled, [Next]_vars PROVE Filled'
<1>1. UNCHANGED args
  BY ArgsKept
<1> SUFFICES ASSUME by_offsets PROVE Filled'
  BY <1>1 DEF Filled, args
<1>2. Weight' = Weight
  BY <1>1, WeightKept DEF args
<1>3. CASE MeasureSentence \/ Segmented
  <2>1. phase' \in {"measure", "open"} /\ chunks' = <<>>
    BY <1>3 DEF MeasureSentence, Segmented, packing, IInv, Segments
  <2> QED BY <2>1 DEF Filled
<1>4. CASE Open \/ Extend \/ ExtendedToTheEnd
  <2>1. UNCHANGED <<chunks, segs>>
    BY <1>4 DEF Open, Extend, ExtendedToTheEnd, packing
  <2>2. \A i \in 1..Len(chunks') : Stuffed(chunks[i].start, chunks[i].end)'
    BY <2>1, <1>1, <1>2 DEF Filled, Stuffed, args
  <2>3. phase' = "close" => Stuffed(segs[si].start, end)'
    BY <1>4, CloseFilled
  <2> QED BY <2>2, <2>3 DEF Filled
<1>5. CASE Emit
  <2> DEFINE c == [start |-> segs[si].start, end |-> end, count |-> count]
             n == Len(chunks)
  <2>1. /\ Len(chunks') = n + 1 /\ n \in Nat
        /\ \A i \in 1..n : chunks'[i] = chunks[i]
        /\ chunks'[n + 1] = c
    BY <1>5, AppendProperties DEF Emit, IInv, TypeOK
  <2>2. c.start = segs[si].start /\ c.end = end
    OBVIOUS
  <2>3. Stuffed(segs[si].start, end)
    BY <1>5 DEF Emit, Filled
  <2> HIDE DEF c, n
  <2>4. \A i \in 1..Len(chunks') : Stuffed(chunks'[i].start, chunks'[i].end)
    <3> SUFFICES ASSUME NEW i \in 1..Len(chunks')
                 PROVE  Stuffed(chunks'[i].start, chunks'[i].end)
      OBVIOUS
    <3>1. CASE i = n + 1
      BY <3>1, <2>1, <2>2, <2>3
    <3>2. CASE i # n + 1
      <4>1. i \in 1..n
        BY <3>2, <2>1
      <4> QED BY <4>1, <2>1 DEF Filled, n
    <3> QED BY <3>1, <3>2
  <2>5. phase' # "close" /\ UNCHANGED segs
    BY <1>5 DEF Emit
  <2> QED BY <2>4, <2>5, <1>1, <1>2 DEF Filled, Stuffed, args
<1>6. CASE RefuseZero \/ Exhausted \/ CounterFails \/ Recut \/ Walk \/ WalkedOut
  <2>1. UNCHANGED <<chunks, segs>> /\ phase' # "close"
    BY <1>6 DEF RefuseZero, Exhausted, CounterFails, Recut, Walk, WalkedOut,
                StartNextAt, packing
  <2> QED BY <2>1, <1>1, <1>2 DEF Filled, Stuffed, args
<1>7. CASE UNCHANGED vars
  BY <1>7, <1>2 DEF Filled, Stuffed, vars
<1> QED BY <1>3, <1>4, <1>5, <1>6, <1>7 DEF Next

\* The token counts are right in every reachable state.
CountsInv == Exact /\ Certified /\ Filled

LEMMA CountsHold == Spec => [](IInv /\ CountsInv)
<1>1. Init => CountsInv
  BY DEF Init, CountsInv, Exact, Certified, Filled
<1>2. IInv /\ CountsInv /\ [Next]_vars => CountsInv'
  BY StepExact, StepCertified, StepFilled DEF CountsInv
<1> QED BY <1>1, <1>2, Invariance, PTL DEF Spec

\* The places the properties speak of are places in the text.
LEMMA ChunkPlaces ==
  ASSUME TypeOK
  PROVE  /\ \A i \in 1..Len(chunks) : /\ chunks[i].start \in Nat
                                      /\ chunks[i].end \in Nat
         /\ \A l \in 1..Len(segs) : /\ segs[l].start \in Nat
                                    /\ segs[l].end \in Nat
         /\ IsSpans(tokens)
<1>1. \A i \in 1..Len(chunks) : chunks[i] \in Chunk
  BY ElementOfSeq DEF TypeOK
<1>2. \A l \in 1..Len(segs) : segs[l] \in Seg
  BY ElementOfSeq DEF TypeOK
<1> QED BY <1>1, <1>2 DEF Chunk, Seg, TypeOK

\* chunk_to_offsets, whatever the token spans and however they straddle its
\* boundaries: no chunk but a single word holds more than max_tokens tokens, and
\* every overlap repeats enough of them, no more than the budget, and no
\* shorter one would have done.
THEOREM CountsRight == Spec => []CountsCertified
<1>1. IInv /\ CountsInv => CountsCertified
  <2> SUFFICES ASSUME IInv, CountsInv, by_offsets PROVE CountsCertified
    BY DEF CountsCertified, TokensFit, OverlapCertified
  <2>1. TypeOK /\ BudgetKept
    BY DEF IInv
  <2>2. TokensFit
    <3> SUFFICES ASSUME NEW i \in 1..Len(chunks)
                 PROVE  \/ TokensIn(chunks[i].start, chunks[i].end) <= MaxTokens
                        \/ Oversized(chunks[i])
      BY DEF TokensFit
    <3>1. chunks[i].count = TokensIn(chunks[i].start, chunks[i].end)
      BY <2>1, ChunkPlaces, WeightIsCount DEF CountsInv, Exact
    <3> QED BY <2>1, <3>1 DEF BudgetKept
  <2>3. OverlapCertified
    <3> SUFFICES ASSUME NEW i \in 1..Len(chunks) - 1,
                        chunks[i + 1].start < chunks[i].end
                 PROVE  LET s == chunks[i + 1].start
                            e == chunks[i].end
                        IN  /\ TokensIn(s, e) \in overlap..MaxTokens
                            /\ \A l \in 1..Len(segs) :
                                 s < segs[l].start /\ segs[l].start < e =>
                                   TokensIn(segs[l].start, e) < overlap
      BY DEF OverlapCertified
    <3> DEFINE s == chunks[i + 1].start
               e == chunks[i].end
    <3>1. Len(chunks) \in Nat
      BY <2>1 DEF TypeOK
    <3>2. s \in Nat /\ e \in Nat
      BY <2>1, <3>1, ChunkPlaces
    <3>3. Certifies(s, e)
      BY DEF CountsInv, Certified
    <3>4. \A l \in 1..Len(segs) :
            TokensIn(segs[l].start, e) = Weight[<<segs[l].start, e>>]
      BY <2>1, <3>2, ChunkPlaces, WeightIsCount
    <3>5. TokensIn(s, e) = Weight[<<s, e>>]
      BY <2>1, <3>2, ChunkPlaces, WeightIsCount
    <3> QED BY <3>3, <3>4, <3>5 DEF Certifies
  <2> QED BY <2>2, <2>3 DEF CountsCertified
<1> QED BY <1>1, CountsHold, PTL

------------------------------------------------------------------------------
(* What the counts cost *)

\* How many of the first n segments are measured as a chunk's first.
Fresh == [n \in 0..Len(segs) |->
            Cardinality({i \in 1..n : segs[i].cached = Uncached})]

LEMMA FreshGrows ==
  ASSUME TypeOK
  PROVE  /\ Len(segs) \in Nat
         /\ \A n \in 0..Len(segs) : Fresh[n] \in Nat
         /\ \A n \in 1..Len(segs) : Fresh[n] = Fresh[n - 1] + SegCalls(n)
         /\ \A n \in 0..Len(segs) : Fresh[n] <= Fresh[Len(segs)]
<1> DEFINE F(n) == {i \in 1..n : segs[i].cached = Uncached}
<1>1. Len(segs) \in Nat
  BY DEF TypeOK
<1>2. \A n \in 0..Len(segs) : IsFiniteSet(F(n)) /\ Fresh[n] = Cardinality(F(n))
  <2> SUFFICES ASSUME NEW n \in 0..Len(segs)
               PROVE  IsFiniteSet(F(n)) /\ Fresh[n] = Cardinality(F(n))
    OBVIOUS
  <2>1. IsFiniteSet(1..n)
    BY <1>1, FS_Interval
  <2>2. IsFiniteSet(F(n))
    BY <2>1, FS_Subset
  <2> QED BY <2>2 DEF Fresh
<1>3. \A n \in 0..Len(segs) : Fresh[n] \in Nat
  BY <1>2, FS_CardinalityType
<1>4. \A n \in 1..Len(segs) : Fresh[n] = Fresh[n - 1] + SegCalls(n)
  <2> SUFFICES ASSUME NEW n \in 1..Len(segs)
               PROVE  Fresh[n] = Fresh[n - 1] + SegCalls(n)
    OBVIOUS
  <2>1. n - 1 \in 0..Len(segs) /\ n \in 0..Len(segs) /\ n \notin F(n - 1)
    BY <1>1
  <2>2. CASE segs[n].cached = Uncached
    <3>1. F(n) = F(n - 1) \cup {n}
      BY <2>1, <2>2
    <3>2. Cardinality(F(n)) = Cardinality(F(n - 1)) + 1
      BY <3>1, <2>1, <1>2, FS_AddElement
    <3> QED BY <3>2, <2>1, <2>2, <1>2 DEF SegCalls
  <2>3. CASE segs[n].cached # Uncached
    <3>1. F(n) = F(n - 1)
      BY <2>1, <2>3
    <3>2. SegCalls(n) = 0
      BY <2>3 DEF SegCalls
    <3>3. Fresh[n] = Fresh[n - 1]
      BY <3>1, <2>1, <1>2
    <3> QED BY <3>2, <3>3, <2>1, <1>3
  <2> QED BY <2>2, <2>3
<1>5. \A n \in 0..Len(segs) : Fresh[n] <= Fresh[Len(segs)]
  <2> SUFFICES ASSUME NEW n \in 0..Len(segs)
               PROVE  Fresh[n] <= Fresh[Len(segs)]
    OBVIOUS
  <2>1. Len(segs) \in 0..Len(segs) /\ F(n) \subseteq F(Len(segs))
    BY <1>1
  <2>2. IsFiniteSet(F(Len(segs))) /\ Fresh[Len(segs)] = Cardinality(F(Len(segs)))
    BY <2>1, <1>2
  <2>3. Fresh[n] = Cardinality(F(n))
    BY <1>2
  <2> HIDE DEF F
  <2>4. Cardinality(F(n)) <= Cardinality(F(Len(segs)))
    BY <2>1, <2>2, FS_Subset
  <2> QED BY <2>2, <2>3, <2>4
<1> QED BY <1>1, <1>3, <1>4, <1>5

LEMMA FreshKept == ASSUME UNCHANGED segs PROVE Fresh' = Fresh
BY DEF Fresh

\* Without overlap: a call a sentence in phase A, a call for every segment a
\* chunk tried to take, and one more for every word it started with.
Cheap ==
  overlap = 0 =>
    LET asked == Len(text.sentences)
    IN  /\ phase = "measure" => calls <= k - 1
        /\ phase = "open" => calls <= asked + (si - 1) + Fresh[si - 1]
        /\ phase = "extend" => calls <= asked + (last - 1) + Fresh[last]
        /\ phase \in {"close", "walk"} => calls <= asked + last + Fresh[last]
        /\ phase \in {"done", "refused"} =>
             calls <= asked + Len(segs) + Fresh[Len(segs)]
        /\ phase \in {"open", "extend", "close"} /\ chunks # <<>> =>
             segs[si].start = prev_end

\* What every phase has asked so far is within what the whole call may ask.
LEMMA CheapSoFar ==
  ASSUME IInv, Cheap, overlap = 0
  PROVE  /\ Len(text.sentences) \in Nat /\ calls \in Nat /\ k \in Nat
         /\ phase \notin {"done", "refused"} =>
              calls <= Len(text.sentences) + Len(segs) + Fresh[Len(segs)]
         /\ Measuring =>
              calls + 1 <= Len(text.sentences) + Len(segs) + Fresh[Len(segs)]
<1> DEFINE asked == Len(text.sentences)
           most == Fresh[Len(segs)]
<1>1. TypeOK /\ Segments /\ Start /\ Candidate
  BY DEF IInv
<1>2. asked \in Nat /\ calls \in Nat /\ k \in 1..asked + 1
  BY <1>1 DEF TypeOK, IsText
<1>3. /\ Len(segs) \in Nat /\ Len(segs) \in 0..Len(segs)
      /\ \A n \in 0..Len(segs) : Fresh[n] \in Nat /\ Fresh[n] <= most
      /\ \A n \in 1..Len(segs) : Fresh[n] = Fresh[n - 1] + SegCalls(n)
  BY <1>1, FreshGrows
<1>4. CASE phase = "measure"
  <2>1. calls <= k - 1 /\ most \in Nat
    BY <1>3, <1>4 DEF Cheap
  <2>2. Measuring => k <= asked
    BY <1>4 DEF Measuring
  <2> QED BY <2>1, <2>2, <1>2, <1>3
<1>5. CASE phase = "open"
  <2>1. calls <= asked + (si - 1) + Fresh[si - 1]
    BY <1>5 DEF Cheap
  <2>2. si \in Nat \ {0} /\ si - 1 \in 0..Len(segs)
    BY <1>1, <1>3, <1>5 DEF Start, TypeOK
  <2>3. Fresh[si - 1] <= most /\ Fresh[si - 1] \in Nat /\ most \in Nat
    BY <2>2, <1>3
  <2>4. Measuring => si <= Len(segs)
    BY <1>5 DEF Measuring
  <2> DEFINE f == Fresh[si - 1]
  <2> HIDE DEF asked, most, f
  <2>5. calls <= asked + (si - 1) + f /\ f <= most /\ f \in Nat /\ most \in Nat
    BY <2>1, <2>3 DEF f, asked, most
  <2>6. si - 1 <= Len(segs)
    BY <2>2, <1>3
  <2>7. calls <= asked + Len(segs) + most
    BY <2>2, <2>5, <2>6, <1>2, <1>3
  <2>8. Measuring => calls + 1 <= asked + Len(segs) + most
    BY <2>2, <2>4, <2>5, <1>2, <1>3
  <2> QED BY <2>7, <2>8, <1>2 DEF asked, most
<1>6. CASE phase \in {"extend", "close", "walk"}
  <2>1. last \in 1..Len(segs)
    BY <1>1, <1>6, <1>3 DEF TypeOK
  <2>2. Fresh[last] <= most /\ Fresh[last] \in Nat /\ most \in Nat
    BY <2>1, <1>3
  <2>3. CASE phase = "extend"
    <3>1. calls <= asked + (last - 1) + Fresh[last]
      BY <2>3 DEF Cheap
    <3> QED BY <3>1, <2>1, <2>2, <2>3, <1>2, <1>3
  <2>4. CASE phase \in {"close", "walk"}
    <3>1. calls <= asked + last + Fresh[last]
      BY <2>4 DEF Cheap
    <3>2. ~Measuring
      BY <2>4 DEF Measuring, Walking
    <3> QED BY <3>1, <3>2, <2>1, <2>2, <1>2, <1>3
  <2> QED BY <2>3, <2>4, <1>6
<1>7. CASE phase \in {"done", "refused"}
  <2>1. ~Measuring
    BY <1>7 DEF Measuring
  <2> QED BY <2>1, <1>2, <1>7
<1> QED BY <1>1, <1>4, <1>5, <1>6, <1>7 DEF TypeOK

LEMMA StepCheap == ASSUME IInv, IInv', Cheap, [Next]_vars PROVE Cheap'
<1>1. UNCHANGED args
  BY ArgsKept
<1> SUFFICES ASSUME overlap = 0 PROVE Cheap'
  BY <1>1 DEF Cheap, args
<1> DEFINE asked == Len(text.sentences)
<1>2. asked \in Nat /\ calls \in Nat /\ k \in Nat /\ asked' = asked
  BY <1>1, CheapSoFar DEF args
<1>3. CASE MeasureSentence
  <2>1. /\ calls' = calls + 1 /\ k' = k + 1 /\ calls <= k - 1
        /\ phase' = "measure"
    BY <1>3 DEF MeasureSentence, Cost, Cheap, packing
  <2> QED BY <2>1, <1>2 DEF Cheap
<1> SUFFICES ASSUME ~MeasureSentence PROVE Cheap'
  BY <1>3
<1>4. UNCHANGED segs /\ Fresh' = Fresh
  BY ArgsKept, FreshKept
<1>5. TypeOK /\ Segments /\ Start /\ Candidate
  BY DEF IInv
<1>6. /\ Len(segs) \in Nat
      /\ \A n \in 0..Len(segs) : Fresh[n] \in Nat /\ Fresh[n] <= Fresh[Len(segs)]
      /\ \A n \in 1..Len(segs) : Fresh[n] = Fresh[n - 1] + SegCalls(n)
  BY <1>5, FreshGrows
<1>7. CASE RefuseZero \/ CounterFails
  <2>1. /\ phase' = "refused" /\ calls' = calls + 1 /\ Measuring
    BY <1>7 DEF RefuseZero, CounterFails, Cost, Measuring
  <2>2. calls' <= asked + Len(segs) + Fresh[Len(segs)]
    BY <2>1, CheapSoFar
  <2> QED BY <2>1, <2>2, <1>1, <1>4 DEF Cheap, args
<1>8. CASE Segmented
  <2>1. /\ phase' = "open" /\ calls' = calls /\ calls <= k - 1
        /\ chunks' = <<>> /\ si' = 1 /\ k \in 1..asked + 1
    BY <1>8, <1>5 DEF Segmented, packing, Segments, Cheap, TypeOK
  <2>2. Fresh[0] \in Nat /\ si' - 1 = 0
    BY <1>6, <2>1
  <2>3. calls' <= asked + 0 + Fresh[0]
    BY <2>1, <2>2, <1>2
  <2>4. calls' <= asked + (si' - 1) + Fresh[si' - 1]
    BY <2>2, <2>3
  <2> QED BY <2>1, <2>4, <1>1, <1>4 DEF Cheap, args
<1>9. CASE Exhausted
  <2>1. phase' = "done" /\ calls' = calls /\ phase = "open"
    BY <1>9 DEF Exhausted
  <2>2. calls' <= asked + Len(segs) + Fresh[Len(segs)]
    BY <2>1, CheapSoFar
  <2> QED BY <2>1, <2>2, <1>1, <1>4 DEF Cheap, args
<1>10. CASE Open
  <2>1. /\ phase = "open" /\ phase' \in {"extend", "close"} /\ si \in 1..Len(segs)
        /\ last' = si /\ UNCHANGED <<si, chunks, prev_end>>
        /\ calls' = calls + SegCalls(si)
    BY <1>10, <1>5 DEF Open, Cost, TypeOK
  <2>2. calls <= asked + (si - 1) + Fresh[si - 1]
    BY <2>1 DEF Cheap
  <2>3. Fresh[si] = Fresh[si - 1] + SegCalls(si) /\ SegCalls(si) \in Nat
    BY <2>1, <1>6 DEF SegCalls
  <2>4. Fresh[si - 1] \in Nat /\ si - 1 \in 0..Len(segs)
    BY <2>1, <1>6
  <2>5. calls' <= asked + (si - 1) + Fresh[si]
    BY <2>1, <2>2, <2>3, <2>4, <1>2
  <2>6. calls' <= asked + (last' - 1) + Fresh[last'] /\ last' \in Nat
        /\ Fresh[last'] \in Nat
    BY <2>1, <2>3, <2>4, <2>5
  <2>7. calls' <= asked + last' + Fresh[last']
    BY <2>1, <2>6, <1>2
  <2> QED BY <2>1, <2>6, <2>7, <1>1, <1>4 DEF Cheap, args
<1>11. CASE Extend
  <2>1. /\ phase = "extend" /\ last \in 1..Len(segs) - 1
        /\ UNCHANGED <<si, chunks, prev_end>> /\ calls' = calls + 1
        /\ \/ last' = last + 1 /\ phase' = "extend"
           \/ last' = last /\ phase' = "close"
    BY <1>11, <1>5, <1>6 DEF Extend, Cost, TypeOK
  <2>2. calls <= asked + (last - 1) + Fresh[last]
    BY <2>1 DEF Cheap
  <2>3. /\ last + 1 \in 1..Len(segs) /\ last \in 0..Len(segs)
        /\ (last + 1) - 1 = last /\ last \in Nat
    BY <2>1, <1>6
  <2>4. Fresh[last + 1] = Fresh[last] + SegCalls(last + 1)
    BY <2>3, <1>6
  <2>5. Fresh[last] \in Nat /\ SegCalls(last + 1) \in Nat
    BY <2>3, <1>6 DEF SegCalls
  <2>6. /\ calls' <= asked + last + Fresh[last]
        /\ calls' <= asked + ((last + 1) - 1) + Fresh[last + 1]
    BY <2>1, <2>2, <2>3, <2>4, <2>5, <1>2
  <2>7. CASE last' = last + 1 /\ phase' = "extend"
    BY <2>1, <2>6, <2>7, <1>1, <1>4 DEF Cheap, args
  <2>8. CASE last' = last /\ phase' = "close"
    BY <2>1, <2>6, <2>8, <1>1, <1>4 DEF Cheap, args
  <2> QED BY <2>1, <2>7, <2>8
<1>12. CASE ExtendedToTheEnd
  <2>1. /\ phase = "extend" /\ phase' = "close" /\ calls' = calls
        /\ last \in 1..Len(segs) /\ UNCHANGED <<last, si, chunks, prev_end>>
    BY <1>12, <1>5, <1>6 DEF ExtendedToTheEnd, packing, TypeOK
  <2>2. calls <= asked + (last - 1) + Fresh[last] /\ Fresh[last] \in Nat
    BY <2>1, <1>6 DEF Cheap
  <2>3. calls' <= asked + last + Fresh[last]
    BY <2>1, <2>2, <1>2
  <2> QED BY <2>1, <2>3, <1>1, <1>4 DEF Cheap, args
\* Without overlap a chunk starts where its predecessor ended, so that none is
\* cut a second time.
<1>13. ~Recut
  <2> SUFFICES ASSUME Recut PROVE FALSE
    OBVIOUS
  <2>1. phase = "close" /\ chunks # <<>> /\ end <= prev_end /\ Packing
    BY DEF Recut, Contained, Packing
  <2>2. segs[si].start = prev_end /\ end = segs[last].end
    BY <2>1, <1>5 DEF Cheap, Candidate
  <2>3. si \in 1..Len(segs) /\ last \in 1..Len(segs) /\ si <= last
    BY <2>1, <1>5, <1>6 DEF TypeOK
  <2>4. segs[si].start \in Nat /\ segs[last].end \in Nat /\ segs[si].end \in Nat
        /\ segs[si].start < segs[si].end
    BY <2>1, <2>3, <1>5, SegmentFacts
  <2>5. segs[si].end <= segs[last].end
    <3>1. CASE si = last
      BY <3>1, <2>4
    <3>2. CASE si < last
      <4>1. segs[si].end < segs[last].end
        BY <3>2, <2>1, <2>3, <1>5, SegmentFacts
      <4> QED BY <4>1, <2>4
    <3> QED BY <3>1, <3>2, <2>3
  <2> QED BY <2>1, <2>2, <2>4, <2>5
<1>14. CASE Emit
  <2>1. /\ phase = "close" /\ phase' \in {"done", "walk"} /\ calls' = calls
        /\ last' = last
    BY <1>14 DEF Emit
  <2>2. calls <= asked + last + Fresh[last]
    BY <2>1 DEF Cheap
  <2>3. calls <= asked + Len(segs) + Fresh[Len(segs)]
    BY <2>1, CheapSoFar
  <2> QED BY <2>1, <2>2, <2>3, <1>1, <1>4 DEF Cheap, args
<1>15. ~Walk
  BY DEF Walk, Walking
<1>16. CASE WalkedOut
  <2>1. /\ phase = "walk" /\ phase' = "open" /\ si' = last + 1 /\ calls' = calls
        /\ UNCHANGED <<chunks, prev_end>> /\ Packing
    BY <1>16 DEF WalkedOut, StartNextAt, Packing
  <2>2. /\ prev_end = segs[last].end /\ segs[last].end < text.total
        /\ last \in 1..Len(segs)
    BY <2>1, <1>5, <1>6 DEF Candidate, TypeOK
  <2>3. last \in 1..Len(segs) - 1
    BY <2>1, <2>2, <1>5, SegmentFacts
  <2>4. segs[last + 1].start = prev_end
    BY <2>1, <2>2, <2>3, <1>5, SegmentFacts
  <2>5. calls <= asked + last + Fresh[last] /\ si' - 1 = last
    BY <2>1, <2>2 DEF Cheap
  <2> QED BY <2>1, <2>4, <2>5, <1>1, <1>4 DEF Cheap, args
<1>17. CASE UNCHANGED vars
  BY <1>17, <1>4 DEF Cheap, vars
<1> QED BY <1>7, <1>8, <1>9, <1>10, <1>11, <1>12, <1>13, <1>14, <1>15, <1>16,
           <1>17 DEF Next

\* Nothing is wasted, whatever the text and the spans: a chunk of the offsets
\* spelling stops short only of a segment that does not fit, and a call without
\* overlap, by either spelling, asks the counter a linear number of times.
THEOREM Thrifty == Spec => []NothingWasted
<1>1. Init => Cheap
  BY DEF Init, Cheap
<1>2. IInv /\ Cheap /\ [Next]_vars => Cheap'
  BY StepIInv, StepCheap
<1>3. IInv /\ CountsInv => PackedFull
  <2> SUFFICES ASSUME IInv, CountsInv, by_offsets,
                      NEW i \in 1..Len(chunks), NEW l \in 1..Len(segs),
                      segs[l].start = chunks[i].end
               PROVE  \/ TokensIn(chunks[i].start, segs[l].end) > MaxTokens
                      \/ TokensIn(chunks[i].start, chunks[i].end) > MaxTokens
    BY DEF PackedFull
  <2>1. TypeOK
    BY DEF IInv
  <2>2. Stuffed(chunks[i].start, chunks[i].end)
    BY DEF CountsInv, Filled
  <2>3. /\ TokensIn(chunks[i].start, segs[l].end)
             = Weight[<<chunks[i].start, segs[l].end>>]
        /\ TokensIn(chunks[i].start, chunks[i].end)
             = Weight[<<chunks[i].start, chunks[i].end>>]
    BY <2>1, ChunkPlaces, WeightIsCount
  <2> QED BY <2>2, <2>3 DEF Stuffed
<1>4. IInv /\ Cheap => CallsLinear
  <2> SUFFICES ASSUME IInv, Cheap, overlap = 0 PROVE CallsLinear
    BY DEF CallsLinear
  <2>1. TypeOK
    BY DEF IInv
  <2>2. calls <= Len(text.sentences) + Len(segs) + Fresh[Len(segs)]
    BY CheapSoFar DEF Cheap
  <2>3. Fresh[Len(segs)]
          = Cardinality({i \in 1..Len(segs) : segs[i].cached = Uncached})
    BY <2>1, FreshGrows DEF Fresh
  <2> QED BY <2>2, <2>3 DEF CallsLinear
<1>5. Spec => []Cheap
  BY <1>1, <1>2, Invariance, PTL DEF Spec
<1>6. PackedFull /\ CallsLinear => NothingWasted
  BY DEF NothingWasted
<1> QED BY <1>3, <1>4, <1>5, <1>6, CountsHold, PTL
==============================================================================
