---------------------------- MODULE Chunkers_proofs ----------------------------
(***************************************************************************)
(* Proofs about the chunkers of characters: chunk_text (TextChunks), then  *)
(* chunk_hierarchical (HierarchicalChunks), for every text, boundary set,  *)
(* list of levels, budget and overlap; then the windows over segments      *)
(* (SegmentChunks), for every list of segments.                            *)
(***************************************************************************)
EXTENDS TextChunks, HierarchicalChunks, SegmentChunks, TLAPS, WellFoundedInduction

-----------------------------------------------------------------------------
(* Least and greatest members.                                             *)

\* A nonempty set of naturals has a least member.
LEMMA LeastIs ==
  ASSUME NEW S \in SUBSET Nat, S # {}
  PROVE  Least(S) \in S /\ \A y \in S : Least(S) <= y
<1> DEFINE R == OpToRel(<, Nat)
<1>1. IsWellFoundedOn(R, Nat)
  BY NatLessThanWellFounded
<1>2. \A y, x \in Nat : y < x => <<y, x>> \in R
  BY DEF OpToRel
<1> HIDE DEF R
<1>3. PICK x \in S : \A y \in S : ~(<<y, x>> \in R)
  BY <1>1, WFMin
<1>4. ASSUME NEW y \in S PROVE x <= y
  <2>1. x \in Nat /\ y \in Nat
    OBVIOUS
  <2>2. ~(y < x)
    BY <1>2, <1>3, <2>1, Zenon
  <2> QED BY <2>1, <2>2
<1> QED BY <1>4 DEF Least

\* A nonempty set of naturals with an upper bound has a greatest member.
LEMMA GreatestIs ==
  ASSUME NEW S \in SUBSET Nat, S # {}, NEW n \in Nat, \A y \in S : y <= n
  PROVE  Greatest(S) \in S /\ \A y \in S : y <= Greatest(S)
<1> DEFINE T == {n - y : y \in S}
<1>1. T \in SUBSET Nat /\ T # {}
  <2>1. \A y \in S : n - y \in Nat
    OBVIOUS
  <2>2. \A x \in T : \E y \in S : x = n - y
    OBVIOUS
  <2>3. T # {}
    OBVIOUS
  <2> QED BY <2>1, <2>2, <2>3
<1>2. PICK x \in S : n - x = Least(T)
  BY <1>1, LeastIs
<1>3. \A y \in S : n - x <= n - y
  BY <1>1, <1>2, LeastIs
<1>4. \A y \in S : y <= x
  BY <1>3, SMT
<1> QED BY <1>4 DEF Greatest

-----------------------------------------------------------------------------
(* Cuts.                                                                   *)

\* The part of a call that the chunkers of characters share.
GoodCall ==
  /\ call.len \in Nat /\ call.max \in Nat \ {0}
  /\ call.grid \in SUBSET Nat /\ \A g \in call.grid : g <= call.len
  /\ 0 \in call.grid /\ call.len \in call.grid

\* What TextAssumption says of the call.
LEMMA CallFacts ==
  ASSUME call \in TextCalls
  PROVE  /\ call.how = "text" /\ call.len \in Nat /\ call.max \in Nat \ {0}
         /\ call.overlap \in Nat /\ call.overlap < call.max
         /\ call.grid \in SUBSET Nat /\ \A g \in call.grid : g <= call.len
         /\ 0 \in call.grid /\ call.len \in call.grid
         /\ cluster_safe_ends \subseteq call.grid
         /\ GoodCall
BY TextAssumption DEF cluster_safe_ends, GoodCall

\* Within the budget, or one cluster.
Fit(from, to) ==
  to - from <= call.max \/ \A g \in call.grid : g <= from \/ g >= to

\* A cut that moves on, on the grid and within the budget.
GoodCut(from, to) == to \in call.grid /\ from < to /\ Fit(from, to)

\* The raw cut is good: a cluster wider than the budget is taken whole.
LEMMA HardCut ==
  ASSUME GoodCall, NEW from \in call.grid, from + call.max < call.len
  PROVE  GoodCut(from, hard_cut(from, from + call.max))
<1> DEFINE limit == from + call.max
<1> DEFINE B == AtMost(call.grid, limit)
<1> DEFINE A == {g \in call.grid : g > from}
<1>1. from \in Nat /\ limit \in Nat /\ from < limit /\ limit < call.len
  BY DEF GoodCall
<1>2. B \in SUBSET Nat /\ B # {} /\ \A y \in B : y <= limit
  BY <1>1 DEF GoodCall, AtMost
<1>3. Greatest(B) \in B
  BY <1>1, <1>2, GreatestIs
<1>4. A \in SUBSET Nat /\ A # {}
  BY <1>1 DEF GoodCall
<1>5. Least(A) \in A /\ \A y \in A : Least(A) <= y
  BY <1>4, LeastIs
<1>6. CASE Greatest(B) > from
  <2>1. hard_cut(from, limit) = Greatest(B)
    BY <1>6 DEF hard_cut, last_at_or_before
  <2>2. Greatest(B) \in call.grid /\ Greatest(B) <= limit
    BY <1>3 DEF AtMost
  <2>3. Greatest(B) \in Nat
    BY <1>2, <1>3
  <2>4. Greatest(B) - from <= call.max
    BY <1>1, <2>2, <2>3 DEF GoodCall
  <2> QED BY <1>6, <2>1, <2>2, <2>4 DEF GoodCut, Fit
<1>7. CASE ~(Greatest(B) > from)
  <2>1. hard_cut(from, limit) = Least(A)
    BY <1>7 DEF hard_cut, last_at_or_before, first_after
  <2>2. ASSUME NEW g \in call.grid PROVE g <= from \/ g >= Least(A)
    <3>1. g \in Nat /\ Least(A) \in Nat
      BY <1>4, <1>5 DEF GoodCall
    <3>2. g \in A => Least(A) <= g
      BY <1>5
    <3>3. g > from => g \in A
      OBVIOUS
    <3> HIDE DEF A
    <3> QED BY <1>1, <3>1, <3>2, <3>3
  <2> QED BY <1>1, <1>5, <2>1, <2>2 DEF GoodCall, GoodCut, Fit
<1> QED BY <1>6, <1>7

\* So is the boundary cut.
LEMMA BoundaryCut ==
  ASSUME call \in TextCalls, NEW from \in call.grid, from + call.max < call.len
  PROVE  GoodCut(from, boundary_cut(from, from + call.max))
<1> DEFINE limit == from + call.max
<1> DEFINE W == {e \in cluster_safe_ends : from < e /\ e <= limit}
<1>1. from \in Nat /\ limit \in Nat
  BY CallFacts
<1>2. CASE W # {}
  <2>1. boundary_cut(from, limit) = Greatest(W)
    BY <1>2 DEF boundary_cut
  <2>2. W \in SUBSET Nat /\ \A y \in W : y <= limit
    BY CallFacts
  <2>3. Greatest(W) \in W
    BY <1>1, <1>2, <2>2, GreatestIs
  <2>4. Greatest(W) \in Nat /\ Greatest(W) \in call.grid
    BY <2>2, <2>3, CallFacts
  <2>5. from < Greatest(W) /\ Greatest(W) <= limit
    BY <2>3
  <2>6. Greatest(W) - from <= call.max
    BY <1>1, <2>4, <2>5, CallFacts
  <2> QED BY <2>1, <2>4, <2>5, <2>6 DEF GoodCut, Fit
<1>3. CASE W = {}
  <2>1. boundary_cut(from, limit) = hard_cut(from, limit)
    BY <1>3 DEF boundary_cut
  <2> QED BY <2>1, HardCut, CallFacts
<1> QED BY <1>2, <1>3

\* Trimming white space leaves a good cut good.
LEMMA TrimmedEnd ==
  ASSUME call \in TextCalls, NEW from \in call.grid, NEW cut \in call.grid,
         GoodCut(from, cut)
  PROVE  GoodCut(from, trimmed_end(from, cut))
<1> DEFINE S == {e \in call.grid \ call.blank : from < e /\ e <= cut}
<1>1. from \in Nat /\ cut \in Nat /\ call.grid \in SUBSET Nat
  BY CallFacts
<1>2. CASE S # {}
  <2>1. trimmed_end(from, cut) = Greatest(S)
    BY <1>2 DEF trimmed_end
  <2>2. S \in SUBSET Nat /\ \A y \in S : y <= cut
    BY <1>1
  <2>3. Greatest(S) \in S
    BY <1>1, <1>2, <2>2, GreatestIs
  <2> DEFINE e == Greatest(S)
  <2>4. e \in call.grid /\ e \in Nat /\ from < e /\ e <= cut
    BY <1>1, <2>3
  <2> HIDE DEF e, S
  <2>5. Fit(from, e)
    <3>1. CASE cut - from <= call.max
      <4>1. e - from <= call.max
        BY <1>1, <2>4, <3>1, CallFacts
      <4> QED BY <4>1 DEF Fit
    <3>2. CASE \A g \in call.grid : g <= from \/ g >= cut
      <4>1. e = cut
        BY <1>1, <2>4, <3>2
      <4> QED BY <3>2, <4>1 DEF Fit
    <3> QED BY <3>1, <3>2 DEF GoodCut, Fit
  <2> QED BY <2>1, <2>4, <2>5 DEF GoodCut, e
<1>3. CASE S = {}
  BY <1>3 DEF trimmed_end
<1> QED BY <1>2, <1>3

\* Every chunk ends at a good cut.
LEMMA CutEnd ==
  ASSUME call \in TextCalls, NEW from \in call.grid, from < call.len
  PROVE  GoodCut(from, cut_end(from))
<1>1. from \in Nat /\ call.len \in Nat /\ call.max \in Nat /\ call.len \in call.grid
  BY CallFacts
<1>2. CASE call.len - from <= call.max
  BY <1>1, <1>2 DEF cut_end, GoodCut, Fit
<1>3. CASE ~(call.len - from <= call.max)
  <2> DEFINE cut == boundary_cut(from, from + call.max)
  <2>1. GoodCut(from, cut)
    BY <1>1, <1>3, BoundaryCut
  <2>2. GoodCut(from, trimmed_end(from, cut))
    BY <2>1, TrimmedEnd DEF GoodCut
  <2> QED BY <1>3, <2>2 DEF cut_end
<1> QED BY <1>2, <1>3

\* Where a cut ends depends on the call alone.
LEMMA SameCut ==
  ASSUME call' = call, NEW x
  PROVE  cut_end(x)' = cut_end(x)
<1>1. cluster_safe_ends' = cluster_safe_ends
  BY DEF cluster_safe_ends
<1>2. \A n : hard_cut(x, n)' = hard_cut(x, n)
  <2>1. \A n : AtMost(call.grid, n)' = AtMost(call.grid, n)
    BY DEF AtMost
  <2>2. \A n : last_at_or_before(n)' = last_at_or_before(n)
    BY <2>1 DEF last_at_or_before
  <2>3. first_after(x)' = first_after(x)
    BY DEF first_after
  <2> QED BY <2>2, <2>3 DEF hard_cut
<1>3. \A n : boundary_cut(x, n)' = boundary_cut(x, n)
  BY <1>1, <1>2 DEF boundary_cut
<1>4. \A n : trimmed_end(x, n)' = trimmed_end(x, n)
  BY DEF trimmed_end
<1> QED BY <1>3, <1>4 DEF cut_end

-----------------------------------------------------------------------------
(* chunk_text: the invariant.                                              *)

Chunk == [start : Nat, end : Nat]

\* Chunk i starts and ends on the grid, within the budget or one cluster.
GoodChunks ==
  \A i \in 1..Len(chunks) :
    chunks[i].start \in call.grid /\ GoodCut(chunks[i].start, chunks[i].end)

\* The window moved on from the last chunk, not past its end, and its own
\* chunk will end past it.
Onward ==
  (status = "cutting" /\ chunks # <<>>) =>
    LET last == chunks[Len(chunks)]
    IN  /\ last.start < start /\ start <= last.end /\ last.end < call.len
        /\ last.end < cut_end(start)

IInv ==
  /\ call \in TextCalls
  /\ chunks \in Seq(Chunk)
  /\ status \in {"cutting", "done"}
  /\ start \in call.grid
  /\ chunks = <<>> => start = 0
  /\ GoodChunks
  /\ ChunksAdvance
  /\ Onward

\* The invariant holds at the start.
LEMMA Initially == TextInit => IInv
<1> SUFFICES ASSUME TextInit PROVE IInv
  OBVIOUS
<1>1. call \in TextCalls /\ chunks = <<>> /\ start = 0 /\ status = "cutting"
  BY DEF TextInit
<1>2. chunks \in Seq(Chunk) /\ Len(chunks) = 0
  BY <1>1
<1>3. start \in call.grid
  BY <1>1, CallFacts
<1>4. GoodChunks /\ ChunksAdvance /\ Onward
  BY <1>1, <1>2 DEF GoodChunks, ChunksAdvance, Onward
<1> QED BY <1>1, <1>2, <1>3, <1>4 DEF IInv

\* A window in hand, and where its chunk ends.
LEMMA InHand ==
  ASSUME IInv, status = "cutting", start < call.len
  PROVE  /\ GoodCut(start, cut_end(start))
         /\ start \in Nat /\ cut_end(start) \in Nat /\ start < cut_end(start)
         /\ chunks # <<>> =>
              /\ chunks[Len(chunks)].start < start
              /\ start <= chunks[Len(chunks)].end
              /\ chunks[Len(chunks)].end < cut_end(start)
<1>1. call \in TextCalls /\ start \in call.grid
  BY DEF IInv
<1>2. GoodCut(start, cut_end(start))
  BY <1>1, CutEnd
<1>3. start \in Nat /\ cut_end(start) \in Nat
  BY <1>1, <1>2, CallFacts DEF GoodCut
<1>4. Onward
  BY DEF IInv
<1> QED BY <1>2, <1>3, <1>4 DEF Onward, GoodCut

\* Pushing a good chunk that advances keeps what the invariant says of the chunks.
LEMMA PushKeeps ==
  ASSUME GoodCall, chunks \in Seq(Chunk), GoodChunks, ChunksAdvance, call' = call,
         NEW from \in call.grid, NEW to, GoodCut(from, to), Push(from, to),
         chunks # <<>> => chunks[Len(chunks)].start < from /\ chunks[Len(chunks)].end < to
  PROVE  /\ chunks' \in Seq(Chunk) /\ chunks' # <<>>
         /\ Len(chunks') = Len(chunks) + 1
         /\ \A i \in 1..Len(chunks) : chunks'[i] = chunks[i]
         /\ chunks'[Len(chunks')] = [start |-> from, end |-> to]
         /\ GoodChunks' /\ ChunksAdvance'
<1> DEFINE c == [start |-> from, end |-> to]
<1>1. from \in Nat /\ to \in Nat
  BY DEF GoodCall, GoodCut
<1>3. chunks' = Append(chunks, c) /\ c \in Chunk
  BY <1>1 DEF Push, Chunk
<1>4. c.start = from /\ c.end = to
  OBVIOUS
<1>5. chunks # <<>> => /\ chunks[Len(chunks)].start < c.start
                       /\ chunks[Len(chunks)].end < c.end
  BY <1>4
<1> HIDE DEF c
<1> DEFINE n == Len(chunks)
<1>6. /\ n \in Nat /\ Len(chunks') = n + 1 /\ chunks'[n + 1] = c
      /\ \A i \in 1..n : chunks'[i] = chunks[i]
      /\ chunks' \in Seq(Chunk) /\ chunks' # <<>>
  BY <1>3
<1>7. GoodChunks'
  <2>1. \A x, y : GoodCut(x, y)' = GoodCut(x, y)
    BY DEF GoodCut, Fit
  <2>2. SUFFICES ASSUME NEW i \in 1..(n + 1)
                 PROVE  /\ chunks'[i].start \in call.grid
                        /\ GoodCut(chunks'[i].start, chunks'[i].end)
    BY <1>6, <2>1 DEF GoodChunks, GoodCut, Fit
  <2>3. CASE i = n + 1
    BY <1>4, <1>6, <2>3
  <2>4. CASE i \in 1..n
    <3>1. chunks'[i] = chunks[i]
      BY <1>6, <2>4
    <3> QED BY <2>4, <3>1 DEF GoodChunks
  <2> QED BY <1>6, <2>3, <2>4
<1>8. ChunksAdvance'
  <2>1. SUFFICES ASSUME NEW i \in 2..(n + 1)
                 PROVE  /\ chunks'[i - 1].start < chunks'[i].start
                        /\ chunks'[i - 1].end < chunks'[i].end
    BY <1>6 DEF ChunksAdvance
  <2>2. i - 1 \in 1..n /\ chunks'[i - 1] = chunks[i - 1]
    BY <1>6
  <2>3. CASE i = n + 1
    <3>1. chunks # <<>> /\ i - 1 = n
      BY <1>6, <2>2, <2>3
    <3> QED BY <1>5, <1>6, <2>2, <2>3, <3>1
  <2>4. CASE i \in 2..n
    <3>1. chunks'[i] = chunks[i]
      BY <1>6, <2>4
    <3> QED BY <2>2, <2>4, <3>1 DEF ChunksAdvance
  <2> QED BY <1>6, <2>3, <2>4
<1> QED BY <1>6, <1>7, <1>8 DEF c

\* So does pushing the chunk of the window in hand.
LEMMA Pushed ==
  ASSUME IInv, status = "cutting", start < call.len, call' = call,
         Push(start, cut_end(start))
  PROVE  /\ chunks' \in Seq(Chunk) /\ chunks' # <<>>
         /\ chunks'[Len(chunks')] = [start |-> start, end |-> cut_end(start)]
         /\ GoodChunks' /\ ChunksAdvance'
<1>1. PICK from, to : from = start /\ to = cut_end(start)
  OBVIOUS
<1>2. /\ GoodCut(from, to) /\ Push(from, to)
      /\ chunks # <<>> => chunks[Len(chunks)].start < from /\ chunks[Len(chunks)].end < to
  BY <1>1, InHand
<1>3. GoodCall /\ chunks \in Seq(Chunk) /\ GoodChunks /\ ChunksAdvance /\ from \in call.grid
  BY <1>1, CallFacts DEF IInv
<1>4. /\ chunks' \in Seq(Chunk) /\ chunks' # <<>>
      /\ chunks'[Len(chunks')] = [start |-> from, end |-> to]
      /\ GoodChunks' /\ ChunksAdvance'
  BY <1>2, <1>3, PushKeeps
<1> QED BY <1>1, <1>4

\* The next window starts behind this one, not past its chunk, and will end past it.
LEMMA NextStart ==
  ASSUME IInv, status = "cutting", start < call.len, cut_end(start) < call.len,
         NEW next, next = IF call.overlap = 0 THEN cut_end(start)
                          ELSE snapped_start(cut_end(start))
  PROVE  /\ next \in call.grid /\ start < next /\ next <= cut_end(start)
         /\ cut_end(start) < cut_end(next)
<1> DEFINE e == cut_end(start)
<1>1. call \in TextCalls
  BY DEF IInv
<1>2. e \in call.grid /\ e \in Nat /\ start < e /\ start \in Nat
  BY InHand DEF GoodCut
<1>3. GoodCut(e, cut_end(e))
  BY <1>1, <1>2, CutEnd
<1>4. CASE next = e
  BY <1>2, <1>3, <1>4 DEF GoodCut
<1>5. CASE next # e
  <2> DEFINE before == AtMost(cluster_safe_ends, e - call.overlap)
  <2> DEFINE snapped == IF before # {} THEN Greatest(before) ELSE 0
  <2>1. next = snapped_start(e)
    BY <1>5
  <2>2. /\ start < snapped /\ snapped < e /\ cut_end(snapped) > e
        /\ next = snapped
    BY <1>5, <2>1 DEF snapped_start
  <2>3. snapped \in call.grid
    <3>1. CASE before = {}
      BY <1>1, <3>1, CallFacts
    <3>2. CASE before # {}
      <4>1. before \in SUBSET Nat /\ before \subseteq call.grid
        BY <1>1, CallFacts DEF AtMost
      <4>2. \A y \in before : y <= call.len
        BY <1>1, <4>1, CallFacts
      <4>3. Greatest(before) \in before
        BY <1>1, <3>2, <4>1, <4>2, GreatestIs, CallFacts
      <4> QED BY <3>2, <4>1, <4>3
    <3> QED BY <3>1, <3>2
  <2>4. snapped \in Nat
    BY <1>1, <2>3, CallFacts
  <2>5. cut_end(snapped) \in Nat
    <3>1. snapped < call.len
      BY <1>1, <1>2, <2>2, <2>4, CallFacts
    <3> QED BY <1>1, <2>3, <3>1, CutEnd, CallFacts DEF GoodCut
  <2> QED BY <1>2, <2>2, <2>3, <2>4, <2>5
<1> QED BY <1>4, <1>5

-----------------------------------------------------------------------------
(* chunk_text: every step keeps it.                                        *)

\* A window that is not the last.
LEMMA CutTextStep == IInv /\ CutText => IInv'
<1> SUFFICES ASSUME IInv, CutText PROVE IInv'
  OBVIOUS
<1> DEFINE e == cut_end(start)
<1>1. /\ status = "cutting" /\ status' = status /\ call' = call
      /\ start < call.len /\ e < call.len /\ Push(start, e)
      /\ start' = IF call.overlap = 0 THEN e ELSE snapped_start(e)
  BY DEF CutText
<1>2. /\ chunks' \in Seq(Chunk) /\ chunks' # <<>> /\ GoodChunks' /\ ChunksAdvance'
      /\ chunks'[Len(chunks')] = [start |-> start, end |-> e]
  BY <1>1, Pushed
<1>3. PICK next : next = start'
  OBVIOUS
<1>4. next = IF call.overlap = 0 THEN e ELSE snapped_start(e)
  BY <1>1, <1>3
<1>5. next \in call.grid /\ start < next /\ next <= e /\ e < cut_end(next)
  BY <1>1, <1>4, NextStart
<1>6. cut_end(start)' = cut_end(next)
  <2>1. cut_end(next)' = cut_end(next)
    BY <1>1, SameCut
  <2>2. cut_end(start)' = cut_end(next)'
    BY <1>3 DEF cut_end, trimmed_end, boundary_cut, hard_cut, cluster_safe_ends,
                last_at_or_before, first_after, AtMost
  <2> QED BY <2>1, <2>2
<1>7. Onward'
  <2>1. chunks'[Len(chunks')].start = start /\ chunks'[Len(chunks')].end = e
    BY <1>2
  <2> QED BY <1>1, <1>3, <1>5, <1>6, <2>1 DEF Onward
<1>8. call \in TextCalls /\ start' \in call.grid
  BY <1>3, <1>5 DEF IInv
<1> QED BY <1>1, <1>2, <1>7, <1>8 DEF IInv

\* The last window.
LEMMA LastTextStep == IInv /\ LastText => IInv'
<1> SUFFICES ASSUME IInv, LastText PROVE IInv'
  OBVIOUS
<1>1. /\ status = "cutting" /\ status' = "done" /\ call' = call /\ start' = start
      /\ start < call.len /\ Push(start, cut_end(start))
  BY DEF LastText
<1>2. chunks' \in Seq(Chunk) /\ chunks' # <<>> /\ GoodChunks' /\ ChunksAdvance'
  BY <1>1, Pushed
<1>3. Onward'
  BY <1>1 DEF Onward
<1> QED BY <1>1, <1>2, <1>3 DEF IInv

\* The empty text.
LEMMA EmptyTextStep == IInv /\ EmptyText => IInv'
<1> SUFFICES ASSUME IInv, EmptyText PROVE IInv'
  OBVIOUS
<1>1. status' = "done" /\ call' = call /\ start' = start /\ chunks' = chunks
  BY DEF EmptyText
<1> QED BY <1>1 DEF IInv, GoodChunks, GoodCut, Fit, ChunksAdvance, Onward

\* No step changes nothing and breaks it.
LEMMA Stuttering == IInv /\ UNCHANGED vars => IInv'
<1> SUFFICES ASSUME IInv, UNCHANGED vars PROVE IInv'
  OBVIOUS
<1>1. call' = call /\ chunks' = chunks /\ start' = start /\ status' = status
  BY DEF vars
<1>2. cut_end(start)' = cut_end(start)
  BY <1>1 DEF cut_end, trimmed_end, boundary_cut, hard_cut, cluster_safe_ends,
              last_at_or_before, first_after, AtMost
<1>3. GoodChunks' /\ ChunksAdvance'
  BY <1>1 DEF IInv, GoodChunks, GoodCut, Fit, ChunksAdvance
<1>4. Onward'
  BY <1>1, <1>2 DEF IInv, Onward
<1> QED BY <1>1, <1>3, <1>4 DEF IInv

\* The invariant is inductive.
LEMMA Invariance == TextSpec => []IInv
<1>1. IInv /\ [TextNext]_vars => IInv'
  BY CutTextStep, LastTextStep, EmptyTextStep, Stuttering DEF TextNext
<1> QED BY Initially, <1>1, PTL DEF TextSpec

-----------------------------------------------------------------------------
(* chunk_text: results.                                                    *)

\* The calls of chunk_text stay well typed: no chunk is empty or cuts a cluster.
THEOREM TypeCorrect == TextSpec => []TypeOK
<1>1. IInv => TypeOK
  <2> SUFFICES ASSUME IInv PROVE TypeOK
    OBVIOUS
  <2>1. call \in TextCalls /\ GoodChunks /\ start \in call.grid
    BY DEF IInv
  <2>2. start \in Nat /\ status \in {"cutting", "done"}
    BY <2>1, CallFacts DEF IInv
  <2> QED BY <2>1, <2>2 DEF TypeOK, GoodChunks, GoodCut
<1> QED BY Invariance, <1>1, PTL

\* Both ends of the chunks advance strictly, whatever the overlap pulls back.
THEOREM Advancing == TextSpec => []ChunksAdvance
<1>1. IInv => ChunksAdvance
  BY DEF IInv
<1> QED BY Invariance, <1>1, PTL

\* A chunk of chunk_text is within max_chars, or one cluster.
THEOREM Budgeted == TextSpec => []WithinBudget
<1>1. IInv => OverOnlyAsOneCluster
  BY DEF IInv, GoodChunks, GoodCut, Fit, OverOnlyAsOneCluster
<1> QED BY Invariance, TypeCorrect, <1>1, PTL DEF WithinBudget

\* Every window but the last starts behind the one before it.
THEOREM Progress == TextSpec => StartAdvances
<1>1. IInv /\ [TextNext]_vars => [start' > start \/ status' = "done"]_vars
  <2> SUFFICES ASSUME IInv, CutText PROVE start' > start
    BY DEF TextNext, LastText, EmptyText
  <2>1. PICK next : next = start'
    OBVIOUS
  <2>2. /\ status = "cutting" /\ start < call.len /\ cut_end(start) < call.len
        /\ next = IF call.overlap = 0 THEN cut_end(start)
                  ELSE snapped_start(cut_end(start))
    BY <2>1 DEF CutText
  <2>3. next \in call.grid /\ start < next
    BY <2>2, NextStart
  <2>4. start \in Nat /\ next \in Nat
    BY <2>3, CallFacts DEF IInv
  <2> QED BY <2>1, <2>3, <2>4
<1> QED BY Invariance, <1>1, PTL DEF TextSpec, StartAdvances

\* Every step of chunk_text is a step of the abstract cover.
LEMMA StepCovers ==
  IInv /\ [TextNext]_vars => [Covering!Next]_<<CoverTotal, CoverSpans, CoverStatus>>
<1> SUFFICES ASSUME IInv, [TextNext]_vars
             PROVE  [Covering!Next]_<<CoverTotal, CoverSpans, CoverStatus>>
  OBVIOUS
<1> DEFINE e == cut_end(start)
<1>1. /\ call.how = "text" /\ call.len \in Nat
      /\ \A g \in call.grid : g \in Nat /\ g <= call.len
  BY CallFacts DEF IInv
<1>2. CoverTotal = call.len /\ CoverSpans = chunks
  BY <1>1 DEF CoverTotal, CoverSpans
<1>3. ASSUME status = "cutting", start < call.len, Push(start, e), call' = call,
             status' = IF e = call.len THEN "done" ELSE "cutting"
      PROVE  Covering!Emit
  <2>1. /\ GoodCut(start, e) /\ start \in Nat /\ e \in Nat /\ start < e
        /\ chunks # <<>> =>
             /\ chunks[Len(chunks)].start < start
             /\ start <= chunks[Len(chunks)].end
             /\ chunks[Len(chunks)].end < e
    BY <1>3, InHand
  <2>2. e <= call.len
    BY <1>1, <2>1 DEF GoodCut
  <2> HIDE DEF e
  <2>3. start \in 0..CoverTotal /\ e \in 0..CoverTotal
    BY <1>1, <1>2, <2>1, <2>2
  <2>4. chunks = <<>> => start = 0
    BY DEF IInv
  <2>5. Covering!Continues(start, e)
    BY <1>2, <2>1, <2>4 DEF Covering!Continues
  <2>6. CoverSpans' = Append(CoverSpans, [start |-> start, end |-> e])
    BY <1>1, <1>2, <1>3 DEF Push, CoverSpans
  <2>7. /\ CoverStatus = "packing" /\ CoverTotal' = CoverTotal
        /\ CoverStatus' = IF e = CoverTotal THEN "covered" ELSE "packing"
    BY <1>1, <1>2, <1>3 DEF CoverStatus, CoverTotal
  <2> QED BY <2>1, <2>3, <2>5, <2>6, <2>7 DEF Covering!Emit
<1>4. CASE CutText
  <2>1. /\ status = "cutting" /\ start < call.len /\ Push(start, e) /\ call' = call
        /\ status' = "cutting" /\ e < call.len
    BY <1>4 DEF CutText
  <2>2. e # call.len
    BY <1>1, <2>1, InHand
  <2> QED BY <1>3, <2>1, <2>2 DEF Covering!Next
<1>5. CASE LastText
  <2>1. /\ status = "cutting" /\ start < call.len /\ Push(start, e) /\ call' = call
        /\ status' = "done" /\ e = call.len
    BY <1>5 DEF LastText
  <2> QED BY <1>3, <2>1 DEF Covering!Next
<1>6. CASE EmptyText
  <2>1. /\ status = "cutting" /\ status' = "done" /\ call.len = 0
        /\ call' = call /\ chunks' = chunks
    BY <1>6 DEF EmptyText
  <2>2. Covering!Nothing
    BY <1>1, <2>1 DEF Covering!Nothing, CoverTotal, CoverSpans, CoverStatus
  <2> QED BY <2>2 DEF Covering!Next
<1>7. CASE UNCHANGED vars
  BY <1>7 DEF vars, CoverTotal, CoverSpans, CoverStatus
<1> QED BY <1>4, <1>5, <1>6, <1>7 DEF TextNext

\* chunk_text is a covering chunker, whatever the boundaries it prefers.
THEOREM Refinement == TextSpec => TextCovers
<1>1. TextInit => Covering!Init
  BY CallFacts DEF TextInit, Covering!Init, CoverTotal, CoverSpans, CoverStatus
<1>2. TextSpec => [][Covering!Next]_<<CoverTotal, CoverSpans, CoverStatus>>
  BY StepCovers, Invariance, PTL DEF TextSpec
<1> QED BY <1>1, <1>2, PTL DEF TextSpec, TextCovers, Covering!Spec

-----------------------------------------------------------------------------
(* chunk_hierarchical: the call.                                           *)

Rows(k) == call.slots[k].cuts \cup call.slots[k].skips

\* What HierarchyAssumption says of the call.
LEMMA HierarchyFacts ==
  ASSUME call \in HierarchicalCalls
  PROVE  /\ GoodCall /\ call.how = "hierarchical"
         /\ call.overlap \in Nat /\ call.overlap < call.max /\ call.words \subseteq call.grid
         /\ Len(call.slots) \in Nat /\ Slots \in SUBSET Nat
         /\ \A k \in Slots : \A r \in Rows(k) :
              r.end \in call.grid /\ r.next \in call.grid /\ r.end <= r.next
<1>1. /\ call.how = "hierarchical" /\ call.len \in Nat /\ call.max \in Nat \ {0}
      /\ call.overlap \in Nat /\ call.overlap < call.max
      /\ call.grid \subseteq 0..call.len /\ {0, call.len} \subseteq call.grid
      /\ call.words \subseteq call.grid /\ Len(call.slots) \in Nat
  BY HierarchyAssumption
<1>2. GoodCall
  BY <1>1 DEF GoodCall
<1>3. ASSUME NEW k \in Slots, NEW r \in Rows(k)
      PROVE  r.end \in call.grid /\ r.next \in call.grid /\ r.end <= r.next
  <2>1. IsRows(call.slots[k].cuts, call) /\ IsRows(call.slots[k].skips, call)
    BY HierarchyAssumption DEF Slots
  <2>2. r \in {x \in [end : call.grid, next : call.grid] : x.end <= x.next}
    BY <2>1 DEF Rows, IsRows
  <2> QED BY <2>2
<1> QED BY <1>1, <1>2, <1>3 DEF Slots

\* What LevelsAssumption says of a row that loses something.
LEMMA LossyRow ==
  ASSUME call \in HierarchicalCalls, NEW k \in Slots, NEW r \in Rows(k), r.end < r.next
  PROVE  \/ k \in Headings /\ call.hash
         \/ call.slots[k].kind = "literal" /\ (r.end = 0 => call.slots[k].leads)
         \/ call.slots[k].kind = "paragraph" /\ r.end > 0
BY LevelsAssumption DEF Slots, Rows, Headings

\* A slot that is not open has no rows.
LEMMA ClosedSlot ==
  ASSUME call \in HierarchicalCalls, NEW k \in Slots, ~Open(k)
  PROVE  Rows(k) = {}
BY LevelsAssumption DEF Slots, Rows, Headings, Open

\* The first of some slots.
LEMMA FirstSlot ==
  ASSUME call \in HierarchicalCalls, NEW S \in SUBSET Slots, S # {}
  PROVE  \E k \in S : \A j \in S : k <= j
<1>1. S \in SUBSET Nat
  BY HierarchyFacts
<1> QED BY <1>1, LeastIs

-----------------------------------------------------------------------------
(* The levels' answers.                                                    *)

\* The cuts of a slot that a window may use.
Within(k, after, limit) == {r \in call.slots[k].cuts : after < r.end /\ r.end <= limit}

\* A best cut lies within the window; it is the first of a heading's, the
\* largest of any other slot's.
LEMMA BestCut ==
  ASSUME call \in HierarchicalCalls, NEW k \in Slots,
         NEW after \in call.grid, NEW limit \in Nat, NEW r \in best_cut(k, after, limit)
  PROVE  /\ r \in Within(k, after, limit) /\ r \in Rows(k)
         /\ \A s \in Within(k, after, limit) :
              IF k \in Headings THEN r.end <= s.end ELSE s.end <= r.end
<1> DEFINE W == Within(k, after, limit)
<1> DEFINE ends == {x.end : x \in W}
<1>1. r \in W /\ r.end = IF k \in Headings THEN Least(ends) ELSE Greatest(ends)
  BY DEF best_cut, Within
<1>2. ends \in SUBSET Nat /\ ends # {} /\ \A y \in ends : y <= limit
  <2>1. \A x \in W : x.end \in Nat /\ x.end <= limit
    BY HierarchyFacts DEF Within, Rows, GoodCall
  <2> QED BY <1>1, <2>1
<1>3. \A y \in ends : IF k \in Headings THEN r.end <= y ELSE y <= r.end
  <2>1. CASE k \in Headings
    BY <1>1, <1>2, <2>1, LeastIs
  <2>2. CASE k \notin Headings
    BY <1>1, <1>2, <2>2, GreatestIs
  <2> QED BY <2>1, <2>2
<1> QED BY <1>1, <1>3 DEF Rows, Within

\* A slot with a cut for the window has a best one.
LEMMA BestCutExists ==
  ASSUME call \in HierarchicalCalls, NEW k \in Slots,
         NEW after \in call.grid, NEW limit \in Nat, Within(k, after, limit) # {}
  PROVE  best_cut(k, after, limit) # {}
<1> DEFINE W == Within(k, after, limit)
<1> DEFINE ends == {x.end : x \in W}
<1>1. ends \in SUBSET Nat /\ ends # {} /\ \A y \in ends : y <= limit
  <2>1. \A x \in W : x.end \in Nat /\ x.end <= limit
    BY HierarchyFacts DEF Within, Rows, GoodCall
  <2> QED BY <2>1
<1> DEFINE e == IF k \in Headings THEN Least(ends) ELSE Greatest(ends)
<1>2. e \in ends
  <2>1. CASE k \in Headings
    BY <1>1, <2>1, LeastIs
  <2>2. CASE k \notin Headings
    BY <1>1, <2>2, GreatestIs
  <2> QED BY <2>1, <2>2
<1>3. PICK r \in W : r.end = e
  BY <1>2
<1>4. r \in best_cut(k, after, limit)
  BY <1>3 DEF best_cut, Within
<1> QED BY <1>4

\* All best cuts of a slot end alike.
LEMMA OneEnd ==
  ASSUME NEW k, NEW after, NEW limit,
         NEW r \in best_cut(k, after, limit), NEW s \in best_cut(k, after, limit)
  PROVE  r.end = s.end
BY DEF best_cut

\* At most one slot gives the verdict, and one does if any slot answers.
LEMMA OneVerdict ==
  ASSUME call \in HierarchicalCalls, NEW at, NEW limit
  PROVE  /\ \A j, k \in Verdict(at, limit) : j = k
         /\ \A k \in Slots : Answers(k, at, limit) => \E j \in Verdict(at, limit) : j <= k
<1>1. Slots \in SUBSET Nat
  BY HierarchyFacts
<1>2. \A j, k \in Slots : j < k => j \in 1..(k - 1)
  BY <1>1 DEF Slots
<1>3. ASSUME NEW j \in Verdict(at, limit), NEW k \in Verdict(at, limit), j < k PROVE FALSE
  <2>1. j \in Slots /\ k \in Slots /\ Answers(j, at, limit)
    BY DEF Verdict, Consulted
  <2>2. ~Answers(j, at, limit)
    BY <1>2, <1>3, <2>1 DEF Verdict, Consulted
  <2> QED BY <2>1, <2>2
<1>4. \A j, k \in Verdict(at, limit) : j = k
  <2>1. \A j \in Verdict(at, limit) : j \in Nat
    BY <1>1 DEF Verdict, Consulted
  <2> QED BY <1>3, <2>1
<1>5. ASSUME NEW k \in Slots, Answers(k, at, limit)
      PROVE  \E j \in Verdict(at, limit) : j <= k
  <2> DEFINE S == {j \in Slots : Answers(j, at, limit)}
  <2>1. PICK j \in S : \A i \in S : j <= i
    BY <1>5, FirstSlot
  <2>2. j \in Slots /\ Open(j) /\ Answers(j, at, limit)
    BY <2>1 DEF Answers
  <2>3. ASSUME NEW i \in 1..(j - 1) PROVE ~Answers(i, at, limit)
    <3>1. i \in Slots /\ i < j
      BY <1>1, <2>2, HierarchyFacts DEF Slots
    <3>2. i \in Nat /\ j \in Nat
      BY <1>1, <2>2, <3>1
    <3> QED BY <2>1, <3>1, <3>2
  <2>4. j \in Verdict(at, limit)
    BY <2>2, <2>3 DEF Verdict, Consulted
  <2> QED BY <1>5, <2>1, <2>4
<1> QED BY <1>4, <1>5
-----------------------------------------------------------------------------
(* What lies ahead of a window.                                            *)

\* The best cuts of the first slot that has any, as the lookahead asks for them.
Ahead(from, limit) == UNION {best_cut(k, from, limit) : k \in LookedAt(from, limit)}

\* They all end alike.
LEMMA AheadOneEnd ==
  ASSUME call \in HierarchicalCalls, NEW from, NEW limit,
         NEW r \in Ahead(from, limit), NEW s \in Ahead(from, limit)
  PROVE  r.end = s.end
<1>1. PICK k \in LookedAt(from, limit) : r \in best_cut(k, from, limit)
  BY DEF Ahead
<1>2. PICK j \in LookedAt(from, limit) : s \in best_cut(j, from, limit)
  BY DEF Ahead
<1>3. j \in Slots /\ Open(j) /\ k \in Slots /\ Open(k) /\ j \in Nat /\ k \in Nat
  BY HierarchyFacts DEF LookedAt
<1>4. ~(j < k)
  BY <1>2, <1>3 DEF LookedAt, Slots
<1>5. ~(k < j)
  BY <1>1, <1>3 DEF LookedAt, Slots
<1>6. j = k
  BY <1>3, <1>4, <1>5
<1> QED BY <1>1, <1>2, <1>6, OneEnd

\* An open slot with a cut for the window is looked at, or one before it has one.
LEMMA AheadExists ==
  ASSUME call \in HierarchicalCalls, NEW k \in Slots, Open(k),
         NEW from \in call.grid, NEW limit \in Nat, Within(k, from, limit) # {}
  PROVE  \E j \in LookedAt(from, limit) : j <= k /\ best_cut(j, from, limit) # {}
<1> DEFINE S == {j \in Slots : Open(j) /\ best_cut(j, from, limit) # {}}
<1>1. k \in S
  BY BestCutExists
<1>2. PICK j \in S : \A i \in S : j <= i
  BY <1>1, FirstSlot
<1>3. j \in Slots /\ j \in Nat
  BY HierarchyFacts
<1>4. ASSUME NEW i \in 1..(j - 1) PROVE ~(Open(i) /\ best_cut(i, from, limit) # {})
  <2>1. i \in Slots /\ i < j /\ i \in Nat
    BY <1>3, HierarchyFacts DEF Slots
  <2> QED BY <1>2, <1>3, <2>1
<1>5. j \in LookedAt(from, limit)
  BY <1>2, <1>4 DEF LookedAt
<1> QED BY <1>1, <1>2, <1>5

\* Every chunk that a window before p can give ends behind p, unless it fits.
Beyond(from, p) ==
  from + call.max < call.len =>
    /\ \E g \in call.grid : p < g /\ g <= from + call.max
    /\ \A r \in Ahead(from, from + call.max) : p < r.end

\* Skipping a separator does not change that.
LEMMA BeyondSkips ==
  ASSUME call \in HierarchicalCalls, NEW s \in call.grid, NEW n \in call.grid,
         NEW p \in call.grid, s < n, n < p, Beyond(s, p)
  PROVE  Beyond(n, p)
<1> DEFINE l == s + call.max
<1> DEFINE m == n + call.max
<1> SUFFICES ASSUME m < call.len
             PROVE  /\ \E g \in call.grid : p < g /\ g <= m
                    /\ \A r \in Ahead(n, m) : p < r.end
  BY DEF Beyond
<1>1. /\ s \in Nat /\ n \in Nat /\ p \in Nat /\ call.max \in Nat /\ call.len \in Nat
      /\ l \in Nat /\ m \in Nat /\ l < m
  BY HierarchyFacts DEF GoodCall
<1>2. \A g \in call.grid : g \in Nat
  BY HierarchyFacts DEF GoodCall
<1>3. s + call.max < call.len
  BY <1>1
<1>4. PICK g \in call.grid : p < g /\ g <= l
  BY <1>3, Zenon DEF Beyond
<1>5. \A r \in Ahead(s, l) : p < r.end
  BY <1>3, Zenon DEF Beyond
<1> HIDE DEF l, m
<1>6. ASSUME NEW r \in Ahead(n, m) PROVE p < r.end
  <2>1. PICK k \in LookedAt(n, m) : r \in best_cut(k, n, m)
    BY DEF Ahead
  <2>2. k \in Slots /\ Open(k) /\ k \in Nat
    BY HierarchyFacts DEF LookedAt
  <2>3. r \in Within(k, n, m)
    BY <1>1, <2>1, <2>2, BestCut
  <2>4. r \in call.slots[k].cuts /\ n < r.end /\ r.end <= m /\ r.end \in Nat
    BY <1>2, <2>2, <2>3, HierarchyFacts DEF Within, Rows
  <2>5. CASE l < r.end
    BY <1>1, <1>2, <1>4, <2>4, <2>5
  <2>6. CASE r.end <= l
    <3>1. r \in Within(k, s, l)
      BY <1>1, <2>4, <2>6 DEF Within
    <3>2. PICK j \in LookedAt(s, l) : j <= k /\ best_cut(j, s, l) # {}
      BY <1>1, <2>2, <3>1, AheadExists
    <3>3. j \in Slots /\ Open(j) /\ j \in Nat
      BY HierarchyFacts DEF LookedAt
    <3>4. PICK q \in best_cut(j, s, l) : p < q.end
      BY <1>5, <3>2 DEF Ahead
    <3>5. q \in Within(j, s, l)
      BY <1>1, <3>3, <3>4, BestCut
    <3>6. q \in call.slots[j].cuts /\ q.end <= l /\ q.end \in Nat
      BY <1>2, <3>3, <3>5, HierarchyFacts DEF Within, Rows
    <3>7. q \in Within(j, n, m)
      BY <1>1, <3>4, <3>6 DEF Within
    <3>8. best_cut(j, n, m) # {}
      BY <1>1, <3>3, <3>7, BestCutExists
    <3>9. j = k
      <4>1. ~(j < k)
        BY <2>1, <2>2, <3>3, <3>8 DEF LookedAt, Slots
      <4> QED BY <2>2, <3>2, <3>3, <4>1
    <3>10. CASE k \in Headings
      <4>1. q.end <= r.end
        BY <1>1, <2>2, <3>1, <3>4, <3>9, <3>10, BestCut
      <4> QED BY <1>1, <2>4, <3>4, <3>6, <4>1
    <3>11. CASE k \notin Headings
      <4>1. q.end <= r.end
        BY <1>1, <2>1, <2>2, <3>7, <3>9, <3>11, BestCut
      <4> QED BY <1>1, <2>4, <3>4, <3>6, <4>1
    <3> QED BY <3>10, <3>11
  <2> QED BY <1>1, <2>4, <2>5, <2>6
<1> QED BY <1>1, <1>2, <1>4, <1>6

\* A raw cut behind p is within the budget, and there is one where the budget
\* reaches a boundary behind p.
LEMMA HardBeyond ==
  ASSUME call \in HierarchicalCalls, NEW s \in call.grid, NEW p \in call.grid, s < p,
         s + call.max < call.len
  PROVE  /\ p < hard_cut(s, s + call.max) => hard_cut(s, s + call.max) <= s + call.max
         /\ (\E g \in call.grid : p < g /\ g <= s + call.max) => p < hard_cut(s, s + call.max)
<1> DEFINE limit == s + call.max
<1> DEFINE h == hard_cut(s, limit)
<1>1. /\ s \in Nat /\ p \in Nat /\ call.max \in Nat /\ limit \in Nat
      /\ \A g \in call.grid : g \in Nat
  BY HierarchyFacts DEF GoodCall
<1>2. GoodCut(s, h) /\ h \in Nat
  <2>1. GoodCut(s, h)
    BY HierarchyFacts, HardCut
  <2> QED BY <1>1, <2>1 DEF GoodCut
<1>3. ASSUME p < h PROVE h <= limit
  <2> HIDE DEF h
  <2>1. CASE h - s <= call.max
    BY <1>1, <1>2, <2>1
  <2>2. CASE \A g \in call.grid : g <= s \/ g >= h
    BY <1>1, <1>2, <1>3, <2>2
  <2> QED BY <1>2, <2>1, <2>2 DEF GoodCut, Fit
<1>4. ASSUME NEW g \in call.grid, p < g, g <= limit PROVE p < h
  <2> DEFINE B == AtMost(call.grid, limit)
  <2>1. B \in SUBSET Nat /\ B # {} /\ (\A y \in B : y <= limit) /\ g \in B
    BY <1>1, <1>4 DEF AtMost
  <2>2. Greatest(B) \in Nat /\ g <= Greatest(B)
    BY <1>1, <2>1, GreatestIs
  <2>3. h = Greatest(B)
    <3>1. Greatest(B) > s
      BY <1>1, <1>4, <2>2
    <3> QED BY <3>1 DEF hard_cut, last_at_or_before
  <2> QED BY <1>1, <1>4, <2>2, <2>3
<1> QED BY <1>3, <1>4

\* The first slot's cut for a predicted window.
LEMMA Predicted ==
  ASSUME call \in HierarchicalCalls, NEW from \in call.grid, NEW limit \in Nat,
         NEW r \in demotion_predicted_cut(from, limit)
  PROVE  \E k \in Verdict(from, limit) : k \in Slots /\ r \in best_cut(k, from, limit)
BY DEF demotion_predicted_cut, Verdict, Consulted

\* The lookahead accepts a start before p only if every chunk from there ends behind p.
LEMMA NextEndBeyond ==
  ASSUME call \in HierarchicalCalls, NEW s \in call.grid, NEW p \in call.grid, s < p,
         next_end(s, p) > p
  PROVE  p < call.len /\ Beyond(s, p)
<1> DEFINE limit == s + call.max
<1>1. /\ s \in Nat /\ p \in Nat /\ call.max \in Nat /\ call.len \in Nat /\ limit \in Nat
      /\ \A g \in call.grid : g \in Nat /\ g <= call.len
  BY HierarchyFacts DEF GoodCall
<1>2. CASE call.len - s <= call.max
  <2> DEFINE past == {r \in demotion_predicted_cut(s, call.len) : r.end > p}
  <2>1. next_end(s, p) = IF past # {} THEN (CHOOSE r \in past : TRUE).end ELSE call.len
    BY <1>2 DEF next_end
  <2>2. ASSUME NEW r \in past PROVE p < call.len
    <3>1. PICK k \in Slots : r \in best_cut(k, s, call.len)
      BY <1>1, Predicted
    <3>2. r.end \in call.grid
      BY <1>1, <3>1, BestCut, HierarchyFacts
    <3> QED BY <1>1, <2>2, <3>2
  <2>3. p < call.len
    BY <1>1, <2>1, <2>2
  <2> QED BY <1>1, <1>2, <2>3 DEF Beyond
<1>3. CASE ~(call.len - s <= call.max)
  <2>1. limit < call.len
    BY <1>1, <1>3
  <2>2. next_end(s, p) = IF Ahead(s, limit) # {} THEN (CHOOSE r \in Ahead(s, limit) : TRUE).end
                         ELSE hard_cut(s, limit)
    BY <1>3 DEF next_end, Ahead
  <2>3. CASE Ahead(s, limit) # {}
    <3>1. PICK r \in Ahead(s, limit) : r.end > p
      BY <2>2, <2>3
    <3>2. \A q \in Ahead(s, limit) : q.end = r.end
      BY <3>1, AheadOneEnd
    <3>3. PICK k \in Slots : r \in best_cut(k, s, limit)
      BY <3>1 DEF Ahead, LookedAt
    <3>4. r.end \in call.grid /\ r.end <= limit
      BY <1>1, <3>3, BestCut, HierarchyFacts DEF Within
    <3> QED BY <1>1, <2>1, <3>1, <3>2, <3>4 DEF Beyond
  <2>4. CASE Ahead(s, limit) = {}
    <3> DEFINE h == hard_cut(s, limit)
    <3>1. p < h
      BY <1>1, <2>2, <2>4, HierarchyFacts, HardCut, <2>1 DEF GoodCut
    <3>2. h \in call.grid
      BY <2>1, HierarchyFacts, HardCut DEF GoodCut
    <3>3. h <= limit
      BY <2>1, <3>1, HardBeyond
    <3> QED BY <1>1, <2>1, <2>4, <3>1, <3>2, <3>3 DEF Beyond
  <2> QED BY <2>3, <2>4
<1> QED BY <1>2, <1>3
-----------------------------------------------------------------------------
(* chunk_hierarchical: the invariant.                                      *)

\* The windows moved on from the last chunk, and what they give ends behind it.
Forward ==
  status = "cutting" =>
    /\ chunks # <<>> => chunks[Len(chunks)].start < start
    /\ start < PrevEnd => PrevEnd < call.len /\ Beyond(start, PrevEnd)

\* A position in a chunk, or in what a level loses.
Kept(p) ==
  \/ \E i \in 1..Len(chunks) : chunks[i].start <= p /\ p < chunks[i].end
  \/ \E k \in Slots : \E r \in Rows(k) : r.end <= p /\ p < r.next

\* Nothing before the window was lost, and nothing at all at the end.
NothingLost ==
  \A p \in 0..(call.len - 1) : (p < start \/ status = "done") => Kept(p)

HInv ==
  /\ call \in HierarchicalCalls
  /\ chunks \in Seq(Chunk)
  /\ status \in {"cutting", "done"}
  /\ start \in call.grid
  /\ GoodChunks
  /\ ChunksAdvance
  /\ Forward
  /\ NothingLost
  /\ SectionsStayApart
  /\ CoarsestNeverOpens

\* The invariant holds at the start.
LEMMA HierarchyStarts == HierarchicalInit => HInv
<1> SUFFICES ASSUME HierarchicalInit PROVE HInv
  OBVIOUS
<1>1. call \in HierarchicalCalls /\ chunks = <<>> /\ start = 0 /\ status = "cutting"
  BY DEF HierarchicalInit
<1>2. chunks \in Seq(Chunk) /\ Len(chunks) = 0
  BY <1>1
<1>3. start \in call.grid
  BY <1>1, HierarchyFacts DEF GoodCall
<1>4. GoodChunks /\ ChunksAdvance /\ SectionsStayApart /\ CoarsestNeverOpens
  BY <1>2 DEF GoodChunks, ChunksAdvance, SectionsStayApart, CoarsestNeverOpens
<1>5. Forward
  BY <1>1 DEF Forward, PrevEnd
<1>6. NothingLost
  BY <1>1 DEF NothingLost
<1> QED BY <1>1, <1>2, <1>3, <1>4, <1>5, <1>6 DEF HInv

\* The numbers of a state.
LEMMA Numbers ==
  ASSUME HInv
  PROVE  /\ start \in Nat /\ call.len \in Nat /\ call.max \in Nat \ {0} /\ Limit \in Nat
         /\ \A g \in call.grid : g \in Nat /\ g <= call.len
         /\ PrevEnd \in call.grid
         /\ PrevEnd # 0 => chunks # <<>>
<1>1. /\ GoodCall /\ start \in call.grid /\ chunks \in Seq(Chunk) /\ GoodChunks
  BY HierarchyFacts DEF HInv
<1>2. PrevEnd \in call.grid
  <2>1. CASE chunks = <<>>
    BY <1>1, <2>1 DEF PrevEnd, GoodCall
  <2>2. CASE chunks # <<>>
    <3>1. Len(chunks) \in 1..Len(chunks)
      BY <1>1, <2>2
    <3> QED BY <1>1, <2>2, <3>1 DEF PrevEnd, GoodChunks, GoodCut
  <2> QED BY <2>1, <2>2
<1> QED BY <1>1, <1>2 DEF GoodCall, Limit, PrevEnd

-----------------------------------------------------------------------------
(* The windows' answers.                                                   *)

\* Where the pre-test answers no, no slot has a separator that opens here.
LEMMA PretestSays ==
  ASSUME HInv, Final, ~separator_may_open(AfterFinalTest)
  PROVE  \A k \in Slots : skip_cut(k, start) = {}
<1> SUFFICES ASSUME NEW k \in Slots, skip_cut(k, start) # {} PROVE FALSE
  OBVIOUS
<1>1. call \in HierarchicalCalls
  BY DEF HInv
<1>2. PICK r \in Rows(k) : r.end = start /\ r.next > start
  BY DEF skip_cut, Rows
<1>3. k \notin AfterFinalTest
  BY DEF separator_may_open
<1>4. /\ ~(call.slots[k].kind = "literal" /\ (start > 0 \/ call.slots[k].leads))
      /\ ~(call.slots[k].kind = "paragraph" /\ start > 0)
  BY <1>3 DEF separator_may_open
<1>5. ~(k \in Headings /\ call.hash)
  BY <1>3 DEF AfterFinalTest, Final, DemotionRealizes, Open
<1>6. r.end < r.next /\ start \in Nat
  BY <1>2, Numbers
<1> QED BY <1>1, <1>2, <1>4, <1>5, <1>6, LossyRow

\* The first slot's separator is never passed over: where it opens, the verdict skips.
LEMMA FirstSlotSkips ==
  ASSUME HInv, 1 \in Slots, Open(1), \A k \in Verdict(start, Limit) : ~Opens(k)
  PROVE  skip_cut(1, start) = {}
<1> SUFFICES ASSUME skip_cut(1, start) # {} PROVE FALSE
  OBVIOUS
<1>1. call \in HierarchicalCalls
  BY DEF HInv
<1>2. PICK k \in Verdict(start, Limit) : k <= 1
  BY <1>1, OneVerdict DEF Answers
<1>3. k \in Slots
  BY DEF Verdict, Consulted
<1>4. k = 1
  BY <1>2, <1>3 DEF Slots
<1> QED BY <1>2, <1>4 DEF Opens

\* A cut comes from the slot that gives the verdict, or no slot gives one.
LEMMA CutsAre ==
  ASSUME HInv, NEW r \in Cuts
  PROVE  \/ \E k \in Slots : /\ k \in Verdict(start, Limit) /\ ~Opens(k)
                             /\ r \in best_cut(k, start, Limit)
         \/ /\ Verdict(start, Limit) = {}
            /\ r.end = hard_cut(start, Limit) /\ r.next = hard_cut(start, Limit)
BY DEF Cuts, Verdict, Consulted

\* A cut is good, and behind the end of the last chunk.
LEMMA CutIsGood ==
  ASSUME HInv, status = "cutting", start < call.len, ~Final, NEW r \in Cuts
  PROVE  /\ GoodCut(start, r.end) /\ PrevEnd < r.end
         /\ r.next \in call.grid /\ r.end <= r.next
         /\ r.end < r.next => \E k \in Slots : r \in Rows(k)
<1>1. /\ call \in HierarchicalCalls /\ start \in call.grid /\ Forward
  BY DEF HInv
<1>2. /\ start \in Nat /\ call.len \in Nat /\ call.max \in Nat /\ Limit \in Nat
      /\ (\A g \in call.grid : g \in Nat /\ g <= call.len) /\ PrevEnd \in call.grid
      /\ Limit = start + call.max
  BY Numbers DEF Limit
<1>3. PICK q : Fits => q \in demotion_predicted_cut(start, Limit) /\ ~(q.end <= PrevEnd)
  BY DEF Final
<1>4. ASSUME NEW k \in Slots, k \in Verdict(start, Limit), ~Opens(k),
             r \in best_cut(k, start, Limit)
      PROVE  /\ GoodCut(start, r.end) /\ PrevEnd < r.end
             /\ r.next \in call.grid /\ r.end <= r.next /\ r \in Rows(k)
  <2>1. r \in Within(k, start, Limit) /\ r \in Rows(k)
    BY <1>1, <1>2, <1>4, BestCut
  <2>2. r.end \in call.grid /\ r.next \in call.grid /\ r.end <= r.next
    BY <1>1, <2>1, HierarchyFacts
  <2>3. start < r.end /\ r.end <= Limit
    BY <2>1 DEF Within
  <2>4. GoodCut(start, r.end)
    BY <1>2, <2>2, <2>3 DEF GoodCut, Fit
  <2>5. CASE Fits
    <3>1. PICK j \in Verdict(start, Limit) : q \in best_cut(j, start, Limit)
      BY <1>1, <1>2, <1>3, <2>5, Predicted
    <3>2. j = k
      BY <1>1, <1>4, <3>1, OneVerdict
    <3>3. q.end = r.end
      BY <1>4, <3>1, <3>2, OneEnd
    <3> QED BY <1>2, <1>3, <2>1, <2>2, <2>4, <2>5, <3>3
  <2>6. CASE ~Fits /\ start < PrevEnd
    <3>1. Beyond(start, PrevEnd) /\ start + call.max < call.len
      BY <1>1, <1>2, <2>6 DEF Forward, Fits
    <3>2. k \in LookedAt(start, Limit)
      BY <1>4 DEF Verdict, Consulted, LookedAt, Answers
    <3>3. r \in Ahead(start, start + call.max)
      BY <1>2, <1>4, <3>2 DEF Ahead
    <3>4. PrevEnd < r.end
      BY <3>1, <3>3, Zenon DEF Beyond
    <3> QED BY <2>1, <2>2, <2>4, <3>4
  <2>7. CASE ~(start < PrevEnd)
    BY <1>2, <2>1, <2>2, <2>3, <2>4, <2>7
  <2> QED BY <2>5, <2>6, <2>7
<1>5. ASSUME Verdict(start, Limit) = {}, r.end = hard_cut(start, Limit),
             r.next = hard_cut(start, Limit)
      PROVE  /\ GoodCut(start, r.end) /\ PrevEnd < r.end
             /\ r.next \in call.grid /\ r.end <= r.next /\ ~(r.end < r.next)
  <2>1. ~Fits
    BY <1>1, <1>2, <1>3, <1>5, Predicted
  <2>2. start + call.max < call.len
    BY <1>2, <2>1 DEF Fits
  <2>3. GoodCut(start, r.end)
    BY <1>1, <1>2, <1>5, <2>2, HierarchyFacts, HardCut
  <2>4. r.end \in call.grid /\ r.end \in Nat /\ start < r.end
    BY <1>2, <2>3 DEF GoodCut
  <2>5. CASE start < PrevEnd
    <3>1. Beyond(start, PrevEnd)
      BY <1>1, <2>5 DEF Forward
    <3>2. \E g \in call.grid : PrevEnd < g /\ g <= start + call.max
      BY <2>2, <3>1, Zenon DEF Beyond
    <3>3. PrevEnd < r.end
      BY <1>1, <1>2, <1>5, <2>2, <2>5, <3>2, HardBeyond
    <3> QED BY <1>5, <2>3, <2>4, <3>3
  <2>6. CASE ~(start < PrevEnd)
    BY <1>2, <1>5, <2>3, <2>4, <2>6
  <2> QED BY <2>5, <2>6
<1> QED BY <1>4, <1>5, CutsAre

\* The final window is a good cut too.
LEMMA FinalIsGood ==
  ASSUME HInv, status = "cutting", start < call.len, Final
  PROVE  GoodCut(start, call.len) /\ PrevEnd < call.len
<1>1. Fits /\ Forward /\ GoodCall
  BY HierarchyFacts DEF HInv, Final
<1>2. GoodCut(start, call.len)
  BY <1>1 DEF Fits, GoodCut, Fit, GoodCall
<1>3. PrevEnd < call.len
  <2>1. start < PrevEnd => PrevEnd < call.len
    BY <1>1 DEF Forward
  <2>2. start \in Nat /\ PrevEnd \in Nat /\ call.len \in Nat
    BY Numbers
  <2> QED BY <2>1, <2>2
<1> QED BY <1>2, <1>3

\* The headings of the first slot between two positions.
Crossing(from, to) == {r \in call.slots[1].cuts : from < r.end /\ r.end < to}

\* A cut crosses no heading of the first slot.
LEMMA CutCrossesNone ==
  ASSUME HInv, status = "cutting", start < call.len, ~Final, NEW r \in Cuts, 1 \in Headings
  PROVE  Crossing(start, r.end) = {}
<1> SUFFICES ASSUME NEW q \in Crossing(start, r.end) PROVE FALSE
  OBVIOUS
<1>1. /\ call \in HierarchicalCalls /\ start \in call.grid /\ 1 \in Slots
  BY DEF HInv, Headings
<1>2. /\ start \in Nat /\ call.max \in Nat /\ Limit \in Nat /\ Limit = start + call.max
      /\ \A g \in call.grid : g \in Nat
  BY Numbers DEF Limit
<1>3. q \in Rows(1) /\ start < q.end /\ q.end < r.end
  BY DEF Crossing, Rows
<1>4. q.end \in call.grid /\ q.end \in Nat
  BY <1>1, <1>2, <1>3, HierarchyFacts
<1>5. GoodCut(start, r.end) /\ r.end \in Nat
  BY <1>2, CutIsGood DEF GoodCut
<1>6. Open(1)
  BY <1>1, <1>3, ClosedSlot
<1>7. CASE q.end <= Limit
  <2>1. q \in Within(1, start, Limit)
    BY <1>3, <1>7 DEF Within, Crossing
  <2>2. Answers(1, start, Limit)
    BY <1>1, <1>2, <1>6, <2>1, BestCutExists DEF Answers
  <2>3. PICK j \in Verdict(start, Limit) : j <= 1
    BY <1>1, <2>2, OneVerdict
  <2>4. j = 1
    BY <2>3 DEF Verdict, Consulted, Slots
  <2>5. PICK k \in Slots : k \in Verdict(start, Limit) /\ r \in best_cut(k, start, Limit)
    BY <2>3, CutsAre
  <2>6. k = 1
    BY <1>1, <2>3, <2>4, <2>5, OneVerdict
  <2>7. r.end <= q.end
    BY <1>1, <1>2, <2>1, <2>5, <2>6, BestCut
  <2> QED BY <1>3, <1>4, <1>5, <2>7
<1>8. CASE ~(q.end <= Limit)
  <2>1. ~(r.end - start <= call.max)
    BY <1>2, <1>3, <1>4, <1>5, <1>8
  <2>2. q.end <= start \/ q.end >= r.end
    BY <1>4, <1>5, <2>1 DEF GoodCut, Fit
  <2> QED BY <1>2, <1>3, <1>4, <1>5, <2>2
<1> QED BY <1>7, <1>8

\* A final window crosses headings of the first slot only if the last chunk reached one.
LEMMA FinalCrosses ==
  ASSUME HInv, status = "cutting", start < call.len, Final, 1 \in Headings,
         Open(1) => skip_cut(1, start) = {}, Crossing(start, call.len) # {}
  PROVE  /\ chunks # <<>>
         /\ \E r \in Crossing(start, call.len) : r.end <= PrevEnd
<1>1. /\ call \in HierarchicalCalls /\ start \in call.grid /\ 1 \in Slots /\ Fits
  BY DEF HInv, Headings, Final
<1>2. /\ start \in Nat /\ call.max \in Nat /\ Limit \in Nat /\ Limit = start + call.max
      /\ call.len \in Nat /\ PrevEnd \in Nat /\ \A g \in call.grid : g \in Nat
  BY Numbers DEF Limit
<1>3. PICK q \in Crossing(start, call.len) : TRUE
  OBVIOUS
<1>4. q \in Rows(1) /\ start < q.end /\ q.end < call.len
  BY DEF Crossing, Rows
<1>5. q.end \in Nat
  BY <1>1, <1>2, <1>4, HierarchyFacts
<1>6. Open(1)
  BY <1>1, <1>4, ClosedSlot
<1>7. q \in Within(1, start, Limit)
  BY <1>1, <1>2, <1>3, <1>4, <1>5 DEF Within, Crossing, Fits
<1>8. PICK b : b \in best_cut(1, start, Limit)
  BY <1>1, <1>2, <1>7, BestCutExists
<1>9. 1 \in Verdict(start, Limit)
  <2>1. PICK j \in Verdict(start, Limit) : j <= 1
    BY <1>1, <1>6, <1>8, OneVerdict DEF Answers
  <2>2. j = 1
    BY <2>1 DEF Verdict, Consulted, Slots
  <2> QED BY <2>1, <2>2
<1>10. b \in demotion_predicted_cut(start, Limit)
  BY <1>6, <1>8, <1>9 DEF demotion_predicted_cut
<1>11. b.end <= PrevEnd
  BY <1>10 DEF Final
<1>12. b \in Within(1, start, Limit) /\ b \in Rows(1) /\ b.end <= q.end
  BY <1>1, <1>2, <1>7, <1>8, BestCut
<1>13. b.end \in Nat /\ start < b.end
  BY <1>1, <1>2, <1>12, HierarchyFacts DEF Within
<1>14. b \in Crossing(start, call.len)
  BY <1>2, <1>4, <1>5, <1>12, <1>13 DEF Crossing, Within
<1>15. PrevEnd # 0
  BY <1>2, <1>11, <1>13
<1> QED BY <1>11, <1>14, <1>15, Numbers
-----------------------------------------------------------------------------
(* chunk_hierarchical: steps.                                              *)

\* The snapped start is on the grid.
LEMMA SnappedOnGrid ==
  ASSUME call \in HierarchicalCalls, NEW e \in call.grid
  PROVE  Snapped(e) \in call.grid
<1> DEFINE x == IF e > call.overlap THEN e - call.overlap ELSE 0
<1> DEFINE g == last_at_or_before(x)
<1>1. /\ e \in Nat /\ call.overlap \in Nat /\ x \in Nat /\ 0 \in call.grid
      /\ call.words \subseteq call.grid /\ \A y \in call.grid : y \in Nat
  BY HierarchyFacts DEF GoodCall
<1> HIDE DEF x
<1>2. g \in call.grid /\ g \in Nat
  <2> DEFINE B == AtMost(call.grid, x)
  <2>1. B \in SUBSET Nat /\ B # {} /\ \A y \in B : y <= x
    BY <1>1 DEF AtMost
  <2>2. Greatest(B) \in B
    BY <1>1, <2>1, GreatestIs
  <2> QED BY <1>1, <2>2 DEF last_at_or_before, AtMost
<1> HIDE DEF g
<1>3. word_snap_back(g) \in call.grid
  <2> DEFINE W == AtMost(call.words, g)
  <2>1. CASE W # {}
    <3>1. W \in SUBSET Nat /\ \A y \in W : y <= g
      BY <1>1 DEF AtMost
    <3>2. Greatest(W) \in W
      BY <1>2, <2>1, <3>1, GreatestIs
    <3> QED BY <1>1, <2>1, <3>2 DEF word_snap_back, AtMost
  <2>2. CASE W = {}
    BY <1>2, <2>2 DEF word_snap_back
  <2> QED BY <2>1, <2>2
<1>4. Snapped(e) = IF call.snap = "word" THEN word_snap_back(g) ELSE g
  BY DEF Snapped, g, x
<1> QED BY <1>2, <1>3, <1>4

\* The next window starts behind this one: at the cut's resumption, or before the
\* cut, and then every chunk it can give ends behind the cut.
LEMMA NextWindow ==
  ASSUME HInv, status = "cutting", start < call.len, ~Final, NEW r \in Cuts,
         NEW next, next = next_start(r)
  PROVE  /\ next \in call.grid /\ start < next
         /\ r.end < next => next = r.next
         /\ next < r.end => r.end < call.len /\ Beyond(next, r.end)
<1>1. /\ call \in HierarchicalCalls /\ start \in Nat
      /\ \A g \in call.grid : g \in Nat
  BY Numbers DEF HInv
<1>2. /\ r.end \in call.grid /\ start < r.end /\ r.next \in call.grid /\ r.end <= r.next
  BY CutIsGood DEF GoodCut
<1>3. Snapped(r.end) \in call.grid
  BY <1>1, <1>2, SnappedOnGrid
<1>4. CASE next = r.next
  BY <1>1, <1>2, <1>4
<1>5. CASE next # r.next
  <2>1. /\ next = Snapped(r.end) /\ start < next /\ next < r.end
        /\ next_end(next, r.end) > r.end
    BY <1>5 DEF next_start
  <2>2. r.end < call.len /\ Beyond(next, r.end)
    BY <1>1, <1>2, <1>3, <2>1, NextEndBeyond
  <2> QED BY <1>1, <1>2, <1>3, <2>1, <2>2
<1> QED BY <1>4, <1>5

\* What a call says stays while the call does.
LEMMA SameCall ==
  ASSUME call' = call
  PROVE  /\ Slots' = Slots /\ Headings' = Headings
         /\ \A k : Rows(k)' = Rows(k) /\ Open(k)' = Open(k)
         /\ \A from, p : Beyond(from, p)' = Beyond(from, p)
<1>1. Slots' = Slots
  BY DEF Slots
<1>2. Headings' = Headings
  BY <1>1 DEF Headings
<1>3. ASSUME NEW k PROVE Rows(k)' = Rows(k) /\ Open(k)' = Open(k)
  BY <1>2 DEF Rows, Open
<1>4. ASSUME NEW from, NEW p PROVE Beyond(from, p)' = Beyond(from, p)
  <2>1. \A k, a, l : best_cut(k, a, l)' = best_cut(k, a, l)
    BY <1>2 DEF best_cut
  <2>2. \A a, l : LookedAt(a, l)' = LookedAt(a, l)
    BY <1>1, <1>3, <2>1 DEF LookedAt
  <2>3. \A a, l : Ahead(a, l)' = Ahead(a, l)
    BY <2>1, <2>2 DEF Ahead
  <2> QED BY <2>3 DEF Beyond
<1> QED BY <1>1, <1>2, <1>3, <1>4

\* Pushing a good chunk behind the last one keeps what the invariant says of the
\* chunks, if it does not open on a separator of the first slot and crosses no
\* heading of it, or is a last one that starts before the end of its predecessor.
LEMMA ChunkPushed ==
  ASSUME HInv, status = "cutting", call' = call,
         NEW to, GoodCut(start, to), PrevEnd < to, Push(start, to),
         1 \in Slots /\ Open(1) => skip_cut(1, start) = {},
         (1 \in Headings /\ Crossing(start, to) # {}) =>
           /\ status' = "done" /\ chunks # <<>>
           /\ \E r \in Crossing(start, to) : r.end <= PrevEnd
  PROVE  /\ chunks' \in Seq(Chunk) /\ chunks' # <<>>
         /\ chunks'[Len(chunks')].start = start /\ chunks'[Len(chunks')].end = to
         /\ GoodChunks' /\ ChunksAdvance' /\ SectionsStayApart' /\ CoarsestNeverOpens'
         /\ \A p : Kept(p) \/ (start <= p /\ p < to) => Kept(p)'
<1>1. PICK from : from = start
  OBVIOUS
<1>2. /\ GoodCall /\ call.how = "hierarchical" /\ call \in HierarchicalCalls
      /\ from \in call.grid /\ chunks \in Seq(Chunk) /\ GoodChunks /\ ChunksAdvance
      /\ Forward /\ SectionsStayApart /\ CoarsestNeverOpens
  BY <1>1, HierarchyFacts DEF HInv
<1>3. chunks # <<>> => chunks[Len(chunks)].start < from /\ chunks[Len(chunks)].end < to
  BY <1>1, <1>2 DEF Forward, PrevEnd
<1>4. GoodCut(from, to) /\ Push(from, to)
  BY <1>1
<1> DEFINE n == Len(chunks)
<1>5. /\ chunks' \in Seq(Chunk) /\ chunks' # <<>> /\ Len(chunks') = n + 1
      /\ \A i \in 1..n : chunks'[i] = chunks[i]
      /\ chunks'[Len(chunks')] = [start |-> from, end |-> to]
      /\ GoodChunks' /\ ChunksAdvance'
  BY <1>2, <1>3, <1>4, PushKeeps
<1>6. n \in Nat /\ 1..n \subseteq 1..(n + 1) /\ \A i \in 1..(n + 1) : i \in 1..n \/ i = n + 1
  BY <1>2
<1>7. chunks'[n + 1].start = from /\ chunks'[n + 1].end = to
  BY <1>5
<1> HIDE DEF n
<1>8. SectionsStayApart'
  <2>1. SUFFICES ASSUME 1 \in Headings, NEW i \in 1..(n + 1), Crossed(i)' # {}
                 PROVE  /\ status' = "done" /\ i = n + 1 /\ i > 1
                        /\ \E r \in Crossed(i)' : r.end <= chunks'[i - 1].end
    BY <1>5, SameCall DEF SectionsStayApart
  <2>2. CASE i \in 1..n
    <3>1. Crossed(i)' = Crossed(i)
      BY <1>5, <2>2 DEF Crossed
    <3> QED BY <1>2, <2>1, <2>2, <3>1 DEF SectionsStayApart, IsHierarchical, n
  <2>3. CASE i = n + 1
    <3>1. Crossed(i)' = Crossing(from, to)
      BY <1>7, <2>3 DEF Crossed, Crossing
    <3>2. /\ status' = "done" /\ chunks # <<>>
          /\ \E r \in Crossing(from, to) : r.end <= PrevEnd
      BY <1>1, <2>1, <3>1
    <3>3. n >= 1 /\ n \in 1..n /\ i - 1 = n
      BY <1>2, <1>6, <2>3, <3>2 DEF n
    <3>4. chunks'[i - 1].end = PrevEnd
      BY <1>5, <3>2, <3>3 DEF PrevEnd, n
    <3> QED BY <1>6, <2>3, <3>1, <3>2, <3>3, <3>4
  <2> QED BY <1>6, <2>2, <2>3
<1>9. CoarsestNeverOpens'
  <2>1. SUFFICES ASSUME 1 \in Slots, Open(1), NEW i \in 1..(n + 1), NEW r \in Rows(1),
                        r.end = chunks'[i].start
                 PROVE  r.next = r.end
    BY <1>5, SameCall DEF CoarsestNeverOpens, Rows
  <2>2. CASE i \in 1..n
    BY <1>2, <1>5, <2>1, <2>2 DEF CoarsestNeverOpens, IsHierarchical, Rows, n
  <2>3. CASE i = n + 1
    <3>1. r.end = start
      BY <1>1, <1>7, <2>1, <2>3
    <3>2. ~(r.next > start)
      BY <2>1, <3>1 DEF skip_cut, Rows
    <3>3. r.end \in Nat /\ r.next \in Nat /\ r.end <= r.next
      BY <1>2, <2>1, HierarchyFacts DEF GoodCall
    <3> QED BY <3>1, <3>2, <3>3
  <2> QED BY <1>6, <2>2, <2>3
<1>10. ASSUME NEW p, Kept(p) \/ (from <= p /\ p < to) PROVE Kept(p)'
  <2>1. CASE \E i \in 1..n : chunks[i].start <= p /\ p < chunks[i].end
    <3>1. \E i \in 1..(n + 1) : chunks'[i].start <= p /\ p < chunks'[i].end
      BY <1>5, <1>6, <2>1
    <3> QED BY <1>5, <3>1 DEF Kept
  <2>2. CASE \E k \in Slots : \E r \in Rows(k) : r.end <= p /\ p < r.next
    BY <2>2, SameCall DEF Kept
  <2>3. CASE from <= p /\ p < to
    <3>1. \E i \in 1..(n + 1) : chunks'[i].start <= p /\ p < chunks'[i].end
      BY <1>6, <1>7, <2>3
    <3> QED BY <1>5, <3>1 DEF Kept
  <2> QED BY <1>10, <2>1, <2>2, <2>3 DEF Kept, n
<1> QED BY <1>1, <1>5, <1>7, <1>8, <1>9, <1>10
\* A chunk that runs to the end of the text ends the call well.
LEMMA LastChunk ==
  ASSUME HInv, Window, Final, \A k \in Verdict(start, Limit) : ~Opens(k),
         Push(start, call.len), status' = "done", call' = call, start' = start
  PROVE  HInv'
<1>1. status = "cutting" /\ start < call.len /\ call \in HierarchicalCalls
  BY DEF Window, HInv
<1>2. 1 \in Slots /\ Open(1) => skip_cut(1, start) = {}
  BY FirstSlotSkips
<1>3. PICK to : to = call.len
  OBVIOUS
<1>4. GoodCut(start, to) /\ PrevEnd < to /\ Push(start, to)
  BY <1>1, <1>3, FinalIsGood
<1>5. (1 \in Headings /\ Crossing(start, to) # {}) =>
        /\ status' = "done" /\ chunks # <<>>
        /\ \E r \in Crossing(start, to) : r.end <= PrevEnd
  <2>1. 1 \in Headings => 1 \in Slots
    BY DEF Headings
  <2> QED BY <1>1, <1>2, <1>3, <2>1, FinalCrosses
<1>6. /\ chunks' \in Seq(Chunk) /\ GoodChunks' /\ ChunksAdvance' /\ SectionsStayApart'
      /\ CoarsestNeverOpens'
      /\ \A p : Kept(p) \/ (start <= p /\ p < to) => Kept(p)'
  BY <1>1, <1>2, <1>4, <1>5, ChunkPushed
<1>7. NothingLost'
  <2>1. SUFFICES ASSUME NEW p \in 0..(call.len - 1) PROVE Kept(p)'
    BY DEF NothingLost
  <2>2. p < start => Kept(p)
    BY DEF HInv, NothingLost
  <2>3. p < start \/ (start <= p /\ p < to)
    BY <1>3, Numbers
  <2> QED BY <1>6, <2>2, <2>3
<1>8. Forward'
  BY DEF Forward
<1> QED BY <1>1, <1>6, <1>7, <1>8 DEF HInv

\* The pre-test rules a separator out.
LEMMA FinalExitStep == HInv /\ FinalExit => HInv'
<1> SUFFICES ASSUME HInv, FinalExit PROVE HInv'
  OBVIOUS
<1>1. /\ Window /\ Final /\ ~separator_may_open(AfterFinalTest) /\ Push(start, call.len)
      /\ status' = "done" /\ call' = call /\ start' = start
  BY DEF FinalExit
<1>2. \A k \in Verdict(start, Limit) : ~Opens(k)
  BY <1>1, PretestSays DEF Verdict, Consulted, Opens
<1> QED BY <1>1, <1>2, LastChunk

\* The search finds no separator here.
LEMMA FinalAfterSearchStep == HInv /\ FinalAfterSearch => HInv'
BY LastChunk DEF FinalAfterSearch, Searched

\* A separator is skipped: it is lost, and the window stays on the way.
LEMMA SkipStep == HInv /\ Skip => HInv' /\ start' > start
<1> SUFFICES ASSUME HInv, Skip PROVE HInv' /\ start' > start
  OBVIOUS
<1>1. /\ status = "cutting" /\ status' = status /\ chunks' = chunks /\ call' = call
      /\ call \in HierarchicalCalls
  BY DEF Skip, Searched, Window, HInv
<1>2. PICK k \in Slots : start' \in skip_cut(k, start)
  BY DEF Skip, Verdict, Consulted
<1>3. PICK r \in Rows(k) : r.end = start /\ r.next > start /\ start' = r.next
  BY <1>2 DEF skip_cut, Rows
<1>4. PICK next : next = start'
  OBVIOUS
<1>5. next \in call.grid /\ start < next
  BY <1>1, <1>3, <1>4, HierarchyFacts
<1>6. /\ start \in call.grid /\ start \in Nat /\ PrevEnd \in call.grid
      /\ \A g \in call.grid : g \in Nat
  BY Numbers DEF HInv
<1>7. PrevEnd' = PrevEnd
  BY <1>1 DEF PrevEnd
<1>8. Forward'
  <2>1. chunks # <<>> => chunks[Len(chunks)].start < next
    <3>1. ASSUME chunks # <<>> PROVE chunks[Len(chunks)].start \in Nat
      <4>1. chunks \in Seq(Chunk) /\ Len(chunks) \in 1..Len(chunks)
        BY <3>1 DEF HInv
      <4>2. chunks[Len(chunks)] \in Chunk
        BY <4>1
      <4> QED BY <4>2 DEF Chunk
    <3>2. chunks # <<>> => chunks[Len(chunks)].start < start
      BY <1>1 DEF HInv, Forward
    <3> QED BY <1>5, <1>6, <3>1, <3>2
  <2>2. PICK p : p = PrevEnd
    OBVIOUS
  <2>3. ASSUME next < p PROVE p < call.len /\ Beyond(next, p)
    <3>1. start < p
      BY <1>5, <1>6, <2>2, <2>3
    <3>2. p < call.len /\ Beyond(start, p)
      BY <1>1, <2>2, <3>1 DEF HInv, Forward
    <3> QED BY <1>1, <1>5, <1>6, <2>2, <2>3, <3>2, BeyondSkips
  <2>4. Beyond(next, p)' = Beyond(next, p)
    BY <1>1, SameCall
  <2> QED BY <1>1, <1>4, <1>7, <2>1, <2>2, <2>3, <2>4 DEF Forward
<1>9. NothingLost'
  <2>1. SUFFICES ASSUME NEW p \in 0..(call.len - 1), p < next PROVE Kept(p)'
    BY <1>1, <1>4 DEF NothingLost
  <2>2. Kept(p)
    <3>1. p < start => Kept(p)
      BY DEF HInv, NothingLost
    <3>2. ~(p < start) => r.end <= p /\ p < r.next
      BY <1>3, <1>4, <1>6, <2>1, Numbers
    <3> QED BY <3>1, <3>2 DEF Kept
  <2> QED BY <1>1, <2>2, SameCall DEF Kept
<1>10. GoodChunks' /\ ChunksAdvance' /\ SectionsStayApart' /\ CoarsestNeverOpens'
  <2>1. GoodChunks' /\ ChunksAdvance'
    BY <1>1 DEF HInv, GoodChunks, GoodCut, Fit, ChunksAdvance
  <2>2. SectionsStayApart' /\ CoarsestNeverOpens'
    BY <1>1, SameCall DEF HInv, SectionsStayApart, Crossed, CoarsestNeverOpens, IsHierarchical
  <2> QED BY <2>1, <2>2
<1> QED BY <1>1, <1>4, <1>5, <1>6, <1>8, <1>9, <1>10 DEF HInv

\* A window is cut.
LEMMA CutStep == HInv /\ Cut => HInv' /\ start' > start
<1> SUFFICES ASSUME HInv, Cut PROVE HInv' /\ start' > start
  OBVIOUS
<1>1. /\ status = "cutting" /\ status' = status /\ call' = call /\ start < call.len /\ ~Final
      /\ call \in HierarchicalCalls
  BY DEF Cut, Searched, Window, HInv
<1>2. PICK r \in Cuts : Push(start, r.end) /\ start' = next_start(r)
  BY DEF Cut
<1>3. PICK to : to = r.end
  OBVIOUS
<1>4. PICK next : next = start'
  OBVIOUS
<1>5. /\ GoodCut(start, to) /\ PrevEnd < to /\ Push(start, to)
      /\ r.next \in call.grid /\ to <= r.next
      /\ to < r.next => \E k \in Slots : r \in Rows(k)
  BY <1>1, <1>2, <1>3, CutIsGood
<1>6. /\ next \in call.grid /\ start < next /\ (to < next => next = r.next)
      /\ next < to => to < call.len /\ Beyond(next, to)
  BY <1>1, <1>2, <1>3, <1>4, NextWindow
<1>7. 1 \in Slots /\ Open(1) => skip_cut(1, start) = {}
  <2>1. \A k \in Verdict(start, Limit) : ~Opens(k)
    <3>1. Verdict(start, Limit) # {} => \E k \in Verdict(start, Limit) : ~Opens(k)
      BY DEF Cuts
    <3> QED BY <1>1, <3>1, OneVerdict
  <2> QED BY <2>1, FirstSlotSkips
<1>8. 1 \in Headings => Crossing(start, to) = {}
  BY <1>1, <1>2, <1>3, CutCrossesNone
<1>9. /\ chunks' \in Seq(Chunk) /\ chunks' # <<>>
      /\ chunks'[Len(chunks')].start = start /\ chunks'[Len(chunks')].end = to
      /\ GoodChunks' /\ ChunksAdvance' /\ SectionsStayApart' /\ CoarsestNeverOpens'
      /\ \A p : Kept(p) \/ (start <= p /\ p < to) => Kept(p)'
  BY <1>1, <1>5, <1>7, <1>8, ChunkPushed
<1>10. /\ start \in Nat /\ next \in Nat /\ to \in Nat
  BY <1>5, <1>6, Numbers DEF GoodCut
<1>11. Forward'
  <2>1. PrevEnd' = to
    BY <1>9 DEF PrevEnd
  <2>2. Beyond(next, to)' = Beyond(next, to)
    BY <1>1, SameCall
  <2> QED BY <1>1, <1>4, <1>6, <1>9, <2>1, <2>2 DEF Forward
<1>12. NothingLost'
  <2>1. SUFFICES ASSUME NEW p \in 0..(call.len - 1), p < next PROVE Kept(p)'
    BY <1>1, <1>4 DEF NothingLost
  <2>2. p < start \/ (start <= p /\ p < to) \/ (to <= p /\ p < next)
    BY <1>10, <2>1, Numbers
  <2>3. p < start => Kept(p)
    BY DEF HInv, NothingLost
  <2>4. ASSUME to <= p PROVE Kept(p)
    <3>1. to < next
      BY <1>10, <2>1, <2>4, Numbers
    <3>2. next = r.next /\ to < r.next
      BY <1>6, <3>1
    <3>3. PICK k \in Slots : r \in Rows(k)
      BY <1>5, <3>2
    <3> QED BY <1>3, <2>1, <2>4, <3>2, <3>3 DEF Kept
  <2> QED BY <1>9, <2>2, <2>3, <2>4
<1> QED BY <1>1, <1>4, <1>6, <1>9, <1>10, <1>11, <1>12 DEF HInv

\* The windows have reached the end.
LEMMA RunOutStep == HInv /\ RunOut => HInv'
<1> SUFFICES ASSUME HInv, RunOut PROVE HInv'
  OBVIOUS
<1>1. /\ status = "cutting" /\ status' = "done" /\ chunks' = chunks /\ call' = call
      /\ start' = start /\ start >= call.len
  BY DEF RunOut
<1>2. Forward'
  BY <1>1 DEF Forward
<1>3. NothingLost'
  <2>1. SUFFICES ASSUME NEW p \in 0..(call.len - 1) PROVE Kept(p)'
    BY <1>1 DEF NothingLost
  <2>2. p < start
    BY <1>1, Numbers
  <2>3. Kept(p)
    BY <2>2 DEF HInv, NothingLost
  <2> QED BY <1>1, <2>3, SameCall DEF Kept
<1>4. GoodChunks' /\ ChunksAdvance'
  BY <1>1 DEF HInv, GoodChunks, GoodCut, Fit, ChunksAdvance
<1>5. SectionsStayApart' /\ CoarsestNeverOpens'
  BY <1>1, SameCall DEF HInv, SectionsStayApart, Crossed, CoarsestNeverOpens, IsHierarchical
<1> QED BY <1>1, <1>2, <1>3, <1>4, <1>5 DEF HInv

\* No step changes nothing and breaks it.
LEMMA NoStep == HInv /\ UNCHANGED vars => HInv'
<1> SUFFICES ASSUME HInv, UNCHANGED vars PROVE HInv'
  OBVIOUS
<1>1. /\ status' = status /\ chunks' = chunks /\ call' = call /\ start' = start
  BY DEF vars
<1>2. Forward'
  <2>1. PICK s, p : s = start /\ p = PrevEnd
    OBVIOUS
  <2>2. Beyond(s, p)' = Beyond(s, p) /\ PrevEnd' = p
    BY <1>1, <2>1, SameCall DEF PrevEnd
  <2> QED BY <1>1, <2>1, <2>2 DEF HInv, Forward
<1>3. NothingLost'
  BY <1>1, SameCall DEF HInv, NothingLost, Kept
<1>4. GoodChunks' /\ ChunksAdvance'
  BY <1>1 DEF HInv, GoodChunks, GoodCut, Fit, ChunksAdvance
<1>5. SectionsStayApart' /\ CoarsestNeverOpens'
  BY <1>1, SameCall DEF HInv, SectionsStayApart, Crossed, CoarsestNeverOpens, IsHierarchical
<1> QED BY <1>1, <1>2, <1>3, <1>4, <1>5 DEF HInv

\* The invariant is inductive.
LEMMA HierarchyInvariance == HierarchicalSpec => []HInv
<1>1. HInv /\ [HierarchicalNext]_vars => HInv'
  BY FinalExitStep, FinalAfterSearchStep, SkipStep, CutStep, RunOutStep, NoStep
     DEF HierarchicalNext
<1> QED BY HierarchyStarts, <1>1, PTL DEF HierarchicalSpec

-----------------------------------------------------------------------------
(* chunk_hierarchical: results.                                            *)

\* A chunk is made of whole clusters and within max_chars, or one wider cluster.
THEOREM ChunksWithinBudget == HierarchicalSpec => []WithinBudget
<1>1. HInv => WithinBudget
  <2> SUFFICES ASSUME HInv PROVE WithinBudget
    OBVIOUS
  <2>1. GoodChunks /\ status \in {"cutting", "done"} /\ start \in Nat
    BY Numbers DEF HInv
  <2> QED BY <2>1 DEF WithinBudget, TypeOK, OverOnlyAsOneCluster, GoodChunks, GoodCut, Fit
<1> QED BY HierarchyInvariance, <1>1, PTL

\* Both ends of the chunks advance strictly, whatever the overlap pulls back: the
\* lookahead's promise survives the skips that follow it.
THEOREM ChunksMoveOn == HierarchicalSpec => []ChunksAdvance
<1>1. HInv => ChunksAdvance
  BY DEF HInv
<1> QED BY HierarchyInvariance, <1>1, PTL

\* The cheap pre-test never changes the output: where it skips the search, the search
\* would have found no separator.
THEOREM PretestExact == HierarchicalSpec => []PretestIsSound
<1>1. HInv => PretestIsSound
  BY PretestSays DEF PretestIsSound, Verdict, Consulted, Opens
<1> QED BY HierarchyInvariance, <1>1, PTL

\* The coarsest level's headings keep the chunks apart, but for a last one whose overlap
\* starts it before a heading that was reached; its separators open no chunk.
THEOREM CoarsestFirst == HierarchicalSpec => []CoarsestRules
<1>1. HInv => CoarsestRules
  BY DEF HInv, CoarsestRules
<1> QED BY HierarchyInvariance, <1>1, PTL

\* What is in no chunk is in a separator.
THEOREM NothingElseLost == HierarchicalSpec => []OnlySeparatorsLost
<1>1. HInv => OnlySeparatorsLost
  BY DEF HInv, OnlySeparatorsLost, NothingLost, Kept, Rows
<1> QED BY HierarchyInvariance, <1>1, PTL

\* Every window but the last starts behind the one before it.
THEOREM WindowsMoveOn == HierarchicalSpec => StartAdvances
<1>1. HInv /\ [HierarchicalNext]_vars => [start' > start \/ status' = "done"]_vars
  BY SkipStep, CutStep DEF HierarchicalNext, FinalExit, FinalAfterSearch, RunOut
<1> QED BY HierarchyInvariance, <1>1, PTL DEF HierarchicalSpec, StartAdvances

-----------------------------------------------------------------------------
(* The windows over segments.                                              *)

\* The segments before the k-th window, and the last one in it.
SegsBefore(k) == (k - 1) * stride
LastSeg(k) == IF SegsBefore(k) + call.per < Len(call.segs)
              THEN SegsBefore(k) + call.per ELSE Len(call.segs)

\* The chunks are the windows from the first on, one stride apart; only the last may
\* reach the last segment, and the call ends there.
SegInv ==
  /\ call \in SegmentCalls /\ status \in {"cutting", "done"} /\ Len(chunks) \in Nat
  /\ chunks \in Seq([start : Nat, end : Nat])
  /\ \A k \in 1..Len(chunks) :
       /\ SegsBefore(k) < Len(call.segs)
       /\ chunks[k].start = call.segs[SegsBefore(k) + 1].start
       /\ chunks[k].end = call.segs[LastSeg(k)].end
  /\ \A k \in 1..(Len(chunks) - 1) : SegsBefore(k) + call.per < Len(call.segs)
  /\ status = "cutting" =>
       /\ start = SegsBefore(Len(chunks) + 1)
       /\ call.segs # <<>> => start < Len(call.segs)
       /\ Len(chunks) > 0 => SegsBefore(Len(chunks)) + call.per < Len(call.segs)
  /\ status = "done" =>
       IF call.segs = <<>> THEN chunks = <<>> /\ start = 0
       ELSE Len(chunks) > 0 /\ LastSeg(Len(chunks)) = Len(call.segs)
            /\ start = SegsBefore(Len(chunks))

\* What the assumption says of a call.
LEMMA SegmentFacts ==
  ASSUME call \in SegmentCalls
  PROVE  /\ call.how = "segments" /\ call.per \in Nat \ {0} /\ call.overlap \in Nat
         /\ call.overlap < call.per
         /\ stride \in 1..call.per /\ call.per = stride + call.overlap
         /\ Len(call.segs) \in Nat /\ call.grid \subseteq Nat
         /\ \A i \in 1..Len(call.segs) :
              /\ call.segs[i].start \in call.grid /\ call.segs[i].end \in call.grid
              /\ call.segs[i].start \in Nat /\ call.segs[i].end \in Nat
              /\ call.segs[i].start < call.segs[i].end
         /\ \A i \in 2..Len(call.segs) : call.segs[i - 1].end <= call.segs[i].start
<1>1. /\ call.how = "segments" /\ call.per \in Nat \ {0} /\ call.overlap \in Nat
      /\ call.overlap < call.per
      /\ call.grid \subseteq Nat /\ call.segs \in Seq([start : call.grid, end : call.grid])
      /\ \A i \in 1..Len(call.segs) : call.segs[i].start < call.segs[i].end
      /\ \A i \in 2..Len(call.segs) : call.segs[i - 1].end <= call.segs[i].start
  BY SegmentAssumption
<1>2. stride \in 1..call.per /\ call.per = stride + call.overlap
  BY <1>1 DEF stride
<1>3. Len(call.segs) \in Nat
  BY <1>1
<1>4. \A i \in 1..Len(call.segs) : call.segs[i] \in [start : call.grid, end : call.grid]
  <2> DEFINE Segment == [start : call.grid, end : call.grid]
             segs    == call.segs
  <2>1. segs \in Seq(Segment)
    BY <1>1
  <2> HIDE DEF Segment, segs
  <2>2. \A i \in 1..Len(segs) : segs[i] \in Segment
    BY <2>1
  <2> QED BY <2>2 DEF Segment, segs
<1>5. \A i \in 1..Len(call.segs) :
        /\ call.segs[i].start \in call.grid /\ call.segs[i].end \in call.grid
        /\ call.segs[i].start \in Nat /\ call.segs[i].end \in Nat
  BY <1>1, <1>4
<1> QED BY <1>1, <1>2, <1>3, <1>5

\* Of two segments, the earlier one ends before the later one starts.
LEMMA SegmentsAscend ==
  ASSUME call \in SegmentCalls, NEW i \in 1..Len(call.segs), NEW j \in 1..Len(call.segs), i < j
  PROVE  call.segs[i].end <= call.segs[j].start
<1> DEFINE Bad == {k \in (i + 1)..Len(call.segs) : ~(call.segs[i].end <= call.segs[k].start)}
<1>1. SUFFICES ASSUME Bad # {} PROVE FALSE
  BY SegmentFacts
<1>2. Len(call.segs) \in Nat /\ i \in Nat
  BY SegmentFacts
<1>3. PICK x \in Bad : \A y \in Bad : x <= y
  <2>1. Bad \in SUBSET Nat
    BY <1>2
  <2> HIDE DEF Bad
  <2> QED BY <1>1, <2>1, LeastIs
<1>4. x \in (i + 1)..Len(call.segs) /\ ~(call.segs[i].end <= call.segs[x].start)
  OBVIOUS
<1>5. call.segs[x - 1].end <= call.segs[x].start
  BY <1>2, <1>4, SegmentFacts
<1>6. CASE x = i + 1
  <2>1. x - 1 = i
    BY <1>2, <1>6
  <2> QED BY <1>4, <1>5, <2>1
<1>7. CASE x # i + 1
  <2>1. x - 1 \in (i + 1)..Len(call.segs) /\ ~(x <= x - 1)
    BY <1>2, <1>4, <1>7
  <2>2. x - 1 \notin Bad
    BY <1>3, <2>1
  <2>3. call.segs[i].end <= call.segs[x - 1].start
    BY <2>1, <2>2
  <2> HIDE DEF Bad
  <2>4. /\ x \in 1..Len(call.segs) /\ x - 1 \in 1..Len(call.segs)
    BY <1>2, <1>4, <2>1
  <2>5. /\ call.segs[x - 1].start < call.segs[x - 1].end
        /\ call.segs[x - 1].start \in Nat /\ call.segs[x - 1].end \in Nat
        /\ call.segs[i].end \in Nat /\ call.segs[x].start \in Nat
    BY <2>4, SegmentFacts
  <2> QED BY <1>4, <1>5, <2>3, <2>5
<1> QED BY <1>6, <1>7

\* Of two segments, the later one starts later and ends later.
LEMMA BothEndsAscend ==
  ASSUME call \in SegmentCalls, NEW i \in 1..Len(call.segs), NEW j \in 1..Len(call.segs), i < j
  PROVE  call.segs[i].start < call.segs[j].start /\ call.segs[i].end < call.segs[j].end
<1>1. call.segs[i].end <= call.segs[j].start
  BY SegmentsAscend
<1>2. /\ call.segs[i].start \in Nat /\ call.segs[i].end \in Nat
      /\ call.segs[i].start < call.segs[i].end
  BY SegmentFacts
<1>3. /\ call.segs[j].start \in Nat /\ call.segs[j].end \in Nat
      /\ call.segs[j].start < call.segs[j].end
  BY SegmentFacts
<1> QED BY <1>1, <1>2, <1>3

\* The segments inside a stretch from one of them to a later one are those between.
LEMMA SegmentsBetween ==
  ASSUME call \in SegmentCalls, NEW a \in 1..Len(call.segs), NEW b \in a..Len(call.segs),
         NEW c, c.start = call.segs[a].start, c.end = call.segs[b].end
  PROVE  SegmentsIn(c) = a..b
<1>1. Len(call.segs) \in Nat /\ a \in Nat /\ b \in 1..Len(call.segs) /\ a <= b
  BY SegmentFacts
<1>2. ASSUME NEW i \in 1..Len(call.segs)
      PROVE  c.start <= call.segs[i].start /\ call.segs[i].end <= c.end <=> i \in a..b
  <2>1. /\ \A j \in {i, a, b} : /\ call.segs[j].start \in Nat /\ call.segs[j].end \in Nat
                               /\ call.segs[j].start < call.segs[j].end
    BY <1>1, SegmentFacts
  <2>2. CASE i < a
    <3>1. call.segs[i].end <= call.segs[a].start
      BY <2>2, SegmentsAscend
    <3> QED BY <1>1, <2>1, <2>2, <3>1
  <2>3. CASE i > b
    <3>1. call.segs[b].end <= call.segs[i].start
      BY <1>1, <2>3, SegmentsAscend
    <3> QED BY <1>1, <2>1, <2>3, <3>1
  <2>4. CASE a <= i /\ i <= b
    <3>1. call.segs[a].start <= call.segs[i].start
      <4>1. CASE a = i
        BY <2>1, <4>1
      <4>2. CASE a < i
        <5>1. call.segs[a].end <= call.segs[i].start
          BY <4>2, SegmentsAscend
        <5> QED BY <2>1, <5>1
      <4> QED BY <1>1, <2>4, <4>1, <4>2
    <3>2. call.segs[i].end <= call.segs[b].end
      <4>1. CASE b = i
        BY <2>1, <4>1
      <4>2. CASE i < b
        <5>1. call.segs[i].end <= call.segs[b].start
          BY <1>1, <4>2, SegmentsAscend
        <5> QED BY <2>1, <5>1
      <4> QED BY <1>1, <2>4, <4>1, <4>2
    <3> QED BY <1>1, <2>4, <3>1, <3>2
  <2> QED BY <1>1, <2>2, <2>3, <2>4
<1>3. SegmentsIn(c) = {i \in 1..Len(call.segs) : i \in a..b}
  BY <1>2 DEF SegmentsIn
<1>4. a..b \subseteq 1..Len(call.segs)
  BY <1>1
<1> QED BY <1>3, <1>4

\* Each window starts a stride behind the one before it.
LEMMA WindowNumbers ==
  ASSUME call \in SegmentCalls
  PROVE  /\ SegsBefore(1) = 0
         /\ \A k \in Nat \ {0} : SegsBefore(k) \in Nat /\ SegsBefore(k + 1) = SegsBefore(k) + stride
<1>1. stride \in Nat
  BY SegmentFacts
<1>2. SegsBefore(1) = 0
  BY <1>1 DEF SegsBefore
<1>3. ASSUME NEW k \in Nat \ {0}
      PROVE  SegsBefore(k) \in Nat /\ SegsBefore(k + 1) = SegsBefore(k) + stride
  <2>1. (k - 1) * stride \in Nat
    BY <1>1
  <2>2. k * stride = (k - 1) * stride + stride
    BY <1>1
  <2>3. (k + 1) - 1 = k
    OBVIOUS
  <2> QED BY <2>1, <2>2, <2>3 DEF SegsBefore
<1> QED BY <1>2, <1>3

\* The first window.
LEMMA SegmentsStart == SegmentInit => SegInv
<1> SUFFICES ASSUME SegmentInit PROVE SegInv
  OBVIOUS
<1>1. /\ call \in SegmentCalls /\ chunks = <<>> /\ start = 0 /\ status = "cutting"
  BY DEF SegmentInit
<1>2. Len(chunks) = 0 /\ chunks \in Seq([start : Nat, end : Nat])
  BY <1>1
<1>3. SegsBefore(Len(chunks) + 1) = 0
  BY <1>1, <1>2, WindowNumbers
<1>4. call.segs # <<>> => 0 < Len(call.segs)
  <2>1. call.segs \in Seq([start : call.grid, end : call.grid])
    BY <1>1, SegmentAssumption
  <2> QED BY <2>1
<1> QED BY <1>1, <1>2, <1>3, <1>4 DEF SegInv

\* A call whose state stays as it is.
LEMMA SegmentsRest ==
  ASSUME SegInv, UNCHANGED <<call, chunks, start>>, status' = status \/ call.segs = <<>>,
         status' \in {status, "done"}
  PROVE  SegInv'
<1>1. SegsBefore(1) = 0 /\ \A k : SegsBefore(k)' = SegsBefore(k) /\ LastSeg(k)' = LastSeg(k)
  BY WindowNumbers DEF SegsBefore, LastSeg, SegInv, stride
<1>2. CASE status' = status
  BY <1>1, <1>2 DEF SegInv
<1>3. CASE status' = "done" /\ status = "cutting" /\ call.segs = <<>>
  <2>1. Len(call.segs) = 0
    BY <1>3
  <2>2. Len(chunks) = 0
    <3> SUFFICES ASSUME Len(chunks) # 0 PROVE FALSE
      OBVIOUS
    <3>1. 1 \in 1..Len(chunks) /\ Len(chunks) \in Nat
      BY DEF SegInv
    <3>2. SegsBefore(1) < Len(call.segs)
      BY <3>1 DEF SegInv
    <3> QED BY <1>1, <2>1, <3>2
  <2>3. chunks = <<>>
    BY <2>2 DEF SegInv
  <2>4. start = 0
    BY <1>1, <1>3, <2>2 DEF SegInv
  <2> QED BY <1>1, <1>3, <2>3, <2>4 DEF SegInv
<1> QED BY <1>2, <1>3 DEF SegInv

\* Cutting the next window.
LEMMA SegmentCut == SegInv /\ CutSegments => SegInv' /\ (start' > start \/ status' = "done")
<1> SUFFICES ASSUME SegInv, CutSegments PROVE SegInv' /\ (start' > start \/ status' = "done")
  OBVIOUS
<1> DEFINE n == Len(call.segs)
           l == Len(chunks)
           new == [start |-> call.segs[start + 1].start, end |-> call.segs[window_end].end]
<1>1. /\ call \in SegmentCalls /\ l \in Nat /\ chunks \in Seq([start : Nat, end : Nat])
      /\ status = "cutting" /\ call.segs # <<>>
      /\ start = SegsBefore(l + 1) /\ start < n
      /\ l > 0 => SegsBefore(l) + call.per < n
      /\ \A k \in 1..l :
           /\ SegsBefore(k) < n
           /\ chunks[k].start = call.segs[SegsBefore(k) + 1].start
           /\ chunks[k].end = call.segs[LastSeg(k)].end
      /\ \A k \in 1..(l - 1) : SegsBefore(k) + call.per < n
  BY DEF SegInv, CutSegments
<1>2. /\ chunks' = Append(chunks, new) /\ call' = call
      /\ status' \in {"cutting", "done"}
      /\ status' = "done" => window_end = n /\ start' = start
      /\ status' = "cutting" => window_end # n /\ start' = start + stride
  BY <1>1 DEF CutSegments, Push
<1>3. /\ stride \in 1..call.per /\ call.per \in Nat /\ n \in Nat
  BY <1>1, SegmentFacts
<1>4. start \in Nat /\ SegsBefore(l + 2) = start + stride
  <2>1. l + 1 \in Nat \ {0} /\ (l + 1) + 1 = l + 2
    BY <1>1
  <2> QED BY <1>1, <2>1, WindowNumbers
<1>5. window_end = LastSeg(l + 1) /\ window_end \in (start + 1)..n
  BY <1>1, <1>3, <1>4 DEF window_end, LastSeg
<1>6. new \in [start : Nat, end : Nat]
  <2>1. start + 1 \in 1..n /\ window_end \in 1..n
    BY <1>1, <1>3, <1>4, <1>5
  <2>2. call.segs[start + 1].start \in Nat /\ call.segs[window_end].end \in Nat
    BY <1>1, <2>1, SegmentFacts
  <2> QED BY <2>2
<1>7. /\ new.start = call.segs[start + 1].start /\ new.end = call.segs[window_end].end
  OBVIOUS
<1> HIDE DEF new
<1>8. /\ chunks' \in Seq([start : Nat, end : Nat]) /\ Len(chunks') = l + 1
      /\ \A k \in 1..l : chunks'[k] = chunks[k]
      /\ chunks'[l + 1] = new
  BY <1>1, <1>2, <1>6
<1>9. \A k : SegsBefore(k)' = SegsBefore(k) /\ LastSeg(k)' = LastSeg(k)
  BY <1>2 DEF SegsBefore, LastSeg, stride
<1>10. \A k \in 1..(l + 1) :
         /\ SegsBefore(k) < n
         /\ chunks'[k].start = call.segs[SegsBefore(k) + 1].start
         /\ chunks'[k].end = call.segs[LastSeg(k)].end
  <2> SUFFICES ASSUME NEW k \in 1..(l + 1)
               PROVE  /\ SegsBefore(k) < n
                      /\ chunks'[k].start = call.segs[SegsBefore(k) + 1].start
                      /\ chunks'[k].end = call.segs[LastSeg(k)].end
    OBVIOUS
  <2>1. CASE k = l + 1
    BY <1>1, <1>5, <1>7, <1>8, <2>1
  <2>2. CASE k \in 1..l
    BY <1>1, <1>8, <2>2
  <2> QED BY <1>1, <2>1, <2>2
<1>11. \A k \in 1..l : SegsBefore(k) + call.per < n
  <2> SUFFICES ASSUME NEW k \in 1..l PROVE SegsBefore(k) + call.per < n
    OBVIOUS
  <2>1. CASE k = l
    BY <1>1, <2>1
  <2>2. CASE k \in 1..(l - 1)
    BY <1>1, <2>2
  <2> QED BY <1>1, <2>1, <2>2
<1>12. CASE status' = "done"
  <2>1. l + 1 > 0 /\ (l + 1) - 1 = l /\ l + 1 \in Nat
    BY <1>1
  <2> QED BY <1>1, <1>2, <1>5, <1>8, <1>9, <1>10, <1>11, <1>12, <2>1 DEF SegInv
<1>13. CASE status' = "cutting"
  <2>1. start' = SegsBefore(l + 2) /\ start' > start
    BY <1>2, <1>3, <1>4, <1>13
  <2>2. start + call.per < n
    BY <1>2, <1>13 DEF window_end
  <2>3. start' < n /\ SegsBefore(l + 1) + call.per < n
    BY <1>1, <1>2, <1>3, <1>4, <1>13, <2>2
  <2>4. (l + 1) + 1 = l + 2 /\ (l + 1) - 1 = l /\ l + 1 \in Nat
    BY <1>1
  <2>5. SegInv'
    BY <1>1, <1>2, <1>8, <1>9, <1>10, <1>11, <1>13, <2>1, <2>3, <2>4 DEF SegInv
  <2> QED BY <2>1, <2>5
<1> QED BY <1>2, <1>12, <1>13

\* Every state of a call cuts at the strides.
LEMMA SegmentInvariance == SegmentSpec => []SegInv
<1>1. SegInv /\ [SegmentNext]_vars => SegInv'
  <2> SUFFICES ASSUME SegInv, [SegmentNext]_vars PROVE SegInv'
    OBVIOUS
  <2>1. CASE CutSegments
    BY <2>1, SegmentCut
  <2>2. CASE NoSegments
    <3>1. /\ UNCHANGED <<call, chunks, start>> /\ call.segs = <<>> /\ status' = "done"
      BY <2>2 DEF NoSegments
    <3> QED BY <3>1, SegmentsRest
  <2>3. CASE UNCHANGED vars
    <3>1. UNCHANGED <<call, chunks, start>> /\ status' = status
      BY <2>3 DEF vars
    <3> QED BY <3>1, SegmentsRest
  <2> QED BY <2>1, <2>2, <2>3 DEF SegmentNext
<1> QED BY SegmentsStart, <1>1, PTL DEF SegmentSpec

\* A chunk holds the segments of its window.
LEMMA WindowHolds ==
  ASSUME SegInv, NEW k \in 1..Len(chunks)
  PROVE  /\ SegsBefore(k) \in Nat /\ LastSeg(k) \in (SegsBefore(k) + 1)..Len(call.segs)
         /\ Len(call.segs) \in Nat
         /\ SegmentsIn(chunks[k]) = (SegsBefore(k) + 1)..LastSeg(k)
<1>1. /\ call \in SegmentCalls /\ k \in Nat \ {0} /\ SegsBefore(k) < Len(call.segs)
      /\ chunks[k].start = call.segs[SegsBefore(k) + 1].start
      /\ chunks[k].end = call.segs[LastSeg(k)].end
  BY DEF SegInv
<1>2. SegsBefore(k) \in Nat /\ Len(call.segs) \in Nat /\ call.per \in Nat \ {0}
  BY <1>1, WindowNumbers, SegmentFacts
<1>3. LastSeg(k) \in (SegsBefore(k) + 1)..Len(call.segs)
  BY <1>1, <1>2 DEF LastSeg
<1>4. SegsBefore(k) + 1 \in 1..Len(call.segs)
  BY <1>1, <1>2
<1> QED BY <1>1, <1>2, <1>3, <1>4, SegmentsBetween

\* A window and the one before it.
LEMMA NextToEachOther ==
  ASSUME SegInv, NEW k \in 2..Len(chunks)
  PROVE  /\ k - 1 \in 1..Len(chunks) /\ SegsBefore(k) = SegsBefore(k - 1) + stride
         /\ LastSeg(k - 1) = SegsBefore(k) + call.overlap
         /\ LastSeg(k - 1) < LastSeg(k)
<1>1. /\ call \in SegmentCalls /\ Len(chunks) \in Nat /\ k - 1 \in 1..(Len(chunks) - 1)
  BY DEF SegInv
<1>2. SegsBefore(k - 1) + call.per < Len(call.segs)
  BY <1>1 DEF SegInv
<1>3. k - 1 \in Nat \ {0} /\ (k - 1) + 1 = k /\ k - 1 \in 1..Len(chunks)
  BY <1>1
<1>4. SegsBefore(k - 1) \in Nat /\ SegsBefore(k) = SegsBefore(k - 1) + stride
  BY <1>1, <1>3, WindowNumbers
<1>5. /\ stride \in 1..call.per /\ call.per = stride + call.overlap /\ call.overlap \in Nat
      /\ call.per \in Nat /\ Len(call.segs) \in Nat
  BY <1>1, SegmentFacts
<1>6. LastSeg(k - 1) = SegsBefore(k - 1) + call.per
  BY <1>2 DEF LastSeg
<1>7. LastSeg(k - 1) < LastSeg(k)
  BY <1>2, <1>4, <1>5, <1>6 DEF LastSeg
<1> QED BY <1>3, <1>4, <1>5, <1>6, <1>7

\* No segment is between the windows, or behind the last.
LEMMA WindowsCover ==
  ASSUME SegInv, status = "done", NEW i \in 1..Len(call.segs)
  PROVE  \E k \in 1..Len(chunks) : i \in SegmentsIn(chunks[k])
<1>1. /\ call \in SegmentCalls /\ Len(call.segs) \in Nat
  BY SegmentFacts DEF SegInv
<1>2. Len(chunks) \in Nat \ {0} /\ LastSeg(Len(chunks)) = Len(call.segs)
  <2>1. call.segs # <<>>
    BY <1>1
  <2> QED BY <2>1 DEF SegInv
<1> DEFINE Behind == {k \in 1..Len(chunks) : i <= LastSeg(k)}
<1>3. PICK x \in Behind : \A y \in Behind : x <= y
  <2>1. Len(chunks) \in Behind /\ Behind \in SUBSET Nat
    BY <1>1, <1>2
  <2> HIDE DEF Behind
  <2> QED BY <2>1, LeastIs
<1>4. x \in 1..Len(chunks) /\ i <= LastSeg(x)
  OBVIOUS
<1>5. SegsBefore(x) + 1 <= i
  <2>1. CASE x = 1
    BY <1>1, <2>1, WindowNumbers
  <2>2. CASE x # 1
    <3>1. x \in 2..Len(chunks) /\ ~(x <= x - 1)
      BY <1>2, <1>4, <2>2
    <3>2. /\ x - 1 \in 1..Len(chunks) /\ LastSeg(x - 1) = SegsBefore(x) + call.overlap
      BY <3>1, NextToEachOther
    <3>3. ~(i <= LastSeg(x - 1))
      BY <1>3, <3>1, <3>2
    <3>4. SegsBefore(x) \in Nat /\ call.overlap \in Nat
      BY <1>1, <1>4, WindowHolds, SegmentFacts
    <3> HIDE DEF Behind
    <3> QED BY <3>2, <3>3, <3>4
  <2> QED BY <2>1, <2>2
<1>6. i \in SegmentsIn(chunks[x])
  BY <1>1, <1>4, <1>5, WindowHolds
<1> QED BY <1>4, <1>6

\* Two neighbours have the segments in common that the overlap counts.
LEMMA NeighboursShare ==
  ASSUME SegInv, NEW k \in 2..Len(chunks),
         NEW first, first = CHOOSE i \in SegmentsIn(chunks[k]) :
                              \A j \in SegmentsIn(chunks[k]) : i <= j
  PROVE  SegmentsIn(chunks[k - 1]) \cap SegmentsIn(chunks[k])
           = first .. first + call.overlap - 1
<1> DEFINE from == SegsBefore(k)
           to   == LastSeg(k)
           last == LastSeg(k - 1)
           held == SegmentsIn(chunks[k])
<1>1. k \in 1..Len(chunks) /\ call \in SegmentCalls
  BY DEF SegInv
<1>2. /\ k - 1 \in 1..Len(chunks) /\ from = SegsBefore(k - 1) + stride
      /\ last = from + call.overlap /\ last < to
  BY NextToEachOther
<1>3. /\ from \in Nat /\ to \in (from + 1)..Len(call.segs) /\ Len(call.segs) \in Nat
      /\ held = (from + 1)..to
  BY <1>1, WindowHolds
<1>4. /\ SegsBefore(k - 1) \in Nat
      /\ SegmentsIn(chunks[k - 1]) = (SegsBefore(k - 1) + 1)..last
  BY <1>2, WindowHolds
<1>5. call.overlap \in Nat /\ stride \in Nat
  BY <1>1, SegmentFacts
<1> HIDE DEF from, to, last
<1>6. first = from + 1
  <2> HIDE DEF held
  <2>1. from + 1 \in held /\ \A j \in held : from + 1 <= j
    BY <1>3
  <2>2. first \in held /\ \A j \in held : first <= j
    <3>1. first = CHOOSE i \in held : \A j \in held : i <= j
      BY DEF held
    <3> QED BY <2>1, <3>1
  <2>3. first \in Int /\ first <= from + 1 /\ from + 1 <= first
    BY <1>3, <2>1, <2>2
  <2> QED BY <1>3, <2>3
<1>7. (SegsBefore(k - 1) + 1)..last \cap (from + 1)..to = (from + 1)..last
  BY <1>2, <1>3, <1>4, <1>5
<1>8. first + call.overlap - 1 = last
  <2> DEFINE o == call.overlap
  <2>1. last = from + o /\ from \in Nat /\ o \in Nat
    BY <1>2, <1>3, <1>5
  <2> HIDE DEF o
  <2>2. (from + 1) + o - 1 = last
    BY <2>1
  <2> QED BY <1>6, <2>2 DEF o
<1> QED BY <1>3, <1>4, <1>6, <1>7, <1>8

-----------------------------------------------------------------------------
(* The windows over segments: results.                                     *)

\* Every segment is in a chunk, and two neighbours share exactly the overlap.
THEOREM OverlapIsShared == SegmentSpec => []WindowsShareTheOverlap
<1>1. SegInv => WindowsShareTheOverlap
  BY WindowsCover, NeighboursShare DEF WindowsShareTheOverlap
<1> QED BY SegmentInvariance, <1>1, PTL

\* Both ends of the chunks advance strictly.
THEOREM SegmentsMoveOn == SegmentSpec => []ChunksAdvance
<1>1. SegInv => ChunksAdvance
  <2> SUFFICES ASSUME SegInv, NEW k \in 2..Len(chunks)
               PROVE  /\ chunks[k - 1].start < chunks[k].start
                      /\ chunks[k - 1].end < chunks[k].end
    BY DEF ChunksAdvance
  <2> DEFINE a == SegsBefore(k - 1) + 1
             b == SegsBefore(k) + 1
             c == LastSeg(k - 1)
             d == LastSeg(k)
  <2>1. k \in 1..Len(chunks) /\ k - 1 \in 1..Len(chunks) /\ call \in SegmentCalls
    BY NextToEachOther DEF SegInv
  <2>2. /\ chunks[k - 1].start = call.segs[a].start /\ chunks[k - 1].end = call.segs[c].end
        /\ chunks[k].start = call.segs[b].start /\ chunks[k].end = call.segs[d].end
    BY <2>1 DEF SegInv
  <2>3. {a, b, c, d} \subseteq 1..Len(call.segs) /\ a < b /\ c < d
    <3>1. /\ SegsBefore(k) \in Nat /\ SegsBefore(k - 1) \in Nat /\ Len(call.segs) \in Nat
          /\ c \in a..Len(call.segs) /\ d \in b..Len(call.segs)
      BY <2>1, WindowHolds
    <3>2. SegsBefore(k) = SegsBefore(k - 1) + stride /\ c < d /\ stride \in Nat \ {0}
      BY <2>1, NextToEachOther, SegmentFacts
    <3> HIDE DEF c, d
    <3> QED BY <3>1, <3>2
  <2> HIDE DEF a, b, c, d
  <2>4. call.segs[a].start < call.segs[b].start /\ call.segs[c].end < call.segs[d].end
    BY <2>1, <2>3, BothEndsAscend
  <2> QED BY <2>2, <2>4
<1> QED BY SegmentInvariance, <1>1, PTL

\* No chunk of segments is empty or cuts a cluster.
THEOREM SegmentsTyped == SegmentSpec => []TypeOK
<1>1. SegInv => TypeOK
  <2> SUFFICES ASSUME SegInv PROVE TypeOK
    OBVIOUS
  <2>1. call \in SegmentCalls /\ Len(chunks) \in Nat /\ status \in {"cutting", "done"}
    BY DEF SegInv
  <2>2. start \in Nat
    <3>1. start = 0 \/ start = SegsBefore(Len(chunks) + 1)
            \/ (Len(chunks) > 0 /\ start = SegsBefore(Len(chunks)))
      BY DEF SegInv
    <3>2. ASSUME NEW k \in Nat \ {0} PROVE SegsBefore(k) \in Nat
      BY <2>1, WindowNumbers
    <3>3. CASE start = SegsBefore(Len(chunks) + 1)
      <4>1. Len(chunks) + 1 \in Nat \ {0}
        BY <2>1
      <4> QED BY <3>2, <3>3, <4>1
    <3>4. CASE Len(chunks) > 0 /\ start = SegsBefore(Len(chunks))
      <4>1. Len(chunks) \in Nat \ {0}
        BY <2>1, <3>4
      <4> QED BY <3>2, <3>4, <4>1
    <3> QED BY <3>1, <3>3, <3>4
  <2>3. ASSUME NEW k \in 1..Len(chunks)
        PROVE  /\ chunks[k].start \in call.grid /\ chunks[k].end \in call.grid
               /\ chunks[k].start < chunks[k].end
    <3> DEFINE a == SegsBefore(k) + 1
               b == LastSeg(k)
    <3>1. a \in 1..Len(call.segs) /\ b \in 1..Len(call.segs) /\ a <= b
      BY WindowHolds
    <3>2. chunks[k].start = call.segs[a].start /\ chunks[k].end = call.segs[b].end
      BY DEF SegInv
    <3> HIDE DEF a, b
    <3>3. \A i \in {a, b} :
            /\ call.segs[i].start \in call.grid /\ call.segs[i].end \in call.grid
            /\ call.segs[i].start \in Nat /\ call.segs[i].end \in Nat
            /\ call.segs[i].start < call.segs[i].end
      BY <2>1, <3>1, SegmentFacts
    <3>4. CASE a = b
      BY <3>2, <3>3, <3>4
    <3>5. CASE a # b
      <4>1. call.segs[a].end <= call.segs[b].start
        BY <2>1, <3>1, <3>5, SegmentsAscend
      <4> QED BY <3>2, <3>3, <4>1
    <3> QED BY <3>4, <3>5
  <2> QED BY <2>1, <2>2, <2>3 DEF TypeOK
<1> QED BY SegmentInvariance, <1>1, PTL

\* Every window but the last starts behind the one before it.
THEOREM StridesMoveOn == SegmentSpec => StartAdvances
<1>1. SegInv /\ [SegmentNext]_vars => [start' > start \/ status' = "done"]_vars
  BY SegmentCut DEF SegmentNext, NoSegments
<1> QED BY SegmentInvariance, <1>1, PTL DEF SegmentSpec, StartAdvances
===============================================================================
