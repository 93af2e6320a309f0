------------------------------ MODULE ChunkCall ------------------------------
(***************************************************************************)
(* What the text chunkers of tors share: a call cuts chunks off a text     *)
(* from a moving start, on the grid of grapheme-cluster boundaries         *)
(* (src/src/truncate_impl.rs), and all of them promise the same of the     *)
(* chunks.  Positions are codepoint offsets.                               *)
(***************************************************************************)
EXTENDS Integers, Sequences

VARIABLES
  call,    \* the text and the arguments
  chunks,  \* the chunks so far: [start, end]
  start,   \* where the next window starts (a segment's index in SegmentChunks)
  built,   \* the separator levels realized so far (HierarchicalChunks)
  status   \* "cutting", then "done"

vars == <<call, chunks, start, built, status>>

PrevEnd == IF chunks = <<>> THEN 0 ELSE chunks[Len(chunks)].end

Push(from, to) == chunks' = Append(chunks, [start |-> from, end |-> to])

Greatest(S) == CHOOSE x \in S : \A y \in S : y <= x
Least(S)    == CHOOSE x \in S : \A y \in S : x <= y

AtMost(S, n) == {x \in S : x <= n}

\* The largest cluster boundary at or before x.
last_at_or_before(x) == Greatest(AtMost(call.grid, x))

first_after(x) == Least({g \in call.grid : g > x})

\* Mutant: the raw cut ignores the clusters.
hard_cut_raw(from, limit) == limit

\* The raw cut: the last boundary within the limit, or the end of the one
\* cluster that is wider than it.
hard_cut(from, limit) ==
  IF last_at_or_before(limit) > from THEN last_at_or_before(limit) ELSE first_after(from)

-----------------------------------------------------------------------------
(* What every chunker promises.                                            *)

\* The shapes of a call's state: a chunk is not empty, and neither of its ends is
\* inside a grapheme cluster.
TypeOK ==
  /\ start \in Nat /\ status \in {"cutting", "done"}
  /\ \A i \in 1..Len(chunks) :
       /\ chunks[i].start \in call.grid /\ chunks[i].end \in call.grid
       /\ chunks[i].start < chunks[i].end

\* Both ends of the chunks advance strictly, whatever the overlap pulls back:
\* no chunk is contained in the one before it (chunk_text_overlapping:
\* "Either way the next chunk's end strictly advances").
ChunksAdvance ==
  \A i \in 2..Len(chunks) :
    chunks[i - 1].start < chunks[i].start /\ chunks[i - 1].end < chunks[i].end

OverOnlyAsOneCluster ==
  call.how # "segments" =>
    \A i \in 1..Len(chunks) :
      \/ chunks[i].end - chunks[i].start <= call.max
      \/ \A g \in call.grid : g <= chunks[i].start \/ g >= chunks[i].end

\* A chunk is made of whole clusters, and over its budget only when it is one cluster
\* that is too wide.
WithinBudget == TypeOK /\ OverOnlyAsOneCluster

\* The window always moves on (the iteration assertion of chunk_hierarchical).
StartAdvances == [][start' > start \/ status' = "done"]_vars
==============================================================================
