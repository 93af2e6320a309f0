------------------------------ MODULE TextChunks ------------------------------
(***************************************************************************)
(* chunk_text and its overlapping variant (src/src/chunk_impl.rs): greedy  *)
(* chunks cut at the largest boundary within the budget, trimmed of        *)
(* trailing white space, each starting a boundary-safe overlap before the  *)
(* end of its predecessor.  A call has the text's length (len), its        *)
(* cluster grid, the ends of its word or sentence segments (bounds), the   *)
(* ends of its all-white-space clusters (blank), max_chars and overlap.    *)
(***************************************************************************)
EXTENDS ChunkCall

CONSTANT TextCalls

\* What the segmenter hands over: a grid from 0 to the end of the text.
ASSUME TextAssumption ==
  \A c \in TextCalls :
    /\ c.how = "text" /\ c.len \in Nat /\ c.max \in Nat \ {0}
    /\ c.overlap \in Nat /\ c.overlap < c.max
    /\ c.grid \subseteq 0..c.len /\ {0, c.len} \subseteq c.grid
    /\ c.bounds \subseteq 0..c.len /\ c.blank \subseteq c.grid

TextInit ==
  /\ call \in TextCalls
  /\ chunks = <<>> /\ start = 0 /\ built = {} /\ status = "cutting"

cluster_safe_ends == call.bounds \cap call.grid

\* Mutant: the budget reaches one codepoint further.
boundary_cut_wide(from, limit) ==
  LET within == {e \in cluster_safe_ends : from < e /\ e <= limit + 1}
  IN  IF within # {} THEN Greatest(within) ELSE hard_cut(from, limit)

\* The largest boundary within the budget, or the raw cut.
boundary_cut(from, limit) ==
  LET within == {e \in cluster_safe_ends : from < e /\ e <= limit}
  IN  IF within # {} THEN Greatest(within) ELSE hard_cut(from, limit)

\* White space before a cut rides with the next chunk, unless there is
\* nothing else.
trimmed_end(from, cut) ==
  LET solid == {e \in call.grid \ call.blank : from < e /\ e <= cut}
  IN  IF solid # {} THEN Greatest(solid) ELSE cut

\* Where the chunk that starts at `from` ends.
cut_end(from) ==
  IF call.len - from <= call.max THEN call.len
  ELSE trimmed_end(from, boundary_cut(from, from + call.max))

\* Mutant: the snapped start is taken without looking ahead.
snapped_start_blind(end) ==
  LET before == AtMost(cluster_safe_ends, end - call.overlap)
      snapped == IF before # {} THEN Greatest(before) ELSE 0
  IN  IF start < snapped /\ snapped < end THEN snapped ELSE end

\* The next start: the overlap's boundary, unless the chunk from there would
\* not end past this one.
snapped_start(end) ==
  LET before == AtMost(cluster_safe_ends, end - call.overlap)
      snapped == IF before # {} THEN Greatest(before) ELSE 0
  IN  IF start < snapped /\ snapped < end /\ cut_end(snapped) > end THEN snapped ELSE end

\* A window that is not the last; without an overlap the next starts at its end.
CutText ==
  /\ call.how = "text" /\ status = "cutting" /\ start < call.len
  /\ cut_end(start) < call.len
  /\ Push(start, cut_end(start))
  /\ start' = IF call.overlap = 0 THEN cut_end(start) ELSE snapped_start(cut_end(start))
  /\ UNCHANGED <<call, built, status>>

\* The window that reaches the end of the text.
LastText ==
  /\ call.how = "text" /\ status = "cutting" /\ start < call.len
  /\ cut_end(start) = call.len
  /\ Push(start, call.len) /\ status' = "done"
  /\ UNCHANGED <<call, start, built>>

EmptyText ==
  /\ call.how = "text" /\ status = "cutting" /\ call.len = 0
  /\ status' = "done"
  /\ UNCHANGED <<call, chunks, start, built>>

TextNext == CutText \/ LastText \/ EmptyText

TextSpec == TextInit /\ [][TextNext]_vars

-----------------------------------------------------------------------------
(* Properties.                                                             *)

CoverTotal  == IF call.how = "text" THEN call.len ELSE 0
CoverSpans  == IF call.how = "text" THEN chunks ELSE <<>>
CoverStatus == IF call.how = "text" /\ status = "done" THEN "covered" ELSE "packing"

Covering == INSTANCE Cover WITH
  total <- CoverTotal, spans <- CoverSpans, status <- CoverStatus

\* chunk_text covers the text from its start without a gap, and is done only
\* at its end; calls of the other chunkers leave the cover alone.
TextCovers == Covering!Spec
==============================================================================
