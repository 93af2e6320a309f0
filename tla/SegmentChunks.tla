---------------------------- MODULE SegmentChunks ----------------------------
(***************************************************************************)
(* The unit-count chunkers (src/src/chunk_by_segment_impl.rs): windows of  *)
(* `per` consecutive words, sentences, paragraphs or lines of a text,      *)
(* `overlap` of them repeated.  `start` counts segments here, from 0.      *)
(***************************************************************************)
EXTENDS ChunkCall, TextBounds

CONSTANT SegmentCalls

\* The segments of each chunker.
Units(t, unit) ==
  CASE unit = "word"      -> word_segments(t)
    [] unit = "sentence"  -> sentence_segments(t)
    [] unit = "paragraph" -> paragraph_bounds(t)
    [] unit = "line"      -> line_bounds(t)

\* The segments are whole clusters, ascend and do not overlap; gaps between them are
\* allowed.
ASSUME SegmentAssumption ==
  \A c \in SegmentCalls :
    /\ c.how = "segments" /\ c.per \in Nat \ {0} /\ c.overlap \in Nat /\ c.overlap < c.per
    /\ c.grid \subseteq Nat /\ c.segs \in Seq([start : c.grid, end : c.grid])
    /\ \A i \in 1..Len(c.segs) : c.segs[i].start < c.segs[i].end
    /\ \A i \in 2..Len(c.segs) : c.segs[i - 1].end <= c.segs[i].start

SegmentInit ==
  /\ call \in SegmentCalls
  /\ chunks = <<>> /\ start = 0 /\ built = {} /\ status = "cutting"

\* Mutant: the stride forgets the overlap.
stride_whole == call.per

stride == call.per - call.overlap

\* One past the window's last segment; the last window takes what is left.
window_end == IF start + call.per < Len(call.segs) THEN start + call.per ELSE Len(call.segs)

CutSegments ==
  /\ call.how = "segments" /\ status = "cutting" /\ call.segs # <<>>
  /\ Push(call.segs[start + 1].start, call.segs[window_end].end)
  /\ IF window_end = Len(call.segs)
     THEN status' = "done" /\ UNCHANGED start
     ELSE start' = start + stride /\ UNCHANGED status
  /\ UNCHANGED <<call, built>>

NoSegments ==
  /\ call.how = "segments" /\ status = "cutting" /\ call.segs = <<>>
  /\ status' = "done"
  /\ UNCHANGED <<call, chunks, start, built>>

SegmentNext == CutSegments \/ NoSegments

SegmentSpec == SegmentInit /\ [][SegmentNext]_vars

-----------------------------------------------------------------------------
(* Properties.                                                             *)

SegmentsIn(c) ==
  {i \in 1..Len(call.segs) : c.start <= call.segs[i].start /\ call.segs[i].end <= c.end}

\* Every segment is in a chunk, and two neighbours share exactly the overlap.
WindowsShareTheOverlap ==
  call.how = "segments" =>
    /\ status = "done" =>
         \A i \in 1..Len(call.segs) : \E k \in 1..Len(chunks) : i \in SegmentsIn(chunks[k])
    /\ \A k \in 2..Len(chunks) :
         LET first == CHOOSE i \in SegmentsIn(chunks[k]) :
                        \A j \in SegmentsIn(chunks[k]) : i <= j
         IN  SegmentsIn(chunks[k - 1]) \cap SegmentsIn(chunks[k])
               = first .. first + call.overlap - 1

\* The longest stretches of a text whose characters are all in a set.
Stretches(t, in(_)) ==
  {s \in [start : 0..Len(t), end : 0..Len(t)] :
     /\ s.start < s.end
     /\ \A p \in s.start..(s.end - 1) : in(p)
     /\ s.start > 0 => ~in(s.start - 1)
     /\ s.end < Len(t) => ~in(s.end)}

\* The characters of the paragraph gaps: runs of breaks longer than one CRLF.
InGap(t, p) ==
  \E s \in Stretches(t, LAMBDA q : IsBreak(t, q)) :
    /\ s.start <= p /\ p < s.end
    /\ s.end - s.start > 1 /\ Slice(t, s.start, s.end) # <<"cr", "nl">>

\* The walk over the break units finds exactly the stretches between the gaps,
\* and exactly the lines with something on them.
UnitsAreStretches ==
  call.how = "segments" =>
    /\ call.unit = "paragraph" =>
         ToSet(call.segs) = Stretches(call.text, LAMBDA p : ~InGap(call.text, p))
    /\ call.unit = "line" =>
         ToSet(call.segs) =
           {s \in Stretches(call.text, LAMBDA p : ~IsBreak(call.text, p)) :
              HasContent(call.text, s.start, s.end)}

\* From text to windows: the units are the text's, and no unit is lost or shared
\* beyond the overlap (chunk_by_segment_impl.rs:175, 600).
SegmentWindows == UnitsAreStretches /\ WindowsShareTheOverlap
==============================================================================
