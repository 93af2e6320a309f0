-------------------------- MODULE HierarchicalChunks --------------------------
(***************************************************************************)
(* chunk_hierarchical (src/src/chunk_hierarchical_impl.rs): each window is *)
(* cut at the coarsest separator level that has a cut for it; a window     *)
(* that opens on a separator skips it; headings bound a chunk even where   *)
(* the budget could hold more; an overlap pulls the next start back unless *)
(* that buys nothing.  Levels are realized when a window first consults    *)
(* them.                                                                   *)
(*                                                                         *)
(* A call has the text's length (len), its cluster grid, max_chars,        *)
(* overlap, the overlap's boundary (snap), the word ends (words), whether  *)
(* the text has a `#` (hash), and its slots, coarsest first.  A slot has   *)
(* its kind, its cuts [end, next] (a chunk ends at end, the next window    *)
(* starts at next), the matches that may open a window without being a cut *)
(* (skips), and whether the text starts with its literal (leads).          *)
(***************************************************************************)
EXTENDS ChunkCall

CONSTANT HierarchicalCalls

\* A level's rows, filtered to the grid when it is realized.
IsRows(rows, c) ==
  rows \subseteq {r \in [end : c.grid, next : c.grid] : r.end <= r.next}

ASSUME HierarchyAssumption ==
  \A c \in HierarchicalCalls :
    /\ c.how = "hierarchical" /\ c.len \in Nat /\ c.max \in Nat \ {0}
    /\ c.overlap \in Nat /\ c.overlap < c.max
    /\ c.grid \subseteq 0..c.len /\ {0, c.len} \subseteq c.grid /\ c.words \subseteq c.grid
    /\ Len(c.slots) \in Nat
    /\ \A k \in 1..Len(c.slots) : IsRows(c.slots[k].cuts, c) /\ IsRows(c.slots[k].skips, c)

\* What each kind of level can lose behind a chunk (realize): only headings,
\* literals and paragraphs lose anything; there is no heading without a `#`, a
\* literal stands at the text's start where the text leads with it, and no
\* paragraph ends there.
ASSUME LevelsAssumption ==
  \A c \in HierarchicalCalls : \A k \in 1..Len(c.slots) :
    LET s == c.slots[k] IN
    /\ s.kind = "heading" /\ ~c.hash => s.cuts \cup s.skips = {}
    /\ \A r \in s.cuts \cup s.skips :
         r.end < r.next =>
           \/ s.kind = "heading"
           \/ s.kind = "literal" /\ (r.end = 0 => s.leads)
           \/ s.kind = "paragraph" /\ r.end > 0

HierarchicalInit ==
  /\ call \in HierarchicalCalls
  /\ chunks = <<>> /\ start = 0 /\ built = {} /\ status = "cutting"

Slots == 1..Len(call.slots)

Headings == {k \in Slots : call.slots[k].kind = "heading"}

\* A slot that a search may consult: without a `#` there is no heading.
Open(k) == k \notin Headings \/ call.hash

-----------------------------------------------------------------------------
(* The levels' answers: a set of at most one cut, or of one resumption.    *)

\* Mutant: every level takes its largest cut, headings too.
best_cut_largest(k, after, limit) ==
  LET within == {r \in call.slots[k].cuts : after < r.end /\ r.end <= limit}
  IN  {r \in within : r.end = Greatest({s.end : s \in within})}

\* The largest cut within the limit; the first heading.
best_cut(k, after, limit) ==
  LET within == {r \in call.slots[k].cuts : after < r.end /\ r.end <= limit}
      ends   == {r.end : r \in within}
  IN  {r \in within : r.end = IF k \in Headings THEN Least(ends) ELSE Greatest(ends)}

\* Mutant: only cuts open a window, overlapping matches do not.
skip_cut_cuts(k, at) ==
  {r.next : r \in {r \in call.slots[k].cuts : r.end = at /\ r.next > at}}

\* A separator that begins exactly here: where the window resumes.
skip_cut(k, at) ==
  {r.next : r \in {r \in call.slots[k].cuts \cup call.slots[k].skips :
                     r.end = at /\ r.next > at}}

Answers(k, at, limit) == Open(k) /\ (skip_cut(k, at) # {} \/ best_cut(k, at, limit) # {})

\* The slots a search of the window consults: up to the first that answers.
Consulted(at, limit) ==
  {k \in Slots : Open(k) /\ \A j \in 1..(k - 1) : ~Answers(j, at, limit)}

\* The first of them, if any does.
Verdict(at, limit) == {k \in Consulted(at, limit) : Answers(k, at, limit)}

-----------------------------------------------------------------------------
(* The final window.                                                       *)

\* The cut a heading forces on the final window: that of the first slot up
\* to the heading that answers, none if it answers with a skip.
demotion_predicted_cut(after, limit) ==
  UNION {best_cut(k, after, limit) :
           k \in {k \in Verdict(after, limit) :
                    /\ skip_cut(k, after) = {}
                    /\ \E h \in Headings : k <= h /\ best_cut(h, after, limit) # {}}}

\* What the prediction realizes.
DemotionRealizes(after, limit) ==
  LET live == {h \in Headings : Open(h)}
  IN  live \cup IF \E h \in live : best_cut(h, after, limit) # {}
                THEN Consulted(after, limit) ELSE {}

Fits == call.len - start <= call.max

Limit == start + call.max

\* A heading cuts the final window only if that chunk ends past the last one.
Final ==
  Fits /\ \A r \in demotion_predicted_cut(start, Limit) : r.end <= PrevEnd

AfterFinalTest == built \cup IF Fits THEN DemotionRealizes(start, Limit) ELSE {}

\* Mutant: an unrealized literal opens only at the text's start.
separator_may_open_at_zero(realized) ==
  \E k \in Slots :
    IF k \in realized THEN skip_cut(k, start) # {}
    ELSE \/ call.slots[k].kind = "literal" /\ start = 0 /\ call.slots[k].leads
         \/ call.slots[k].kind = "paragraph" /\ start > 0

\* The cheap pre-test of the final exit over levels that may be unrealized.
separator_may_open(realized) ==
  \E k \in Slots :
    IF k \in realized THEN skip_cut(k, start) # {}
    ELSE \/ call.slots[k].kind = "literal" /\ (start > 0 \/ call.slots[k].leads)
         \/ call.slots[k].kind = "paragraph" /\ start > 0

-----------------------------------------------------------------------------
(* The overlap.                                                            *)

WordSlots == {k \in Slots : call.slots[k].kind = "word"}

\* The largest word end at or before, or the position itself.
word_snap_back(x) ==
  IF AtMost(call.words, x) # {} THEN Greatest(AtMost(call.words, x)) ELSE x

Snapped(end) ==
  LET g == last_at_or_before(IF end > call.overlap THEN end - call.overlap ELSE 0)
  IN  IF call.snap = "word" THEN word_snap_back(g) ELSE g

\* The slots the lookahead consults: it asks for cuts, not for skips.
LookedAt(at, limit) ==
  {k \in Slots : Open(k) /\ \A j \in 1..(k - 1) : ~(Open(j) /\ best_cut(j, at, limit) # {})}

\* Where the chunk from the snapped start would end.
next_end(snapped, end) ==
  LET limit == snapped + call.max
      cuts  == UNION {best_cut(k, snapped, limit) : k \in LookedAt(snapped, limit)}
      past  == {r \in demotion_predicted_cut(snapped, call.len) : r.end > end}
  IN  IF call.len - snapped <= call.max
        THEN IF past # {} THEN (CHOOSE r \in past : TRUE).end ELSE call.len
        ELSE IF cuts # {} THEN (CHOOSE r \in cuts : TRUE).end ELSE hard_cut(snapped, limit)

\* Mutant: the next window starts at the limit, not behind the cut.
next_start_limit(r) == IF Limit < call.len THEN Limit - call.overlap ELSE r.next

\* The next window: the snapped start if its own chunk would end past this one.
next_start(r) ==
  LET snapped == Snapped(r.end)
  IN  IF /\ call.overlap # 0 /\ start < snapped /\ snapped < r.end
         /\ next_end(snapped, r.end) > r.end
      THEN snapped ELSE r.next

\* The levels the overlap realizes.
SnapRealizes(end) ==
  LET snapped == Snapped(end) IN
  IF call.overlap = 0 THEN {}
  ELSE (IF call.snap = "word" THEN WordSlots ELSE {})
         \cup IF call.len - snapped <= call.max THEN DemotionRealizes(snapped, call.len)
              ELSE LookedAt(snapped, snapped + call.max)

-----------------------------------------------------------------------------
(* One window per step.                                                    *)

Window == call.how = "hierarchical" /\ status = "cutting" /\ start < call.len

\* The pre-test rules a separator out: the rest is the last chunk.
FinalExit ==
  /\ Window /\ Final /\ ~separator_may_open(AfterFinalTest)
  /\ Push(start, call.len) /\ status' = "done" /\ built' = AfterFinalTest
  /\ UNCHANGED <<call, start>>

Searched == Window /\ (Final => separator_may_open(AfterFinalTest))

AfterSearch == AfterFinalTest \cup Consulted(start, Limit)

\* The window opens on a separator: no chunk, the window resumes behind it.
Skip ==
  /\ Searched
  /\ \E k \in Verdict(start, Limit) : start' \in skip_cut(k, start)
  /\ built' = AfterSearch
  /\ UNCHANGED <<call, chunks, status>>

Opens(k) == skip_cut(k, start) # {}

\* The search found no separator here: the final window runs to the end.
FinalAfterSearch ==
  /\ Searched /\ Final /\ \A k \in Verdict(start, Limit) : ~Opens(k)
  /\ Push(start, call.len) /\ status' = "done" /\ built' = AfterSearch
  /\ UNCHANGED <<call, start>>

\* The first slot's cut, or the raw cut when none has any.
Cuts ==
  IF Verdict(start, Limit) # {}
  THEN UNION {best_cut(k, start, Limit) : k \in {k \in Verdict(start, Limit) : ~Opens(k)}}
  ELSE {[end |-> hard_cut(start, Limit), next |-> hard_cut(start, Limit)]}

Cut ==
  /\ Searched /\ ~Final
  /\ \E r \in Cuts :
       /\ Push(start, r.end)
       /\ start' = next_start(r)
       /\ built' = AfterSearch \cup SnapRealizes(r.end)
  /\ UNCHANGED <<call, status>>

\* The windows have reached the end of the text.
RunOut ==
  /\ call.how = "hierarchical" /\ status = "cutting" /\ start >= call.len
  /\ status' = "done"
  /\ UNCHANGED <<call, chunks, start, built>>

HierarchicalNext == FinalExit \/ Skip \/ FinalAfterSearch \/ Cut \/ RunOut

HierarchicalSpec == HierarchicalInit /\ [][HierarchicalNext]_vars
-----------------------------------------------------------------------------
(* Properties.                                                             *)

IsHierarchical == call.how = "hierarchical"

\* The pre-test may skip the search only where the search would not skip: the
\* output does not depend on which levels happen to be realized
\* (separator_may_open: "Every false is therefore provably no-skip").
PretestIsSound ==
  (IsHierarchical /\ Window /\ Final /\ ~separator_may_open(AfterFinalTest))
  => \A k \in Verdict(start, Limit) : ~Opens(k)

\* The headings of the coarsest level that chunk i crosses.
Crossed(i) ==
  {r \in call.slots[1].cuts : chunks[i].start < r.end /\ r.end < chunks[i].end}

\* No chunk crosses a heading that is the coarsest level; only the last one
\* may, where its overlap starts it before a heading that the chunk before it
\* has reached.
SectionsStayApart ==
  (IsHierarchical /\ 1 \in Headings) =>
    \A i \in 1..Len(chunks) :
      Crossed(i) # {} =>
        /\ status = "done" /\ i = Len(chunks) /\ i > 1
        /\ \E r \in Crossed(i) : r.end <= chunks[i - 1].end

\* Only separators are lost between the chunks.
OnlySeparatorsLost ==
  (IsHierarchical /\ status = "done") =>
    \A p \in 0..(call.len - 1) :
      \/ \E i \in 1..Len(chunks) : chunks[i].start <= p /\ p < chunks[i].end
      \/ \E k \in Slots : \E r \in call.slots[k].cuts \cup call.slots[k].skips :
           r.end <= p /\ p < r.next

\* No chunk opens on a match of the coarsest separator, wherever an overlap, a
\* skip or the final exit put the window (#103: a snapped start inside a run of
\* overlapping matches).
CoarsestNeverOpens ==
  (IsHierarchical /\ 1 \in Slots /\ Open(1)) =>
    \A i \in 1..Len(chunks), r \in call.slots[1].cuts \cup call.slots[1].skips :
      r.end = chunks[i].start => r.next = r.end

\* The coarsest level wins: its headings keep the sections apart, and its separators
\* stay out of the chunks' beginnings.
CoarsestRules == SectionsStayApart /\ CoarsestNeverOpens

\* The documentation's promise: "no chunk spans a heading cut, so a section's content
\* never merges across a heading of higher rank even when the budget could hold
\* several sections" (lines 88-90), but for the tail that an overlap repeats.  It does
\* not hold: the overlap that puts a final window before one heading, which the last
\* chunk has reached, lets it run across all the headings behind it.
SectionsNeverMerge ==
  (IsHierarchical /\ 1 \in Headings) =>
    \A i \in 1..Len(chunks) : \A r \in Crossed(i) : i > 1 /\ r.end <= chunks[i - 1].end

\* The documentation's promise: no window ever opens on a separator, so no chunk
\* does ("a window that opens on a separator match never comes back as a chunk").
\* It does not hold: the cut of an earlier literal answers before the skip of a
\* later one is asked.
NoChunkOpensOnASeparator ==
  IsHierarchical =>
    \A i \in 1..Len(chunks), k \in Slots : \A r \in call.slots[k].skips :
      r.end # chunks[i].start
==============================================================================
