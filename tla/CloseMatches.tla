----------------------------- MODULE CloseMatches -----------------------------
(***************************************************************************)
(* The ratio of two texts and the candidates closest to a word             *)
(* (src/src/diff_impl.rs 404-728).  The search for a diff is third-party:  *)
(* how many characters it matches is data, no more than the shorter text   *)
(* has; behind the deadline it gives up and answers with any less.  A      *)
(* candidate is its length, how many characters it shares with the word,   *)
(* and its place in the order of texts.  Ratios and cutoffs are fractions, *)
(* the cutoffs of CUTOFF_UNIT; the rounding of their floats is monotone.   *)
(***************************************************************************)
EXTENDS FuzzyMetrics

CONSTANT CUTOFF_UNIT

ASSUME CutoffAssumption == CUTOFF_UNIT \in Nat \ {0}

Shortest(m, n) == IF m <= n THEN m ELSE n

\* Two empty texts are alike.
ratio_from_matches(matches, total) == IF total > 0 THEN <<2 * matches, total>> ELSE <<1, 1>>

AtLeast(ratio, cutoff) == ratio[1] * CUTOFF_UNIT >= cutoff * ratio[2]

\* Mutant: a candidate at the cutoff itself is skipped.
Skipped_at(word_len, cand_len, cutoff) ==
  2 * Shortest(word_len, cand_len) * CUTOFF_UNIT <= cutoff * (word_len + cand_len)

\* The ceiling from the lengths alone is under the cutoff; there is none for two empty texts.
Skipped(word_len, cand_len, cutoff) ==
  2 * Shortest(word_len, cand_len) * CUTOFF_UNIT < cutoff * (word_len + cand_len)

\* The search gives up when the deadline is over.
matched_chars(found) == IF elapsed_exceeds THEN 0..found ELSE {found}

-----------------------------------------------------------------------------

similarity_ratio ==
  /\ Starts("ratio")
  /\ \E found \in matched_chars(ask.matches) :
       Loops("judge", [ratio |-> ratio_from_matches(found, ask.a + ask.b)])

\* Mutant: what the search gave is answered without a look at the clock.
Concludes_at_once(next) == next

\* The clock is read again behind the search.
Concludes(next) == Polled(next)

RatioAnswers ==
  /\ at = "judge" /\ ask.metric = "ratio"
  /\ Concludes(Answers(Score(regs.ratio[1], regs.ratio[2])))

close_matches == Starts("close") /\ Loops("scan", [idx |-> 0, scored |-> <<>>])

NoRatio == <<>>

Search ==
  /\ at = "scan" /\ regs.idx < Len(ask.candidates)
  /\ LET candidate == ask.candidates[regs.idx + 1]
     IN  IF Skipped(ask.word, candidate.len, ask.cutoff)
         THEN Loops("judge", [idx |-> regs.idx, scored |-> regs.scored, ratio |-> NoRatio])
         ELSE \E found \in matched_chars(candidate.matches) :
                Loops("judge", [idx |-> regs.idx, scored |-> regs.scored,
                                ratio |-> ratio_from_matches(found, ask.word + candidate.len)])

\* A deadline that is over stops the scan, behind a search as behind a skip.
Judge ==
  /\ at = "judge" /\ ask.metric = "close"
  /\ LET scored == [ratio |-> regs.ratio, idx |-> regs.idx]
         keeps  == regs.ratio # NoRatio /\ AtLeast(regs.ratio, ask.cutoff)
     IN  Concludes(Loops("scan", [idx |-> regs.idx + 1,
                                  scored |-> IF keeps THEN Append(regs.scored, scored) ELSE regs.scored]))

\* Mutant: candidates of one ratio keep the order of the call.
BestFirst_as_given(s, t) ==
  LET m == s.ratio[1] * t.ratio[2]
      n == t.ratio[1] * s.ratio[2]
  IN  m > n \/ (m = n /\ s.idx < t.idx)

\* By the ratio; then the greater text, then the earlier one.
BestFirst(s, t) ==
  LET m == s.ratio[1] * t.ratio[2]
      n == t.ratio[1] * s.ratio[2]
      rank(x) == ask.candidates[x.idx + 1].rank
  IN  m > n \/ (m = n /\ rank(s) > rank(t)) \/ (m = n /\ rank(s) = rank(t) /\ s.idx < t.idx)

\* No two of them compare as equal: one order of them is sorted.
Sorted(S) ==
  CHOOSE s \in [1..Cardinality(S) -> S] : \A p, q \in DOMAIN s : p < q => BestFirst(s[p], s[q])

best_first(scored, n) ==
  LET sorted == Sorted({scored[k] : k \in DOMAIN scored})
  IN  [k \in 1..Shortest(n, Len(sorted)) |-> sorted[k].idx]

Best ==
  /\ at = "scan" /\ regs.idx = Len(ask.candidates)
  /\ Answers([is |-> "matches", of |-> best_first(regs.scored, ask.n)])

CloseNext == similarity_ratio \/ RatioAnswers \/ close_matches \/ Search \/ Judge \/ Best

-----------------------------------------------------------------------------
(* Properties.                                                             *)

\* Reference. Every candidate searched to the end, and how many are before it.
Exact(k) == ratio_from_matches(ask.candidates[k + 1].matches, ask.word + ask.candidates[k + 1].len)

Qualify == {k \in 0..(Len(ask.candidates) - 1) : AtLeast(Exact(k), ask.cutoff)}

\* difflib's order: the pair of ratio and text, from the greatest; copies as they come.
Above(k) ==
  {l \in Qualify : LET c == Exact(l)[1] * Exact(k)[2] - Exact(k)[1] * Exact(l)[2]
                       r == ask.candidates[l + 1].rank - ask.candidates[k + 1].rank
                   IN  c > 0 \/ (c = 0 /\ r > 0) \/ (c = 0 /\ r = 0 /\ l < k)}

\* No skip by the lengths and no deadline costs a match: what is answered are the n
\* best candidates that reach the cutoff, each in the place that counting says, or
\* nothing at all; and a ratio that was cut short by the deadline is never answered
\* (diff_impl.rs 579-727).
NoMatchIsLost ==
  /\ ask.metric = "close" /\ result.is = "matches" =>
       /\ Len(result.of) = Shortest(ask.n, Cardinality(Qualify))
       /\ \A p \in 1..Len(result.of) :
            result.of[p] \in Qualify /\ Cardinality(Above(result.of[p])) = p - 1
  /\ ask.metric = "ratio" /\ result.is = "score" =>
       result.of = ratio_from_matches(ask.matches, ask.a + ask.b)
  /\ result.is = "exceeded" => ask.budget # NoBudget /\ clock > ask.budget
===============================================================================
