----------------------------- MODULE MCSimilarity -----------------------------
(***************************************************************************)
(* Every corpus of up to MaxTexts texts over small fingerprints; every     *)
(* pair of short texts, around a word of three bits, and lists of up to    *)
(* two candidates, with a budget that runs out at any step.                *)
(***************************************************************************)
EXTENDS NearDup, CloseMatches

CONSTANT MaxTexts

Fingerprints(m) ==
  CASE m = "simhash" -> SUBSET (1..Width)
    [] m = "shingle" -> SUBSET (1..3)
    [] m = "minhash" -> [1..Width -> {1, 2}]

SmallCorpus(m) == UNION {[1..n -> Fingerprints(m)] : n \in 0..MaxTexts}

Texts(alphabet, lengths) == UNION {[1..n -> alphabet] : n \in lengths}

Pairs(metrics, texts) ==
  {[metric |-> m, a |-> s, b |-> t, budget |-> d] :
     m \in metrics, s \in texts, t \in texts, d \in {NoBudget, 0}}

Ratios ==
  {c \in [metric : {"ratio"}, a : 0..2, b : 0..2, matches : 0..2, budget : {NoBudget, 0}] :
     c.matches <= Shortest(c.a, c.b)}

\* What a candidate may share with a word of two characters.
Candidates(word) ==
  {c \in [len : {0, 1, 2, 4}, matches : 0..2, rank : 1..2] : c.matches <= Shortest(word, c.len)}

Lists ==
  {[metric |-> "close", word |-> w, candidates |-> l, n |-> n, cutoff |-> k, budget |-> d] :
     <<w, l>> \in UNION {{w} \X UNION {[1..m -> Candidates(w)] : m \in 0..2} : w \in {0, 2}},
     n \in 1..2, k \in {0, 2, 3}, d \in {NoBudget, 0}}

AllMetricCalls ==
  Pairs({"levenshtein"}, Texts({"x", "y"}, 0..4)) \cup Pairs(Jaros, Texts({"x", "y"}, 0..4))
    \cup Pairs(Jaros, Texts({"x", "y", "z"}, {3})) \cup Ratios \cup Lists

NoSweep ==
  /\ method \in Methods /\ num = 0 /\ fingerprints = <<>> /\ i = 1 /\ ki = 1
  /\ kept = <<>> /\ dropped = <<>> /\ groups = <<>>

NoMetric ==
  /\ ask = [metric |-> "none", budget |-> NoBudget] /\ clock = 0 /\ at = "done" /\ regs = NoRegs
  /\ result = NoResult

SimilarityInit == (Init /\ NoMetric) \/ (NoSweep /\ MetricInit)

SimilarityNext ==
  \/ Next /\ UNCHANGED metric_vars
  \/ (MetricNext \/ CloseNext) /\ UNCHANGED vars

SimilaritySpec == SimilarityInit /\ [][SimilarityNext]_<<vars, metric_vars>>

\* No shortcut changes an answer: the early exits of a pair's verdict, the bits that
\* stand for a column of the distance's table, the poll that ends a call
\* (near_dup_impl.rs 302-361, fuzzy_impl.rs 129-403).
ShortcutsAreExact == VerdictIsDefined /\ DistanceIsEdit /\ JaroIsScore
===============================================================================
