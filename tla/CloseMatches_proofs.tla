-------------------------- MODULE CloseMatches_proofs --------------------------
(***************************************************************************)
(* The scan of close_matches, for every list of candidates, cutoff and     *)
(* budget: what it keeps for the sort is what a scan without a skip and    *)
(* without a clock would keep, and the sort gives each of them the place   *)
(* that counting the better ones says.                                     *)
(***************************************************************************)
EXTENDS CloseMatches, TLAPS, FiniteSetTheorems, FunctionTheorems

Candidate(word) ==
  {c \in [len : Nat, matches : Nat, rank : Int] : c.matches <= word /\ c.matches <= c.len}

CloseCalls ==
  {c \in [metric : {"close"}, word : Nat, candidates : Seq([len : Nat, matches : Nat, rank : Int]),
          n : Nat, cutoff : Nat, budget : Nat \cup {NoBudget}] :
     \A k \in 1..Len(c.candidates) : c.candidates[k] \in Candidate(c.word)}

\* What the calls give to the other metrics is free.
CallsAreTyped ==
  \A c \in MetricCalls :
    /\ c.metric \in {"levenshtein", "ratio", "close"} \cup Jaros
    /\ c.budget \in Nat \cup {NoBudget}
    /\ c.metric = "close" => c \in CloseCalls

MetricSpec == MetricInit /\ [][MetricNext \/ CloseNext]_metric_vars

\* A candidate that the lengths rule out could not have reached the cutoff,
\* whatever a search finds (diff_impl.rs:704).
THEOREM SkipLosesNothing ==
  ASSUME NEW word \in Nat, NEW len \in Nat, NEW cutoff \in Nat, NEW found \in Nat,
         found <= word, found <= len, Skipped(word, len, cutoff)
  PROVE  ~AtLeast(ratio_from_matches(found, word + len), cutoff)
  <1> DEFINE short == Shortest(word, len)
             total == word + len
  <1>1. short \in Nat /\ found <= short
    BY DEF Shortest
  <1>2. CUTOFF_UNIT \in Nat
    BY CutoffAssumption
  <1>3. 2 * short * CUTOFF_UNIT < cutoff * total
    BY DEF Skipped
  <1>4. (2 * found) * CUTOFF_UNIT <= 2 * short * CUTOFF_UNIT
    <2>1. PICK d \in Nat : short = found + d
      <3>1. short - found \in Nat /\ short = found + (short - found)
        BY <1>1
      <3> QED BY <3>1
    <2>2. 2 * short * CUTOFF_UNIT = (2 * found) * CUTOFF_UNIT + 2 * (d * CUTOFF_UNIT)
      BY <2>1, <1>2, Z3
    <2>3. d * CUTOFF_UNIT \in Nat /\ (2 * found) * CUTOFF_UNIT \in Nat
      BY <1>2
    <2> HIDE DEF short
    <2> QED BY <2>2, <2>3
  <1>5. total # 0
    <2>1. SUFFICES ASSUME total = 0 PROVE FALSE
      OBVIOUS
    <2>2. cutoff * total = 0 /\ short = 0
      BY <2>1 DEF Shortest
    <2> QED BY <1>2, <1>3, <2>2
  <1>6. ratio_from_matches(found, total) = <<2 * found, total>>
    BY <1>5 DEF ratio_from_matches
  <1>7. (2 * found) * CUTOFF_UNIT < cutoff * total
    <2>1. (2 * found) * CUTOFF_UNIT \in Nat /\ 2 * short * CUTOFF_UNIT \in Nat /\ cutoff * total \in Nat
      BY <1>1, <1>2
    <2> QED BY <1>3, <1>4, <2>1
  <1>8. ~((2 * found) * CUTOFF_UNIT >= cutoff * total)
    <2>1. (2 * found) * CUTOFF_UNIT \in Nat /\ cutoff * total \in Nat
      BY <1>2
    <2> QED BY <1>7, <2>1
  <1> QED BY <1>6, <1>8 DEF AtLeast

-----------------------------------------------------------------------------
(* The scan.                                                               *)

Entry(k) == [ratio |-> Exact(k), idx |-> k]

\* What the first n candidates leave for the sort.
Complete(n, scored) ==
  /\ DOMAIN scored = 1..Len(scored) /\ scored \in Seq({Entry(k) : k \in Qualify})
  /\ {scored[p] : p \in 1..Len(scored)} = {Entry(k) : k \in {l \in Qualify : l < n}}

Count == Len(ask.candidates)

\* What a search gave counts only while the deadline is not over: then it is exact.
Judged ==
  ~elapsed_exceeds =>
    IF regs.idx \in Qualify
    THEN regs.ratio = Exact(regs.idx) /\ regs.ratio # NoRatio
    ELSE regs.ratio = NoRatio \/ ~AtLeast(regs.ratio, ask.cutoff)

\* Which metric a loop is of.
Phases ==
  /\ at \in {"start", "bits", "rows", "match", "boost", "scan", "judge", "done"}
  /\ at \in {"bits", "rows"} => ask.metric = "levenshtein"
  /\ at \in {"match", "boost"} => ask.metric \in Jaros
  /\ at = "scan" => ask.metric = "close"
  /\ at = "judge" => ask.metric \in {"close", "ratio"}
  /\ at # "done" => result = NoResult

CallInv ==
  /\ ask \in MetricCalls /\ clock \in Nat /\ Phases
  /\ result.is = "exceeded" => elapsed_exceeds

Ratio == ratio_from_matches(ask.matches, ask.a + ask.b)

RatioInv ==
  ask.metric = "ratio" =>
    /\ at = "judge" /\ ~elapsed_exceeds => regs.ratio = Ratio
    /\ result.is = "score" => result.of = Ratio

ScanInv ==
  ask.metric = "close" =>
    /\ at = "scan" => regs.idx \in 0..Count /\ Complete(regs.idx, regs.scored)
    /\ at = "judge" => regs.idx \in 0..(Count - 1) /\ Complete(regs.idx, regs.scored) /\ Judged

\* What NoMatchIsLost says of an answer.
InPlace(of) ==
  /\ Len(of) = Shortest(ask.n, Cardinality(Qualify))
  /\ \A p \in 1..Len(of) : of[p] \in Qualify /\ Cardinality(Above(of[p])) = p - 1

\* What is sorted for an answer are all that qualify, exactly, and each comes to its place.
ScanIsComplete ==
  ask.metric = "close" /\ result.is = "matches" =>
    Complete(Count, regs.scored) /\ InPlace(result.of)

AnswersInv == CallInv /\ RatioInv /\ ScanInv /\ ScanIsComplete

LEMMA QualifyIs ==
  ASSUME NEW k \in 0..(Count - 1), ask \in CloseCalls
  PROVE  /\ k \in Qualify <=> AtLeast(Exact(k), ask.cutoff)
         /\ ask.candidates[k + 1] \in Candidate(ask.word)
         /\ Exact(k) = ratio_from_matches(ask.candidates[k + 1].matches, ask.word + ask.candidates[k + 1].len)
         /\ Exact(k) # NoRatio
  <1>1. k + 1 \in 1..Len(ask.candidates)
    BY DEF Count, CloseCalls
  <1>2. ask.candidates[k + 1] \in Candidate(ask.word)
    BY <1>1 DEF CloseCalls
  <1>3. \A n, d : <<n, d>> # <<>>
    OBVIOUS
  <1>4. Exact(k) # NoRatio
    BY <1>3 DEF Exact, ratio_from_matches, NoRatio
  <1> QED BY <1>2, <1>4 DEF Qualify, Exact, Count

LEMMA OneMore ==
  ASSUME NEW n \in 0..(Count - 1), ask \in CloseCalls, NEW scored, Complete(n, scored)
  PROVE  /\ n \in Qualify => Complete(n + 1, Append(scored, Entry(n)))
         /\ n \notin Qualify => Complete(n + 1, scored)
  <1>1. Qualify \subseteq 0..(Count - 1) /\ Count \in Nat
    BY DEF Qualify, Count, CloseCalls
  <1>a. \A l \in Qualify : l \in Int /\ n \in Int /\ (l < n + 1 <=> l < n \/ l = n)
    BY <1>1
  <1>2. CASE n \in Qualify
    <2>1. {l \in Qualify : l < n + 1} = {l \in Qualify : l < n} \cup {n}
      BY <1>a, <1>2
    <2> DEFINE more == Append(scored, Entry(n))
    <2>2. more \in Seq({Entry(k) : k \in Qualify}) /\ Len(more) = Len(scored) + 1 /\ Len(scored) \in Nat
      BY <1>2 DEF Complete
    <2>3. /\ \A p \in 1..Len(scored) : more[p] = scored[p]
          /\ more[Len(scored) + 1] = Entry(n)
      BY <1>2 DEF Complete
    <2>4. {more[p] : p \in 1..Len(more)} = {scored[p] : p \in 1..Len(scored)} \cup {Entry(n)}
      BY <2>2, <2>3
    <2>5. {Entry(k) : k \in {l \in Qualify : l < n + 1}}
            = {Entry(k) : k \in {l \in Qualify : l < n}} \cup {Entry(n)}
      BY <2>1
    <2>6. DOMAIN more = 1..Len(more)
      BY <2>2
    <2> QED BY <1>2, <2>2, <2>4, <2>5, <2>6 DEF Complete
  <1>3. CASE n \notin Qualify
    <2>1. {l \in Qualify : l < n + 1} = {l \in Qualify : l < n}
      BY <1>a, <1>3
    <2> QED BY <1>3, <2>1 DEF Complete
  <1> QED BY <1>2, <1>3

-----------------------------------------------------------------------------
(* The sort.                                                               *)

\* An order that compares any two, as the pairs of it.
StrictOrder(R, S) ==
  /\ \A k \in S : <<k, k>> \notin R
  /\ \A k, l \in S : k # l => <<k, l>> \in R \/ <<l, k>> \in R
  /\ \A k, l, m \in S : <<k, l>> \in R /\ <<l, m>> \in R => <<k, m>> \in R

Before(R, S, k) == {l \in S : <<l, k>> \in R}

Lists(R, S, h) ==
  /\ h \in [1..Cardinality(S) -> S]
  /\ \A p, q \in 1..Cardinality(S) : p < q => <<h[p], h[q]>> \in R

LEMMA PlacesDiffer ==
  ASSUME NEW S, IsFiniteSet(S), NEW R, StrictOrder(R, S), NEW k \in S
  PROVE  /\ Cardinality(Before(R, S, k)) \in 0..(Cardinality(S) - 1)
         /\ \A l \in S : <<k, l>> \in R => Cardinality(Before(R, S, k)) < Cardinality(Before(R, S, l))
<1>1. Cardinality(S) \in Nat
  BY FS_CardinalityType
<1>2. \A l \in S : IsFiniteSet(Before(R, S, l)) /\ Cardinality(Before(R, S, l)) \in Nat
  BY FS_Subset, FS_CardinalityType DEF Before
<1>3. Cardinality(Before(R, S, k)) < Cardinality(S)
  <2>1. Before(R, S, k) \in SUBSET S /\ Before(R, S, k) # S
    BY DEF Before, StrictOrder
  <2> QED BY <2>1, <1>1, <1>2, FS_Subset
<1>4. ASSUME NEW l \in S, <<k, l>> \in R
      PROVE  Cardinality(Before(R, S, k)) < Cardinality(Before(R, S, l))
  <2>1. Before(R, S, k) \in SUBSET Before(R, S, l)
    BY <1>4 DEF Before, StrictOrder
  <2>2. k \in Before(R, S, l) /\ k \notin Before(R, S, k)
    BY <1>4 DEF Before, StrictOrder
  <2> QED BY <2>1, <2>2, <1>2, FS_Subset
<1> QED BY <1>1, <1>2, <1>3, <1>4

LEMMA ListExists ==
  ASSUME NEW S, IsFiniteSet(S), NEW R, StrictOrder(R, S)
  PROVE  \E h : Lists(R, S, h)
<1> DEFINE n == Cardinality(S)
           place == [k \in S |-> Cardinality(Before(R, S, k)) + 1]
<1>1. n \in Nat
  BY FS_CardinalityType
<1>2. \A k \in S : Cardinality(Before(R, S, k)) \in 0..(n - 1)
  BY PlacesDiffer
<1>3. place \in [S -> 1..n]
  BY <1>1, <1>2
<1>4. \A k, l \in S : <<k, l>> \in R => place[k] < place[l]
  BY <1>2, PlacesDiffer
<1> HIDE DEF place
<1>5. \A k, l \in S : k # l => place[k] # place[l]
  <2> SUFFICES ASSUME NEW k \in S, NEW l \in S, k # l PROVE place[k] # place[l]
    OBVIOUS
  <2>1. <<k, l>> \in R \/ <<l, k>> \in R
    BY DEF StrictOrder
  <2>2. place[k] \in Int /\ place[l] \in Int
    BY <1>1, <1>3
  <2> QED BY <2>1, <2>2, <1>4
<1>6. place \in Injection(S, 1..n)
  BY <1>3, <1>5 DEF Injection, IsInjective
<1>7. IsFiniteSet(1..n) /\ Cardinality(1..n) = n
  BY <1>1, FS_Interval
<1>8. place \in Surjection(S, 1..n)
  BY <1>6, <1>7, FS_Injection
<1>9. \A p \in 1..n : \E k \in S : place[k] = p
  BY <1>8 DEF Surjection
<1> DEFINE h == [p \in 1..n |-> CHOOSE k \in S : place[k] = p]
<1>10. \A p \in 1..n : h[p] \in S /\ place[h[p]] = p
  BY <1>9
<1>11. h \in [1..n -> S]
  BY <1>10
<1> HIDE DEF h
<1>12. \A p, q \in 1..n : p < q => <<h[p], h[q]>> \in R
  <2> SUFFICES ASSUME NEW p \in 1..n, NEW q \in 1..n, p < q PROVE <<h[p], h[q]>> \in R
    OBVIOUS
  <2>1. h[p] # h[q] /\ ~(<<h[q], h[p]>> \in R)
    BY <1>4, <1>10, <1>1
  <2> QED BY <2>1, <1>10 DEF StrictOrder
<1> QED BY <1>11, <1>12 DEF Lists

LEMMA ListPlaces ==
  ASSUME NEW S, IsFiniteSet(S), NEW R, StrictOrder(R, S), NEW h, Lists(R, S, h)
  PROVE  \A p \in 1..Cardinality(S) : h[p] \in S /\ Cardinality(Before(R, S, h[p])) = p - 1
<1> DEFINE n == Cardinality(S)
<1>1. n \in Nat /\ h \in [1..n -> S]
  BY FS_CardinalityType DEF Lists
<1>2. \A p, q \in 1..n : p < q => <<h[p], h[q]>> \in R
  BY DEF Lists
<1>3. ASSUME NEW p \in 1..n, NEW q \in 1..n, p # q PROVE h[p] # h[q]
  <2>1. h[p] \in S /\ h[q] \in S /\ (p < q \/ q < p)
    BY <1>1, <1>3
  <2>2. <<h[p], h[q]>> \in R \/ <<h[q], h[p]>> \in R
    BY <1>2, <2>1
  <2> QED BY <2>1, <2>2 DEF StrictOrder
<1>4. h \in Injection(1..n, S)
  BY <1>1, <1>3 DEF Injection, IsInjective
<1>5. IsFiniteSet(1..n) /\ Cardinality(1..n) = n
  BY <1>1, FS_Interval
<1>6. h \in Surjection(1..n, S)
  BY <1>4, <1>5, FS_Injection
<1> SUFFICES ASSUME NEW p \in 1..n PROVE h[p] \in S /\ Cardinality(Before(R, S, h[p])) = p - 1
  OBVIOUS
<1>7. h[p] \in S
  BY <1>1
<1> DEFINE first == 1..(p - 1)
           sub == [q \in first |-> h[q]]
<1>8. first \subseteq 1..n /\ \A q \in first : q < p
  BY <1>1
<1>9. \A q \in first : h[q] \in Before(R, S, h[p])
  BY <1>1, <1>2, <1>8 DEF Before
<1>10. ASSUME NEW k \in Before(R, S, h[p]) PROVE \E q \in first : h[q] = k
  <2>1. k \in S /\ <<k, h[p]>> \in R
    BY <1>10 DEF Before
  <2>2. PICK q \in 1..n : h[q] = k
    BY <2>1, <1>6 DEF Surjection
  <2>3. q # p /\ ~(p < q)
    BY <2>1, <2>2, <1>2, <1>7 DEF StrictOrder
  <2> QED BY <2>2, <2>3, <1>1
<1>11. sub \in Surjection(first, Before(R, S, h[p]))
  <2>1. sub \in [first -> Before(R, S, h[p])]
    BY <1>9
  <2>2. \A k \in Before(R, S, h[p]) : \E q \in first : sub[q] = k
    BY <1>10
  <2> QED BY <2>1, <2>2 DEF Surjection
<1>12. sub \in Injection(first, Before(R, S, h[p]))
  <2>1. sub \in [first -> Before(R, S, h[p])]
    BY <1>9
  <2>2. \A q, r \in first : sub[q] = sub[r] => q = r
    BY <1>3, <1>8
  <2> HIDE DEF sub, first
  <2> QED BY <2>1, <2>2 DEF Injection, IsInjective
<1>13. IsFiniteSet(first) /\ Cardinality(first) = p - 1
  <2>1. p \in Nat \ {0} /\ 1 \in Int /\ p - 1 \in Int /\ (1 > p - 1 => p - 1 = 0)
    BY <1>1
  <2> QED BY <2>1, FS_Interval
<1> HIDE DEF sub, first
<1>14. Cardinality(Before(R, S, h[p])) = Cardinality(first)
  BY <1>11, <1>12, <1>13, FS_Surjection
<1> QED BY <1>7, <1>13, <1>14

LEMMA Cancel ==
  ASSUME NEW x \in Int, NEW y \in Int, NEW d \in Nat \ {0}
  PROVE  /\ x * d > y * d <=> x > y
         /\ x * d = y * d <=> x = y
  BY Z3

LEMMA Assoc ==
  ASSUME NEW x \in Int, NEW y \in Int, NEW d \in Int
  PROVE  (x * d) * y = (x * y) * d /\ (x * d) * y = (y * d) * x /\ x * y \in Int
  BY Z3

LEMMA RatioOrder ==
  ASSUME NEW a \in Nat, NEW c \in Nat, NEW e \in Nat,
         NEW b \in Nat \ {0}, NEW d \in Nat \ {0}, NEW f \in Nat \ {0}
  PROVE  /\ a * d > c * b /\ c * f >= e * d => a * f > e * b
         /\ a * d >= c * b /\ c * f > e * d => a * f > e * b
         /\ a * d = c * b /\ c * f = e * d => a * f = e * b
<1> DEFINE ad == a * d
           cb == c * b
           cf == c * f
           ed == e * d
<1>1. ad \in Int /\ cb \in Int /\ cf \in Int /\ ed \in Int /\ a * f \in Int /\ e * b \in Int
  OBVIOUS
<1>2. (a * f) * d = ad * f /\ (e * b) * d = ed * b /\ cb * f = cf * b
  BY Assoc, Z3
<1> HIDE DEF ad, cb, cf, ed
<1>3. ad > cb <=> ad * f > cb * f
  BY <1>1, Cancel
<1>4. ad = cb <=> ad * f = cb * f
  BY <1>1, Cancel
<1>5. cf > ed <=> cf * b > ed * b
  BY <1>1, Cancel
<1>6. cf = ed <=> cf * b = ed * b
  BY <1>1, Cancel
<1>7. a * f > e * b <=> (a * f) * d > (e * b) * d
  BY <1>1, Cancel
<1>8. a * f = e * b <=> (a * f) * d = (e * b) * d
  BY <1>1, Cancel
<1>9. /\ ad * f \in Int /\ cb * f \in Int /\ cf * b \in Int /\ ed * b \in Int
  BY <1>1
<1>10. /\ ad > cb /\ cf >= ed => a * f > e * b
       /\ ad >= cb /\ cf > ed => a * f > e * b
       /\ ad = cb /\ cf = ed => a * f = e * b
  BY <1>1, <1>2, <1>3, <1>4, <1>5, <1>6, <1>7, <1>8, <1>9
<1> QED BY <1>10 DEF ad, cb, cf, ed

LEMMA ExactIs ==
  ASSUME ask \in CloseCalls, NEW k \in Qualify
  PROVE  /\ k \in 0..(Count - 1) /\ ask.candidates[k + 1].rank \in Int
         /\ Exact(k)[1] \in Nat /\ Exact(k)[2] \in Nat \ {0}
<1>1. k \in 0..(Count - 1)
  BY DEF Qualify, Count
<1> DEFINE candidate == ask.candidates[k + 1]
<1>2. candidate \in Candidate(ask.word) /\ Exact(k) = ratio_from_matches(candidate.matches, ask.word + candidate.len)
  BY <1>1, QualifyIs
<1>3. ask.word \in Nat /\ candidate.len \in Nat /\ candidate.matches \in Nat /\ candidate.rank \in Int
  BY <1>2 DEF CloseCalls, Candidate
<1> QED BY <1>1, <1>2, <1>3 DEF ratio_from_matches

\* The pairs of candidates of which the first is better.
Better == {pair \in Qualify \X Qualify : pair[1] \in Above(pair[2])}

LEMMA BetterIs ==
  ASSUME ask \in CloseCalls, NEW k \in Qualify, NEW l \in Qualify
  PROVE  /\ <<k, l>> \in Better <=>
              \/ Exact(k)[1] * Exact(l)[2] > Exact(l)[1] * Exact(k)[2]
              \/ /\ Exact(k)[1] * Exact(l)[2] = Exact(l)[1] * Exact(k)[2]
                 /\ \/ ask.candidates[k + 1].rank > ask.candidates[l + 1].rank
                    \/ ask.candidates[k + 1].rank = ask.candidates[l + 1].rank /\ k < l
         /\ <<k, l>> \in Better <=> BestFirst(Entry(k), Entry(l))
<1> DEFINE m == Exact(k)[1] * Exact(l)[2]
           n == Exact(l)[1] * Exact(k)[2]
           r == ask.candidates[k + 1].rank
           t == ask.candidates[l + 1].rank
<1>1. m \in Int /\ n \in Int /\ r \in Int /\ t \in Int /\ k \in Int /\ l \in Int
  BY ExactIs
<1>2. <<k, l>> \in Better <=> k \in Above(l)
  BY DEF Better
<1>3. k \in Above(l) <=> m - n > 0 \/ (m - n = 0 /\ r - t > 0) \/ (m - n = 0 /\ r - t = 0 /\ k < l)
  BY DEF Above
<1>4. BestFirst(Entry(k), Entry(l)) <=> m > n \/ (m = n /\ r > t) \/ (m = n /\ r = t /\ k < l)
  BY DEF BestFirst, Entry
<1> HIDE DEF m, n, r, t
<1>5. <<k, l>> \in Better <=> m > n \/ (m = n /\ r > t) \/ (m = n /\ r = t /\ k < l)
  BY <1>1, <1>2, <1>3
<1> QED BY <1>4, <1>5 DEF m, n, r, t

LEMMA BetterOrders ==
  ASSUME ask \in CloseCalls
  PROVE  StrictOrder(Better, Qualify)
<1> DEFINE rank(k) == ask.candidates[k + 1].rank
           x(k) == Exact(k)[1]
           y(k) == Exact(k)[2]
<1>1. \A k \in Qualify : k \in Int /\ rank(k) \in Int /\ x(k) \in Nat /\ y(k) \in Nat \ {0}
  BY ExactIs
<1>2. \A k, l \in Qualify : <<k, l>> \in Better <=>
        \/ x(k) * y(l) > x(l) * y(k)
        \/ x(k) * y(l) = x(l) * y(k) /\ (rank(k) > rank(l) \/ (rank(k) = rank(l) /\ k < l))
  BY BetterIs
<1>3. \A k, l \in Qualify : x(k) * y(l) \in Int
  BY <1>1
<1> HIDE DEF rank, x, y
<1>4. \A k \in Qualify : <<k, k>> \notin Better
  BY <1>1, <1>2, <1>3
<1>5. \A k, l \in Qualify : k # l => <<k, l>> \in Better \/ <<l, k>> \in Better
  BY <1>1, <1>2, <1>3
<1>6. ASSUME NEW k \in Qualify, NEW l \in Qualify, NEW m \in Qualify,
             <<k, l>> \in Better, <<l, m>> \in Better
      PROVE  <<k, m>> \in Better
  <2>1. /\ x(k) * y(l) > x(l) * y(k) /\ x(l) * y(m) >= x(m) * y(l) => x(k) * y(m) > x(m) * y(k)
        /\ x(k) * y(l) >= x(l) * y(k) /\ x(l) * y(m) > x(m) * y(l) => x(k) * y(m) > x(m) * y(k)
        /\ x(k) * y(l) = x(l) * y(k) /\ x(l) * y(m) = x(m) * y(l) => x(k) * y(m) = x(m) * y(k)
    BY <1>1, RatioOrder
  <2> DEFINE kl == x(k) * y(l)
             lk == x(l) * y(k)
             lm == x(l) * y(m)
             ml == x(m) * y(l)
             km == x(k) * y(m)
             mk == x(m) * y(k)
  <2>2. {kl, lk, lm, ml, km, mk} \subseteq Int
    BY <1>3
  <2>3. /\ kl > lk \/ (kl = lk /\ (rank(k) > rank(l) \/ (rank(k) = rank(l) /\ k < l)))
        /\ lm > ml \/ (lm = ml /\ (rank(l) > rank(m) \/ (rank(l) = rank(m) /\ l < m)))
    BY <1>2, <1>6
  <2>4. /\ kl > lk /\ lm >= ml => km > mk
        /\ kl >= lk /\ lm > ml => km > mk
        /\ kl = lk /\ lm = ml => km = mk
    BY <2>1
  <2>5. rank(k) \in Int /\ rank(l) \in Int /\ rank(m) \in Int /\ k \in Int /\ l \in Int /\ m \in Int
    BY <1>1
  <2> HIDE DEF kl, lk, lm, ml, km, mk
  <2>6. km > mk \/ (km = mk /\ (rank(k) > rank(m) \/ (rank(k) = rank(m) /\ k < m)))
    BY <2>2, <2>3, <2>4, <2>5
  <2>7. <<k, m>> \in Better <=> km > mk \/ (km = mk /\ (rank(k) > rank(m) \/ (rank(k) = rank(m) /\ k < m)))
    BY <1>2 DEF km, mk
  <2> QED BY <2>6, <2>7
<1> QED BY <1>4, <1>5, <1>6 DEF StrictOrder

\* The sort of all that qualify puts each where counting the better ones does
\* (diff_impl.rs 601-610).
THEOREM BestInPlace ==
  ASSUME ask \in CloseCalls, NEW scored, Complete(Count, scored)
  PROVE  InPlace(best_first(scored, ask.n))
<1> DEFINE entries == {Entry(k) : k \in Qualify}
           n == Cardinality(Qualify)
<1>1. ask.n \in Nat /\ Count \in Nat
  BY DEF CloseCalls, Count
<1>2. IsFiniteSet(Qualify) /\ n \in Nat
  <2>1. Qualify \in SUBSET (0..(Count - 1))
    BY DEF Qualify, Count
  <2>2. IsFiniteSet(0..(Count - 1))
    <3>1. 0 \in Int /\ Count - 1 \in Int
      BY <1>1
    <3> QED BY <3>1, FS_Interval
  <2> QED BY <2>1, <2>2, FS_Subset, FS_CardinalityType
<1>3. StrictOrder(Better, Qualify)
  BY BetterOrders
<1>4. {scored[p] : p \in DOMAIN scored} = entries
  <2>1. {l \in Qualify : l < Count} = Qualify
    BY <1>1 DEF Qualify, Count
  <2> QED BY <2>1 DEF Complete
<1>5. Cardinality(entries) = n
  <2> DEFINE map == [k \in Qualify |-> Entry(k)]
  <2>1. map \in [Qualify -> entries] /\ \A e \in entries : \E k \in Qualify : map[k] = e
    OBVIOUS
  <2>2. \A k, l \in Qualify : map[k] = map[l] => k = l
    BY DEF Entry
  <2> HIDE DEF map, entries
  <2>3. map \in Surjection(Qualify, entries) /\ map \in Injection(Qualify, entries)
    BY <2>1, <2>2 DEF Surjection, Injection, IsInjective
  <2> QED BY <2>3, <1>2, FS_Surjection
<1> DEFINE IsSorted(s) == /\ s \in [1..n -> entries]
                          /\ \A p, q \in 1..n : p < q => BestFirst(s[p], s[q])
<1>6. \E s : IsSorted(s)
  <2>1. PICK h : Lists(Better, Qualify, h)
    BY <1>2, <1>3, ListExists
  <2> DEFINE s == [p \in 1..n |-> Entry(h[p])]
  <2>2. \A p \in 1..n : h[p] \in Qualify
    BY <2>1 DEF Lists
  <2>3. \A p, q \in 1..n : p < q => BestFirst(Entry(h[p]), Entry(h[q]))
    BY <2>1, <2>2, BetterIs DEF Lists
  <2>4. IsSorted(s)
    BY <2>2, <2>3
  <2> QED BY <2>4
<1> DEFINE sorted == Sorted({scored[p] : p \in DOMAIN scored})
<1>7. IsSorted(sorted)
  <2>1. sorted = CHOOSE s \in [1..n -> entries] : \A p, q \in DOMAIN s : p < q => BestFirst(s[p], s[q])
    BY <1>4, <1>5 DEF Sorted
  <2>2. \A s \in [1..n -> entries] : DOMAIN s = 1..n
    OBVIOUS
  <2>3. \E s \in [1..n -> entries] : \A p, q \in DOMAIN s : p < q => BestFirst(s[p], s[q])
    BY <1>6, <2>2
  <2> HIDE DEF sorted, entries, n
  <2>4. sorted \in [1..n -> entries] /\ \A p, q \in DOMAIN sorted : p < q => BestFirst(sorted[p], sorted[q])
    BY <2>1, <2>3
  <2> QED BY <2>2, <2>4
<1> DEFINE h == [p \in 1..n |-> sorted[p].idx]
<1>8. \A p \in 1..n : h[p] \in Qualify /\ sorted[p] = Entry(h[p])
  <2> HIDE DEF sorted
  <2> SUFFICES ASSUME NEW p \in 1..n PROVE h[p] \in Qualify /\ sorted[p] = Entry(h[p])
    OBVIOUS
  <2>1. PICK k \in Qualify : sorted[p] = Entry(k)
    BY <1>7
  <2>2. Entry(k).idx = k
    BY DEF Entry
  <2> QED BY <2>1, <2>2
<1>9. Lists(Better, Qualify, h)
  <2>1. h \in [1..n -> Qualify]
    BY <1>8
  <2> HIDE DEF h, sorted
  <2>2. \A p, q \in 1..n : p < q => <<h[p], h[q]>> \in Better
    BY <1>7, <1>8, BetterIs
  <2> QED BY <2>1, <2>2 DEF Lists
<1>10. \A p \in 1..n : h[p] \in Qualify /\ Cardinality(Before(Better, Qualify, h[p])) = p - 1
  <2> HIDE DEF h
  <2> QED BY <1>2, <1>3, <1>9, ListPlaces
<1>11. \A k \in Qualify : Before(Better, Qualify, k) = Above(k)
  BY DEF Before, Better, Above
<1> DEFINE best == best_first(scored, ask.n)
           length == Shortest(ask.n, n)
<1>12. length \in Nat /\ length <= n
  BY <1>1, <1>2 DEF Shortest
<1>13. Len(sorted) = n
  <2> HIDE DEF sorted, entries, n
  <2> QED BY <1>2, <1>7
<1>14. best = [k \in 1..length |-> sorted[k].idx]
  BY <1>13 DEF best_first
<1> HIDE DEF best, length, sorted, n
<1>15. Len(best) = length /\ \A p \in 1..length : best[p] = h[p]
  BY <1>2, <1>12, <1>14
<1> HIDE DEF h
<1>16. \A p \in 1..Len(best) : best[p] \in Qualify /\ Cardinality(Above(best[p])) = p - 1
  BY <1>2, <1>10, <1>11, <1>12, <1>15
<1> QED BY <1>15, <1>16 DEF InPlace, best, length, n

-----------------------------------------------------------------------------
(* The steps.                                                              *)

LEMMA AskStays ==
  ASSUME ask' = ask
  PROVE  /\ Count' = Count /\ Qualify' = Qualify
         /\ \A k : Exact(k)' = Exact(k)
         /\ \A n, scored : Complete(n, scored)' <=> Complete(n, scored)
         /\ \A of : InPlace(of)' <=> InPlace(of)
  <1>1. \A k : Exact(k)' = Exact(k)
    BY DEF Exact
  <1>2. Count' = Count /\ Qualify' = Qualify
    BY <1>1 DEF Count, Qualify, AtLeast
  <1>3. \A k : Entry(k)' = Entry(k)
    BY <1>1 DEF Entry
  <1>4. \A n : {Entry(k) : k \in {l \in Qualify : l < n}}' = {Entry(k) : k \in {l \in Qualify : l < n}}
    BY <1>2, <1>3
  <1>5. {Entry(k) : k \in Qualify}' = {Entry(k) : k \in Qualify}
    BY <1>2, <1>3
  <1>6. \A k : Above(k)' = Above(k)
    BY <1>1, <1>2 DEF Above
  <1>7. \A of : InPlace(of)' <=> InPlace(of)
    BY <1>2, <1>6 DEF InPlace
  <1> QED BY <1>1, <1>2, <1>4, <1>5, <1>7 DEF Complete

LEMMA ClockStays ==
  ASSUME CallsAreTyped, ask \in MetricCalls, ask' = ask, clock \in Nat
  PROVE  /\ clock' = clock => (elapsed_exceeds' <=> elapsed_exceeds)
         /\ clock' \in Nat /\ clock' >= clock /\ elapsed_exceeds => elapsed_exceeds'
<1>1. ask.budget \in Nat \cup {NoBudget}
  BY DEF CallsAreTyped
<1> QED BY <1>1 DEF elapsed_exceeds, NoBudget

\* A step of another metric goes on, refuses behind the deadline, or answers.
Proceeds(loops) ==
  /\ UNCHANGED <<ask, clock>>
  /\ \/ at' \in loops /\ result' = result
     \/ at' = "done" /\ result' = Exceeded /\ elapsed_exceeds
     \/ at' = "done" /\ result'.is \in {"distance", "score"}

LEMMA OtherMetrics ==
  ASSUME MetricNext, ~Tick
  PROVE  \/ at \in {"start", "bits", "rows"} /\ (at = "start" => ask.metric = "levenshtein") /\ Proceeds({"bits", "rows"})
         \/ at \in {"start", "match", "boost"} /\ (at = "start" => ask.metric \in Jaros) /\ Proceeds({"match", "boost"})
<1>1. CASE levenshtein
  BY <1>1 DEF levenshtein, Starts, Polled, Answers, Loops, Proceeds, Distance, BitVectors
<1>2. CASE levenshtein_myers_bitvector
  <2>1. \E next : at = "bits" /\ (Polled(Loops("bits", next)) \/ Loops("bits", next))
    BY <1>2 DEF levenshtein_myers_bitvector
  <2> QED BY <2>1 DEF Polled, Answers, Loops, Proceeds
<1>3. CASE BitsAreRead
  BY <1>3 DEF BitsAreRead, Polled, Answers, Proceeds, Distance
<1>4. CASE levenshtein_dp
  <2>1. \E next : at = "rows" /\ Polled(Loops("rows", next))
    BY <1>4 DEF levenshtein_dp
  <2> QED BY <2>1 DEF Polled, Answers, Loops, Proceeds
<1>5. CASE RowsAreRead
  BY <1>5 DEF RowsAreRead, Answers, Proceeds, Distance
<1>6. CASE jaro_within
  BY <1>6 DEF jaro_within, Polled, Answers, Loops, Proceeds, Score
<1>7. CASE jaro_core
  <2>1. \E next : at = "match" /\ (Polled(Loops("match", next)) \/ Loops("match", next))
    BY <1>7 DEF jaro_core
  <2> QED BY <2>1 DEF Polled, Answers, Loops, Proceeds
<1>8. CASE JaroAnswers
  <2>1. \E s : at = "match" /\ (Polled(Loops("boost", s)) \/ Polled(Answers(Score(s[1], s[2]))))
    BY <1>8 DEF JaroAnswers, Polled
  <2> QED BY <2>1 DEF Polled, Answers, Loops, Proceeds, Score
<1>9. CASE jaro_winkler
  BY <1>9 DEF jaro_winkler, Polled, Answers, Proceeds, Boosted, Score
<1> QED BY <1>1, <1>2, <1>3, <1>4, <1>5, <1>6, <1>7, <1>8, <1>9 DEF MetricNext

\* The invariant holds in every reachable state of every call.
THEOREM ScanInvariant ==
  ASSUME CallsAreTyped
  PROVE  MetricSpec => []AnswersInv
<1>1. MetricInit => AnswersInv
  BY DEF MetricInit, AnswersInv, CallInv, Phases, RatioInv, ScanInv, ScanIsComplete, NoResult
<1>2. AnswersInv /\ [MetricNext \/ CloseNext]_metric_vars => AnswersInv'
  <2> SUFFICES ASSUME AnswersInv, [MetricNext \/ CloseNext]_metric_vars
               PROVE  AnswersInv'
    OBVIOUS
  <2>0. /\ ask \in MetricCalls /\ clock \in Nat
        /\ ask.metric = "close" => Count \in Nat /\ ask \in CloseCalls
    BY DEF CallsAreTyped, CloseCalls, Count, AnswersInv, CallInv
  <2>1. CASE UNCHANGED metric_vars \/ Tick
    <3>1. UNCHANGED <<ask, regs, at, result>> /\ clock' \in Nat /\ clock' >= clock
      BY <2>0, <2>1 DEF metric_vars, Tick
    <3>2. elapsed_exceeds => elapsed_exceeds'
      BY <2>0, <3>1, ClockStays
    <3>3. at = "judge" /\ Judged => Judged'
      BY <3>1, <3>2, AskStays DEF Judged, AtLeast
    <3>4. CallInv'
      BY <3>1, <3>2 DEF AnswersInv, CallInv, Phases
    <3>5. RatioInv'
      BY <3>1, <3>2 DEF AnswersInv, RatioInv, Ratio
    <3>6. ScanInv'
      BY <3>1, <3>3, AskStays DEF AnswersInv, ScanInv
    <3>7. ScanIsComplete'
      BY <3>1, AskStays DEF AnswersInv, ScanIsComplete
    <3> QED BY <3>4, <3>5, <3>6, <3>7 DEF AnswersInv
  <2>2. CASE MetricNext /\ ~Tick
    <3>1. PICK loops \in {{"bits", "rows"}, {"match", "boost"}} :
            /\ Proceeds(loops) /\ at # "done"
            /\ ask.metric \in IF loops = {"bits", "rows"} THEN {"levenshtein"} ELSE Jaros
      <4>1. CASE /\ at \in {"start", "bits", "rows"} /\ Proceeds({"bits", "rows"})
                 /\ at = "start" => ask.metric = "levenshtein"
        <5>1. at # "done" /\ ask.metric = "levenshtein"
          BY <4>1 DEF AnswersInv, CallInv, Phases
        <5> QED BY <4>1, <5>1
      <4>2. CASE /\ at \in {"start", "match", "boost"} /\ Proceeds({"match", "boost"})
                 /\ at = "start" => ask.metric \in Jaros
        <5>1. at # "done" /\ ask.metric \in Jaros /\ {"match", "boost"} # {"bits", "rows"}
          BY <4>2 DEF AnswersInv, CallInv, Phases
        <5> QED BY <4>2, <5>1
      <4> QED BY <2>2, <4>1, <4>2, OtherMetrics
    <3>2. ask.metric \notin {"close", "ratio"}
      BY <3>1 DEF Jaros
    <3>3. elapsed_exceeds' <=> elapsed_exceeds
      BY <2>0, <3>1, ClockStays DEF Proceeds
    <3>4. CallInv'
      BY <3>1, <3>2, <3>3 DEF AnswersInv, CallInv, Phases, Proceeds, NoResult, Exceeded
    <3> QED BY <3>1, <3>2, <3>4 DEF AnswersInv, RatioInv, ScanInv, ScanIsComplete, Proceeds
  <2>4. ASSUME CloseNext PROVE ask' = ask /\ clock' = clock /\ (elapsed_exceeds' <=> elapsed_exceeds)
    <3>1. ask' = ask /\ clock' = clock
      BY <2>4 DEF CloseNext, similarity_ratio, RatioAnswers, close_matches, Search, Judge, Best,
                  Starts, Concludes, Polled, Answers, Loops
    <3> QED BY <2>0, <3>1, ClockStays
  <2>5. CASE similarity_ratio
    <3>1. /\ ask' = ask /\ at = "start" /\ ask.metric = "ratio" /\ at' = "judge" /\ result' = result
          /\ clock' = clock /\ (elapsed_exceeds' <=> elapsed_exceeds)
      BY <2>4, <2>5 DEF CloseNext, similarity_ratio, Starts, Loops
    <3>2. ~elapsed_exceeds => regs'.ratio = Ratio
      BY <2>5 DEF similarity_ratio, Loops, matched_chars, Ratio
    <3>3. result = NoResult
      BY <3>1 DEF AnswersInv, CallInv, Phases
    <3>4. CallInv'
      BY <3>1 DEF AnswersInv, CallInv, Phases
    <3>5. RatioInv'
      BY <3>1, <3>2, <3>3 DEF RatioInv, Ratio, NoResult
    <3> QED BY <3>1, <3>4, <3>5 DEF AnswersInv, ScanInv, ScanIsComplete
  <2>6. CASE RatioAnswers
    <3>1. /\ ask' = ask /\ at = "judge" /\ ask.metric = "ratio" /\ at' = "done"
          /\ clock' = clock /\ (elapsed_exceeds' <=> elapsed_exceeds)
      BY <2>4, <2>6 DEF CloseNext, RatioAnswers, Concludes, Polled, Answers
    <3>2. IF elapsed_exceeds THEN result' = Exceeded ELSE result' = Score(regs.ratio[1], regs.ratio[2])
      BY <2>6 DEF RatioAnswers, Concludes, Polled, Answers
    <3>3. ~elapsed_exceeds => result'.is = "score" /\ result'.of = Ratio
      <4>1. Ratio = <<Ratio[1], Ratio[2]>>
        BY DEF Ratio, ratio_from_matches
      <4>2. ~elapsed_exceeds => regs.ratio = Ratio
        BY <3>1 DEF AnswersInv, RatioInv
      <4> QED BY <3>2, <4>1, <4>2 DEF Score
    <3>4. CallInv'
      BY <3>1, <3>2, <3>3 DEF AnswersInv, CallInv, Phases
    <3>5. RatioInv'
      BY <3>1, <3>2, <3>3 DEF RatioInv, Ratio, Exceeded
    <3> QED BY <3>1, <3>4, <3>5 DEF AnswersInv, ScanInv, ScanIsComplete
  <2>7. CASE close_matches
    <3>1. /\ ask' = ask /\ at = "start" /\ ask.metric = "close" /\ at' = "scan" /\ result' = result
          /\ regs' = [idx |-> 0, scored |-> <<>>] /\ Count \in Nat
          /\ clock' = clock /\ (elapsed_exceeds' <=> elapsed_exceeds)
      BY <2>0, <2>4, <2>7 DEF CloseNext, close_matches, Starts, Loops
    <3>2. Complete(0, <<>>)
      <4>1. {l \in Qualify : l < 0} = {}
        BY <3>1 DEF Qualify, Count
      <4> QED BY <4>1 DEF Complete
    <3>3. CallInv' /\ result = NoResult
      BY <3>1 DEF AnswersInv, CallInv, Phases
    <3>4. ScanInv'
      BY <3>1, <3>2, AskStays DEF ScanInv
    <3> QED BY <3>1, <3>3, <3>4 DEF AnswersInv, RatioInv, ScanIsComplete, NoResult
  <2>8. CASE Search
    <3> DEFINE candidate == ask.candidates[regs.idx + 1]
               total == ask.word + candidate.len
    <3>0. at = "scan" /\ ask.metric = "close" /\ ask \in CloseCalls /\ Count \in Nat /\ result = NoResult
      BY <2>0, <2>8 DEF Search, AnswersInv, CallInv, Phases
    <3>1. /\ ask' = ask /\ at' = "judge" /\ clock' = clock /\ result' = result
          /\ regs'.idx = regs.idx /\ regs'.scored = regs.scored /\ regs.idx \in 0..(Count - 1)
          /\ Complete(regs.idx, regs.scored) /\ (elapsed_exceeds' <=> elapsed_exceeds)
      BY <2>4, <2>8, <3>0 DEF CloseNext, Search, Loops, AnswersInv, ScanInv, Count
    <3>2. /\ regs.idx \in Qualify <=> AtLeast(Exact(regs.idx), ask.cutoff)
          /\ candidate \in Candidate(ask.word)
          /\ Exact(regs.idx) = ratio_from_matches(candidate.matches, total)
          /\ Exact(regs.idx) # NoRatio
      BY <3>0, <3>1, QualifyIs
    <3>3. Judged'
      <4>1. CASE Skipped(ask.word, candidate.len, ask.cutoff)
        <5>1. regs'.ratio = NoRatio
          BY <2>8, <4>1 DEF Search, Loops
        <5>2. regs.idx \notin Qualify
          BY <3>0, <3>2, <4>1, SkipLosesNothing DEF CloseCalls, Candidate
        <5> QED BY <3>1, <5>1, <5>2, AskStays DEF Judged
      <4>2. CASE ~Skipped(ask.word, candidate.len, ask.cutoff)
        <5>1. PICK found \in matched_chars(candidate.matches) : regs'.ratio = ratio_from_matches(found, total)
          BY <2>8, <4>2 DEF Search, Loops
        <5>2. ~elapsed_exceeds => regs'.ratio = Exact(regs.idx)
          BY <3>2, <5>1 DEF matched_chars
        <5> QED BY <3>1, <3>2, <5>2, AskStays DEF Judged
      <4> QED BY <4>1, <4>2
    <3>4. CallInv'
      BY <3>0, <3>1 DEF AnswersInv, CallInv, Phases
    <3>5. ScanInv'
      BY <3>1, <3>3, AskStays DEF ScanInv
    <3> QED BY <3>0, <3>1, <3>4, <3>5 DEF AnswersInv, RatioInv, ScanIsComplete, NoResult
  <2>9. CASE Judge
    <3>0. at = "judge" /\ ask.metric = "close" /\ ask \in CloseCalls /\ Count \in Nat /\ result = NoResult
      BY <2>0, <2>9 DEF Judge, AnswersInv, CallInv, Phases
    <3>1. /\ ask' = ask /\ clock' = clock /\ (elapsed_exceeds' <=> elapsed_exceeds)
          /\ regs.idx \in 0..(Count - 1) /\ Complete(regs.idx, regs.scored) /\ Judged
      BY <2>4, <2>9, <3>0 DEF CloseNext, AnswersInv, ScanInv
    <3>2. CASE elapsed_exceeds
      <4>1. at' = "done" /\ result' = Exceeded
        BY <2>9, <3>2 DEF Judge, Concludes, Polled, Answers
      <4> QED BY <3>0, <3>1, <3>2, <4>1
              DEF AnswersInv, CallInv, Phases, RatioInv, ScanInv, ScanIsComplete, Exceeded
    <3>3. CASE ~elapsed_exceeds
      <4> DEFINE keeps == regs.ratio # NoRatio /\ AtLeast(regs.ratio, ask.cutoff)
                 entry == [ratio |-> regs.ratio, idx |-> regs.idx]
                 kept  == IF keeps THEN Append(regs.scored, entry) ELSE regs.scored
      <4>1. /\ at' = "scan" /\ result' = result
            /\ regs' = [idx |-> regs.idx + 1, scored |-> kept]
        BY <2>9, <3>3 DEF Judge, Concludes, Polled, Loops
      <4>2. keeps <=> regs.idx \in Qualify
        BY <3>0, <3>1, <3>3, QualifyIs DEF Judged
      <4>3. keeps => entry = Entry(regs.idx)
        BY <3>1, <3>3, <4>2 DEF Judged, Entry
      <4>4. Complete(regs.idx + 1, kept)
        BY <3>0, <3>1, <4>2, <4>3, OneMore
      <4>5. regs'.idx = regs.idx + 1 /\ regs'.scored = kept /\ regs.idx + 1 \in 0..Count
        BY <3>0, <3>1, <4>1
      <4> HIDE DEF kept
      <4>6. ScanInv'
        BY <3>0, <3>1, <4>1, <4>4, <4>5, AskStays DEF ScanInv
      <4>7. CallInv'
        BY <3>0, <3>1, <4>1 DEF AnswersInv, CallInv, Phases
      <4> QED BY <3>0, <3>1, <4>1, <4>6, <4>7 DEF AnswersInv, RatioInv, ScanIsComplete, NoResult
    <3> QED BY <3>2, <3>3
  <2>10. CASE Best
    <3>0. at = "scan" /\ ask.metric = "close" /\ ask \in CloseCalls
      BY <2>0, <2>10 DEF Best, AnswersInv, CallInv, Phases
    <3>1. /\ ask' = ask /\ regs.idx = Count /\ at' = "done" /\ regs' = regs /\ clock' = clock
          /\ result' = [is |-> "matches", of |-> best_first(regs.scored, ask.n)]
      BY <2>4, <2>10 DEF CloseNext, Best, Answers, Count
    <3>2. Complete(Count, regs.scored)
      BY <3>0, <3>1 DEF AnswersInv, ScanInv
    <3>3. InPlace(result'.of)
      BY <3>0, <3>1, <3>2, BestInPlace
    <3>4. CallInv'
      BY <3>0, <3>1 DEF AnswersInv, CallInv, Phases
    <3>5. ScanIsComplete'
      BY <3>1, <3>2, <3>3, AskStays DEF ScanIsComplete
    <3> QED BY <3>0, <3>1, <3>4, <3>5 DEF AnswersInv, RatioInv, ScanInv
  <2> QED BY <2>1, <2>2, <2>5, <2>6, <2>7, <2>8, <2>9, <2>10 DEF CloseNext
<1> QED BY <1>1, <1>2, PTL DEF MetricSpec

\* No skip by the lengths and no deadline costs a match: the answer names the n best of
\* the candidates that reach the cutoff, each at its place, a ratio is that of a whole
\* search, and a call is refused behind its deadline alone (diff_impl.rs 579-727).
THEOREM NothingIsLost ==
  ASSUME CallsAreTyped
  PROVE  MetricSpec => []NoMatchIsLost
<1>1. AnswersInv => NoMatchIsLost
  BY DEF AnswersInv, CallInv, RatioInv, ScanIsComplete, InPlace, NoMatchIsLost, Ratio, elapsed_exceeds
<1> QED BY <1>1, ScanInvariant, PTL
===============================================================================
