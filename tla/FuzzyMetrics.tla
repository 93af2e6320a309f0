----------------------------- MODULE FuzzyMetrics -----------------------------
(***************************************************************************)
(* The edit distance and the two scores of Jaro (src/src/fuzzy_impl.rs).   *)
(* A call works row by row under a deadline that it polls now and then; it *)
(* answers with the whole of a result or refuses.  The clock advances      *)
(* between any two steps.  A word of the distance's bit vectors is the set *)
(* of its one bits, a score the fraction <<numerator, denominator>>.       *)
(***************************************************************************)
EXTENDS Integers, Sequences, FiniteSets
LOCAL INSTANCE FiniteSetsExt

CONSTANTS
  MetricCalls,       \* the calls
  LatestClock,       \* bound: how far the clock runs
  WORD,              \* the bits of a word
  POLL, WORK_POLL    \* how many rows, or how much work, between two polls

ASSUME MetricsAssumption ==
  {WORD, POLL, WORK_POLL} \subseteq Nat \ {0} /\ LatestClock \in Nat

VARIABLES
  ask,      \* what is asked
  clock,    \* what the call has taken
  at,       \* the loop it is in
  regs,     \* the loop's variables
  result    \* what came back

metric_vars == <<ask, clock, at, regs, result>>

NoBudget == -1
NoRegs   == <<>>
NoResult == [is |-> "none", of |-> 0]
Exceeded == [is |-> "exceeded", of |-> 0]

\* Mutant: the budget's last tick is over it.
elapsed_exceeds_at == ask.budget # NoBudget /\ clock >= ask.budget

\* Strictly: a call that takes its budget is within it.
elapsed_exceeds == ask.budget # NoBudget /\ clock > ask.budget

Answers(r) == at' = "done" /\ result' = r /\ UNCHANGED <<ask, clock, regs>>

Loops(to, with) == at' = to /\ regs' = with /\ UNCHANGED <<ask, clock, result>>

\* Polls the clock before it goes on.
Polled(next) == IF elapsed_exceeds THEN Answers(Exceeded) ELSE next

Starts(metric) == at = "start" /\ ask.metric = metric

-----------------------------------------------------------------------------
(* The edit distance.                                                      *)

Bits    == 0..(WORD - 1)
Not(s)  == Bits \ s
Xor(s, t)  == (s \ t) \cup (t \ s)
Shifted(s) == {k + 1 : k \in s} \cap Bits

Value(s) == SumSet({2 ^ k : k \in s})
Word(n)  == {k \in Bits : (n \div 2 ^ k) % 2 = 1}
wrapping_add(s, t) == Word(Value(s) + Value(t))

Ones(pattern) == 0..(Len(pattern) - 1)

PatternAndText == IF Len(ask.a) <= Len(ask.b) THEN <<ask.a, ask.b>> ELSE <<ask.b, ask.a>>

Distance(n) == [is |-> "distance", of |-> n]

BitVectors(pattern, text) ==
  Loops("bits", [pattern |-> pattern, text |-> text, idx |-> 0,
                 pv |-> Ones(pattern), mv |-> {}, score |-> Len(pattern)])

levenshtein ==
  LET operands == PatternAndText
  IN  /\ Starts("levenshtein")
      /\ IF ask.a = ask.b THEN Polled(Answers(Distance(0)))
         ELSE IF ask.a = <<>> \/ ask.b = <<>> THEN Polled(Answers(Distance(Len(operands[2]))))
         ELSE IF Len(operands[1]) <= WORD THEN BitVectors(operands[1], operands[2])
         ELSE Loops("rows", [i |-> 0, prev |-> [j \in 0..Len(ask.b) |-> j]])

\* Mutant: the row above the pattern costs nothing.
ShiftedPlus_free(ph) == Shifted(ph)

\* The row above the pattern grows by one with each character of the text.
ShiftedPlus(ph) == Shifted(ph) \cup {0}

\* One column of the table: where it is one more than the cell above, and one less.
levenshtein_myers_bitvector ==
  /\ at = "bits" /\ regs.idx < Len(regs.text)
  /\ LET last == Len(regs.pattern) - 1
         eq == {k \in Ones(regs.pattern) : regs.pattern[k + 1] = regs.text[regs.idx + 1]}
         xv == eq \cup regs.mv
         xh == Xor(wrapping_add(eq \cap regs.pv, regs.pv), regs.pv) \cup eq
         ph == regs.mv \cup Not(xh \cup regs.pv)
         mh == regs.pv \cap xh
         up == ShiftedPlus(ph)
         next == [regs EXCEPT !.idx = @ + 1,
                    !.score = IF last \in ph THEN @ + 1 ELSE IF last \in mh THEN @ - 1 ELSE @,
                    !.pv = (Shifted(mh) \cup Not(xv \cup up)) \cap Ones(regs.pattern),
                    !.mv = up \cap xv \cap Ones(regs.pattern)]
     IN  IF regs.idx % POLL = 0 THEN Polled(Loops("bits", next)) ELSE Loops("bits", next)

BitsAreRead ==
  at = "bits" /\ regs.idx = Len(regs.text) /\ Polled(Answers(Distance(regs.score)))

Lowest(S) == Min(S)

NextRow(prev, c, i) ==
  LET row[j \in 0..Len(ask.b)] ==
        IF j = 0 THEN i
        ELSE Lowest({prev[j - 1] + (IF c = ask.b[j] THEN 0 ELSE 1), prev[j] + 1, row[j - 1] + 1})
  IN  row

levenshtein_dp ==
  /\ at = "rows" /\ regs.i < Len(ask.a)
  /\ LET i == regs.i + 1
     IN  Polled(Loops("rows", [i |-> i, prev |-> NextRow(regs.prev, ask.a[i], i)]))

RowsAreRead == at = "rows" /\ regs.i = Len(ask.a) /\ Answers(Distance(regs.prev[Len(ask.b)]))

-----------------------------------------------------------------------------
(* The scores of Jaro.                                                     *)

Jaros == {"jaro", "jaro_winkler"}

Score(n, d) == [is |-> "score", of |-> <<n, d>>]

jaro_within ==
  /\ at = "start" /\ ask.metric \in Jaros
  /\ IF ask.a = <<>> /\ ask.b = <<>> THEN Polled(Answers(Score(1, 1)))
     ELSE IF ask.a = <<>> \/ ask.b = <<>> THEN Polled(Answers(Score(0, 1)))
     ELSE Loops("match", [i |-> 0, work |-> 0, a_flags |-> {}, b_flags |-> {}])

window == (IF Len(ask.a) > Len(ask.b) THEN Len(ask.a) ELSE Len(ask.b)) \div 2

\* Half of the longer text, less one.
Reach == IF window = 0 THEN 0 ELSE window - 1

\* Mutant: a character may be matched twice.
Free_or_taken(j) == TRUE

Free(j) == j \notin regs.b_flags

\* The first free equal character within reach, if any.
Partners(i) ==
  LET lo == IF i < Reach THEN 0 ELSE i - Reach
      hi == IF i + Reach + 1 < Len(ask.b) THEN i + Reach + 1 ELSE Len(ask.b)
  IN  [work |-> IF hi < lo THEN 0 ELSE hi - lo,
       found |-> {j \in lo..(hi - 1) : Free(j) /\ ask.a[i + 1] = ask.b[j + 1]}]

jaro_core ==
  /\ at = "match" /\ regs.i < Len(ask.a)
  /\ LET i == regs.i
         partners == Partners(i)
         work == regs.work + partners.work
         worked == [regs EXCEPT !.i = i + 1, !.work = IF work >= WORK_POLL THEN 0 ELSE work]
         next == IF partners.found = {} THEN worked
                 ELSE [worked EXCEPT !.a_flags = @ \cup {i}, !.b_flags = @ \cup {Lowest(partners.found)}]
     IN  IF i % POLL = 0 \/ work >= WORK_POLL
         THEN Polled(Loops("match", next)) ELSE Loops("match", next)

\* The k-th of a set of positions.
Nth(S, k) == CHOOSE j \in S : Cardinality({n \in S : n < j}) = k

\* Half of the matched characters that are out of order.
Transposed(matches) ==
  Cardinality({k \in 0..(matches - 1) :
                 ask.a[Nth(regs.a_flags, k) + 1] # ask.b[Nth(regs.b_flags, k) + 1]}) \div 2

JaroScore ==
  LET m  == Cardinality(regs.a_flags)
      la == Len(ask.a)
      lb == Len(ask.b)
  IN  IF m = 0 THEN <<0, 1>>
      ELSE <<m * m * lb + m * m * la + (m - Transposed(m)) * la * lb, 3 * la * lb * m>>

JaroAnswers ==
  LET s == JaroScore
  IN  /\ at = "match" /\ regs.i = Len(ask.a)
      /\ Polled(IF ask.metric = "jaro_winkler" /\ 10 * s[1] > 7 * s[2]
                THEN Loops("boost", s) ELSE Answers(Score(s[1], s[2])))

\* How many of the first four characters agree before one does not.
CommonPrefix ==
  Cardinality({n \in 1..4 : /\ n <= Len(ask.a) /\ n <= Len(ask.b)
                            /\ \A k \in 1..n : ask.a[k] = ask.b[k]})

\* Mutant: the boost is of the whole score.
Boosted_whole(s) == Score(10 * s[1] + CommonPrefix * s[1], 10 * s[2])

\* A tenth of what is missing to one, for each of them.
Boosted(s) == Score(10 * s[1] + CommonPrefix * (s[2] - s[1]), 10 * s[2])

jaro_winkler == at = "boost" /\ Polled(Answers(Boosted(regs)))

-----------------------------------------------------------------------------

Tick == at # "done" /\ clock < LatestClock /\ clock' = clock + 1 /\ UNCHANGED <<ask, at, regs, result>>

MetricInit ==
  /\ ask \in MetricCalls /\ clock = 0 /\ at = "start" /\ regs = NoRegs /\ result = NoResult

MetricNext ==
  \/ levenshtein \/ levenshtein_myers_bitvector \/ BitsAreRead \/ levenshtein_dp \/ RowsAreRead
  \/ jaro_within \/ jaro_core \/ JaroAnswers \/ jaro_winkler \/ Tick

-----------------------------------------------------------------------------
(* Properties.                                                             *)

\* Reference. The cheapest alignment: it pairs as many positions of the one as of the
\* other, in order; a pair of unequal characters costs one, as does what has no pair.
Unequal(s, t, S, T) == Cardinality({k \in 0..(Cardinality(S) - 1) : s[Nth(S, k)] # t[Nth(T, k)]})

Edit(s, t) ==
  Lowest({(Len(s) - Cardinality(p[1])) + (Len(t) - Cardinality(p[2])) + Unequal(s, t, p[1], p[2]) :
            p \in {q \in (SUBSET (1..Len(s))) \X (SUBSET (1..Len(t))) : Cardinality(q[1]) = Cardinality(q[2])}})

First(s, n) == SubSeq(s, 1, n)

\* The column in the bit vectors: which cells are one more than the cell above, which
\* are one less, and what the lowest is.
ColumnHolds ==
  LET read == First(regs.text, regs.idx)
      step == [k \in Ones(regs.pattern) |->
                 Edit(First(regs.pattern, k + 1), read) - Edit(First(regs.pattern, k), read)]
  IN  /\ regs.score = Edit(regs.pattern, read)
      /\ \A k \in Ones(regs.pattern) : (k \in regs.pv <=> step[k] = 1) /\ (k \in regs.mv <=> step[k] = -1)

\* The distance is the cheapest alignment's, in bits or in rows, whichever of the
\* operands is the pattern and also where the pattern fills the word; every column
\* and row on the way is one of its table (fuzzy_impl.rs 129-259).
DistanceIsEdit ==
  /\ at = "bits" => ColumnHolds
  /\ at = "rows" => \A j \in 0..Len(ask.b) : regs.prev[j] = Edit(First(ask.a, regs.i), First(ask.b, j))
  /\ result.is = "distance" => result.of = Edit(ask.a, ask.b)

\* The scores of Jaro match every character at most once: they are between zero and
\* one, and one for equal texts alone, also when boosted (fuzzy_impl.rs 277-403).
JaroIsScore ==
  /\ at = "match" => Cardinality(regs.a_flags) = Cardinality(regs.b_flags)
  /\ ask.metric \in Jaros /\ result.is = "score" =>
       /\ 0 <= result.of[1] /\ result.of[1] <= result.of[2]
       /\ result.of[1] = result.of[2] <=> ask.a = ask.b
===============================================================================
