------------------------------- MODULE NearDup -------------------------------
(* dedup_near_dup (src/src/near_dup_impl.rs): a greedy keep-first sweep.     *)
(* Each text is compared with the kept texts in order, claimed by the first  *)
(* it matches, and kept when it matches none.  A pair is scored by one of    *)
(* three methods, each with the early exit the code takes.                   *)
(*                                                                           *)
(* A threshold is the fraction num/Den.  The f64 divisions the code compares *)
(* round monotonically, so exact fractions decide its early exits as it does.*)
EXTENDS Naturals, Sequences, FiniteSets

CONSTANTS Methods,        \* the method= spellings in use
          Den,            \* thresholds are num / Den
          Width,          \* SIMHASH_BITS, MINHASH_PERMS
          Corpus(_)       \* the fingerprint sequences of a method

ASSUME ThresholdAssumption == Den \in Nat \ {0}
ASSUME WidthAssumption == Width \in Nat \ {0}

\* A simhash fingerprint is the set of its one bits, a shingle fingerprint the
\* set of its shingle hashes, a MinHash fingerprint its signature.
Fingerprint(m) ==
  CASE m = "simhash" -> SUBSET (1..Width)
    [] m = "shingle" -> {s \in SUBSET Nat : IsFiniteSet(s)}
    [] m = "minhash" -> [1..Width -> Nat]

ASSUME CorpusAssumption ==
  /\ Methods \subseteq {"simhash", "shingle", "minhash"}
  /\ \A m \in Methods : Corpus(m) \subseteq Seq(Fingerprint(m))

VARIABLES method, num,
          fingerprints,          \* the call's arguments
          i, ki,                 \* the text being placed, the rep it faces
          kept, dropped, groups
args == <<method, num, fingerprints>>
vars == <<args, i, ki, kept, dropped, groups>>

------------------------------------------------------------------------------
(* Is a pair a near duplicate? *)

fingerprint_hamming(a, b) == Cardinality((a \ b) \cup (b \ a))

\* At most floor((1 - threshold) * width) bits differ.
SimDuplicate(a, b) ==
  fingerprint_hamming(a, b) <= ((Den - num) * Width) \div Den

Lesser(x, y)  == IF x <= y THEN x ELSE y
Greater(x, y) == IF x <= y THEN y ELSE x

\* |A n B| / |A u B| >= threshold, the union counted from the intersection.
set_jaccard_reaches(a, b) ==
  LET inter == Cardinality(a \cap b)
  IN  inter * Den >= num * (Cardinality(a) + Cardinality(b) - inter)

\* Jaccard is at most min/max: a ratio already under the threshold decides.
BoundRejects(x, y) == Lesser(x, y) * Den < num * Greater(x, y)

ShingleDuplicate(a, b) ==
  IF a = {} /\ b = {} THEN TRUE
  ELSE IF a = {} \/ b = {} THEN num = 0
  ELSE /\ ~BoundRejects(Cardinality(a), Cardinality(b))
       /\ set_jaccard_reaches(a, b)

\* ceil(threshold * width)
needed == (num * Width + Den - 1) \div Den

\* Agreeing positions among the first n.
Matches(a, b, n) == Cardinality({p \in 1..n : a[p] = b[p]})

\* The scan aborts at a position after which even agreeing everywhere cannot
\* reach `needed`.  (Mutant: the position just read still counts as remaining
\* to the wrong side.)
Aborts_early(a, b, p) == Matches(a, b, p) + (Width - p) <= needed
Aborts(a, b, p) == Matches(a, b, p) + (Width - p) < needed

MinHashDuplicate(a, b) ==
  /\ \A p \in 1..Width : ~Aborts(a, b, p)
  /\ Matches(a, b, Width) >= needed

is_duplicate(a, b) ==
  CASE method = "simhash" -> SimDuplicate(a, b)
    [] method = "shingle" -> ShingleDuplicate(a, b)
    [] method = "minhash" -> MinHashDuplicate(a, b)

------------------------------------------------------------------------------
(* The sweep *)

Init == /\ method \in Methods
        /\ num \in 0..Den
        /\ fingerprints \in Corpus(method)
        /\ i = 1 /\ ki = 1
        /\ kept = <<>> /\ dropped = <<>> /\ groups = <<>>

Placing == i <= Len(fingerprints)
Facing  == Placing /\ ki <= Len(kept)
Matching == is_duplicate(fingerprints[i], fingerprints[kept[ki]])

\* Mutant: the next scan resumes where the last one stopped.
NextText_resumes == i' = i + 1 /\ UNCHANGED ki
NextText == i' = i + 1 /\ ki' = 1

Pass == /\ Facing
        /\ ~Matching
        /\ ki' = ki + 1
        /\ UNCHANGED <<args, i, kept, dropped, groups>>

\* Mutant: the newest group takes the text, not the one that matched.
ClaimingGroup_newest == Len(groups)
ClaimingGroup == ki

Break == NextText

Claim == /\ Facing
         /\ Matching
         /\ dropped' = Append(dropped, i)
         /\ groups' = [groups EXCEPT ![ClaimingGroup] = Append(@, i)]
         /\ Break
         /\ UNCHANGED <<args, kept>>

Keep == /\ Placing
        /\ ki > Len(kept)
        /\ kept' = Append(kept, i)
        /\ groups' = Append(groups, <<i>>)
        /\ NextText
        /\ UNCHANGED <<args, dropped>>

Next == Pass \/ Claim \/ Keep

Spec == Init /\ [][Next]_vars

------------------------------------------------------------------------------
(* Properties *)

TypeOK == /\ method \in Methods /\ num \in 0..Den
          /\ fingerprints \in Corpus(method)
          /\ i \in 1..Len(fingerprints) + 1
          /\ ki \in 1..Len(kept) + 1
          /\ kept \in Seq(1..Len(fingerprints))
          /\ dropped \in Seq(1..Len(fingerprints))
          /\ groups \in Seq(Seq(1..Len(fingerprints)))

\* No two representatives are duplicates: a text kept later matched none of
\* the texts kept before it.
NoTwoAlike ==
  \A x, y \in 1..Len(kept) : x < y =>
    ~is_duplicate(fingerprints[kept[y]], fingerprints[kept[x]])

\* A dropped text sits in the group of the FIRST kept text it matches: input
\* order alone breaks ties, so the outcome is deterministic.
FirstClaim ==
  \A g \in 1..Len(groups) : \A p \in 2..Len(groups[g]) :
    LET t == groups[g][p]
    IN  /\ is_duplicate(fingerprints[t], fingerprints[kept[g]])
        /\ \A h \in 1..g - 1 :
             ~is_duplicate(fingerprints[t], fingerprints[kept[h]])

\* Similarity is not transitive; who comes first decides, and nothing else: the
\* representatives are apart, and what is dropped is the first one's it matches.
FirstComeGroups == NoTwoAlike /\ FirstClaim

\* kept == [g[0] for g in groups], every text placed so far lies in exactly
\* one group, and each list is in input order.
Ascending(s) == \A x, y \in 1..Len(s) : x < y => s[x] < s[y]
GroupsPartition ==
  /\ Len(groups) = Len(kept)
  /\ \A g \in 1..Len(groups) : /\ groups[g] # <<>>
                               /\ groups[g][1] = kept[g]
                               /\ Ascending(groups[g])
  /\ Ascending(kept) /\ Ascending(dropped)
  /\ \A t \in 1..i - 1 : \E g \in 1..Len(groups) :
       \E p \in 1..Len(groups[g]) : groups[g][p] = t
  /\ \A g, h \in 1..Len(groups) :
       \A p \in 1..Len(groups[g]), q \in 1..Len(groups[h]) :
         groups[g][p] = groups[h][q] => g = h /\ p = q

\* The early exits never change an answer: the verdict on the pair being
\* compared is the method's definition, without its shortcut.
Defined(a, b) ==
  CASE method = "simhash" ->
         Cardinality({x \in 1..Width : x \in a <=> x \in b}) * Den >= num * Width
    [] method = "shingle" ->
         IF a \cup b = {} THEN TRUE
         ELSE Cardinality(a \cap b) * Den >= num * Cardinality(a \cup b)
    [] method = "minhash" ->
         Cardinality({x \in 1..Width : a[x] = b[x]}) * Den >= num * Width
VerdictIsDefined ==
  Facing => (Matching <=> Defined(fingerprints[i], fingerprints[kept[ki]]))
==============================================================================
