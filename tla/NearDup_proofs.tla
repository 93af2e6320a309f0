---------------------------- MODULE NearDup_proofs ----------------------------
(* Theorems of NearDup: for every corpus, method and threshold the sweep's   *)
(* representatives are pairwise distinct, every other text was claimed by    *)
(* the first of them it matches, the groups partition the input, and the     *)
(* early exits of the pair checks never change a verdict.                    *)
EXTENDS NearDup, FiniteSetTheorems, SequenceTheorems, TLAPS

------------------------------------------------------------------------------
(* The inductive invariant.  It speaks of the duplicate pairs of the call as *)
(* one set, which no step changes.                                           *)

Texts == 1..Len(fingerprints)
Pairs == {c \in Texts \X Texts :
            is_duplicate(fingerprints[c[1]], fingerprints[c[2]])}

Below == /\ \A x \in 1..Len(kept) : kept[x] < i
         /\ \A x \in 1..Len(dropped) : dropped[x] < i
         /\ \A g \in 1..Len(groups) : \A p \in 1..Len(groups[g]) :
              groups[g][p] < i

Heads == /\ Len(groups) = Len(kept)
         /\ \A g \in 1..Len(groups) : /\ Len(groups[g]) >= 1
                                      /\ groups[g][1] = kept[g]

Ordered == /\ Ascending(kept) /\ Ascending(dropped)
           /\ \A g \in 1..Len(groups) : Ascending(groups[g])

Covered == \A t \in 1..i - 1 : \E g \in 1..Len(groups) :
             \E p \in 1..Len(groups[g]) : groups[g][p] = t

Disjoint == \A g, h \in 1..Len(groups) :
              \A p \in 1..Len(groups[g]), q \in 1..Len(groups[h]) :
                groups[g][p] = groups[h][q] => g = h /\ p = q

Apart == \A x, y \in 1..Len(kept) : x < y => <<kept[y], kept[x]>> \notin Pairs

\* The representatives the current text has been compared with so far.
Scanned == Placing => \A h \in 1..ki - 1 : <<i, kept[h]>> \notin Pairs

Claimed ==
  \A g \in 1..Len(groups) : \A p \in 2..Len(groups[g]) :
    /\ <<groups[g][p], kept[g]>> \in Pairs
    /\ \A h \in 1..g - 1 : <<groups[g][p], kept[h]>> \notin Pairs

IInv == /\ TypeOK /\ Below /\ Heads /\ Ordered /\ Covered /\ Disjoint
        /\ Apart /\ Scanned /\ Claimed

------------------------------------------------------------------------------

\* The call's arguments decide which pairs are duplicates.
LEMMA PairsKept == ASSUME UNCHANGED args PROVE Pairs' = Pairs
BY DEF args, Pairs, Texts, is_duplicate, SimDuplicate, fingerprint_hamming,
       ShingleDuplicate, BoundRejects, Lesser, Greater, set_jaccard_reaches,
       MinHashDuplicate, Aborts, Matches, needed

\* The comparison a step makes, as membership in Pairs.
LEMMA MatchingIsPair ==
  ASSUME TypeOK, Facing
  PROVE  Matching <=> <<i, kept[ki]>> \in Pairs
<1>1. ki \in 1..Len(kept) /\ Len(kept) \in Nat
  BY DEF TypeOK, Facing
<1>2. kept[ki] \in Texts
  BY <1>1, ElementOfSeq DEF TypeOK, Texts
<1>3. i \in Texts
  BY DEF TypeOK, Facing, Placing, Texts
<1> QED BY <1>2, <1>3 DEF Pairs, Matching

\* No text placed, nothing kept.
THEOREM InitIInv == Init => IInv
<1> SUFFICES ASSUME Init PROVE IInv
  OBVIOUS
<1>1. Len(fingerprints) \in Nat
  BY CorpusAssumption DEF Init
<1>2. TypeOK
  BY <1>1 DEF Init, TypeOK
<1> QED BY <1>2 DEF Init, IInv, Below, Heads, Ordered, Ascending, Covered,
                    Disjoint, Apart, Scanned, Claimed

\* A list of texts grown by a later text stays in input order.
LEMMA GrownAscends ==
  ASSUME NEW s \in Seq(Nat), NEW t, NEW e \in Nat, Ascending(s),
         Len(t) = Len(s) + 1, t[Len(s) + 1] = e,
         \A x \in 1..Len(s) : t[x] = s[x] /\ s[x] < e
  PROVE  Ascending(t)
<1>1. Len(s) \in Nat
  OBVIOUS
<1> SUFFICES ASSUME NEW x \in 1..Len(t), NEW y \in 1..Len(t), x < y
             PROVE  t[x] < t[y]
  BY DEF Ascending
<1>2. x \in 1..Len(s)
  BY <1>1
<1>3. CASE y \in 1..Len(s)
  <2>1. s[x] < s[y]
    BY <1>2, <1>3 DEF Ascending
  <2> QED BY <1>2, <1>3, <2>1
<1>4. CASE y = Len(s) + 1
  BY <1>2, <1>4
<1> QED BY <1>1, <1>3, <1>4

\* A list of texts is a list of numbers.
LEMMA TextLists == ASSUME NEW s \in Seq(Texts)
                   PROVE  /\ s \in Seq(Nat) /\ Len(s) \in Nat
                          /\ \A x \in 1..Len(s) : s[x] \in Nat
<1>1. \A x \in 1..Len(s) : s[x] \in Nat
  BY ElementOfSeq DEF Texts
<1> QED BY <1>1, SeqDef

\* A text that does not match the representative it faces moves on.
LEMMA PassIInv == ASSUME IInv, Pass PROVE IInv'
<1> USE DEF Pass
<1>1. Pairs' = Pairs /\ UNCHANGED <<method, num, fingerprints>>
  BY PairsKept DEF args
<1>2. <<i, kept[ki]>> \notin Pairs
  BY MatchingIsPair DEF IInv
<1>3. /\ ki \in 1..Len(kept) /\ i \in Nat
  BY DEF IInv, TypeOK, Facing
<1>4. TypeOK'
  BY <1>1, <1>3 DEF IInv, TypeOK
<1>5. Scanned'
  BY <1>1, <1>2, <1>3 DEF IInv, Scanned, Placing, Facing
<1> QED BY <1>1, <1>4, <1>5 DEF IInv, Below, Heads, Ordered, Ascending, Covered,
                                Disjoint, Apart, Claimed

\* What claiming text i into group ki does to the groups.
LEMMA ClaimGroups ==
  ASSUME IInv, Claim
  PROVE  /\ groups' \in Seq(Seq(Texts)) /\ Len(groups') = Len(groups)
         /\ ki \in 1..Len(groups) /\ i \in Texts
         /\ \A h \in 1..Len(groups) : h # ki => groups'[h] = groups[h]
         /\ Len(groups'[ki]) = Len(groups[ki]) + 1
         /\ Len(groups[ki]) \in Nat
         /\ \A p \in 1..Len(groups[ki]) : groups'[ki][p] = groups[ki][p]
         /\ groups'[ki][Len(groups[ki]) + 1] = i
<1>1. /\ groups \in Seq(Seq(Texts)) /\ i \in Texts
      /\ ki \in 1..Len(groups)
  BY DEF IInv, TypeOK, Heads, Claim, Facing, Placing, Texts
<1>2. groups[ki] \in Seq(Texts)
  BY <1>1, ElementOfSeq
<1> DEFINE new == Append(groups[ki], i)
<1>3. /\ new \in Seq(Texts) /\ Len(new) = Len(groups[ki]) + 1
      /\ Len(groups[ki]) \in Nat
      /\ \A p \in 1..Len(groups[ki]) : new[p] = groups[ki][p]
      /\ new[Len(groups[ki]) + 1] = i
  BY <1>1, <1>2, AppendProperties
<1>4. groups' = [groups EXCEPT ![ki] = new]
  BY DEF Claim, ClaimingGroup
<1> HIDE DEF new
<1>5. /\ groups' \in Seq(Seq(Texts)) /\ Len(groups') = Len(groups)
      /\ \A h \in 1..Len(groups) : groups'[h] = IF h = ki THEN new ELSE groups[h]
  <2>1. /\ [groups EXCEPT ![ki] = new] \in Seq(Seq(Texts))
        /\ Len([groups EXCEPT ![ki] = new]) = Len(groups)
        /\ \A h \in 1..Len(groups) :
             [groups EXCEPT ![ki] = new][h] = IF h = ki THEN new ELSE groups[h]
    BY <1>1, <1>3, ExceptSeq
  <2> QED BY <2>1, <1>4
<1> QED BY <1>1, <1>3, <1>5

\* A claimed text goes behind everything its group holds, and only there.
LEMMA ClaimIInv == ASSUME IInv, Claim PROVE IInv'
<1> DEFINE N == Len(groups[ki])
<1>1. /\ groups' \in Seq(Seq(Texts)) /\ Len(groups') = Len(groups)
      /\ ki \in 1..Len(groups) /\ i \in Texts
      /\ \A h \in 1..Len(groups) : h # ki => groups'[h] = groups[h]
      /\ Len(groups'[ki]) = N + 1 /\ N \in Nat
      /\ \A p \in 1..N : groups'[ki][p] = groups[ki][p]
      /\ groups'[ki][N + 1] = i
  BY ClaimGroups
<1> HIDE DEF N
<1>2. /\ i' = i + 1 /\ ki' = 1 /\ kept' = kept /\ dropped' = Append(dropped, i)
      /\ UNCHANGED <<method, num, fingerprints>> /\ Facing /\ Matching
  BY DEF Claim, Break, NextText, args
<1>3. Pairs' = Pairs /\ Texts' = Texts
  BY <1>2, PairsKept DEF args, Texts
<1>4. <<i, kept[ki]>> \in Pairs
  BY <1>2, MatchingIsPair DEF IInv
<1>5. /\ i \in Nat /\ Len(kept) \in Nat /\ Len(groups) \in Nat
      /\ dropped \in Seq(Texts) /\ Len(groups) = Len(kept)
      /\ Len(fingerprints) \in Nat
  BY <1>1 DEF IInv, TypeOK, Texts, Heads
\* Every entry is an old entry in its old place, or the new one.
<1>6. \A g \in 1..Len(groups') : \A p \in 1..Len(groups'[g]) :
        \/ p \in 1..Len(groups[g]) /\ groups'[g][p] = groups[g][p]
        \/ g = ki /\ p = N + 1 /\ groups'[g][p] = i
  BY SMTT(40), <1>1 DEF N
<1>7. \A g \in 1..Len(groups) : \A p \in 1..Len(groups[g]) :
        p \in 1..Len(groups'[g]) /\ groups'[g][p] = groups[g][p]
  BY <1>1 DEF N
<1>8. \A g \in 1..Len(groups) : \A p \in 1..Len(groups[g]) :
        groups[g][p] < i /\ groups[g][p] \in Nat
  <2> SUFFICES ASSUME NEW g \in 1..Len(groups), NEW p \in 1..Len(groups[g])
               PROVE  groups[g][p] < i /\ groups[g][p] \in Nat
    OBVIOUS
  <2>1. groups[g] \in Seq(Texts)
    BY ElementOfSeq DEF IInv, TypeOK, Texts
  <2>2. groups[g][p] \in Nat
    BY <2>1, TextLists
  <2> QED BY <2>2 DEF IInv, Below
<1>9. /\ dropped' \in Seq(Texts) /\ Len(dropped') = Len(dropped) + 1
      /\ Len(dropped) \in Nat
      /\ \A x \in 1..Len(dropped) : dropped'[x] = dropped[x]
      /\ dropped'[Len(dropped) + 1] = i
  BY <1>1, <1>2, <1>5, AppendProperties
<1>10. TypeOK'
  <2>1. i' \in 1..Len(fingerprints) + 1
    BY <1>1, <1>2, <1>5 DEF Texts
  <2>2. ki' \in 1..Len(kept) + 1
    BY <1>2, <1>5
  <2> QED BY <1>1, <1>2, <1>3, <1>9, <2>1, <2>2 DEF IInv, TypeOK, Texts
<1>11. Below'
  <2>1. \A g \in 1..Len(groups') : \A p \in 1..Len(groups'[g]) :
          groups'[g][p] < i + 1
    <3> SUFFICES ASSUME NEW g \in 1..Len(groups'),
                        NEW p \in 1..Len(groups'[g])
                 PROVE  groups'[g][p] < i + 1
      OBVIOUS
    <3>1. CASE p \in 1..Len(groups[g]) /\ groups'[g][p] = groups[g][p]
      <4>1. groups[g] \in Seq(Texts) /\ g \in 1..Len(groups)
        BY <1>1, ElementOfSeq DEF IInv, TypeOK, Texts
      <4>2. groups[g][p] \in Nat
        BY <3>1, <4>1, ElementOfSeq DEF Texts
      <4> QED BY SMTT(40), <3>1, <4>1, <4>2, <1>5, <1>8
    <3>2. CASE groups'[g][p] = i
      BY <3>2, <1>5
    <3> QED BY <3>1, <3>2, <1>6
  <2>2. \A x \in 1..Len(dropped') : dropped'[x] < i + 1
    <3> SUFFICES ASSUME NEW x \in 1..Len(dropped') PROVE dropped'[x] < i + 1
      OBVIOUS
    <3>1. CASE x \in 1..Len(dropped)
      <4>1. dropped[x] \in Nat /\ dropped[x] < i
        BY <3>1, <1>5, ElementOfSeq DEF IInv, Below, Texts
      <4> QED BY <3>1, <4>1, <1>5, <1>9
    <3>2. CASE x = Len(dropped) + 1
      BY <3>2, <1>5, <1>9
    <3> QED BY <3>1, <3>2, <1>9
  <2>3. \A x \in 1..Len(kept) : kept[x] < i + 1
    <3> SUFFICES ASSUME NEW x \in 1..Len(kept) PROVE kept[x] < i + 1
      OBVIOUS
    <3>1. kept[x] \in Nat /\ kept[x] < i
      BY ElementOfSeq DEF IInv, TypeOK, Below
    <3> QED BY <3>1, <1>5
  <2> QED BY <2>1, <2>2, <2>3, <1>2 DEF Below
<1>12. Heads'
  <2> SUFFICES ASSUME NEW g \in 1..Len(groups')
               PROVE  Len(groups'[g]) >= 1 /\ groups'[g][1] = kept[g]
    BY <1>1, <1>2, <1>5 DEF Heads
  <2>1. Len(groups[g]) >= 1 /\ groups[g][1] = kept[g] /\ g \in 1..Len(groups)
    BY <1>1 DEF IInv, Heads
  <2>2. CASE g = ki
    BY <2>1, <2>2, <1>1 DEF N
  <2>3. CASE g # ki
    BY <2>1, <2>3, <1>1
  <2> QED BY <2>2, <2>3
<1>13. Ordered'
  <2>1. Ascending(kept') /\ Ascending(dropped')
    <3>1. \A x \in 1..Len(dropped) : dropped[x] < i
      BY DEF IInv, Below
    <3>2. Ascending(dropped) /\ dropped \in Seq(Nat)
      BY <1>5, TextLists DEF IInv, Ordered
    <3>3. Ascending(dropped')
      BY <3>1, <3>2, <1>5, <1>9, GrownAscends
    <3> QED BY <3>3, <1>2 DEF IInv, Ordered
  <2>2. ASSUME NEW g \in 1..Len(groups') PROVE Ascending(groups'[g])
    <3>1. Ascending(groups[g]) /\ g \in 1..Len(groups)
      BY <1>1 DEF IInv, Ordered
    <3>2. CASE g # ki
      BY <3>1, <3>2, <1>1
    <3>3. CASE g = ki
      <4>1. \A p \in 1..N : groups[ki][p] < i
        BY <1>1, <1>8 DEF N
      <4>2. Ascending(groups[ki])
        BY <3>1, <3>3
      <4>3. groups[ki] \in Seq(Nat)
        <5>1. groups[ki] \in Seq(Texts)
          BY <1>1, ElementOfSeq DEF IInv, TypeOK, Texts
        <5> QED BY <5>1, TextLists
      <4>4. Ascending(groups'[ki])
        BY <4>1, <4>2, <4>3, <1>1, <1>5, GrownAscends DEF N
      <4> QED BY <3>3, <4>4
    <3> QED BY <3>2, <3>3
  <2> QED BY <2>1, <2>2 DEF Ordered
<1>14. Covered'
  <2> SUFFICES ASSUME NEW t \in 1..i
               PROVE  \E g \in 1..Len(groups') : \E p \in 1..Len(groups'[g]) :
                        groups'[g][p] = t
    BY SMTT(40), <1>2, <1>5 DEF Covered
  <2>1. CASE t = i
    <3>1. N + 1 \in 1..Len(groups'[ki])
      BY <1>1
    <3> QED BY <2>1, <3>1, <1>1
  <2>2. CASE t \in 1..i - 1
    <3>1. PICK g \in 1..Len(groups) : \E p \in 1..Len(groups[g]) :
            groups[g][p] = t
      BY <2>2 DEF IInv, Covered
    <3> QED BY <3>1, <1>1, <1>7
  <2> QED BY <2>1, <2>2, <1>5
<1>15. Disjoint'
  <2> SUFFICES ASSUME NEW g \in 1..Len(groups'), NEW h \in 1..Len(groups'),
                      NEW p \in 1..Len(groups'[g]), NEW q \in 1..Len(groups'[h]),
                      groups'[g][p] = groups'[h][q]
               PROVE  g = h /\ p = q
    BY DEF Disjoint
  <2>1. g \in 1..Len(groups) /\ h \in 1..Len(groups)
    BY <1>1
  <2>2. CASE /\ p \in 1..Len(groups[g]) /\ groups'[g][p] = groups[g][p]
             /\ q \in 1..Len(groups[h]) /\ groups'[h][q] = groups[h][q]
    <3>1. groups[g][p] = groups[h][q]
      BY <2>2
    <3> QED BY <2>1, <2>2, <3>1 DEF IInv, Disjoint
  <2>3. CASE /\ p \in 1..Len(groups[g]) /\ groups'[g][p] = groups[g][p]
             /\ groups'[h][q] = i
    <3>1. groups[g][p] < i /\ groups[g][p] \in Nat /\ groups[g][p] = i
      BY <2>1, <2>3, <1>8
    <3> QED BY <3>1, <1>5
  <2>4. CASE /\ groups'[g][p] = i
             /\ q \in 1..Len(groups[h]) /\ groups'[h][q] = groups[h][q]
    <3>1. groups[h][q] < i /\ groups[h][q] \in Nat /\ groups[h][q] = i
      BY <2>1, <2>4, <1>8
    <3> QED BY <3>1, <1>5
  <2>5. CASE g = ki /\ p = N + 1 /\ h = ki /\ q = N + 1
    BY <2>5
  <2> QED BY <2>2, <2>3, <2>4, <2>5, <1>6
<1>16. Apart'
  BY <1>2, <1>3 DEF IInv, Apart
<1>17. Scanned'
  BY <1>2 DEF Scanned
<1>18. Claimed'
  <2> SUFFICES ASSUME NEW g \in 1..Len(groups'), NEW p \in 2..Len(groups'[g])
               PROVE  /\ <<groups'[g][p], kept[g]>> \in Pairs
                      /\ \A h \in 1..g - 1 : <<groups'[g][p], kept[h]>> \notin Pairs
    BY <1>2, <1>3 DEF Claimed
  <2>1. g \in 1..Len(groups) /\ p \in 1..Len(groups'[g])
    BY <1>1
  <2>2. CASE p \in 1..Len(groups[g]) /\ groups'[g][p] = groups[g][p]
    BY <2>1, <2>2 DEF IInv, Claimed
  <2>3. CASE g = ki /\ groups'[g][p] = i
    BY <2>3, <1>2, <1>4 DEF IInv, Scanned, Facing
  <2> QED BY <2>1, <2>2, <2>3, <1>6
<1> QED BY <1>10, <1>11, <1>12, <1>13, <1>14, <1>15, <1>16, <1>17, <1>18
        DEF IInv

\* A text that matched none of the kept texts becomes one of them.
LEMMA KeepIInv == ASSUME IInv, Keep PROVE IInv'
<1> DEFINE K == Len(kept)
<1>1. /\ i' = i + 1 /\ ki' = 1 /\ dropped' = dropped
      /\ kept' = Append(kept, i) /\ groups' = Append(groups, <<i>>)
      /\ UNCHANGED <<method, num, fingerprints>> /\ Placing /\ ki > K
  BY DEF Keep, NextText, args
<1>2. Pairs' = Pairs /\ Texts' = Texts
  BY <1>1, PairsKept DEF args, Texts
<1>3. /\ i \in Texts /\ kept \in Seq(Texts) /\ groups \in Seq(Seq(Texts))
      /\ K \in Nat /\ Len(groups) = K /\ i \in Nat /\ Len(fingerprints) \in Nat
      /\ dropped \in Seq(Texts)
  BY <1>1 DEF IInv, TypeOK, Texts, Heads, Placing
<1>4. <<i>> \in Seq(Texts) /\ Len(<<i>>) = 1 /\ <<i>>[1] = i
  BY <1>3
<1>5. /\ kept' \in Seq(Texts) /\ Len(kept') = K + 1
      /\ \A x \in 1..K : kept'[x] = kept[x]
      /\ kept'[K + 1] = i
  BY <1>1, <1>3, AppendProperties
<1>6. /\ groups' \in Seq(Seq(Texts)) /\ Len(groups') = K + 1
      /\ \A g \in 1..K : groups'[g] = groups[g]
      /\ groups'[K + 1] = <<i>>
  BY <1>1, <1>3, <1>4, AppendProperties
<1> HIDE DEF K
<1>7. \A x \in 1..K : kept[x] < i /\ kept[x] \in Nat
  BY <1>3, ElementOfSeq DEF IInv, Below, K, Texts
<1>8. \A g \in 1..K : \A p \in 1..Len(groups[g]) :
        groups[g][p] < i /\ groups[g][p] \in Nat
  <2> SUFFICES ASSUME NEW g \in 1..K, NEW p \in 1..Len(groups[g])
               PROVE  groups[g][p] < i /\ groups[g][p] \in Nat
    OBVIOUS
  <2>1. groups[g] \in Seq(Texts)
    BY <1>3, ElementOfSeq
  <2>2. groups[g][p] \in Nat
    BY <2>1, ElementOfSeq DEF Texts
  <2> QED BY <2>2, <1>3 DEF IInv, Below
<1>9. TypeOK'
  <2>1. i' \in 1..Len(fingerprints) + 1 /\ ki' \in 1..Len(kept') + 1
    BY <1>1, <1>3, <1>5 DEF Texts
  <2> QED BY <2>1, <1>1, <1>2, <1>3, <1>5, <1>6 DEF IInv, TypeOK, Texts
<1>10. Below'
  <2>1. \A x \in 1..Len(kept') : kept'[x] < i + 1
    <3> SUFFICES ASSUME NEW x \in 1..Len(kept') PROVE kept'[x] < i + 1
      OBVIOUS
    <3>1. CASE x \in 1..K
      <4>1. kept'[x] < i /\ kept'[x] \in Nat
        BY <3>1, <1>5, <1>7
      <4> QED BY <4>1, <1>3
    <3>2. CASE x = K + 1
      BY <3>2, <1>3, <1>5
    <3> QED BY <3>1, <3>2, <1>3, <1>5
  <2>2. \A x \in 1..Len(dropped) : dropped[x] < i + 1
    <3> SUFFICES ASSUME NEW x \in 1..Len(dropped) PROVE dropped[x] < i + 1
      OBVIOUS
    <3>1. dropped[x] \in Nat /\ dropped[x] < i
      BY <1>3, ElementOfSeq DEF IInv, Below, Texts
    <3> QED BY <3>1, <1>3
  <2>3. \A g \in 1..Len(groups') : \A p \in 1..Len(groups'[g]) :
          groups'[g][p] < i + 1
    <3> SUFFICES ASSUME NEW g \in 1..Len(groups'), NEW p \in 1..Len(groups'[g])
                 PROVE  groups'[g][p] < i + 1
      OBVIOUS
    <3>1. CASE g \in 1..K
      BY <3>1, <1>3, <1>6, <1>8
    <3>2. CASE g = K + 1
      <4>1. groups'[g] = <<i>> /\ p = 1
        BY <3>2, <1>6, <1>4
      <4> QED BY <4>1, <1>3
    <3> QED BY <3>1, <3>2, <1>3, <1>6
  <2> QED BY <2>1, <2>2, <2>3, <1>1 DEF Below
<1>11. Heads'
  <2> SUFFICES ASSUME NEW g \in 1..Len(groups')
               PROVE  Len(groups'[g]) >= 1 /\ groups'[g][1] = kept'[g]
    BY <1>5, <1>6 DEF Heads
  <2>1. CASE g \in 1..K
    BY <2>1, <1>3, <1>5, <1>6 DEF IInv, Heads
  <2>2. CASE g = K + 1
    BY <2>2, <1>4, <1>5, <1>6
  <2> QED BY <2>1, <2>2, <1>3, <1>6
<1>12. Ordered'
  <2>1. Ascending(kept')
    <3>1. Ascending(kept) /\ kept \in Seq(Nat)
      BY <1>3, TextLists DEF IInv, Ordered
    <3> QED BY <3>1, <1>3, <1>5, <1>7, GrownAscends DEF K
  <2>2. Ascending(dropped')
    BY <1>1 DEF IInv, Ordered, Ascending
  <2>3. ASSUME NEW g \in 1..Len(groups') PROVE Ascending(groups'[g])
    <3>1. CASE g \in 1..K
      BY <3>1, <1>3, <1>6 DEF IInv, Ordered
    <3>2. CASE g = K + 1
      <4>1. groups'[g] = <<i>>
        BY <3>2, <1>6
      <4> QED BY <4>1, <1>4 DEF Ascending
    <3> QED BY <3>1, <3>2, <1>3, <1>6
  <2> QED BY <2>1, <2>2, <2>3 DEF Ordered
<1>13. Covered'
  <2> SUFFICES ASSUME NEW t \in 1..i
               PROVE  \E g \in 1..Len(groups') : \E p \in 1..Len(groups'[g]) :
                        groups'[g][p] = t
    <3>1. i' - 1 = i
      BY <1>1, <1>3
    <3> QED BY <3>1 DEF Covered
  <2>1. CASE t = i
    <3>1. /\ K + 1 \in 1..Len(groups') /\ 1 \in 1..Len(groups'[K + 1])
          /\ groups'[K + 1][1] = i
      BY <1>3, <1>4, <1>6
    <3> QED BY <2>1, <3>1
  <2>2. CASE t \in 1..i - 1
    <3>1. PICK g \in 1..K : \E p \in 1..Len(groups[g]) : groups[g][p] = t
      BY <2>2, <1>3 DEF IInv, Covered
    <3>2. g \in 1..Len(groups') /\ groups'[g] = groups[g]
      BY <1>3, <1>6
    <3> QED BY <3>1, <3>2
  <2> QED BY <2>1, <2>2, <1>3
<1>14. Disjoint'
  <2> SUFFICES ASSUME NEW g \in 1..Len(groups'), NEW h \in 1..Len(groups'),
                      NEW p \in 1..Len(groups'[g]), NEW q \in 1..Len(groups'[h]),
                      groups'[g][p] = groups'[h][q]
               PROVE  g = h /\ p = q
    BY DEF Disjoint
  <2>1. CASE g \in 1..K /\ h \in 1..K
    BY SMTT(40), <2>1, <1>3, <1>6 DEF IInv, Disjoint
  <2>2. CASE g \in 1..K /\ h = K + 1
    <3>1. groups'[h][q] = i
      BY <2>2, <1>4, <1>6
    <3>2. groups'[g][p] < i
      BY <2>2, <1>6, <1>8
    <3> QED BY <3>1, <3>2, <1>3
  <2>3. CASE g = K + 1 /\ h \in 1..K
    <3>1. groups'[g][p] = i
      BY <2>3, <1>4, <1>6
    <3>2. groups'[h][q] < i
      BY <2>3, <1>6, <1>8
    <3> QED BY <3>1, <3>2, <1>3
  <2>4. CASE g = K + 1 /\ h = K + 1
    <3>1. p = 1 /\ q = 1
      BY <2>4, <1>4, <1>6
    <3> QED BY <2>4, <3>1
  <2> QED BY <2>1, <2>2, <2>3, <2>4, <1>3, <1>6
<1>15. \A h \in 1..K : <<i, kept[h]>> \notin Pairs
  <2>1. \A h \in 1..ki - 1 : <<i, kept[h]>> \notin Pairs
    BY <1>1 DEF IInv, Scanned
  <2>2. ki \in Nat
    BY DEF IInv, TypeOK
  <2> QED BY <2>1, <2>2, <1>1, <1>3 DEF K
<1>16. Apart'
  <2> SUFFICES ASSUME NEW x \in 1..Len(kept'), NEW y \in 1..Len(kept'), x < y
               PROVE  <<kept'[y], kept'[x]>> \notin Pairs
    BY <1>2 DEF Apart
  <2>1. CASE y \in 1..K
    <3>1. x \in 1..K
      BY <2>1, <1>3
    <3> QED BY <2>1, <3>1, <1>5 DEF IInv, Apart, K
  <2>2. CASE y = K + 1
    <3>1. x \in 1..K
      BY <2>2, <1>3
    <3> QED BY <2>2, <3>1, <1>5, <1>15
  <2> QED BY <2>1, <2>2, <1>3, <1>5
<1>17. Scanned'
  BY <1>1 DEF Scanned
<1>18. Claimed'
  <2> SUFFICES ASSUME NEW g \in 1..Len(groups'), NEW p \in 2..Len(groups'[g])
               PROVE  /\ <<groups'[g][p], kept'[g]>> \in Pairs
                      /\ \A h \in 1..g - 1 : <<groups'[g][p], kept'[h]>> \notin Pairs
    BY <1>2 DEF Claimed
  <2>1. g \in 1..K
    <3>1. CASE g = K + 1
      BY <3>1, <1>4, <1>6
    <3> QED BY <3>1, <1>3, <1>6
  <2>2. groups'[g] = groups[g] /\ kept'[g] = kept[g]
    BY <2>1, <1>5, <1>6
  <2>3. \A h \in 1..g - 1 : kept'[h] = kept[h]
    BY <2>1, <1>3, <1>5
  <2> QED BY <2>1, <2>2, <2>3, <1>3 DEF IInv, Claimed
<1> QED BY <1>9, <1>10, <1>11, <1>12, <1>13, <1>14, <1>16, <1>17, <1>18
        DEF IInv

\* Every step of the sweep keeps the invariant.
THEOREM StepIInv == IInv /\ [Next]_vars => IInv'
<1> SUFFICES ASSUME IInv, [Next]_vars PROVE IInv'
  OBVIOUS
<1>1. CASE Pass
  BY <1>1, PassIInv
<1>2. CASE Claim
  BY <1>2, ClaimIInv
<1>3. CASE Keep
  BY <1>3, KeepIInv
<1>4. CASE UNCHANGED vars
  <2>1. Pairs' = Pairs
    BY <1>4, PairsKept DEF vars
  <2>2. UNCHANGED <<method, num, fingerprints, i, ki, kept, dropped, groups>>
    BY <1>4 DEF vars, args
  <2>3. TypeOK'
    BY <2>2 DEF IInv, TypeOK
  <2>4. Below' /\ Heads' /\ Covered' /\ Disjoint'
    BY SMTT(40), <2>2 DEF IInv, Below, Heads, Covered, Disjoint
  <2>5. Ordered'
    BY <2>2 DEF IInv, Ordered, Ascending
  <2>6. Apart' /\ Scanned' /\ Claimed'
    BY <2>1, <2>2 DEF IInv, Apart, Scanned, Placing, Claimed
  <2> QED BY <2>3, <2>4, <2>5, <2>6 DEF IInv
<1> QED BY <1>1, <1>2, <1>3, <1>4 DEF Next

\* The invariant holds throughout every sweep.
THEOREM Invariance == Spec => []IInv
<1> QED BY InitIInv, StepIInv, PTL DEF Spec

------------------------------------------------------------------------------
(* What the invariant says of the outcome *)

\* The sweep's state stays well typed.
THEOREM TypeCorrect == Spec => []TypeOK
<1>1. IInv => TypeOK
  BY DEF IInv
<1> QED BY <1>1, Invariance, PTL

\* No two representatives of any sweep are near duplicates of one another.
THEOREM RepsApart == Spec => []NoTwoAlike
<1>1. IInv => NoTwoAlike
  <2> SUFFICES ASSUME IInv, NEW x \in 1..Len(kept), NEW y \in 1..Len(kept), x < y
               PROVE  ~is_duplicate(fingerprints[kept[y]], fingerprints[kept[x]])
    BY DEF NoTwoAlike
  <2>1. kept[x] \in Texts /\ kept[y] \in Texts
    BY ElementOfSeq DEF IInv, TypeOK, Texts
  <2>2. <<kept[y], kept[x]>> \notin Pairs
    BY DEF IInv, Apart
  <2> QED BY <2>1, <2>2 DEF Pairs
<1> QED BY <1>1, Invariance, PTL

\* A dropped text always sits with the first representative it matches.
THEOREM ClaimedFirst == Spec => []FirstClaim
<1>1. IInv => FirstClaim
  <2> SUFFICES ASSUME IInv, NEW g \in 1..Len(groups), NEW p \in 2..Len(groups[g])
               PROVE  /\ is_duplicate(fingerprints[groups[g][p]],
                                      fingerprints[kept[g]])
                      /\ \A h \in 1..g - 1 :
                           ~is_duplicate(fingerprints[groups[g][p]],
                                         fingerprints[kept[h]])
    BY DEF FirstClaim
  <2>1. groups[g] \in Seq(Texts) /\ kept \in Seq(Texts) /\ Len(groups) = Len(kept)
    BY ElementOfSeq DEF IInv, TypeOK, Texts, Heads
  <2>2. Len(kept) \in Nat /\ Len(groups[g]) \in Nat
    BY <2>1, TextLists
  <2>3. groups[g][p] \in Texts
    BY <2>1, <2>2, ElementOfSeq
  <2>4. \A h \in 1..g : kept[h] \in Texts
    BY <2>1, <2>2, ElementOfSeq
  <2>5. /\ <<groups[g][p], kept[g]>> \in Pairs
        /\ \A h \in 1..g - 1 : <<groups[g][p], kept[h]>> \notin Pairs
    BY DEF IInv, Claimed
  <2>6. \A h \in 1..g - 1 : kept[h] \in Texts
    BY <2>1, <2>2, <2>4
  <2> QED BY <2>3, <2>5, <2>6 DEF Pairs
<1> QED BY <1>1, Invariance, PTL

\* Who comes first decides, and nothing else.
THEOREM FirstCome == Spec => []FirstComeGroups
<1>1. NoTwoAlike /\ FirstClaim => FirstComeGroups
  BY DEF FirstComeGroups
<1> QED BY <1>1, RepsApart, ClaimedFirst, PTL

\* The groups partition the placed texts, headed by their representatives.
THEOREM Partitioned == Spec => []GroupsPartition
<1>1. IInv => GroupsPartition
  <2> SUFFICES ASSUME IInv PROVE GroupsPartition
    OBVIOUS
  <2>1. \A g \in 1..Len(groups) : groups[g] # <<>>
    <3> SUFFICES ASSUME NEW g \in 1..Len(groups) PROVE groups[g] # <<>>
      OBVIOUS
    <3>1. Len(groups[g]) >= 1
      BY DEF IInv, Heads
    <3> QED BY <3>1
  <2> QED BY <2>1 DEF IInv, GroupsPartition, Heads, Ordered, Covered, Disjoint
<1> QED BY <1>1, Invariance, PTL

------------------------------------------------------------------------------
(* The early exits *)

\* A number is at most the floor of a quotient when its multiple is at most the
\* dividend, and at least the ceiling when it is at least.
LEMMA FloorOfRatio ==
  ASSUME NEW a \in Nat, NEW d \in Nat \ {0}, NEW h \in Nat
  PROVE  h <= a \div d <=> h * d <= a
<1> DEFINE q == a \div d
<1>1. q \in Nat /\ q * d <= a /\ a < (q + 1) * d
  BY Z3
<1>2. h <= q => h * d <= q * d
  BY <1>1, Z3
<1>3. h >= q + 1 => h * d >= (q + 1) * d
  BY <1>1, Z3
<1>4. h * d \in Nat /\ q * d \in Nat /\ (q + 1) * d \in Nat
  BY <1>1
<1> HIDE DEF q
<1>5. h <= q <=> h * d <= a
  BY <1>1, <1>2, <1>3, <1>4
<1> QED BY <1>5 DEF q

LEMMA CeilingOfRatio ==
  ASSUME NEW a \in Nat, NEW d \in Nat \ {0}, NEW h \in Nat
  PROVE  h >= (a + d - 1) \div d <=> h * d >= a
<1> DEFINE b == a + d - 1
           q == b \div d
<1>1. b \in Nat
  OBVIOUS
<1>2. h + 1 <= q <=> (h + 1) * d <= b
  BY <1>1, FloorOfRatio
<1>3. (h + 1) * d = h * d + d /\ h * d \in Nat
  BY Z3
<1>4. q \in Nat
  BY <1>1, Z3
<1>5. (h + 1) * d <= b <=> h * d < a
  BY <1>3
<1> HIDE DEF q
<1>6. h >= q <=> h * d >= a
  BY <1>2, <1>3, <1>4, <1>5
<1> QED BY <1>6 DEF q

\* Hamming distance at most floor((1 - threshold) * width) is agreement on at
\* least threshold * width of the bits.
LEMMA SimExact ==
  ASSUME num \in 0..Den, NEW a \in SUBSET (1..Width), NEW b \in SUBSET (1..Width)
  PROVE  SimDuplicate(a, b) <=>
         Cardinality({x \in 1..Width : x \in a <=> x \in b}) * Den >= num * Width
<1> DEFINE D == (a \ b) \cup (b \ a)
           A == {x \in 1..Width : x \in a <=> x \in b}
<1>1. IsFiniteSet(1..Width) /\ Cardinality(1..Width) = Width /\ Width \in Nat
  BY FS_Interval, WidthAssumption
<1>2. A = (1..Width) \ D /\ (1..Width) \cap D = D
  OBVIOUS
<1>3. Cardinality(A) = Width - Cardinality(D)
  BY <1>1, <1>2, FS_Difference
<1>4. Cardinality(D) \in Nat
  BY <1>1, FS_Subset, FS_CardinalityType, D \in SUBSET (1..Width)
<1> DEFINE h == Cardinality(D)
<1>5. Den \in Nat \ {0} /\ num \in Nat /\ Den - num \in Nat
  BY ThresholdAssumption
<1>6. (Den - num) * Width \in Nat
  BY <1>1, <1>5
<1> HIDE DEF A
<1>7. SimDuplicate(a, b) <=> h <= ((Den - num) * Width) \div Den
  BY DEF SimDuplicate, fingerprint_hamming
<1> HIDE DEF D, h
<1>8. h \in Nat /\ Cardinality(A) = Width - h
  BY <1>3, <1>4 DEF h
<1>9. SimDuplicate(a, b) <=> h * Den <= (Den - num) * Width
  BY <1>5, <1>6, <1>7, <1>8, FloorOfRatio
<1>10. (Width - h) * Den = Width * Den - h * Den
  BY <1>1, <1>5, <1>8, Z3
<1>11. (Den - num) * Width = Width * Den - num * Width
  BY <1>1, <1>5, Z3
<1>12. Width * Den \in Nat /\ h * Den \in Nat /\ num * Width \in Nat
  BY <1>1, <1>5, <1>8
<1>13. SimDuplicate(a, b) <=> Cardinality(A) * Den >= num * Width
  BY <1>8, <1>9, <1>10, <1>11, <1>12
<1> QED BY <1>13 DEF A

\* A product grows with its first factor, and with its second.
LEMMA ProductGrows ==
  ASSUME NEW x \in Nat, NEW y \in Nat, NEW k \in Nat, x <= y
  PROVE  x * k <= y * k /\ k * x <= k * y /\ x * k \in Nat /\ y * k \in Nat
         /\ k * x \in Nat /\ k * y \in Nat
BY Z3

\* The size bound refuses only what the Jaccard ratio refuses, the empty sets
\* answer as the ratio does, and the union's size is counted right.
LEMMA ShingleExact ==
  ASSUME num \in 0..Den, NEW a, NEW b, IsFiniteSet(a), IsFiniteSet(b)
  PROVE  ShingleDuplicate(a, b) <=>
         IF a \cup b = {} THEN TRUE
         ELSE Cardinality(a \cap b) * Den >= num * Cardinality(a \cup b)
<1> DEFINE m == Cardinality(a)
           n == Cardinality(b)
           c == Cardinality(a \cap b)
           u == Cardinality(a \cup b)
<1>1. Den \in Nat \ {0} /\ num \in Nat
  BY ThresholdAssumption
<1>2. m \in Nat /\ n \in Nat /\ c \in Nat /\ u \in Nat
  BY FS_CardinalityType, FS_Union, FS_Intersection
<1>3. c <= m /\ c <= n /\ u = m + n - c
  BY FS_Union, FS_Intersection
<1>4. (a = {} <=> m = 0) /\ (b = {} <=> n = 0)
  BY FS_EmptySet
<1>5. ShingleDuplicate(a, b) <=>
        IF a = {} /\ b = {} THEN TRUE
        ELSE IF a = {} \/ b = {} THEN num = 0
        ELSE /\ ~(Lesser(m, n) * Den < num * Greater(m, n))
             /\ c * Den >= num * (m + n - c)
  BY DEF ShingleDuplicate, BoundRejects, set_jaccard_reaches
<1>6. a \cup b = {} <=> a = {} /\ b = {}
  OBVIOUS
<1> HIDE DEF m, n, c, u
<1>7. CASE a = {} /\ b = {}
  BY <1>5, <1>6, <1>7
<1>8. CASE (a = {} \/ b = {}) /\ ~(a = {} /\ b = {})
  <2>1. c = 0 /\ u \in Nat \ {0}
    BY <1>2, <1>3, <1>4, <1>8
  <2>2. c * Den = 0
    BY <2>1, <1>1
  <2>3. num * u <= 0 <=> num = 0
    BY <2>1, <1>1, Z3
  <2>4. num * u \in Nat
    BY <2>1, <1>1
  <2>5. c * Den >= num * u <=> num = 0
    BY <2>2, <2>3, <2>4
  <2> QED BY <1>5, <1>6, <1>8, <2>5 DEF c, u
<1>9. CASE a # {} /\ b # {}
  <2>1. Lesser(m, n) \in Nat /\ Greater(m, n) \in Nat
    BY <1>2 DEF Lesser, Greater
  <2>2. c <= Lesser(m, n) /\ Greater(m, n) <= u
    BY <1>2, <1>3 DEF Lesser, Greater
  <2> DEFINE lo == Lesser(m, n)
             hi == Greater(m, n)
  <2> HIDE DEF lo, hi
  <2>3. lo \in Nat /\ hi \in Nat /\ c <= lo /\ hi <= u
    BY <2>1, <2>2 DEF lo, hi
  <2>4. c * Den <= lo * Den /\ num * hi <= num * u
    BY <2>3, <1>1, <1>2, ProductGrows
  <2>5. /\ c * Den \in Nat /\ lo * Den \in Nat
        /\ num * hi \in Nat /\ num * u \in Nat
    BY <2>3, <1>1, <1>2
  <2>6. lo * Den < num * hi => ~(c * Den >= num * u)
    BY <2>4, <2>5
  <2>7. ShingleDuplicate(a, b) <=> c * Den >= num * u
    BY <1>3, <1>5, <1>9, <2>6 DEF lo, hi
  <2> QED BY <1>6, <1>9, <2>7 DEF c, u
<1> QED BY <1>7, <1>8, <1>9

\* What agrees beyond a position is at most what is left there.
LEMMA MatchesRest ==
  ASSUME NEW a, NEW b, NEW p \in 1..Width
  PROVE  /\ Matches(a, b, p) \in Nat /\ Matches(a, b, Width) \in Nat
         /\ Matches(a, b, Width) <= Matches(a, b, p) + (Width - p)
<1> DEFINE S == {x \in 1..p : a[x] = b[x]}
           T == {x \in 1..Width : a[x] = b[x]}
           R == T \cap (p + 1..Width)
<1>1. Width \in Nat /\ p \in Nat /\ p <= Width
  BY WidthAssumption
<1>2. /\ IsFiniteSet(1..p) /\ IsFiniteSet(1..Width)
      /\ IsFiniteSet(p + 1..Width)
      /\ Cardinality(p + 1..Width) = Width - p
  BY <1>1, FS_Interval
<1>3. /\ IsFiniteSet(S) /\ Cardinality(S) \in Nat
      /\ IsFiniteSet(T) /\ Cardinality(T) \in Nat
  BY <1>2, FS_Subset, FS_CardinalityType
<1>4. IsFiniteSet(R) /\ Cardinality(R) \in Nat /\ Cardinality(R) <= Width - p
  BY <1>2, <1>3, FS_Intersection, FS_CardinalityType
<1>5. T = S \cup R /\ S \cap R = {}
  BY <1>1
<1>6. Matches(a, b, p) = Cardinality(S) /\ Matches(a, b, Width) = Cardinality(T)
  BY DEF Matches
<1> HIDE DEF S, T, R
<1>7. Cardinality(S \cup R) = Cardinality(S) + Cardinality(R) - Cardinality(S \cap R)
  BY <1>3, <1>4, FS_Union
<1>8. Cardinality(S \cap R) = 0
  BY <1>5, FS_EmptySet
<1>9. Cardinality(T) = Cardinality(S) + Cardinality(R)
  BY <1>3, <1>4, <1>5, <1>7, <1>8
<1> QED BY <1>1, <1>3, <1>4, <1>6, <1>9

\* The scan gives up only where the signatures cannot agree often enough.
LEMMA MinHashExact ==
  ASSUME num \in 0..Den, NEW a, NEW b
  PROVE  MinHashDuplicate(a, b) <=>
         Cardinality({x \in 1..Width : a[x] = b[x]}) * Den >= num * Width
<1>1. /\ Width \in 1..Width /\ Width \in Nat /\ Den \in Nat \ {0}
      /\ num \in Nat /\ num * Width \in Nat
  BY WidthAssumption, ThresholdAssumption
<1>2. needed \in Nat
  <2>1. num * Width + Den - 1 \in Nat
    BY <1>1
  <2> QED BY <1>1, <2>1, Z3 DEF needed
<1>3. Matches(a, b, Width) >= needed => \A p \in 1..Width : ~Aborts(a, b, p)
  <2> SUFFICES ASSUME Matches(a, b, Width) >= needed, NEW p \in 1..Width
               PROVE  ~Aborts(a, b, p)
    OBVIOUS
  <2> QED BY <1>1, <1>2, MatchesRest DEF Aborts
<1>4. MinHashDuplicate(a, b) <=> Matches(a, b, Width) >= needed
  BY <1>3 DEF MinHashDuplicate
<1>5. Matches(a, b, Width) \in Nat
  BY <1>1, MatchesRest
<1>6. Matches(a, b, Width) >= needed <=> Matches(a, b, Width) * Den >= num * Width
  BY <1>1, <1>5, CeilingOfRatio DEF needed
<1> QED BY <1>4, <1>6 DEF Matches

\* The verdict on the pair being compared is the method's definition: no early
\* exit ever changes an answer.
THEOREM VerdictExact == Spec => []VerdictIsDefined
<1>1. TypeOK => VerdictIsDefined
  <2> SUFFICES ASSUME TypeOK, Facing
               PROVE  Matching <=> Defined(fingerprints[i], fingerprints[kept[ki]])
    BY DEF VerdictIsDefined
  <2> DEFINE a == fingerprints[i]
             b == fingerprints[kept[ki]]
  <2>1. ki \in 1..Len(kept) /\ Len(kept) \in Nat
    BY DEF TypeOK, Facing
  <2>2. kept[ki] \in 1..Len(fingerprints)
    BY <2>1, ElementOfSeq DEF TypeOK
  <2>3. i \in 1..Len(fingerprints)
    BY DEF TypeOK, Facing, Placing
  <2>4. method \in {"simhash", "shingle", "minhash"}
    BY CorpusAssumption DEF TypeOK
  <2>5. fingerprints \in Seq(Fingerprint(method))
    BY CorpusAssumption DEF TypeOK
  <2>6. a \in Fingerprint(method) /\ b \in Fingerprint(method)
    BY <2>2, <2>3, <2>5, ElementOfSeq
  <2>7. num \in 0..Den
    BY DEF TypeOK
  <2>8. Matching <=> is_duplicate(a, b)
    BY DEF Matching
  <2> HIDE DEF a, b
  <2>9. CASE method = "simhash"
    <3>1. a \in SUBSET (1..Width) /\ b \in SUBSET (1..Width)
      BY <2>6, <2>9 DEF Fingerprint
    <3>2. SimDuplicate(a, b) <=> Defined(a, b)
      BY <2>7, <2>9, <3>1, SimExact DEF Defined
    <3> QED BY <2>8, <2>9, <3>2 DEF is_duplicate, a, b
  <2>10. CASE method = "shingle"
    <3>1. IsFiniteSet(a) /\ IsFiniteSet(b)
      BY <2>6, <2>10 DEF Fingerprint
    <3>2. ShingleDuplicate(a, b) <=> Defined(a, b)
      BY <2>7, <2>10, <3>1, ShingleExact DEF Defined
    <3> QED BY <2>8, <2>10, <3>2 DEF is_duplicate, a, b
  <2>11. CASE method = "minhash"
    <3>1. MinHashDuplicate(a, b) <=> Defined(a, b)
      BY <2>7, <2>11, MinHashExact DEF Defined
    <3> QED BY <2>8, <2>11, <3>1 DEF is_duplicate, a, b
  <2> QED BY <2>4, <2>9, <2>10, <2>11
<1> QED BY <1>1, TypeCorrect, PTL
==============================================================================
