----------------------- MODULE AssessmentAreasProofs -----------------------
(***************************************************************************)
(* Proofs about the groups of the about page, for any scores.              *)
(*                                                                         *)
(* First the sets that the lists are made of: they are a partition of the  *)
(* areas, but for the areas that are lost.  Then a list: an element is     *)
(* placed by the number of those before it, so that no two have one place  *)
(* and no place is empty, and the list of a set is in order.  The lists of *)
(* the page are such lists, one after the other.                           *)
(***************************************************************************)
EXTENDS AssessmentAreas, FiniteSetTheorems, FunctionTheorems, TLAPS

\* The sets that the page's lists are made of, in the order of the page.
Groups(needs) ==
    <<IncompleteAreas(needs), HighScoring(needs), LowScoring(needs),
      WithoutScore(needs), EmptyAreas(needs)>>

LEMMA ThresholdType ==
    ASSUME NEW a \in Scored
    PROVE  Threshold[a] \in Nat /\ UpperBound[a] \in Nat
  BY DEF Scored, Threshold, UpperBound

LEMMA NeedType ==
    ASSUME NEW needs \in CriminogenicNeeds, NEW a \in Area, needs[a] # NotPresent
    PROVE  /\ needs[a] \in AreaNeed
           /\ needs[a].score \in Score
           /\ needs[a].score \in Nat => a \in Scored
  <1>1. needs[a] \in Need
    BY DEF CriminogenicNeeds
  <1>2. needs[a] \in AreaNeed
    BY <1>1, AreasAssumption
  <1>3. needs[a].score \in Nat => a \in Scored
    BY AreasAssumption DEF CriminogenicNeeds
  <1> QED BY <1>2, <1>3 DEF AreaNeed

\* What is grouped by its score has a number, and can be compared.
LEMMA ScoreIsNumber ==
    ASSUME NEW needs \in CriminogenicNeeds, NEW a \in Present(needs)
    PROVE  /\ CriminogenicNeedsScore(needs, a) = NotPresent
                 => ~Comparable(needs, a)
           /\ (CriminogenicNeedsScore(needs, a) # NotPresent /\ ~Lost(needs, a))
                 => Comparable(needs, a)
  <1> DEFINE score == needs[a].score
             own == CriminogenicNeedsScore(needs, a)
             all == OverallScore(needs, a)
  <1>1. a \in Area /\ needs[a] # NotPresent
    BY DEF Present
  <1>2. NotPresent \notin Nat /\ NotANumber \notin Nat
    BY AreasAssumption
  <1>3. CASE score \notin Nat
    <2>1. own = NotPresent
      BY <1>3 DEF CriminogenicNeedsScore
    <2>2. all \notin Nat
      <3>1. CASE ~HasSubArea(needs, a)
        BY <3>1, <2>1, <1>2 DEF OverallScore
      <3>2. CASE HasSubArea(needs, a)
        BY <3>2, <1>2, <1>3 DEF OverallScore
      <3> QED BY <3>1, <3>2
    <2> QED BY <2>1, <2>2 DEF Comparable
  <1>4. CASE score \in Nat
    <2>1. a \in Scored /\ UpperBound[a] \in Nat
      BY <1>1, <1>4, NeedType, ThresholdType
    <2>2. own \in Nat
      BY <1>4, <2>1 DEF CriminogenicNeedsScore
    <2>3. ASSUME ~Lost(needs, a) PROVE all \in Nat
      <3>1. CASE ~HasSubArea(needs, a)
        BY <3>1, <2>2 DEF OverallScore
      <3>2. CASE HasSubArea(needs, a)
        <4>1. needs[Lifestyle].score \in Nat
          BY <2>3, <3>2, <1>1, <1>4 DEF Lost
        <4> QED BY <4>1, <3>2, <1>4, <2>1 DEF OverallScore, HasSubArea
      <3> QED BY <3>1, <3>2
    <2> QED BY <1>2, <2>1, <2>2, <2>3 DEF Comparable
  <1> QED BY <1>3, <1>4

(***************************************************************************)
(* Each area is in one and only one of the sets that AboutPersonController *)
(* makes its lists of, whatever the scores: the filters of assessmentUtils *)
(* on complete, on overallScore and on criminogenicNeedsScore together     *)
(* miss nothing and take nothing twice.  Lost tells the exception.         *)
(***************************************************************************)
THEOREM AreasArePartitioned ==
    ASSUME NEW needs \in CriminogenicNeeds, NEW a \in Area,
           ~(Lost(needs, a) /\ a \in Complete(needs))
    PROVE  \E g \in 1..5 : /\ a \in Groups(needs)[g]
                           /\ \A h \in 1..5 : a \in Groups(needs)[h] => h = g
  <1> DEFINE In(g) == a \in Groups(needs)[g]
             own == CriminogenicNeedsScore(needs, a)
  <1>1. /\ In(1) <=> a \in Present(needs) /\ a \notin Complete(needs)
        /\ In(2) <=> /\ a \in Complete(needs) /\ Comparable(needs, a)
                     /\ OverallScore(needs, a) > Threshold[a]
        /\ In(3) <=> /\ a \in Complete(needs) /\ Comparable(needs, a)
                     /\ OverallScore(needs, a) <= Threshold[a]
        /\ In(4) <=> a \in Complete(needs) /\ own = NotPresent
        /\ In(5) <=> a \notin Present(needs)
    BY DEF Groups, IncompleteAreas, HighScoring, LowScoring, WithoutScore,
           EmptyAreas
  <1>2. a \in Complete(needs) => a \in Present(needs)
    BY DEF Complete
  <1>3. a \in Complete(needs) => (Comparable(needs, a) <=> own # NotPresent)
    BY <1>2, ScoreIsNumber
  <1>4. Comparable(needs, a) =>
            (OverallScore(needs, a) > Threshold[a]
                <=> ~(OverallScore(needs, a) <= Threshold[a]))
    BY ThresholdType DEF Comparable
  <1> HIDE DEF In, own
  <1>5. \E g \in 1..5 : In(g) /\ \A h \in 1..5 : In(h) => h = g
    <2>1. \A h \in 1..5 : h = 1 \/ h = 2 \/ h = 3 \/ h = 4 \/ h = 5
      OBVIOUS
    <2>2. CASE a \notin Present(needs)
      BY <2>1, <2>2, <1>1, <1>2
    <2>3. CASE a \in Present(needs) /\ a \notin Complete(needs)
      BY <2>1, <2>3, <1>1
    <2>4. CASE a \in Complete(needs) /\ own = NotPresent
      BY <2>1, <2>4, <1>1, <1>2, <1>3
    <2>5. CASE a \in Complete(needs) /\ own # NotPresent
      BY <2>1, <2>5, <1>1, <1>2, <1>3, <1>4
    <2> QED BY <2>2, <2>3, <2>4, <2>5
  <1> QED BY <1>5 DEF In

(***************************************************************************)
(* What the exception costs: a lost area whose section is complete is in   *)
(* no set at all, and so on no list of the page (Math.max of               *)
(* overallScore is not a number, but criminogenicNeedsScore is there).     *)
(***************************************************************************)
THEOREM LostAreasAreNowhere ==
    ASSUME NEW needs \in CriminogenicNeeds, NEW a \in Complete(needs),
           Lost(needs, a)
    PROVE  \A g \in 1..5 : a \notin Groups(needs)[g]
  <1>1. a \in Present(needs) /\ a \in Area /\ needs[a] # NotPresent
    BY DEF Complete, Present
  <1>2. NotPresent \notin Nat /\ NotANumber \notin Nat
    BY AreasAssumption
  <1>3. ~Comparable(needs, a)
    BY <1>2 DEF Comparable, OverallScore, Lost
  <1>4. CriminogenicNeedsScore(needs, a) # NotPresent
    <2>1. needs[a].score \in Nat /\ a \in Scored
      BY <1>1, NeedType DEF Lost
    <2> QED BY <2>1, <1>2, ThresholdType DEF CriminogenicNeedsScore
  <1>5. \A g \in 1..5 : g = 1 \/ g = 2 \/ g = 3 \/ g = 4 \/ g = 5
    OBVIOUS
  <1> QED BY <1>1, <1>3, <1>4, <1>5
          DEF Groups, IncompleteAreas, HighScoring, LowScoring, WithoutScore,
              EmptyAreas

-----------------------------------------------------------------------------
\* A comparison that puts a set in one order.
PutsInOrder(before, S) ==
    /\ \A a \in S : <<a, a>> \notin before
    /\ \A a, b \in S : a # b => <<a, b>> \in before \/ <<b, a>> \in before
    /\ \A a, b, c \in S :
          <<a, b>> \in before /\ <<b, c>> \in before => <<a, c>> \in before

LEMMA PrecedingType ==
    ASSUME NEW S, IsFiniteSet(S), NEW before, NEW a \in S
    PROVE  /\ Preceding(S, before, a) \in SUBSET S
           /\ IsFiniteSet(Preceding(S, before, a))
           /\ Cardinality(Preceding(S, before, a)) \in Nat
  <1>1. Preceding(S, before, a) \in SUBSET S
    BY DEF Preceding
  <1> QED BY <1>1, FS_Subset, FS_CardinalityType

\* Fewer go before an element than before those that it goes before.
LEMMA PrecedingGrows ==
    ASSUME NEW S, IsFiniteSet(S), NEW before, PutsInOrder(before, S),
           NEW a \in S, NEW b \in S, <<a, b>> \in before
    PROVE  Cardinality(Preceding(S, before, a)) < Cardinality(Preceding(S, before, b))
  <1> DEFINE A == Preceding(S, before, a)
             B == Preceding(S, before, b)
  <1>1. A \subseteq B /\ a \in B /\ a \notin A
    BY DEF Preceding, PutsInOrder
  <1>2. IsFiniteSet(B) /\ Cardinality(A) \in Nat /\ Cardinality(B) \in Nat
    BY PrecedingType
  <1> HIDE DEF A, B
  <1>3. /\ Cardinality(A) <= Cardinality(B)
        /\ Cardinality(B) = Cardinality(A) => B = A
    BY <1>1, <1>2, FS_Subset
  <1>4. Cardinality(A) < Cardinality(B)
    BY <1>1, <1>2, <1>3
  <1> QED BY <1>4 DEF A, B

(***************************************************************************)
(* The places are told apart by how many go before, so that each place of  *)
(* the list has one element, and each element one place.                   *)
(***************************************************************************)
LEMMA PlacesAreTaken ==
    ASSUME NEW S, IsFiniteSet(S), NEW before, PutsInOrder(before, S)
    PROVE  /\ \A a \in S : Cardinality(Preceding(S, before, a)) + 1 \in 1..Cardinality(S)
           /\ \A a, b \in S :
                 Cardinality(Preceding(S, before, a)) = Cardinality(Preceding(S, before, b))
                    => a = b
           /\ \A i \in 1..Cardinality(S) :
                 \E a \in S : Cardinality(Preceding(S, before, a)) = i - 1
  <1> DEFINE n == Cardinality(S)
             Rank(a) == Cardinality(Preceding(S, before, a))
             rank == [a \in S |-> Rank(a) + 1]
  <1>1. n \in Nat
    BY FS_CardinalityType
  <1>2. \A a \in S : Rank(a) \in Nat
    BY PrecedingType
  <1>3. \A a, b \in S : <<a, b>> \in before => Rank(a) < Rank(b)
    BY PrecedingGrows
  <1>4. ASSUME NEW a \in S PROVE Rank(a) <= n /\ Rank(a) # n
    <2>1. Preceding(S, before, a) \in SUBSET S /\ a \notin Preceding(S, before, a)
      BY DEF Preceding, PutsInOrder
    <2> QED BY <2>1, FS_Subset
  <1> HIDE DEF n, Rank
  <1>5. rank \in [S -> 1..n]
    BY <1>1, <1>2, <1>4
  <1>6. ASSUME NEW a \in S, NEW b \in S, Rank(a) = Rank(b) PROVE a = b
    <2>1. <<a, b>> \notin before /\ <<b, a>> \notin before
      BY <1>2, <1>3, <1>6
    <2> QED BY <2>1 DEF PutsInOrder
  <1>7. \A a, b \in S : rank[a] = rank[b] => a = b
    <2> SUFFICES ASSUME NEW a \in S, NEW b \in S, rank[a] = rank[b]
                 PROVE  a = b
      OBVIOUS
    <2>1. Rank(a) + 1 = Rank(b) + 1
      OBVIOUS
    <2>2. Rank(a) = Rank(b)
      BY <2>1, <1>2
    <2> QED BY <2>2, <1>6
  <1>8. rank \in Injection(S, 1..n)
    BY <1>5, <1>7, Fun_IsInj
  <1>9. IsFiniteSet(1..n) /\ Cardinality(1..n) = n
    BY <1>1, FS_Interval
  <1>10. rank \in Surjection(S, 1..n)
    BY <1>8, <1>9, FS_Injection DEF n
  <1>11. ASSUME NEW i \in 1..n PROVE \E a \in S : Rank(a) = i - 1
    <2>1. PICK a \in S : rank[a] = i
      BY <1>10 DEF Surjection
    <2>2. Rank(a) + 1 = i
      BY <2>1
    <2>3. Rank(a) = i - 1
      BY <2>2, <1>1, <1>2
    <2> QED BY <2>3
  <1>12. \A a \in S : Rank(a) + 1 \in 1..n
    BY <1>1, <1>2, <1>4
  <1> QED BY <1>6, <1>11, <1>12 DEF Rank, n

(***************************************************************************)
(* Sorted lists the elements of a set, each of them once, and none before  *)
(* one that goes before it.                                                *)
(***************************************************************************)
THEOREM SortedListsInOrder ==
    ASSUME NEW S, IsFiniteSet(S), NEW before, PutsInOrder(before, S)
    PROVE  /\ Sorted(S, before) \in Seq(S)
           /\ Len(Sorted(S, before)) = Cardinality(S)
           /\ \A a \in S : \E i \in 1..Cardinality(S) : Sorted(S, before)[i] = a
           /\ \A i, j \in 1..Cardinality(S) :
                 i < j => <<Sorted(S, before)[i], Sorted(S, before)[j]>> \in before
  <1> DEFINE n == Cardinality(S)
             Rank(a) == Cardinality(Preceding(S, before, a))
             list == Sorted(S, before)
  <1>1. n \in Nat
    BY FS_CardinalityType
  <1>2. \A a \in S : Rank(a) \in Nat
    BY PrecedingType
  <1>3. \A i \in 1..n : list[i] = CHOOSE a \in S : Rank(a) = i - 1
    BY DEF Sorted
  <1>4. /\ \A a \in S : Rank(a) + 1 \in 1..n
        /\ \A a, b \in S : Rank(a) = Rank(b) => a = b
        /\ \A i \in 1..n : \E a \in S : Rank(a) = i - 1
    BY PlacesAreTaken
  <1>5. \A a, b \in S : <<a, b>> \in before => Rank(a) < Rank(b)
    BY PrecedingGrows
  <1>6. list = [i \in 1..n |-> list[i]]
    BY DEF Sorted
  <1> HIDE DEF n, Rank, list
  <1>7. ASSUME NEW i \in 1..n PROVE list[i] \in S /\ Rank(list[i]) = i - 1
    BY <1>3, <1>4
  <1>8. list \in Seq(S) /\ Len(list) = n
    <2>1. list \in [1..n -> S]
      BY <1>6, <1>7
    <2> QED BY <1>1, <2>1
  <1>9. ASSUME NEW a \in S PROVE \E i \in 1..n : list[i] = a
    <2>1. Rank(a) + 1 \in 1..n /\ Rank(a) \in Nat
      BY <1>2, <1>4
    <2>2. /\ list[Rank(a) + 1] \in S
          /\ Rank(list[Rank(a) + 1]) = (Rank(a) + 1) - 1
      BY <1>7, <2>1
    <2>3. Rank(list[Rank(a) + 1]) = Rank(a)
      BY <2>1, <2>2
    <2> QED BY <1>4, <2>1, <2>2, <2>3
  <1>10. ASSUME NEW i \in 1..n, NEW j \in 1..n, i < j
         PROVE  <<list[i], list[j]>> \in before
    <2>1. /\ list[i] \in S /\ Rank(list[i]) = i - 1
          /\ list[j] \in S /\ Rank(list[j]) = j - 1
      BY <1>7
    <2>2. Rank(list[i]) < Rank(list[j])
      BY <1>1, <1>10, <2>1
    <2>3. list[i] # list[j] /\ <<list[j], list[i]>> \notin before
      BY <1>1, <1>2, <1>5, <2>1, <2>2
    <2> QED BY <2>1, <2>3 DEF PutsInOrder
  <1> QED BY <1>8, <1>9, <1>10 DEF n, list

(***************************************************************************)
(* There is one such list: what puts the elements of a set in order, each  *)
(* of them at one place, is Sorted.                                        *)
(***************************************************************************)
LEMMA OneSortedList ==
    ASSUME NEW S, IsFiniteSet(S), NEW before, PutsInOrder(before, S),
           NEW list \in [1..Cardinality(S) -> S],
           \A i, j \in 1..Cardinality(S) :
               i < j => <<list[i], list[j]>> \in before
    PROVE  list = Sorted(S, before)
  <1> DEFINE n == Cardinality(S)
             Rank(a) == Cardinality(Preceding(S, before, a))
  <1>1. n \in Nat
    BY FS_CardinalityType
  <1>2. /\ \A a, b \in S : Rank(a) = Rank(b) => a = b
        /\ \A i \in 1..n : \E a \in S : Rank(a) = i - 1
    BY PlacesAreTaken
  <1>3. \A i, j \in 1..n : <<list[i], list[j]>> \in before <=> i < j
    <2> SUFFICES ASSUME NEW i \in 1..n, NEW j \in 1..n, <<list[i], list[j]>> \in before
                 PROVE  i < j
      OBVIOUS
    <2>1. list[i] \in S /\ list[j] \in S
      OBVIOUS
    <2>2. i # j /\ ~(j < i)
      BY <2>1 DEF PutsInOrder
    <2> QED BY <1>1, <2>2
  <1>4. \A i, j \in 1..n : list[i] = list[j] => i = j
    <2> SUFFICES ASSUME NEW i \in 1..n, NEW j \in 1..n, list[i] = list[j]
                 PROVE  i = j
      OBVIOUS
    <2>1. list[i] \in S
      OBVIOUS
    <2>2. <<list[i], list[j]>> \notin before /\ <<list[j], list[i]>> \notin before
      BY <2>1 DEF PutsInOrder
    <2>3. ~(i < j) /\ ~(j < i)
      BY <2>2
    <2> QED BY <1>1, <2>3
  <1>5. \A a \in S : \E i \in 1..n : list[i] = a
    <2>1. list \in Injection(1..n, S)
      BY <1>4, Fun_IsInj
    <2>2. Cardinality(1..n) = n
      BY <1>1, FS_Interval
    <2>3. list \in Surjection(1..n, S)
      BY <2>1, <2>2, FS_Injection
    <2> QED BY <2>3 DEF Surjection
  <1>6. ASSUME NEW i \in 1..n PROVE Rank(list[i]) = i - 1
    <2> DEFINE P == Preceding(S, before, list[i])
               front == [j \in 1..(i - 1) |-> list[j]]
    <2>1. list[i] \in S
      OBVIOUS
    <2>2. IsFiniteSet(P)
      BY <2>1, PrecedingType
    <2>3. 1..(i - 1) \subseteq 1..n
      BY <1>1
    <2>4. front \in [1..(i - 1) -> P]
      BY <1>3, <2>3 DEF Preceding
    <2>5. \A j, k \in 1..(i - 1) : front[j] = front[k] => j = k
      BY <1>4, <2>3
    <2>6. \A a \in P : \E j \in 1..(i - 1) : front[j] = a
      <3> SUFFICES ASSUME NEW a \in P PROVE \E j \in 1..(i - 1) : front[j] = a
        OBVIOUS
      <3>1. a \in S /\ <<a, list[i]>> \in before
        BY DEF Preceding
      <3>2. PICK j \in 1..n : list[j] = a
        BY <1>5, <3>1
      <3>3. j < i
        BY <1>3, <3>1, <3>2
      <3>4. j \in 1..(i - 1)
        BY <1>1, <3>3
      <3> QED BY <3>2, <3>4
    <2>7. front \in Injection(1..(i - 1), P)
      BY <2>4, <2>5, Fun_IsInj
    <2>8. front \in Surjection(1..(i - 1), P)
      BY <2>4, <2>6 DEF Surjection
    <2>9. Cardinality(1..(i - 1)) = Cardinality(P)
      BY <2>2, <2>7, <2>8, FS_Injection
    <2>10. Cardinality(1..(i - 1)) = i - 1
      BY <1>1, FS_Interval
    <2> QED BY <2>9, <2>10
  <1>7. ASSUME NEW i \in 1..n PROVE list[i] = Sorted(S, before)[i]
    <2>1. Sorted(S, before)[i] = CHOOSE a \in S : Rank(a) = i - 1
      BY DEF Sorted
    <2> HIDE DEF Rank
    <2> QED BY <1>2, <1>6, <2>1
  <1>8. Sorted(S, before) = [i \in 1..n |-> Sorted(S, before)[i]]
    BY DEF Sorted
  <1> QED BY <1>7, <1>8

-----------------------------------------------------------------------------
\* A list of each element of a set, once, and in an order that is kept by all pairs.
ListsOf(list, S) ==
    /\ list \in Seq(S)
    /\ \A a \in S : \E i \in 1..Len(list) : list[i] = a
    /\ \A i, j \in 1..Len(list) : list[i] = list[j] => i = j

KeepsOrder(list, order) ==
    \A i, j \in 1..Len(list) : i < j => <<list[i], list[j]>> \in order

LEMMA SortedListsOf ==
    ASSUME NEW S, IsFiniteSet(S), NEW before, PutsInOrder(before, S)
    PROVE  ListsOf(Sorted(S, before), S) /\ KeepsOrder(Sorted(S, before), before)
  <1> DEFINE list == Sorted(S, before)
  <1>1. /\ list \in Seq(S)
        /\ Len(list) = Cardinality(S)
        /\ \A a \in S : \E i \in 1..Cardinality(S) : list[i] = a
        /\ \A i, j \in 1..Cardinality(S) : i < j => <<list[i], list[j]>> \in before
    BY SortedListsInOrder
  <1> HIDE DEF list
  <1>2. ASSUME NEW i \in 1..Len(list), NEW j \in 1..Len(list), list[i] = list[j]
        PROVE  i = j
    <2>1. list[i] \in S /\ Len(list) \in Nat
      BY <1>1
    <2>2. <<list[i], list[j]>> \notin before /\ <<list[j], list[i]>> \notin before
      BY <1>2, <2>1 DEF PutsInOrder
    <2>3. ~(i < j) /\ ~(j < i)
      BY <1>1, <2>2
    <2> QED BY <2>1, <2>3
  <1>3. ListsOf(list, S) /\ KeepsOrder(list, before)
    BY <1>1, <1>2 DEF ListsOf, KeepsOrder
  <1> QED BY <1>3 DEF list

\* Two lists, one after the other.
Joined(u, s, S, t, T) ==
    /\ u \in Seq(S \cup T)
    /\ Len(s) \in Nat /\ Len(t) \in Nat
    /\ Len(u) = Len(s) + Len(t)
    /\ \A i \in 1..Len(s) : u[i] = s[i] /\ s[i] \in S
    /\ \A i \in 1..Len(t) : u[Len(s) + i] = t[i] /\ t[i] \in T
    /\ \A i \in 1..(Len(s) + Len(t)) :
          i \in 1..Len(s) \/ \E k \in 1..Len(t) : i = Len(s) + k

LEMMA Concatenation ==
    ASSUME NEW S, NEW s \in Seq(S), NEW T, NEW t \in Seq(T)
    PROVE  Joined(s \o t, s, S, t, T)
  <1>1. s \in Seq(S \cup T) /\ t \in Seq(S \cup T)
    OBVIOUS
  <1>2. \A i \in 1..(Len(s) + Len(t)) :
           i \in 1..Len(s) \/ \E k \in 1..Len(t) : i = Len(s) + k
    <2> SUFFICES ASSUME NEW i \in 1..(Len(s) + Len(t)), i \notin 1..Len(s)
                 PROVE  \E k \in 1..Len(t) : i = Len(s) + k
      OBVIOUS
    <2>1. i - Len(s) \in 1..Len(t) /\ i = Len(s) + (i - Len(s))
      OBVIOUS
    <2> QED BY <2>1
  <1>3. /\ s \o t \in Seq(S \cup T)
        /\ Len(s) \in Nat /\ Len(t) \in Nat
        /\ Len(s \o t) = Len(s) + Len(t)
    BY <1>1
  <1>4. \A i \in 1..Len(s) : (s \o t)[i] = s[i] /\ s[i] \in S
    OBVIOUS
  <1>5. \A i \in 1..Len(t) : (s \o t)[Len(s) + i] = t[i] /\ t[i] \in T
    OBVIOUS
  <1> QED BY <1>2, <1>3, <1>4, <1>5 DEF Joined

LEMMA ConcatenationLists ==
    ASSUME NEW S, NEW s, ListsOf(s, S), NEW T, NEW t, ListsOf(t, T), S \cap T = {}
    PROVE  ListsOf(s \o t, S \cup T)
  <1> DEFINE u == s \o t
  <1>1. s \in Seq(S) /\ t \in Seq(T)
    BY DEF ListsOf
  <1> HIDE DEF u
  <1>2. /\ u \in Seq(S \cup T)
        /\ Len(s) \in Nat /\ Len(t) \in Nat
        /\ Len(u) = Len(s) + Len(t)
        /\ \A i \in 1..Len(s) : u[i] = s[i] /\ s[i] \in S
        /\ \A i \in 1..Len(t) : u[Len(s) + i] = t[i] /\ t[i] \in T
        /\ \A i \in 1..(Len(s) + Len(t)) :
              i \in 1..Len(s) \/ \E k \in 1..Len(t) : i = Len(s) + k
    <2>1. Joined(u, s, S, t, T)
      BY <1>1, Concatenation DEF u
    <2> QED BY <2>1 DEF Joined
  <1>3. ASSUME NEW a \in S \cup T PROVE \E i \in 1..Len(u) : u[i] = a
    <2>1. CASE a \in S
      <3>1. PICK i \in 1..Len(s) : s[i] = a
        BY <2>1 DEF ListsOf
      <3>2. i \in 1..Len(u) /\ u[i] = s[i]
        BY <1>2
      <3> QED BY <3>1, <3>2
    <2>2. CASE a \in T
      <3>1. PICK i \in 1..Len(t) : t[i] = a
        BY <2>2 DEF ListsOf
      <3>2. Len(s) + i \in 1..Len(u) /\ u[Len(s) + i] = t[i]
        BY <1>2
      <3> QED BY <3>1, <3>2
    <2> QED BY <2>1, <2>2
  <1>4. ASSUME NEW i \in 1..Len(u), NEW j \in 1..Len(u), u[i] = u[j]
        PROVE  i = j
    <2>1. CASE i \in 1..Len(s) /\ j \in 1..Len(s)
      BY <1>2, <1>4, <2>1 DEF ListsOf
    <2>2. CASE i \in 1..Len(s) /\ j \notin 1..Len(s)
      <3>1. PICK k \in 1..Len(t) : j = Len(s) + k
        BY <1>2, <2>2
      <3>2. u[i] \in S /\ u[j] \in T
        BY <1>2, <2>2, <3>1
      <3> QED BY <1>4, <3>2
    <2>3. CASE i \notin 1..Len(s) /\ j \in 1..Len(s)
      <3>1. PICK k \in 1..Len(t) : i = Len(s) + k
        BY <1>2, <2>3
      <3>2. u[j] \in S /\ u[i] \in T
        BY <1>2, <2>3, <3>1
      <3> QED BY <1>4, <3>2
    <2>4. CASE i \notin 1..Len(s) /\ j \notin 1..Len(s)
      <3>1. PICK k \in 1..Len(t) : i = Len(s) + k
        BY <1>2, <2>4
      <3>2. PICK l \in 1..Len(t) : j = Len(s) + l
        BY <1>2, <2>4
      <3>3. t[k] = t[l]
        BY <1>2, <1>4, <3>1, <3>2
      <3> QED BY <3>1, <3>2, <3>3 DEF ListsOf
    <2> QED BY <2>1, <2>2, <2>3, <2>4
  <1>5. ListsOf(u, S \cup T)
    BY <1>2, <1>3, <1>4 DEF ListsOf
  <1> QED BY <1>5 DEF u

LEMMA ConcatenationKeepsOrder ==
    ASSUME NEW S, NEW s \in Seq(S), NEW T, NEW t \in Seq(T), NEW order,
           KeepsOrder(s, order), KeepsOrder(t, order),
           \A a \in S, b \in T : <<a, b>> \in order
    PROVE  KeepsOrder(s \o t, order)
  <1> DEFINE u == s \o t
  <1> HIDE DEF u
  <1>1. /\ u \in Seq(S \cup T)
        /\ Len(s) \in Nat /\ Len(t) \in Nat
        /\ Len(u) = Len(s) + Len(t)
        /\ \A i \in 1..Len(s) : u[i] = s[i] /\ s[i] \in S
        /\ \A i \in 1..Len(t) : u[Len(s) + i] = t[i] /\ t[i] \in T
        /\ \A i \in 1..(Len(s) + Len(t)) :
              i \in 1..Len(s) \/ \E k \in 1..Len(t) : i = Len(s) + k
    <2>1. Joined(u, s, S, t, T)
      BY Concatenation DEF u
    <2> QED BY <2>1 DEF Joined
  <1>2. ASSUME NEW i \in 1..Len(u), NEW j \in 1..Len(u), i < j
        PROVE  <<u[i], u[j]>> \in order
    <2>1. CASE i \in 1..Len(s) /\ j \in 1..Len(s)
      BY <1>1, <1>2, <2>1 DEF KeepsOrder
    <2>2. CASE i \in 1..Len(s) /\ j \notin 1..Len(s)
      <3>1. PICK k \in 1..Len(t) : j = Len(s) + k
        BY <1>1, <2>2
      <3>2. u[i] \in S /\ u[j] \in T
        BY <1>1, <2>2, <3>1
      <3> QED BY <3>2
    <2>3. CASE i \notin 1..Len(s)
      <3>1. j \notin 1..Len(s)
        BY <1>1, <1>2, <2>3
      <3>2. PICK k \in 1..Len(t) : i = Len(s) + k
        BY <1>1, <2>3
      <3>3. PICK l \in 1..Len(t) : j = Len(s) + l
        BY <1>1, <3>1
      <3>4. k < l
        BY <1>1, <1>2, <3>2, <3>3
      <3> QED BY <1>1, <3>2, <3>3, <3>4 DEF KeepsOrder
    <2> QED BY <2>1, <2>2, <2>3
  <1>3. KeepsOrder(u, order)
    BY <1>2 DEF KeepsOrder
  <1> QED BY <1>3 DEF u

-----------------------------------------------------------------------------
(***************************************************************************)
(* The orders of the page, and the lists that are made with them.          *)
(***************************************************************************)
LEMMA TitleType ==
    \A a, b \in Area : /\ Title[a] \in 1..8
                       /\ Title[a] = Title[b] => a = b
  <1>1. \A a \in Area : a \in Scored \cup Scoreless
    BY AreasAssumption
  <1>2. \A a \in Scored \cup Scoreless :
           a \in {"accommodation", "alcoholMisuse", "drugMisuse",
                 "educationTrainingEmployability", "finance", "healthAndWellbeing",
                 "personalRelationshipsAndCommunity", "thinkingBehaviourAndAttitudes"}
    BY DEF Scored, Scoreless, Threshold
  <1> QED BY <1>1, <1>2 DEF Title

LEMMA AreasAreFinite == ASSUME NEW S \in SUBSET Area PROVE IsFiniteSet(S)
  <1> DEFINE title == [a \in Area |-> Title[a]]
  <1>1. title \in [Area -> 1..8]
    BY TitleType
  <1>2. \A a, b \in Area : title[a] = title[b] => a = b
    BY TitleType
  <1>3. title \in Injection(Area, 1..8)
    BY <1>1, <1>2, Fun_IsInj
  <1>4. IsFiniteSet(1..8)
    <2>1. 1 \in Int /\ 8 \in Int
      OBVIOUS
    <2> QED BY <2>1, FS_Interval
  <1>5. IsFiniteSet(Area)
    BY <1>3, <1>4, FS_Injection
  <1> QED BY <1>5, FS_Subset

LEMMA TitlesPutInOrder ==
    ASSUME NEW S \in SUBSET Area PROVE PutsInOrder(TitleOrder, S)
  <1>1. \A a, b \in S : <<a, b>> \in TitleOrder <=> Title[a] < Title[b]
    BY DEF TitleOrder
  <1>2. \A a, b \in S : Title[a] \in Int /\ (Title[a] = Title[b] => a = b)
    BY TitleType
  <1> QED BY <1>1, <1>2 DEF PutsInOrder

\* In a group either all scores can be compared, or none.
LEMMA RisksPutInOrder ==
    ASSUME NEW needs, NEW S \in SUBSET Area,
           \/ \A a \in S : Comparable(needs, a)
           \/ \A a \in S : ~Comparable(needs, a)
    PROVE  PutsInOrder(RiskOrder(needs), S)
  <1>1. \A a, b \in S : <<a, b>> \in RiskOrder(needs) <=> Before(needs, a, b)
    BY DEF RiskOrder
  <1>2. \A a, b \in S : Title[a] \in Int /\ (Title[a] = Title[b] => a = b)
    BY TitleType
  <1>3. CASE \A a \in S : Comparable(needs, a)
    <2>1. \A a \in S : Distance(needs, a) \in Int
      BY <1>3, ThresholdType DEF Comparable, Distance
    <2>2. \A a, b \in S : Before(needs, a, b) <=>
              \/ Distance(needs, a) = Distance(needs, b) /\ Title[a] < Title[b]
              \/ Distance(needs, a) # Distance(needs, b)
                 /\ Distance(needs, a) > Distance(needs, b)
      BY <1>3 DEF Before
    <2>3. \A a \in S : ~Before(needs, a, a)
      BY <1>2, <2>1, <2>2
    <2>4. \A a, b \in S : a # b => Before(needs, a, b) \/ Before(needs, b, a)
      BY <1>2, <2>1, <2>2
    <2>5. \A a, b, c \in S :
             Before(needs, a, b) /\ Before(needs, b, c) => Before(needs, a, c)
      BY <1>2, <2>1, <2>2
    <2> QED BY <1>1, <2>3, <2>4, <2>5 DEF PutsInOrder
  <1>4. CASE \A a \in S : ~Comparable(needs, a)
    <2>1. \A a, b \in S : Before(needs, a, b) <=> Title[a] < Title[b]
      BY <1>4 DEF Before
    <2> QED BY <1>1, <1>2, <2>1 DEF PutsInOrder
  <1> QED BY <1>3, <1>4

\* Which area may stand above which.
Above(needs) ==
    {pair \in Area \X Area :
        \/ RiskCount(needs, pair[1]) > RiskCount(needs, pair[2])
        \/ /\ RiskCount(needs, pair[1]) = RiskCount(needs, pair[2])
           /\ Before(needs, pair[1], pair[2])}

LEMMA GroupIsSorted ==
    ASSUME NEW needs, NEW areas \in SUBSET Area, NEW risk,
           \/ \A a \in areas : Comparable(needs, a)
           \/ \A a \in areas : ~Comparable(needs, a)
    PROVE  LET S == {a \in areas : RiskCount(needs, a) = risk}
           IN  /\ ListsOf(Group(needs, areas, risk), S)
               /\ KeepsOrder(Group(needs, areas, risk), Above(needs))
  <1> DEFINE S == {a \in areas : RiskCount(needs, a) = risk}
             list == Sorted(S, RiskOrder(needs))
  <1>1. S \in SUBSET Area
    OBVIOUS
  <1>2. PutsInOrder(RiskOrder(needs), S)
    BY <1>1, RisksPutInOrder
  <1>3. ListsOf(list, S) /\ KeepsOrder(list, RiskOrder(needs))
    BY <1>1, <1>2, AreasAreFinite, SortedListsOf
  <1>4. \A a, b \in S : <<a, b>> \in RiskOrder(needs) => <<a, b>> \in Above(needs)
    BY DEF RiskOrder, Above
  <1> HIDE DEF S, list
  <1>5. \A i \in 1..Len(list) : list[i] \in S
    BY <1>3 DEF ListsOf
  <1>6. KeepsOrder(list, Above(needs))
    BY <1>3, <1>4, <1>5 DEF KeepsOrder
  <1> QED BY <1>3, <1>6 DEF S, list, Group

\* A group that comes after others.
LEMMA NextGroup ==
    ASSUME NEW order, NEW S, NEW s, ListsOf(s, S), KeepsOrder(s, order),
           NEW T, NEW t, ListsOf(t, T), KeepsOrder(t, order),
           S \cap T = {}, \A a \in S, b \in T : <<a, b>> \in order
    PROVE  ListsOf(s \o t, S \cup T) /\ KeepsOrder(s \o t, order)
  <1>1. s \in Seq(S) /\ t \in Seq(T)
    BY DEF ListsOf
  <1>2. KeepsOrder(s \o t, order)
    BY <1>1, ConcatenationKeepsOrder
  <1> QED BY <1>2, ConcatenationLists

LEMMA GroupsAreSorted ==
    ASSUME NEW needs, NEW areas \in SUBSET Area,
           \/ \A a \in areas : Comparable(needs, a)
           \/ \A a \in areas : ~Comparable(needs, a)
    PROVE  /\ ListsOf(GroupAndSortByRisk(needs, areas), areas)
           /\ KeepsOrder(GroupAndSortByRisk(needs, areas), Above(needs))
  <1> DEFINE S(risk) == {a \in areas : RiskCount(needs, a) = risk}
             Down(risk) == {a \in areas : RiskCount(needs, a) >= risk}
             G(risk) == Group(needs, areas, risk)
             Good(list, set) == ListsOf(list, set) /\ KeepsOrder(list, Above(needs))
  <1>1. \A risk : Good(G(risk), S(risk))
    BY GroupIsSorted
  <1>2. \A a \in areas : RiskCount(needs, a) \in {0, 1, 2, 3}
    BY DEF RiskCount
  <1>3. /\ S(3) \cap S(2) = {} /\ S(3) \cup S(2) = Down(2)
        /\ Down(2) \cap S(1) = {} /\ Down(2) \cup S(1) = Down(1)
        /\ Down(1) \cap S(0) = {} /\ Down(1) \cup S(0) = areas
    BY <1>2
  <1>4. /\ \A a \in S(3), b \in S(2) : <<a, b>> \in Above(needs)
        /\ \A a \in Down(2), b \in S(1) : <<a, b>> \in Above(needs)
        /\ \A a \in Down(1), b \in S(0) : <<a, b>> \in Above(needs)
    BY <1>2 DEF Above
  <1> HIDE DEF S, Down, G
  <1>5. Good(G(3) \o G(2), Down(2))
    BY <1>1, <1>3, <1>4, NextGroup
  <1>6. Good((G(3) \o G(2)) \o G(1), Down(1))
    BY <1>1, <1>3, <1>4, <1>5, NextGroup
  <1>7. Good(((G(3) \o G(2)) \o G(1)) \o G(0), areas)
    BY <1>1, <1>3, <1>4, <1>6, NextGroup
  <1> QED BY <1>7 DEF G, GroupAndSortByRisk

\* The lists of the page, each with the set that it lists.
SetOf(needs, name) ==
    CASE name = "incompleteAreas" -> IncompleteAreas(needs)
      [] name = "highScoring" -> HighScoring(needs)
      [] name = "lowScoring" -> LowScoring(needs)
      [] name = "other" -> WithoutScore(needs) \cup EmptyAreas(needs)

LEMMA ListsOfThePage ==
    ASSUME NEW needs \in CriminogenicNeeds
    PROVE  /\ DOMAIN Lists(needs) = {"incompleteAreas", "highScoring", "lowScoring", "other"}
           /\ \A name \in DOMAIN Lists(needs) :
                 ListsOf(Lists(needs)[name], SetOf(needs, name))
           /\ KeepsOrder(Lists(needs)["highScoring"], Above(needs))
           /\ KeepsOrder(Lists(needs)["lowScoring"], Above(needs))
  <1>1. /\ IncompleteAreas(needs) \in SUBSET Area /\ EmptyAreas(needs) \in SUBSET Area
        /\ HighScoring(needs) \in SUBSET Area /\ LowScoring(needs) \in SUBSET Area
        /\ WithoutScore(needs) \in SUBSET Area
    BY DEF IncompleteAreas, EmptyAreas, HighScoring, LowScoring, WithoutScore,
           Complete, Present
  <1>2. /\ \A a \in HighScoring(needs) : Comparable(needs, a)
        /\ \A a \in LowScoring(needs) : Comparable(needs, a)
    BY DEF HighScoring, LowScoring
  <1>3. \A a \in WithoutScore(needs) : ~Comparable(needs, a)
    BY ScoreIsNumber DEF WithoutScore, Complete
  <1>4. ASSUME NEW S \in SUBSET Area PROVE ListsOf(SortByTitle(S), S)
    BY TitlesPutInOrder, AreasAreFinite, SortedListsOf DEF SortByTitle
  <1>5. ListsOf(SortByTitle(IncompleteAreas(needs)), IncompleteAreas(needs))
    BY <1>1, <1>4
  <1>6. /\ ListsOf(GroupAndSortByRisk(needs, HighScoring(needs)), HighScoring(needs))
        /\ KeepsOrder(GroupAndSortByRisk(needs, HighScoring(needs)), Above(needs))
    BY <1>1, <1>2, GroupsAreSorted
  <1>7. /\ ListsOf(GroupAndSortByRisk(needs, LowScoring(needs)), LowScoring(needs))
        /\ KeepsOrder(GroupAndSortByRisk(needs, LowScoring(needs)), Above(needs))
    BY <1>1, <1>2, GroupsAreSorted
  <1>8. ListsOf(GroupAndSortByRisk(needs, WithoutScore(needs))
                    \o SortByTitle(EmptyAreas(needs)),
                WithoutScore(needs) \cup EmptyAreas(needs))
    <2>1. ListsOf(GroupAndSortByRisk(needs, WithoutScore(needs)), WithoutScore(needs))
      BY <1>1, <1>3, GroupsAreSorted
    <2>2. ListsOf(SortByTitle(EmptyAreas(needs)), EmptyAreas(needs))
      BY <1>1, <1>4
    <2>3. WithoutScore(needs) \cap EmptyAreas(needs) = {}
      BY DEF WithoutScore, EmptyAreas, Complete
    <2> QED BY <2>1, <2>2, <2>3, ConcatenationLists
  <1>9. DOMAIN Lists(needs) = {"incompleteAreas", "highScoring", "lowScoring", "other"}
    BY DEF Lists
  <1>10. /\ Lists(needs)["incompleteAreas"] = SortByTitle(IncompleteAreas(needs))
         /\ Lists(needs)["highScoring"] = GroupAndSortByRisk(needs, HighScoring(needs))
         /\ Lists(needs)["lowScoring"] = GroupAndSortByRisk(needs, LowScoring(needs))
         /\ Lists(needs)["other"] = GroupAndSortByRisk(needs, WithoutScore(needs))
                                       \o SortByTitle(EmptyAreas(needs))
    BY DEF Lists
  <1>11. /\ ListsOf(Lists(needs)["incompleteAreas"], SetOf(needs, "incompleteAreas"))
         /\ ListsOf(Lists(needs)["highScoring"], SetOf(needs, "highScoring"))
         /\ ListsOf(Lists(needs)["lowScoring"], SetOf(needs, "lowScoring"))
         /\ ListsOf(Lists(needs)["other"], SetOf(needs, "other"))
    BY <1>5, <1>6, <1>7, <1>8, <1>10 DEF SetOf
  <1> QED BY <1>6, <1>7, <1>9, <1>10, <1>11

\* The list that an area is on.
LEMMA OneListEach ==
    ASSUME NEW needs \in CriminogenicNeeds, NEW a \in Area,
           ~(Lost(needs, a) /\ a \in Complete(needs))
    PROVE  \E name \in {"incompleteAreas", "highScoring", "lowScoring", "other"} :
              /\ a \in SetOf(needs, name)
              /\ \A other \in {"incompleteAreas", "highScoring", "lowScoring", "other"} :
                    a \in SetOf(needs, other) => other = name
  <1> DEFINE In(g) == a \in Groups(needs)[g]
  <1>1. PICK g \in 1..5 : In(g) /\ \A h \in 1..5 : In(h) => h = g
    BY AreasArePartitioned
  <1>2. /\ a \in SetOf(needs, "incompleteAreas") <=> In(1)
        /\ a \in SetOf(needs, "highScoring") <=> In(2)
        /\ a \in SetOf(needs, "lowScoring") <=> In(3)
        /\ a \in SetOf(needs, "other") <=> In(4) \/ In(5)
    BY DEF SetOf, Groups
  <1>3. g = 1 \/ g = 2 \/ g = 3 \/ g = 4 \/ g = 5
    OBVIOUS
  <1> HIDE DEF In
  <1>4. CASE g = 1
    BY <1>1, <1>2, <1>4
  <1>5. CASE g = 2
    BY <1>1, <1>2, <1>5
  <1>6. CASE g = 3
    BY <1>1, <1>2, <1>6
  <1>7. CASE g = 4 \/ g = 5
    BY <1>1, <1>2, <1>7
  <1> QED BY <1>3, <1>4, <1>5, <1>6, <1>7

LEMMA PlacesInList ==
    ASSUME NEW list, NEW S, ListsOf(list, S), NEW a
    PROVE  /\ DOMAIN list = 1..Len(list)
           /\ a \in S <=> Places(list, a) # {}
           /\ \A i \in DOMAIN list : list[i] = a => Places(list, a) = {i}
  <1>1. list \in Seq(S)
    BY DEF ListsOf
  <1>2. DOMAIN list = 1..Len(list)
    BY <1>1
  <1>3. \A i \in DOMAIN list : list[i] \in S
    BY <1>1
  <1>4. a \in S <=> \E i \in DOMAIN list : list[i] = a
    BY <1>2, <1>3 DEF ListsOf
  <1>5. \A i, j \in DOMAIN list : list[i] = list[j] => i = j
    BY <1>2 DEF ListsOf
  <1> QED BY <1>2, <1>4, <1>5 DEF Places

-----------------------------------------------------------------------------
\* What is shown is made of the needs of the session, by formatAssessmentData.
ShowsLists ==
    \/ /\ Shown
       /\ about.needs \in CriminogenicNeeds
       /\ about.areas = Lists(about.needs)
    \/ ~Shown /\ about.areas = NoLists

LEMMA ShowsListsAlways == AreasSpec => []ShowsLists
  <1>1. AreasInit => ShowsLists
    BY DEF AreasInit, NoPage, ShowsLists, Shown
  <1>2. ShowsLists /\ [AreasNext]_areasVars => ShowsLists'
    <2> SUFFICES ASSUME ShowsLists, [AreasNext]_areasVars PROVE ShowsLists'
      OBVIOUS
    <2>1. CASE LeaveAbout
      BY <2>1 DEF LeaveAbout, NoPage, ShowsLists, Shown
    <2>2. ASSUME NEW authType \in {"HMPPS_AUTH", "OASYS"}, NEW needs \in CriminogenicNeeds,
                 NEW delius \in BOOLEAN, NEW assessment \in BOOLEAN,
                 GetAbout(authType, needs, delius, assessment)
          PROVE  ShowsLists'
      <3>1. CASE \/ about' = [NoPage EXCEPT !.at = "plan"]
                 \/ about' = [NoPage EXCEPT !.at = "error"]
        BY <3>1 DEF NoPage, ShowsLists, Shown
      <3>2. CASE about' = [at |-> "about", needs |-> needs,
                errors |-> (IF delius THEN {} ELSE {"noDeliusDataFound"}) \cup
                           (IF assessment THEN {} ELSE {"noAssessmentDataFound"}),
                complete |-> assessment /\ IncompleteAreas(needs) = {},
                areas |-> IF assessment THEN Lists(needs) ELSE NoLists]
        <4>1. /\ about'.at = "about" /\ about'.needs = needs
              /\ about'.areas = (IF assessment THEN Lists(needs) ELSE NoLists)
              /\ ~assessment <=> "noAssessmentDataFound" \in about'.errors
          BY <3>2
        <4> QED BY <4>1 DEF ShowsLists, Shown
      <3> QED BY <2>2, <3>1, <3>2 DEF GetAbout
    <2>3. CASE UNCHANGED areasVars
      BY <2>3 DEF areasVars, ShowsLists, Shown
    <2> QED BY <2>1, <2>2, <2>3 DEF AreasNext
  <1> QED BY <1>1, <1>2, PTL DEF AreasSpec

(***************************************************************************)
(* Every area is on one list of the about page, at one place, whatever the *)
(* scores, the risks and what the assessment leaves out; but for the areas *)
(* that LostAreasAreNowhere is about (AboutPersonController.get,           *)
(* formatAssessmentData).                                                  *)
(***************************************************************************)
THEOREM AreasAreInOneGroup == AreasSpec => []EachAreaInOneGroup
  <1>1. ShowsLists => EachAreaInOneGroup
    <2> SUFFICES ASSUME ShowsLists, Shown, NEW a \in Area,
                        ~(Lost(about.needs, a) /\ a \in Complete(about.needs))
                 PROVE  \E name \in DOMAIN about.areas :
                           Places(about.areas[name], a) # {} /\ OnlyIn(name, a)
      BY DEF EachAreaInOneGroup
    <2> DEFINE needs == about.needs
               areas == about.areas
    <2>1. needs \in CriminogenicNeeds /\ areas = Lists(needs)
      BY DEF ShowsLists
    <2>2. /\ DOMAIN areas = {"incompleteAreas", "highScoring", "lowScoring", "other"}
          /\ \A name \in DOMAIN areas : ListsOf(areas[name], SetOf(needs, name))
      BY <2>1, ListsOfThePage
    <2>3. PICK name \in DOMAIN areas :
              /\ a \in SetOf(needs, name)
              /\ \A other \in DOMAIN areas : a \in SetOf(needs, other) => other = name
      BY <2>1, <2>2, OneListEach
    <2>4. Places(areas[name], a) # {}
      BY <2>2, <2>3, PlacesInList
    <2>5. ASSUME NEW other \in DOMAIN areas, NEW i \in DOMAIN areas[other],
                 areas[other][i] = a
          PROVE  other = name /\ Places(areas[other], a) = {i}
      <3>1. Places(areas[other], a) = {i}
        BY <2>2, <2>5, PlacesInList
      <3>2. a \in SetOf(needs, other)
        BY <2>2, <3>1, PlacesInList
      <3> QED BY <2>3, <3>1, <3>2
    <2>6. OnlyIn(name, a)
      BY <2>5 DEF OnlyIn
    <2> QED BY <2>4, <2>6
  <1> QED BY <1>1, ShowsListsAlways, PTL

(***************************************************************************)
(* The high and the low scoring areas stand in the order of their risks,   *)
(* and then of how far they are from their thresholds, whatever these are  *)
(* (groupAndSortByRisk, sortByScoreAndTitle).                              *)
(***************************************************************************)
THEOREM RiskierAreasFirst == AreasSpec => []RiskierFirst
  <1>1. ASSUME ShowsLists, NEW name \in {"highScoring", "lowScoring"},
               NEW i \in DOMAIN about.areas[name], NEW j \in DOMAIN about.areas[name],
               i < j
        PROVE  LET a == about.areas[name][i]
                   b == about.areas[name][j]
                   na == about.needs[a]
                   nb == about.needs[b]
               IN  /\ nb.linkedToHarm => na.linkedToHarm
                   /\ na.linkedToHarm = nb.linkedToHarm =>
                         (nb.linkedToReoffending => na.linkedToReoffending)
                   /\ RiskCount(about.needs, a) = RiskCount(about.needs, b) =>
                         Distance(about.needs, a) >= Distance(about.needs, b)
    <2> DEFINE needs == about.needs
               list == about.areas[name]
               a == list[i]
               b == list[j]
    <2>1. Shown
      <3>1. DOMAIN NoLists[name] = {}
        BY DEF NoLists
      <3> QED BY <1>1, <3>1 DEF ShowsLists
    <2>2. needs \in CriminogenicNeeds /\ about.areas = Lists(needs)
      BY <1>1, <2>1 DEF ShowsLists
    <2>3. /\ ListsOf(list, SetOf(needs, name))
          /\ KeepsOrder(list, Above(needs))
      BY <2>2, ListsOfThePage
    <2> HIDE DEF needs, list
    <2>4. list \in Seq(SetOf(needs, name)) /\ DOMAIN list = 1..Len(list)
      BY <2>3 DEF ListsOf
    <2>5. a \in SetOf(needs, name) /\ b \in SetOf(needs, name)
      BY <2>4 DEF list
    <2>6. <<a, b>> \in Above(needs)
      BY <1>1, <2>3, <2>4 DEF KeepsOrder, list
    <2>7. /\ a \in Present(needs) /\ Comparable(needs, a)
          /\ b \in Present(needs) /\ Comparable(needs, b)
      BY <2>5 DEF SetOf, HighScoring, LowScoring, Complete
    <2> HIDE DEF a, b
    <2>8. /\ needs[a].linkedToHarm \in BOOLEAN /\ needs[a].linkedToReoffending \in BOOLEAN
          /\ needs[b].linkedToHarm \in BOOLEAN /\ needs[b].linkedToReoffending \in BOOLEAN
      BY <2>2, <2>7, NeedType DEF AreaNeed, Present
    <2>9. \/ RiskCount(needs, a) > RiskCount(needs, b)
          \/ RiskCount(needs, a) = RiskCount(needs, b) /\ Before(needs, a, b)
      BY <2>6 DEF Above
    <2>10. /\ needs[b].linkedToHarm => needs[a].linkedToHarm
           /\ needs[a].linkedToHarm = needs[b].linkedToHarm =>
                 (needs[b].linkedToReoffending => needs[a].linkedToReoffending)
      BY <2>8, <2>9 DEF RiskCount
    <2>11. Distance(needs, a) \in Int /\ Distance(needs, b) \in Int
      BY <2>7, ThresholdType DEF Comparable, Distance
    <2>12. Before(needs, a, b) => Distance(needs, a) >= Distance(needs, b)
      BY <2>7, <2>11 DEF Before
    <2>13. RiskCount(needs, a) = RiskCount(needs, b) =>
              Distance(needs, a) >= Distance(needs, b)
      BY <2>9, <2>12 DEF RiskCount
    <2> QED BY <2>10, <2>13 DEF needs, a, b, list
  <1>2. ShowsLists => RiskierFirst
    BY <1>1 DEF RiskierFirst
  <1> QED BY <1>2, ShowsListsAlways, PTL
=============================================================================
