------------------------------- MODULE Lemmas -------------------------------
(***************************************************************************)
(* Lemmas that the proofs share, in four parts: induction over the numbers *)
(* for sets instead of predicates, and what Selected returns; stable sorts *)
(* by a total order; span sets (OffsetSpans): merging, union and the       *)
(* queries; edits (SourceEdits): slices, one pass over sorted edits, and   *)
(* the difference of two texts.                                            *)
(***************************************************************************)
EXTENDS OffsetSpans, SourceEdits, TLAPS, WellFoundedInduction, FiniteSetTheorems, SequenceTheorems

NatOrder == {pair \in Nat \X Nat : pair[1] < pair[2]}

(***************************************************************************)
(* The numbers are well founded under it.                                  *)
(***************************************************************************)
LEMMA NatOrderIsWellFounded == IsWellFoundedOn(NatOrder, Nat)
  BY NatLessThanWellFounded DEF OpToRel, NatOrder

(***************************************************************************)
(* A set of natural numbers that is not empty has a least member.          *)
(***************************************************************************)
LEMMA LeastNat ==
  ASSUME NEW T, T \subseteq Nat, T # {}
  PROVE  \E x \in T : \A y \in T : x <= y
<1>1. PICK x \in T : \A y \in T : ~(<<y, x>> \in NatOrder)
  BY NatOrderIsWellFounded, WFMin
<1>2. ASSUME NEW y \in T PROVE x <= y
  <2>1. x \in Nat /\ y \in Nat
    OBVIOUS
  <2>2. ~(<<y, x>> \in NatOrder)
    BY <1>1
  <2>3. ~(y < x)
    BY <2>1, <2>2 DEF NatOrder
  <2> QED
    BY <2>1, <2>3
<1> QED
  BY <1>2

(***************************************************************************)
(* A set that holds 0 and with each number the next one holds them all.    *)
(***************************************************************************)
LEMMA NatInductionOnSets ==
  ASSUME NEW S, 0 \in S, \A n \in Nat : n \in S => n + 1 \in S
  PROVE  Nat \subseteq S
<1> DEFINE T == {n \in Nat : n \notin S}
<1> SUFFICES ASSUME T # {} PROVE FALSE
  OBVIOUS
<1>1. PICK x \in T : \A y \in T : x <= y
  <2>1. T \subseteq Nat
    OBVIOUS
  <2> HIDE DEF T
  <2> QED
    BY <2>1, LeastNat
<1>2. x # 0 /\ x - 1 \in Nat /\ x - 1 \notin T
  BY <1>1
<1> QED
  BY <1>2

(***************************************************************************)
(* Induction from one number up to another.                                *)
(***************************************************************************)
LEMMA InductionUpTo ==
  ASSUME NEW S, NEW m \in Nat, NEW n \in Nat, m \in S,
         \A k \in m..n : k \in S /\ k < n => k + 1 \in S
  PROVE  \A k \in m..n : k \in S
<1> DEFINE U == {k \in Nat : m + k <= n => m + k \in S}
<1>1. 0 \in U
  OBVIOUS
<1>2. \A k \in Nat : k \in U => k + 1 \in U
  <2> SUFFICES ASSUME NEW k \in Nat, k \in U, m + (k + 1) <= n PROVE m + (k + 1) \in S
    OBVIOUS
  <2>1. m + k \in S /\ m + k \in m..n /\ m + k < n
    OBVIOUS
  <2>2. (m + k) + 1 \in S
    BY <2>1
  <2> QED
    BY <2>2
<1> HIDE DEF U
<1>3. Nat \subseteq U
  BY <1>1, <1>2, NatInductionOnSets
<1>4. ASSUME NEW k \in m..n PROVE k \in S
  <2>1. k - m \in U /\ m + (k - m) = k /\ k <= n
    BY <1>3
  <2> QED
    BY <2>1 DEF U
<1> QED
  BY <1>4

-----------------------------------------------------------------------------
(***************************************************************************)
(* A sequence without repetition and one more.                             *)
(***************************************************************************)
LEMMA AppendNew ==
  ASSUME NEW L, NEW s \in Seq(L), IsInjective(s), NEW x \in L, x \notin ToSet(s)
  PROVE  /\ Append(s, x) \in Seq(L)
         /\ IsInjective(Append(s, x))
         /\ ToSet(Append(s, x)) = ToSet(s) \cup {x}
<1> DEFINE t == Append(s, x)
<1>1. /\ t \in Seq(L)
      /\ DOMAIN t = 1..(Len(s) + 1)
      /\ DOMAIN s = 1..Len(s)
      /\ \A i \in 1..Len(s) : t[i] = s[i]
      /\ t[Len(s) + 1] = x
      /\ Len(s) \in Nat
  OBVIOUS
<1>2. \A i \in 1..(Len(s) + 1) : i \in 1..Len(s) \/ i = Len(s) + 1
  BY <1>1
<1> HIDE DEF t
<1>3. IsInjective(t)
  BY <1>1, <1>2 DEF IsInjective, ToSet
<1>4. ToSet(t) = ToSet(s) \cup {x}
  <2>1. Len(s) + 1 \in 1..(Len(s) + 1) /\ 1..Len(s) \subseteq 1..(Len(s) + 1)
    BY <1>1
  <2> QED
    BY <1>1, <1>2, <2>1, Zenon DEF ToSet
<1> QED
  BY <1>1, <1>3, <1>4 DEF t

(***************************************************************************)
(* Selected satisfies its recursion.                                       *)
(***************************************************************************)
IsPrefixes(list, S, n, f) ==
  f = [i \in 0..n |->
         IF i = 0
         THEN <<>>
         ELSE IF list[i] \in S THEN Append(f[i - 1], list[i]) ELSE f[i - 1]]

(***************************************************************************)
(* There is such a function: the recursion of Selected is well defined.    *)
(***************************************************************************)
LEMMA PrefixesExist ==
  ASSUME NEW list, NEW S, NEW n \in Nat
  PROVE  \E f : IsPrefixes(list, S, n, f)
<1> DEFINE U == {m \in Nat : \E f : IsPrefixes(list, S, m, f)}
<1>1. 0 \in U
  <2>1. PICK f : f = [i \in 0..0 |-> <<>>]
    OBVIOUS
  <2>2. IsPrefixes(list, S, 0, f)
    BY <2>1 DEF IsPrefixes
  <2> QED
    BY <2>2
<1>2. ASSUME NEW m \in Nat, m \in U PROVE m + 1 \in U
  <2>1. PICK f : IsPrefixes(list, S, m, f)
    BY <1>2
  <2>2. PICK g : g = [i \in 0..(m + 1) |->
                        IF i <= m
                        THEN f[i]
                        ELSE IF list[m + 1] \in S THEN Append(f[m], list[m + 1]) ELSE f[m]]
    OBVIOUS
  <2>3. \A i \in 0..m :
          f[i] = IF i = 0
                 THEN <<>>
                 ELSE IF list[i] \in S THEN Append(f[i - 1], list[i]) ELSE f[i - 1]
    BY <2>1 DEF IsPrefixes
  <2>4. \A i \in 0..(m + 1) :
          g[i] = IF i = 0
                 THEN <<>>
                 ELSE IF list[i] \in S THEN Append(g[i - 1], list[i]) ELSE g[i - 1]
    BY <2>2, <2>3
  <2>5. IsPrefixes(list, S, m + 1, g)
    BY <2>2, <2>4 DEF IsPrefixes
  <2> QED
    BY <2>5
<1> HIDE DEF U
<1>3. Nat \subseteq U
  BY <1>1, <1>2, NatInductionOnSets
<1> QED
  BY <1>3 DEF U

(***************************************************************************)
(* Selected returns the last value of that recursion.                      *)
(***************************************************************************)
LEMMA SelectedRecursion ==
  ASSUME NEW list, NEW S, Len(list) \in Nat
  PROVE  \E f : IsPrefixes(list, S, Len(list), f) /\ Selected(list, S) = f[Len(list)]
<1>1. \E f : IsPrefixes(list, S, Len(list), f)
  BY PrefixesExist
<1>2. PICK f : f = CHOOSE g : IsPrefixes(list, S, Len(list), g)
  OBVIOUS
<1>3. IsPrefixes(list, S, Len(list), f)
  BY <1>1, <1>2
<1>4. Selected(list, S) = f[Len(list)]
  BY <1>2 DEF Selected, IsPrefixes
<1> QED
  BY <1>3, <1>4

(***************************************************************************)
(* Of a list without repetition, the members of S, each once.              *)
(***************************************************************************)
LEMMA SelectedFacts ==
  ASSUME NEW L, NEW list \in Seq(L), IsInjective(list), NEW S
  PROVE  /\ Selected(list, S) \in Seq(L)
         /\ IsInjective(Selected(list, S))
         /\ ToSet(Selected(list, S)) = ToSet(list) \cap S
<1>1. Len(list) \in Nat /\ DOMAIN list = 1..Len(list) /\ \A i \in 1..Len(list) : list[i] \in L
  OBVIOUS
<1>2. PICK f : IsPrefixes(list, S, Len(list), f) /\ Selected(list, S) = f[Len(list)]
  BY <1>1, SelectedRecursion
<1>3. \A i \in 0..Len(list) :
        f[i] = IF i = 0
               THEN <<>>
               ELSE IF list[i] \in S THEN Append(f[i - 1], list[i]) ELSE f[i - 1]
  BY <1>2 DEF IsPrefixes
<1> DEFINE First(m) == {list[i] : i \in 1..m} \cap S
           Good(m)  == f[m] \in Seq(L) /\ IsInjective(f[m]) /\ ToSet(f[m]) = First(m)
           U        == {m \in Nat : m <= Len(list) => Good(m)}
<1>4. 0 \in U
  <2>1. f[0] = <<>>
    BY <1>1, <1>3
  <2>2. <<>> \in Seq(L) /\ IsInjective(<<>>) /\ ToSet(<<>>) = {}
    BY DEF IsInjective, ToSet
  <2>3. First(0) = {}
    OBVIOUS
  <2>4. Good(0)
    BY <2>1, <2>2, <2>3, Zenon
  <2> QED
    BY <2>4
<1>5. ASSUME NEW m \in Nat, m \in U PROVE m + 1 \in U
  <2> SUFFICES ASSUME m + 1 <= Len(list) PROVE Good(m + 1)
    OBVIOUS
  <2> DEFINE x == list[m + 1]
  <2>1. /\ Good(m)
        /\ m + 1 \in 1..Len(list)
        /\ x \in L
        /\ 1..m \subseteq 1..Len(list)
        /\ \A i \in 1..m : i # m + 1
        /\ 1..(m + 1) = 1..m \cup {m + 1}
        /\ f[m + 1] = IF x \in S THEN Append(f[m], x) ELSE f[m]
    BY <1>1, <1>3, <1>5
  <2>2. x \notin {list[i] : i \in 1..m}
    BY <1>1, <2>1 DEF IsInjective
  <2>3. {list[i] : i \in 1..(m + 1)} = {list[i] : i \in 1..m} \cup {x}
    BY <2>1
  <2> HIDE DEF x
  <2>4. CASE x \in S
    <3>1. x \notin ToSet(f[m])
      BY <2>1, <2>2
    <3>2. /\ Append(f[m], x) \in Seq(L)
          /\ IsInjective(Append(f[m], x))
          /\ ToSet(Append(f[m], x)) = ToSet(f[m]) \cup {x}
      BY <2>1, <3>1, AppendNew
    <3>3. First(m + 1) = First(m) \cup {x}
      BY <2>3, <2>4
    <3> QED
      BY <2>1, <2>4, <3>2, <3>3
  <2>5. CASE x \notin S
    <3>1. First(m + 1) = First(m)
      BY <2>3, <2>5
    <3> QED
      BY <2>1, <2>5, <3>1
  <2> QED
    BY <2>4, <2>5
<1> HIDE DEF U
<1>6. Nat \subseteq U
  BY <1>4, <1>5, NatInductionOnSets
<1>7. Good(Len(list))
  <2> HIDE DEF Good
  <2> QED
    BY <1>1, <1>6 DEF U
<1>8. First(Len(list)) = ToSet(list) \cap S
  BY <1>1 DEF ToSet
<1> QED
  BY <1>2, <1>7, <1>8

(***************************************************************************)
(* Of any list, the members that are in S.                                 *)
(***************************************************************************)
LEMMA SelectedMembers ==
  ASSUME NEW L, NEW list \in Seq(L), NEW S
  PROVE  Selected(list, S) \in Seq(L)
<1>1. Len(list) \in Nat /\ DOMAIN list = 1..Len(list) /\ \A i \in 1..Len(list) : list[i] \in L
  OBVIOUS
<1>2. PICK f : IsPrefixes(list, S, Len(list), f) /\ Selected(list, S) = f[Len(list)]
  BY <1>1, SelectedRecursion
<1>3. \A i \in 0..Len(list) :
        f[i] = IF i = 0
               THEN <<>>
               ELSE IF list[i] \in S THEN Append(f[i - 1], list[i]) ELSE f[i - 1]
  BY <1>2 DEF IsPrefixes
<1> DEFINE U == {m \in Nat : m <= Len(list) => f[m] \in Seq(L)}
<1>4. 0 \in U
  <2>1. f[0] = <<>>
    BY <1>1, <1>3
  <2>2. <<>> \in Seq(L)
    OBVIOUS
  <2> QED
    BY <2>1, <2>2, Zenon
<1>5. ASSUME NEW m \in Nat, m \in U PROVE m + 1 \in U
  <2> SUFFICES ASSUME m + 1 <= Len(list) PROVE f[m + 1] \in Seq(L)
    OBVIOUS
  <2>1. /\ f[m] \in Seq(L) /\ list[m + 1] \in L
        /\ f[m + 1] = IF list[m + 1] \in S THEN Append(f[m], list[m + 1]) ELSE f[m]
    BY <1>1, <1>3, <1>5
  <2> QED
    BY <2>1
<1> HIDE DEF U
<1>6. Nat \subseteq U
  BY <1>4, <1>5, NatInductionOnSets
<1> QED
  BY <1>1, <1>2, <1>6 DEF U

-----------------------------------------------------------------------------
(***************************************************************************)
(* Sorting.  R is a strict total order on the positions of a list; the     *)
(* place of a position is one behind the positions that precede it.        *)
(***************************************************************************)
TotalOrder(R, n) ==
  /\ \A i \in 1..n : <<i, i>> \notin R
  /\ \A i, j, k \in 1..n : <<i, j>> \in R /\ <<j, k>> \in R => <<i, k>> \in R
  /\ \A i, j \in 1..n : i # j => <<i, j>> \in R \/ <<j, i>> \in R

AheadIn(R, n, i) == {j \in 1..n : <<j, i>> \in R}

PlaceIn(R, n, i) == Cardinality(AheadIn(R, n, i)) + 1

SortedBy(s, R) ==
  [k \in DOMAIN s |-> s[CHOOSE i \in DOMAIN s : PlaceIn(R, Len(s), i) = k]]

(***************************************************************************)
(* The places of a list of n are the numbers from 1 to n, in the order of  *)
(* R.                                                                      *)
(***************************************************************************)
LEMMA PlacesRise ==
  ASSUME NEW n \in Nat, NEW R, TotalOrder(R, n), NEW i \in 1..n, NEW j \in 1..n
  PROVE  /\ PlaceIn(R, n, i) \in 1..n
         /\ <<i, j>> \in R => PlaceIn(R, n, i) < PlaceIn(R, n, j)
<1>1. PICK S : S = 1..n
  OBVIOUS
<1>2. IsFiniteSet(S) /\ Cardinality(S) = n
  <2>1. IsFiniteSet(1..n) /\ Cardinality(1..n) = IF 1 > n THEN 0 ELSE n - 1 + 1
    BY FS_Interval
  <2> QED
    BY <1>1, <2>1
<1>3. \A x \in 1..n :
        /\ IsFiniteSet(AheadIn(R, n, x))
        /\ Cardinality(AheadIn(R, n, x)) \in Nat
        /\ Cardinality(AheadIn(R, n, x)) <= n
        /\ Cardinality(AheadIn(R, n, x)) = n => AheadIn(R, n, x) = 1..n
  <2> TAKE x \in 1..n
  <2>1. AheadIn(R, n, x) \in SUBSET S
    BY <1>1 DEF AheadIn
  <2> QED
    BY <1>1, <1>2, <2>1, FS_Subset, FS_CardinalityType
<1>4. PlaceIn(R, n, i) \in 1..n
  <2>1. i \notin AheadIn(R, n, i)
    BY DEF AheadIn, TotalOrder
  <2> QED
    BY <1>3, <2>1 DEF PlaceIn
<1>5. ASSUME <<i, j>> \in R PROVE PlaceIn(R, n, i) < PlaceIn(R, n, j)
  <2>1. PICK T, U : T = AheadIn(R, n, i) /\ U = AheadIn(R, n, j)
    OBVIOUS
  <2>2. T \in SUBSET U /\ i \in U /\ i \notin T
    BY <1>5, <2>1 DEF AheadIn, TotalOrder
  <2>3. /\ IsFiniteSet(U) /\ Cardinality(T) \in Nat /\ Cardinality(U) \in Nat
        /\ T # U
    BY <1>3, <2>1, <2>2
  <2>4. Cardinality(T) <= Cardinality(U) /\ Cardinality(T) # Cardinality(U)
    BY <2>2, <2>3, FS_Subset
  <2> QED
    BY <2>1, <2>3, <2>4 DEF PlaceIn
<1> QED
  BY <1>4, <1>5

(***************************************************************************)
(* A list is sorted by a permutation of its positions that follows R.      *)
(***************************************************************************)
IsSorting(p, n, R) ==
  /\ p \in [1..n -> 1..n]
  /\ \A i \in 1..n : \E k \in 1..n : p[k] = i
  /\ \A k, l \in 1..n : k < l => <<p[k], p[l]>> \in R

(***************************************************************************)
(* A total order puts a list in a sequence of the same members, each of    *)
(* them once.                                                              *)
(***************************************************************************)
LEMMA SortedByPermutation ==
  ASSUME NEW L, NEW s \in Seq(L), NEW R, TotalOrder(R, Len(s))
  PROVE  \E p : /\ IsSorting(p, Len(s), R)
                /\ SortedBy(s, R) = [k \in 1..Len(s) |-> s[p[k]]]
                /\ SortedBy(s, R) \in Seq(L)
                /\ Len(SortedBy(s, R)) = Len(s)
<1>1. PICK n : n = Len(s)
  OBVIOUS
<1>2. n \in Nat /\ DOMAIN s = 1..n /\ TotalOrder(R, n)
  BY <1>1
<1>3. PICK S : S = 1..n
  OBVIOUS
<1>4. PICK f : f = [i \in S |-> PlaceIn(R, n, i)]
  OBVIOUS
<1>5. f \in Injection(S, S)
  <2>1. \A i \in S : PlaceIn(R, n, i) \in S
    BY <1>2, <1>3, PlacesRise
  <2>2. f \in [S -> S]
    BY <1>4, <2>1
  <2>3. ASSUME NEW i \in S, NEW j \in S, i # j PROVE f[i] # f[j]
    <3>1. <<i, j>> \in R \/ <<j, i>> \in R
      BY <1>2, <1>3, <2>3 DEF TotalOrder
    <3>2. PlaceIn(R, n, i) < PlaceIn(R, n, j) \/ PlaceIn(R, n, j) < PlaceIn(R, n, i)
      BY <1>2, <1>3, <3>1, PlacesRise
    <3> QED
      BY <1>2, <1>3, <1>4, <2>1, <3>2
  <2> QED
    BY <2>2, <2>3, Zenon DEF Injection, IsInjective
<1>6. f \in Surjection(S, S)
  <2>1. IsFiniteSet(S)
    BY <1>2, <1>3, FS_Interval
  <2> QED
    BY <1>5, <2>1, FS_Injection
<1>7. \A k \in S : \E i \in S : PlaceIn(R, n, i) = k
  BY <1>4, <1>6 DEF Surjection
<1>8. PICK p : p = [k \in S |-> CHOOSE i \in S : PlaceIn(R, n, i) = k]
  OBVIOUS
<1>9. \A k \in S : p[k] \in S /\ PlaceIn(R, n, p[k]) = k
  BY <1>7, <1>8
<1>10. p \in [S -> S]
  BY <1>8, <1>9
<1>11. ASSUME NEW i \in S PROVE \E k \in S : p[k] = i
  <2>1. f[i] \in S /\ f[i] = PlaceIn(R, n, i)
    BY <1>4, <1>5 DEF Injection
  <2>2. f[p[f[i]]] = f[i] /\ p[f[i]] \in S
    BY <1>4, <1>9, <2>1
  <2>3. p[f[i]] = i
    BY <1>5, <2>2 DEF Injection, IsInjective
  <2> QED
    BY <2>1, <2>3
<1>12. ASSUME NEW k \in S, NEW l \in S, k < l PROVE <<p[k], p[l]>> \in R
  <2>1. PICK i, j : i = p[k] /\ j = p[l]
    OBVIOUS
  <2>2. i \in 1..n /\ j \in 1..n /\ PlaceIn(R, n, i) = k /\ PlaceIn(R, n, j) = l
    BY <1>3, <1>9, <2>1
  <2>3. i # j /\ ~(<<j, i>> \in R)
    BY <1>2, <1>3, <1>12, <2>2, PlacesRise
  <2> QED
    BY <1>2, <2>1, <2>2, <2>3 DEF TotalOrder
<1>13. IsSorting(p, n, R)
  BY <1>3, <1>10, <1>11, <1>12 DEF IsSorting
<1>14. SortedBy(s, R) = [k \in 1..n |-> s[p[k]]]
  BY <1>1, <1>2, <1>3, <1>8 DEF SortedBy
<1>15. \A k \in 1..n : s[p[k]] \in L
  BY <1>1, <1>3, <1>9
<1>16. SortedBy(s, R) \in Seq(L) /\ Len(SortedBy(s, R)) = n
  BY <1>2, <1>14, <1>15
<1> QED
  BY <1>1, <1>13, <1>14, <1>16

(***************************************************************************)
(* The order of spans and of edits: by start, then by end, then by place.  *)
(***************************************************************************)
Lower(s, i, j) ==
  \/ s[i].start < s[j].start
  \/ s[i].start = s[j].start /\ s[i].end < s[j].end
  \/ s[i].start = s[j].start /\ s[i].end = s[j].end /\ i < j

ByStartAndEnd(s) == {p \in (1..Len(s)) \X (1..Len(s)) : Lower(s, p[1], p[2])}

Bounded(s) == \A i \in 1..Len(s) : s[i].start \in Int /\ s[i].end \in Int

(***************************************************************************)
(* It is a total order, whatever the list.                                 *)
(***************************************************************************)
LEMMA LowerIsOrder ==
  ASSUME NEW s, Len(s) \in Nat, Bounded(s)
  PROVE  TotalOrder(ByStartAndEnd(s), Len(s))
<1>1. \A i, j \in 1..Len(s) : <<i, j>> \in ByStartAndEnd(s) <=> Lower(s, i, j)
  BY DEF ByStartAndEnd
<1>2. ASSUME NEW i \in 1..Len(s), NEW j \in 1..Len(s), NEW k \in 1..Len(s),
             Lower(s, i, j), Lower(s, j, k)
      PROVE  Lower(s, i, k)
  <2>1. /\ s[i].start \in Int /\ s[i].end \in Int
        /\ s[j].start \in Int /\ s[j].end \in Int
        /\ s[k].start \in Int /\ s[k].end \in Int
    BY DEF Bounded
  <2> QED
    BY <1>2, <2>1 DEF Lower
<1>3. ASSUME NEW i \in 1..Len(s), NEW j \in 1..Len(s)
      PROVE  /\ ~Lower(s, i, i)
             /\ i # j => Lower(s, i, j) \/ Lower(s, j, i)
  <2>1. /\ s[i].start \in Int /\ s[i].end \in Int
        /\ s[j].start \in Int /\ s[j].end \in Int
    BY DEF Bounded
  <2> QED
    BY <2>1 DEF Lower
<1> QED
  BY <1>1, <1>2, <1>3 DEF TotalOrder

-----------------------------------------------------------------------------
(***************************************************************************)
(* A function computed from one argument to the next.                      *)
(***************************************************************************)
Steps(f, X, x0, n, G) ==
  /\ f \in [0..n -> X]
  /\ f[0] = x0
  /\ \A i \in 1..n : f[i] = G[<<i, f[i - 1]>>]

(***************************************************************************)
(* There is such a function for every step that stays within X.            *)
(***************************************************************************)
LEMMA StepsExist ==
  ASSUME NEW X, NEW x0 \in X, NEW n \in Nat, NEW G \in [(1..n) \X X -> X]
  PROVE  \E f : Steps(f, X, x0, n, G)
<1> DEFINE U == {m \in Nat : m <= n => \E f : Steps(f, X, x0, m, G)}
<1>1. 0 \in U
  <2>1. PICK f : f = [i \in 0..0 |-> x0]
    OBVIOUS
  <2>2. Steps(f, X, x0, 0, G)
    BY <2>1 DEF Steps
  <2> QED
    BY <2>2
<1>2. ASSUME NEW m \in Nat, m \in U PROVE m + 1 \in U
  <2> SUFFICES ASSUME m + 1 <= n PROVE \E f : Steps(f, X, x0, m + 1, G)
    OBVIOUS
  <2>1. PICK f : Steps(f, X, x0, m, G)
    BY <1>2
  <2>2. PICK g : g = [i \in 0..(m + 1) |-> IF i <= m THEN f[i] ELSE G[<<m + 1, f[m]>>]]
    OBVIOUS
  <2>3. <<m + 1, f[m]>> \in (1..n) \X X
    BY <2>1 DEF Steps
  <2>4. G[<<m + 1, f[m]>>] \in X
    BY <2>3
  <2>5. g \in [0..(m + 1) -> X]
    BY <2>1, <2>2, <2>4 DEF Steps
  <2>6. g[0] = x0
    BY <2>1, <2>2 DEF Steps
  <2>7. ASSUME NEW i \in 1..(m + 1) PROVE g[i] = G[<<i, g[i - 1]>>]
    <3>1. CASE i \in 1..m
      BY <2>1, <2>2, <3>1 DEF Steps
    <3>2. CASE i = m + 1
      BY <2>1, <2>2, <3>2 DEF Steps
    <3> QED
      BY <3>1, <3>2
  <2>8. Steps(g, X, x0, m + 1, G)
    BY <2>5, <2>6, <2>7 DEF Steps
  <2> QED
    BY <2>8
<1> HIDE DEF U
<1>3. Nat \subseteq U
  BY <1>1, <1>2, NatInductionOnSets
<1>4. PICK f : Steps(f, X, x0, n, G)
  BY <1>3 DEF U
<1> QED
  BY <1>4

(***************************************************************************)
(* A stable sort by two numbers.                                           *)
(***************************************************************************)
ByRanks(n, f, g) ==
  {p \in (1..n) \X (1..n) :
     \/ f[p[1]] < f[p[2]]
     \/ f[p[1]] = f[p[2]] /\ g[p[1]] < g[p[2]]
     \/ f[p[1]] = f[p[2]] /\ g[p[1]] = g[p[2]] /\ p[1] < p[2]}

RankedBefore(f, g, i, j) ==
  \/ f[i] < f[j]
  \/ f[i] = f[j] /\ g[i] < g[j]
  \/ f[i] = f[j] /\ g[i] = g[j] /\ i < j

LEMMA RanksAreOrder ==
  ASSUME NEW n \in Nat, NEW f \in [1..n -> Int], NEW g \in [1..n -> Int]
  PROVE  TotalOrder(ByRanks(n, f, g), n)
<1>1. \A i, j \in 1..n : <<i, j>> \in ByRanks(n, f, g) <=> RankedBefore(f, g, i, j)
  BY DEF ByRanks, RankedBefore
<1>2. ASSUME NEW i \in 1..n, NEW j \in 1..n, NEW k \in 1..n,
             RankedBefore(f, g, i, j), RankedBefore(f, g, j, k)
      PROVE  RankedBefore(f, g, i, k)
  <2>1. f[i] \in Int /\ f[j] \in Int /\ f[k] \in Int /\ g[i] \in Int /\ g[j] \in Int /\ g[k] \in Int
    OBVIOUS
  <2> QED
    BY <1>2, <2>1 DEF RankedBefore
<1>3. ASSUME NEW i \in 1..n, NEW j \in 1..n
      PROVE  /\ ~RankedBefore(f, g, i, i)
             /\ i # j => RankedBefore(f, g, i, j) \/ RankedBefore(f, g, j, i)
  <2>1. f[i] \in Int /\ f[j] \in Int /\ g[i] \in Int /\ g[j] \in Int
    OBVIOUS
  <2> QED
    BY <2>1 DEF RankedBefore
<1> QED
  BY <1>1, <1>2, <1>3 DEF TotalOrder

-----------------------------------------------------------------------------
(***************************************************************************)
(* A span with a byte in it, and spans in the order of the text with a gap *)
(* between any two: what a span set holds.                                 *)
(***************************************************************************)
Span == {s \in [start : Nat, end : Nat] : s.start < s.end}

Apart(spans) ==
  /\ spans \in Seq(Span)
  /\ \A i, j \in 1..Len(spans) : i < j => spans[i].end < spans[j].start

(***************************************************************************)
(* sort.SliceStable with the order of NewOffsetSpanSet.                    *)
(***************************************************************************)
LEMMA SpansInOrder ==
  ASSUME NEW s, Len(s) \in Nat, DOMAIN s = 1..Len(s), Bounded(s)
  PROVE  StableSort(s, SpanBefore) = SortedBy(s, ByStartAndEnd(s))
<1>1. ASSUME NEW i \in 1..Len(s), NEW j \in 1..Len(s)
      PROVE  (\/ SpanBefore(s[j], s[i])
              \/ ~SpanBefore(s[i], s[j]) /\ j < i) <=> <<j, i>> \in ByStartAndEnd(s)
  <2>1. <<j, i>> \in ByStartAndEnd(s) <=> Lower(s, j, i)
    BY DEF ByStartAndEnd
  <2>2. /\ s[i].start \in Int /\ s[i].end \in Int
        /\ s[j].start \in Int /\ s[j].end \in Int
    BY DEF Bounded
  <2> QED
    BY <2>1, <2>2 DEF Lower, SpanBefore
<1>2. ASSUME NEW i \in 1..Len(s)
      PROVE  {j \in 1..Len(s) : \/ SpanBefore(s[j], s[i])
                                \/ ~SpanBefore(s[i], s[j]) /\ j < i}
               = AheadIn(ByStartAndEnd(s), Len(s), i)
  BY <1>1 DEF AheadIn
<1>3. ASSUME NEW k \in 1..Len(s)
      PROVE  (CHOOSE i \in DOMAIN s :
                Cardinality({j \in DOMAIN s : \/ SpanBefore(s[j], s[i])
                                              \/ ~SpanBefore(s[i], s[j]) /\ j < i}) + 1 = k)
               = (CHOOSE i \in DOMAIN s : PlaceIn(ByStartAndEnd(s), Len(s), i) = k)
  BY <1>2 DEF PlaceIn
<1>4. StableSort(s, SpanBefore)
        = [k \in DOMAIN s |->
             s[CHOOSE i \in DOMAIN s :
                 Cardinality({j \in DOMAIN s : \/ SpanBefore(s[j], s[i])
                                               \/ ~SpanBefore(s[i], s[j]) /\ j < i}) + 1 = k]]
  BY DEF StableSort
<1>5. ASSUME NEW k \in 1..Len(s)
      PROVE  StableSort(s, SpanBefore)[k] = SortedBy(s, ByStartAndEnd(s))[k]
  <2>1. SortedBy(s, ByStartAndEnd(s))[k]
          = s[CHOOSE i \in DOMAIN s : PlaceIn(ByStartAndEnd(s), Len(s), i) = k]
    BY DEF SortedBy
  <2>2. StableSort(s, SpanBefore)[k]
          = s[CHOOSE i \in DOMAIN s :
                 Cardinality({j \in DOMAIN s : \/ SpanBefore(s[j], s[i])
                                               \/ ~SpanBefore(s[i], s[j]) /\ j < i}) + 1 = k]
    BY <1>4
  <2> QED
    BY <1>3, <2>1, <2>2
<1>6. /\ StableSort(s, SpanBefore)
            = [k \in DOMAIN s |-> StableSort(s, SpanBefore)[k]]
      /\ SortedBy(s, ByStartAndEnd(s))
            = [k \in DOMAIN s |-> SortedBy(s, ByStartAndEnd(s))[k]]
  BY <1>4 DEF SortedBy
<1> QED
  BY <1>5, <1>6

(***************************************************************************)
(* It keeps the spans, and puts them by start.                             *)
(***************************************************************************)
LEMMA SpansSorted ==
  ASSUME NEW s \in Seq(Span)
  PROVE  /\ StableSort(s, SpanBefore) \in Seq(Span)
         /\ Offsets(StableSort(s, SpanBefore)) = Offsets(s)
         /\ \A k, l \in 1..Len(StableSort(s, SpanBefore)) :
              k < l => StableSort(s, SpanBefore)[k].start <= StableSort(s, SpanBefore)[l].start
<1>1. PICK n, R : n = Len(s) /\ R = ByStartAndEnd(s)
  OBVIOUS
<1>2. n \in Nat /\ n = Len(s) /\ DOMAIN s = 1..n /\ \A i \in 1..n : s[i] \in Span
  BY <1>1
<1>3. \A i \in 1..n : s[i].start \in Nat /\ s[i].end \in Nat
  BY <1>2 DEF Span
<1>4. Bounded(s)
  BY <1>2, <1>3 DEF Bounded
<1>5. TotalOrder(R, n)
  BY <1>1, <1>2, <1>4, LowerIsOrder
<1>6. StableSort(s, SpanBefore) = SortedBy(s, R)
  BY <1>1, <1>2, <1>4, SpansInOrder
<1>7. PICK t : t = SortedBy(s, R)
  OBVIOUS
<1>8. PICK p : /\ IsSorting(p, n, R)
               /\ t = [k \in 1..n |-> s[p[k]]]
               /\ t \in Seq(Span)
               /\ Len(t) = n
  BY <1>1, <1>5, <1>7, SortedByPermutation
<1>9. DOMAIN t = 1..n /\ \A k \in 1..n : p[k] \in 1..n /\ t[k] = s[p[k]]
  BY <1>8 DEF IsSorting
<1>10. Offsets(t) = Offsets(s)
  <2>1. {t[k].start .. (t[k].end - 1) : k \in 1..n} = {s[k].start .. (s[k].end - 1) : k \in 1..n}
    BY <1>8, <1>9 DEF IsSorting
  <2> QED
    BY <1>2, <1>9, <2>1 DEF Offsets
<1>11. ASSUME NEW k \in 1..n, NEW l \in 1..n, k < l PROVE t[k].start <= t[l].start
  <2>1. <<p[k], p[l]>> \in R
    BY <1>8, <1>11 DEF IsSorting
  <2>2. p[k] \in 1..n /\ p[l] \in 1..n
    BY <1>9
  <2>3. Lower(s, p[k], p[l])
    BY <1>1, <2>1, <2>2 DEF ByStartAndEnd
  <2>4. /\ s[p[k]].start \in Nat /\ s[p[l]].start \in Nat
        /\ t[k] = s[p[k]] /\ t[l] = s[p[l]]
    BY <1>3, <1>9, <2>2
  <2> QED
    BY <2>3, <2>4 DEF Lower
<1> QED
  BY <1>6, <1>7, <1>8, <1>10, <1>11

-----------------------------------------------------------------------------
(***************************************************************************)
(* One turn of the merge loop, on spans in the order of their starts.      *)
(***************************************************************************)
LEMMA OffsetsOfAppend ==
  ASSUME NEW m \in Seq(Span), NEW s \in Span
  PROVE  Offsets(Append(m, s)) = Offsets(m) \cup s.start .. (s.end - 1)
<1>1. PICK t, n : t = Append(m, s) /\ n = Len(m)
  OBVIOUS
<1>2. /\ n \in Nat /\ DOMAIN m = 1..n /\ DOMAIN t = 1..(n + 1)
      /\ \A i \in 1..n : t[i] = m[i]
      /\ t[n + 1] = s
  BY <1>1
<1>3. 1..(n + 1) = 1..n \cup {n + 1}
  BY <1>2
<1> QED
  BY <1>1, <1>2, <1>3 DEF Offsets

(***************************************************************************)
(* A span that starts no earlier than the last one is merged into a span   *)
(* set: the set still has its gaps and covers the bytes of the span as     *)
(* well.                                                                   *)
(***************************************************************************)
LEMMA MergeSpanFacts ==
  ASSUME NEW m, Apart(m), NEW s \in Span,
         m # <<>> => m[Len(m)].start <= s.start
  PROVE  /\ Apart(MergeSpan(m, s))
         /\ MergeSpan(m, s) # <<>>
         /\ MergeSpan(m, s)[Len(MergeSpan(m, s))].start <= s.start
         /\ Offsets(MergeSpan(m, s)) = Offsets(m) \cup s.start .. (s.end - 1)
<1>1. PICK n : n = Len(m)
  OBVIOUS
<1>2. /\ m \in Seq(Span) /\ n \in Nat /\ DOMAIN m = 1..n
      /\ \A i \in 1..n : /\ m[i] \in Span /\ m[i].start \in Nat /\ m[i].end \in Nat
                         /\ m[i].start < m[i].end
      /\ \A i, j \in 1..n : i < j => m[i].end < m[j].start
      /\ s.start \in Nat /\ s.end \in Nat /\ s.start < s.end
  BY <1>1 DEF Apart, Span
<1>3. CASE m = <<>> \/ s.start > Last(m).end
  <2>1. PICK t : t = Append(m, s)
    OBVIOUS
  <2>2. /\ t \in Seq(Span) /\ Len(t) = n + 1 /\ t # <<>>
        /\ \A i \in 1..n : t[i] = m[i]
        /\ t[n + 1] = s
    BY <1>1, <1>2, <2>1
  <2>3. MergeSpan(m, s) = t
    BY <1>3, <2>1 DEF MergeSpan
  <2>4. ASSUME NEW i \in 1..(n + 1), NEW j \in 1..(n + 1), i < j PROVE t[i].end < t[j].start
    <3>1. CASE j \in 1..n
      BY <1>2, <2>2, <2>4, <3>1
    <3>2. CASE j = n + 1
      <4>1. n \in 1..n /\ i \in 1..n /\ m # <<>>
        BY <1>1, <1>2, <2>4, <3>2
      <4>2. s.start > m[n].end
        BY <1>1, <1>3, <4>1 DEF Last
      <4>3. m[i].end <= m[n].end
        BY <1>2, <4>1
      <4> QED
        BY <1>2, <2>2, <3>2, <4>1, <4>2, <4>3
    <3> QED
      BY <1>2, <3>1, <3>2
  <2>5. Offsets(t) = Offsets(m) \cup s.start .. (s.end - 1)
    BY <1>2, <2>1, OffsetsOfAppend
  <2> QED
    BY <1>2, <2>2, <2>3, <2>4, <2>5 DEF Apart
<1>4. CASE m # <<>> /\ ~(s.start > Last(m).end) /\ s.end > Last(m).end
  <2>1. n \in 1..n
    BY <1>1, <1>2, <1>4
  <2>2. PICK u : u = [m[n] EXCEPT !.end = s.end]
    OBVIOUS
  <2>3. PICK t : t = [m EXCEPT ![n] = u]
    OBVIOUS
  <2>4. /\ m[n].start <= s.start /\ s.start <= m[n].end /\ m[n].end < s.end
    BY <1>1, <1>2, <1>4, <2>1 DEF Last
  <2>5. /\ u \in Span /\ u.start = m[n].start /\ u.end = s.end
    <3>1. m[n] \in [start : Nat, end : Nat]
      BY <1>2, <2>1 DEF Span
    <3>2. u \in [start : Nat, end : Nat] /\ u.start = m[n].start /\ u.end = s.end
      BY <1>2, <2>2, <3>1
    <3> QED
      BY <1>2, <2>1, <2>4, <3>2 DEF Span
  <2>6. /\ t \in Seq(Span) /\ Len(t) = n /\ DOMAIN t = 1..n /\ t[n] = u
        /\ \A i \in 1..n : i # n => t[i] = m[i]
    BY <1>1, <1>2, <2>1, <2>3, <2>5, ExceptSeq
  <2>7. MergeSpan(m, s) = t
    BY <1>1, <1>4, <2>2, <2>3 DEF MergeSpan
  <2>8. t # <<>>
    BY <2>1, <2>6
  <2>9. ASSUME NEW i \in 1..n, NEW j \in 1..n, i < j PROVE t[i].end < t[j].start
    <3>1. i # n /\ t[i] = m[i] /\ m[i].end < m[j].start
      BY <1>2, <2>6, <2>9
    <3>2. t[j].start = m[j].start
      BY <2>5, <2>6
    <3> QED
      BY <3>1, <3>2
  <2>10. Offsets(t) = Offsets(m) \cup s.start .. (s.end - 1)
    <3>1. u.start .. (u.end - 1) = m[n].start .. (m[n].end - 1) \cup s.start .. (s.end - 1)
      BY <1>2, <2>1, <2>4, <2>5
    <3>2. ASSUME NEW x \in Offsets(t) PROVE x \in Offsets(m) \cup s.start .. (s.end - 1)
      <4>1. PICK i \in 1..n : x \in t[i].start .. (t[i].end - 1)
        BY <2>6 DEF Offsets
      <4> QED
        BY <1>2, <2>1, <2>6, <3>1, <4>1 DEF Offsets
    <3>3. ASSUME NEW x \in Offsets(m) PROVE x \in Offsets(t)
      <4>1. PICK i \in 1..n : x \in m[i].start .. (m[i].end - 1)
        BY <1>2 DEF Offsets
      <4>2. x \in t[i].start .. (t[i].end - 1)
        BY <2>6, <3>1, <4>1
      <4> QED
        BY <2>6, <4>2 DEF Offsets
    <3>4. ASSUME NEW x \in s.start .. (s.end - 1) PROVE x \in Offsets(t)
      BY <2>1, <2>6, <3>1 DEF Offsets
    <3> QED
      BY <3>2, <3>3, <3>4
  <2> QED
    BY <2>4, <2>5, <2>6, <2>7, <2>8, <2>9, <2>10 DEF Apart
<1>5. CASE m # <<>> /\ ~(s.start > Last(m).end) /\ ~(s.end > Last(m).end)
  <2>1. MergeSpan(m, s) = m
    BY <1>5 DEF MergeSpan
  <2>2. n \in 1..n /\ m[n].start <= s.start /\ s.end <= m[n].end
    BY <1>1, <1>2, <1>5 DEF Last
  <2>3. s.start .. (s.end - 1) \subseteq m[n].start .. (m[n].end - 1)
    BY <1>2, <2>2
  <2>4. s.start .. (s.end - 1) \subseteq Offsets(m)
    BY <1>2, <2>2, <2>3 DEF Offsets
  <2> QED
    BY <1>1, <1>5, <2>1, <2>2, <2>4
<1> QED
  BY <1>3, <1>4, <1>5

(***************************************************************************)
(* Whatever is merged, the result is a list of spans.                      *)
(***************************************************************************)
LEMMA MergeSpanType ==
  ASSUME NEW m \in Seq(Span), NEW s \in Span
  PROVE  MergeSpan(m, s) \in Seq(Span)
<1>1. CASE m = <<>> \/ s.start > Last(m).end
  BY <1>1 DEF MergeSpan
<1>2. CASE m # <<>> /\ ~(s.start > Last(m).end) /\ s.end > Last(m).end
  <2>1. PICK n, u : n = Len(m) /\ u = [m[n] EXCEPT !.end = s.end]
    OBVIOUS
  <2>2. n \in 1..Len(m) /\ m[n] \in Span /\ s.end > m[n].end
    BY <1>2, <2>1 DEF Last
  <2>3. u \in Span
    <3>1. /\ m[n] \in [start : Nat, end : Nat] /\ m[n].start < m[n].end
          /\ m[n].start \in Nat /\ m[n].end \in Nat /\ s.end \in Nat
      BY <2>2 DEF Span
    <3>2. u \in [start : Nat, end : Nat] /\ u.start = m[n].start /\ u.end = s.end
      BY <2>1, <3>1
    <3> QED
      BY <2>2, <3>1, <3>2 DEF Span
  <2>4. MergeSpan(m, s) = [m EXCEPT ![n] = u]
    BY <1>2, <2>1 DEF MergeSpan
  <2> QED
    BY <2>2, <2>3, <2>4, ExceptSeq
<1>3. CASE m # <<>> /\ ~(s.start > Last(m).end) /\ ~(s.end > Last(m).end)
  BY <1>3 DEF MergeSpan
<1> QED
  BY <1>1, <1>2, <1>3

(***************************************************************************)
(* The merge loop: a set of spans that stay apart and cover what was given *)
(***************************************************************************)
IsMerging(s, f) ==
  f = [n \in 0..Len(s) |-> IF n = 0 THEN <<>> ELSE MergeSpan(f[n - 1], s[n])]

(***************************************************************************)
(* Merged returns the last value of that recursion.                        *)
(***************************************************************************)
LEMMA MergedRecursion ==
  ASSUME NEW s \in Seq(Span)
  PROVE  \E f : IsMerging(s, f) /\ Merged(s) = f[Len(s)]
<1>1. PICK n, X : n = Len(s) /\ X = Seq(Span)
  OBVIOUS
<1>2. PICK G : G = [q \in (1..n) \X X |-> MergeSpan(q[2], s[q[1]])]
  OBVIOUS
<1>3. n \in Nat /\ \A i \in 1..n : s[i] \in Span
  BY <1>1
<1>4. \A i \in 1..n, m \in X : MergeSpan(m, s[i]) \in X
  BY <1>1, <1>3, MergeSpanType
<1>5. G \in [(1..n) \X X -> X]
  BY <1>2, <1>4
<1>6. <<>> \in X
  BY <1>1
<1>7. PICK f, e : e = <<>> /\ Steps(f, X, e, n, G)
  <2>1. PICK e : e = <<>>
    OBVIOUS
  <2>2. e \in X
    BY <1>6, <2>1
  <2>3. \E f : Steps(f, X, e, n, G)
    BY <1>3, <1>5, <2>2, StepsExist
  <2> QED
    BY <2>1, <2>3
<1>8. ASSUME NEW i \in 1..n PROVE f[i] = MergeSpan(f[i - 1], s[i])
  <2>1. i - 1 \in 0..n /\ f[i - 1] \in X
    BY <1>3, <1>7 DEF Steps
  <2> QED
    BY <1>2, <1>7, <2>1 DEF Steps
<1>9. IsMerging(s, f)
  BY <1>1, <1>3, <1>7, <1>8 DEF IsMerging, Steps
<1>10. PICK g : g = CHOOSE h : IsMerging(s, h)
  OBVIOUS
<1>11. IsMerging(s, g)
  BY <1>9, <1>10
<1>12. Merged(s) = g[Len(s)]
  BY <1>10 DEF Merged, IsMerging
<1> QED
  BY <1>11, <1>12

(***************************************************************************)
(* The merge loop over sorted spans gives a span set that covers the bytes *)
(* of all of them.                                                         *)
(***************************************************************************)
LEMMA MergedFacts ==
  ASSUME NEW s \in Seq(Span),
         \A k, l \in 1..Len(s) : k < l => s[k].start <= s[l].start
  PROVE  Apart(Merged(s)) /\ Offsets(Merged(s)) = Offsets(s)
<1>1. PICK n : n = Len(s)
  OBVIOUS
<1>2. /\ n \in Nat /\ DOMAIN s = 1..n
      /\ \A i \in 1..n : s[i] \in Span /\ s[i].start \in Nat
      /\ \A k, l \in 1..n : k < l => s[k].start <= s[l].start
  BY <1>1 DEF Span
<1>3. PICK f : IsMerging(s, f) /\ Merged(s) = f[n]
  BY <1>1, MergedRecursion
<1>4. f[0] = <<>> /\ \A i \in 1..n : f[i] = MergeSpan(f[i - 1], s[i])
  BY <1>1, <1>2, <1>3 DEF IsMerging
<1> DEFINE Covered(i) == UNION {s[j].start .. (s[j].end - 1) : j \in 1..i}
           Good(i) == /\ Apart(f[i])
                      /\ f[i] # <<>> => i \in 1..n /\ f[i][Len(f[i])].start <= s[i].start
                      /\ Offsets(f[i]) = Covered(i)
           U == {i \in Nat : i <= n => Good(i)}
<1>5. 0 \in U
  <2>1. Apart(<<>>) /\ Offsets(<<>>) = {}
    BY DEF Apart, Offsets
  <2>2. Covered(0) = {}
    OBVIOUS
  <2>3. Good(0)
    BY <1>4, <2>1, <2>2
  <2> QED
    BY <2>3
<1>6. ASSUME NEW i \in Nat, i \in U PROVE i + 1 \in U
  <2> SUFFICES ASSUME i + 1 <= n PROVE Good(i + 1)
    OBVIOUS
  <2>1. PICK m, t : m = f[i] /\ t = s[i + 1]
    OBVIOUS
  <2>2. i <= n /\ Good(i) /\ i + 1 \in 1..n /\ t \in Span
    BY <1>2, <1>6, <2>1
  <2>3. Apart(m) /\ Offsets(m) = Covered(i) /\ f[i + 1] = MergeSpan(m, t)
    BY <1>4, <2>1, <2>2
  <2>4. m # <<>> => m[Len(m)].start <= t.start
    <3> SUFFICES ASSUME m # <<>> PROVE m[Len(m)].start <= t.start
      OBVIOUS
    <3>1. i \in 1..n /\ m[Len(m)].start <= s[i].start /\ i < i + 1
      BY <2>1, <2>2
    <3>2. s[i].start <= t.start /\ s[i].start \in Nat /\ t.start \in Nat
      BY <1>2, <2>1, <2>2, <3>1
    <3>3. m[Len(m)].start \in Nat
      <4>1. m \in Seq(Span) /\ Len(m) \in 1..Len(m)
        BY <2>3 DEF Apart
      <4>2. m[Len(m)] \in Span
        BY <4>1
      <4> QED
        BY <4>2 DEF Span
    <3> QED
      BY <3>1, <3>2, <3>3
  <2>5. /\ Apart(MergeSpan(m, t))
        /\ MergeSpan(m, t) # <<>>
        /\ MergeSpan(m, t)[Len(MergeSpan(m, t))].start <= t.start
        /\ Offsets(MergeSpan(m, t)) = Offsets(m) \cup t.start .. (t.end - 1)
    <3> HIDE DEF Covered
    <3> QED
      BY <2>2, <2>3, <2>4, MergeSpanFacts
  <2>6. Covered(i + 1) = Covered(i) \cup t.start .. (t.end - 1)
    <3>1. 1..(i + 1) = 1..i \cup {i + 1}
      OBVIOUS
    <3> QED
      BY <2>1, <3>1
  <2> HIDE DEF Covered
  <2> QED
    BY <2>1, <2>2, <2>3, <2>5, <2>6
<1> HIDE DEF U
<1>7. Nat \subseteq U
  BY <1>5, <1>6, NatInductionOnSets
<1>8. Good(n)
  <2> HIDE DEF Good
  <2> QED
    BY <1>2, <1>7 DEF U
<1>9. Covered(n) = Offsets(s)
  BY <1>2 DEF Offsets
<1> QED
  BY <1>3, <1>8, <1>9

(***************************************************************************)
(* NewOffsetSpanSet: any spans become a span set of the same bytes.        *)
(***************************************************************************)
LEMMA NewSpanSetFacts ==
  ASSUME NEW s \in Seq(Span)
  PROVE  Apart(NewOffsetSpanSet(s)) /\ Offsets(NewOffsetSpanSet(s)) = Offsets(s)
<1>1. PICK t : t = StableSort(s, SpanBefore)
  OBVIOUS
<1>2. /\ t \in Seq(Span) /\ Offsets(t) = Offsets(s)
      /\ \A k, l \in 1..Len(t) : k < l => t[k].start <= t[l].start
  BY <1>1, SpansSorted
<1>3. Apart(Merged(t)) /\ Offsets(Merged(t)) = Offsets(t)
  BY <1>2, MergedFacts
<1>4. NewOffsetSpanSet(s) = Merged(t)
  BY <1>1 DEF NewOffsetSpanSet
<1> QED
  BY <1>2, <1>3, <1>4

(***************************************************************************)
(* The union of two span sets is a span set of the bytes of either.        *)
(***************************************************************************)
LEMMA SpanSetUnionFacts ==
  ASSUME NEW a, Apart(a), NEW b, Apart(b)
  PROVE  /\ Apart(SpanSetUnion(a, b))
         /\ Offsets(SpanSetUnion(a, b)) = Offsets(a) \cup Offsets(b)
<1>1. a \in Seq(Span) /\ b \in Seq(Span)
  BY DEF Apart
<1>2. Offsets(<<>>) = {}
  BY DEF Offsets
<1>3. CASE a = <<>> \/ b = <<>>
  BY <1>2, <1>3 DEF SpanSetUnion, EmptySpanSet
<1>4. CASE a # <<>> /\ b # <<>>
  <2>1. PICK c, m, n : c = a \o b /\ m = Len(a) /\ n = Len(b)
    OBVIOUS
  <2>2. /\ m \in Nat /\ n \in Nat /\ c \in Seq(Span)
        /\ DOMAIN a = 1..m /\ DOMAIN b = 1..n /\ DOMAIN c = 1..(m + n)
        /\ \A i \in 1..m : c[i] = a[i]
        /\ \A i \in (m + 1)..(m + n) : c[i] = b[i - m]
    BY <1>1, <2>1
  <2>3. Offsets(c) = Offsets(a) \cup Offsets(b)
    <3>1. ASSUME NEW x \in Offsets(a) PROVE x \in Offsets(c)
      BY <2>2, <3>1 DEF Offsets
    <3>2. ASSUME NEW x \in Offsets(b) PROVE x \in Offsets(c)
      <4>1. PICK i \in 1..n : x \in b[i].start .. (b[i].end - 1)
        BY <2>2, <3>2 DEF Offsets
      <4>2. m + i \in (m + 1)..(m + n) /\ (m + i) - m = i /\ m + i \in 1..(m + n)
        BY <2>2
      <4>3. c[m + i] = b[i]
        BY <2>2, <4>2
      <4> QED
        BY <2>2, <4>1, <4>2, <4>3 DEF Offsets
    <3>3. ASSUME NEW x \in Offsets(c) PROVE x \in Offsets(a) \cup Offsets(b)
      <4>1. PICK i \in 1..(m + n) : x \in c[i].start .. (c[i].end - 1)
        BY <2>2, <3>3 DEF Offsets
      <4>2. CASE i \in 1..m
        BY <2>2, <4>1, <4>2 DEF Offsets
      <4>3. CASE i \in (m + 1)..(m + n)
        <5>1. i - m \in 1..n /\ c[i] = b[i - m]
          BY <2>2, <4>3
        <5> QED
          BY <2>2, <4>1, <5>1 DEF Offsets
      <4> QED
        BY <2>2, <4>2, <4>3
    <3> QED
      BY <3>1, <3>2, <3>3
  <2>4. SpanSetUnion(a, b) = NewOffsetSpanSet(c)
    BY <1>4, <2>1 DEF SpanSetUnion, EmptySpanSet
  <2> QED
    BY <2>2, <2>3, <2>4, NewSpanSetFacts
<1> QED
  BY <1>3, <1>4

-----------------------------------------------------------------------------
(***************************************************************************)
(* The bisection finds the number of spans that end at or before off.      *)
(***************************************************************************)
(***************************************************************************)
(* The first r spans end at or before an offset, the others behind it:     *)
(* what sort.Search looks for.                                             *)
(***************************************************************************)
Before(spans, off, r) ==
  /\ r \in 0..Len(spans)
  /\ \A i \in 1..Len(spans) : i <= r <=> spans[i].end <= off

(***************************************************************************)
(* The spans of a span set have numbers for ends, and both ends rise.      *)
(***************************************************************************)
LEMMA ApartFacts ==
  ASSUME NEW spans, Apart(spans)
  PROVE  /\ spans \in Seq(Span) /\ Len(spans) \in Nat /\ DOMAIN spans = 1..Len(spans)
         /\ \A i \in 1..Len(spans) : /\ spans[i] \in Span
                                     /\ spans[i].start \in Nat /\ spans[i].end \in Nat
                                     /\ spans[i].start < spans[i].end
         /\ \A i, j \in 1..Len(spans) : i < j => /\ spans[i].end < spans[j].start
                                                 /\ spans[i].end < spans[j].end
                                                 /\ spans[i].start < spans[j].start
<1>1. spans \in Seq(Span) /\ Len(spans) \in Nat /\ DOMAIN spans = 1..Len(spans)
  BY DEF Apart
<1>2. ASSUME NEW i \in 1..Len(spans)
      PROVE  /\ spans[i] \in Span
             /\ spans[i].start \in Nat /\ spans[i].end \in Nat
             /\ spans[i].start < spans[i].end
  BY <1>1 DEF Span
<1>3. ASSUME NEW i \in 1..Len(spans), NEW j \in 1..Len(spans), i < j
      PROVE  /\ spans[i].end < spans[j].start
             /\ spans[i].end < spans[j].end
             /\ spans[i].start < spans[j].start
  <2>1. spans[i].end < spans[j].start
    BY <1>3 DEF Apart
  <2>2. /\ spans[i].start \in Nat /\ spans[i].end \in Nat /\ spans[i].start < spans[i].end
        /\ spans[j].start \in Nat /\ spans[j].end \in Nat /\ spans[j].start < spans[j].end
    BY <1>2
  <2> QED
    BY <2>1, <2>2
<1> QED
  BY <1>1, <1>2, <1>3

(***************************************************************************)
(* Every offset has one such r.                                            *)
(***************************************************************************)
LEMMA BeforeExists ==
  ASSUME NEW spans, Apart(spans), NEW off \in Nat
  PROVE  \E r : Before(spans, off, r)
<1> DEFINE n == Len(spans)
           T == {r \in 0..n : r = n \/ spans[r + 1].end > off}
<1>1. /\ n \in Nat
      /\ \A i \in 1..n : spans[i].end \in Nat
      /\ \A i, j \in 1..n : i < j => spans[i].end < spans[j].end
  BY ApartFacts
<1>2. PICK r \in T : \A q \in T : r <= q
  <2>1. T \subseteq Nat /\ n \in T
    BY <1>1
  <2> HIDE DEF T
  <2> QED
    BY <2>1, LeastNat
<1>3. ASSUME NEW i \in 1..n PROVE i <= r <=> spans[i].end <= off
  <2>1. CASE i <= r
    <3>1. i - 1 \in 0..n /\ i - 1 \notin T /\ (i - 1) + 1 = i
      BY <1>1, <1>2, <2>1
    <3> QED
      BY <1>1, <2>1, <3>1
  <2>2. CASE r < i
    <3>1. r + 1 \in 1..n /\ spans[r + 1].end > off /\ (r + 1 = i \/ r + 1 < i)
      BY <1>1, <1>2, <2>2
    <3>2. spans[r + 1].end \in Nat /\ spans[i].end \in Nat
      BY <1>1, <3>1
    <3>3. r + 1 < i => spans[r + 1].end < spans[i].end
      BY <1>1, <3>1
    <3> QED
      BY <2>2, <3>1, <3>2, <3>3
  <2> QED
    BY <1>1, <1>2, <2>1, <2>2
<1>4. Before(spans, off, r)
  BY <1>2, <1>3 DEF Before
<1> QED
  BY <1>4

(***************************************************************************)
(* The answer of a search that is confined to a range.                     *)
(***************************************************************************)
Clamp(r, range) ==
  IF r <= range[1] \/ range[2] <= range[1]
  THEN range[1]
  ELSE IF r >= range[2] THEN range[2] ELSE r

(***************************************************************************)
(* The halving of sort.Search, as a function of the range.                 *)
(***************************************************************************)
IsBisection(spans, off, f) ==
  f = [range \in (0..Len(spans)) \X (0..Len(spans)) |->
         IF range[1] >= range[2]
         THEN range[1]
         ELSE IF spans[Middle(range) + 1].end > off
              THEN f[<<range[1], Middle(range)>>]
              ELSE f[<<Middle(range) + 1, range[2]>>]]

(***************************************************************************)
(* To look into the right half of a range does not change the answer.      *)
(***************************************************************************)
LEMMA ClampStep ==
  ASSUME NEW spans, Len(spans) \in Nat, \A i \in 1..Len(spans) : spans[i].end \in Nat,
         NEW off \in Nat, NEW r, Before(spans, off, r),
         NEW low \in 0..Len(spans), NEW high \in 0..Len(spans), low < high,
         NEW mid, mid = Middle(<<low, high>>)
  PROVE  /\ mid \in low..(high - 1)
         /\ spans[mid + 1].end > off => Clamp(r, <<low, mid>>) = Clamp(r, <<low, high>>)
         /\ ~(spans[mid + 1].end > off) => Clamp(r, <<mid + 1, high>>) = Clamp(r, <<low, high>>)
<1>1. mid \in low..(high - 1)
  BY DEF Middle
<1>2. mid + 1 \in 1..Len(spans) /\ r \in 0..Len(spans)
  BY <1>1 DEF Before
<1>3. spans[mid + 1].end > off <=> r <= mid
  <2>1. spans[mid + 1].end \in Nat /\ (mid + 1 <= r <=> spans[mid + 1].end <= off)
    BY <1>2 DEF Before
  <2> QED
    BY <1>1, <1>2, <2>1
<1> QED
  BY <1>1, <1>2, <1>3 DEF Clamp

(***************************************************************************)
(* sort.Search finds that r.                                               *)
(***************************************************************************)
LEMMA SearchFacts ==
  ASSUME NEW spans, Apart(spans), NEW off \in Nat
  PROVE  Before(spans, off, SearchEnd(spans, off))
<1>1. PICK n : n = Len(spans)
  OBVIOUS
<1>2. n \in Nat /\ n = Len(spans) /\ \A i \in 1..n : spans[i].end \in Nat
  BY <1>1, ApartFacts
<1>3. PICK r : Before(spans, off, r)
  BY BeforeExists
<1>4. PICK D : D = (0..n) \X (0..n)
  OBVIOUS
<1>5. PICK g : g = [range \in D |-> Clamp(r, range)]
  OBVIOUS
<1>6. ASSUME NEW low \in 0..n, NEW high \in 0..n, NEW range, range = <<low, high>>
      PROVE  g[range] = IF range[1] >= range[2]
                        THEN range[1]
                        ELSE IF spans[Middle(range) + 1].end > off
                             THEN g[<<range[1], Middle(range)>>]
                             ELSE g[<<Middle(range) + 1, range[2]>>]
  <2>1. range \in D /\ range[1] = low /\ range[2] = high /\ g[range] = Clamp(r, range)
    BY <1>4, <1>5, <1>6
  <2>2. CASE low >= high
    BY <1>6, <2>1, <2>2 DEF Clamp
  <2>3. CASE low < high
    <3>1. PICK mid : mid = Middle(range)
      OBVIOUS
    <3>2. /\ mid \in low..(high - 1)
          /\ spans[mid + 1].end > off => Clamp(r, <<low, mid>>) = Clamp(r, range)
          /\ ~(spans[mid + 1].end > off) => Clamp(r, <<mid + 1, high>>) = Clamp(r, range)
      BY <1>2, <1>3, <1>6, <2>3, <3>1, ClampStep
    <3>3. <<low, mid>> \in D /\ <<mid + 1, high>> \in D
      BY <1>2, <1>4, <3>2
    <3>4. g[<<low, mid>>] = Clamp(r, <<low, mid>>) /\ g[<<mid + 1, high>>] = Clamp(r, <<mid + 1, high>>)
      BY <1>5, <3>3
    <3> QED
      BY <2>1, <2>3, <3>1, <3>2, <3>4
  <2> QED
    BY <2>2, <2>3
<1>7. IsBisection(spans, off, g)
  <2>1. ASSUME NEW range \in D
        PROVE  g[range] = IF range[1] >= range[2]
                          THEN range[1]
                          ELSE IF spans[Middle(range) + 1].end > off
                               THEN g[<<range[1], Middle(range)>>]
                               ELSE g[<<Middle(range) + 1, range[2]>>]
    <3>1. PICK low \in 0..n, high \in 0..n : range = <<low, high>>
      BY <1>4
    <3> QED
      BY <1>6, <3>1
  <2> QED
    BY <1>1, <1>4, <1>5, <2>1 DEF IsBisection
<1>8. PICK f : f = CHOOSE h : IsBisection(spans, off, h)
  OBVIOUS
<1>9. IsBisection(spans, off, f)
  BY <1>7, <1>8
<1>10. SearchEnd(spans, off) = f[<<0, n>>]
  BY <1>1, <1>8 DEF SearchEnd, IsBisection
<1>11. ASSUME NEW range \in D
       PROVE  f[range] = IF range[1] >= range[2]
                         THEN range[1]
                         ELSE IF spans[Middle(range) + 1].end > off
                              THEN f[<<range[1], Middle(range)>>]
                              ELSE f[<<Middle(range) + 1, range[2]>>]
  BY <1>1, <1>4, <1>9 DEF IsBisection
<1> DEFINE Agree(low, high) == f[<<low, high>>] = Clamp(r, <<low, high>>)
           U == {d \in Nat : \A low, high \in 0..n : high <= low + d => Agree(low, high)}
<1>12. 0 \in U
  <2> SUFFICES ASSUME NEW low \in 0..n, NEW high \in 0..n, high <= low + 0
               PROVE  Agree(low, high)
    OBVIOUS
  <2>1. PICK range : range = <<low, high>>
    OBVIOUS
  <2>2. range \in D /\ range[1] = low /\ range[2] = high /\ low >= high
    BY <1>4, <2>1
  <2>3. f[range] = low
    BY <1>11, <2>2
  <2>4. Clamp(r, range) = low
    BY <2>2 DEF Clamp
  <2> QED
    BY <2>1, <2>3, <2>4
<1>13. ASSUME NEW d \in Nat, d \in U PROVE d + 1 \in U
  <2> SUFFICES ASSUME NEW low \in 0..n, NEW high \in 0..n, high <= low + (d + 1)
               PROVE  Agree(low, high)
    OBVIOUS
  <2>1. PICK range, mid : range = <<low, high>> /\ mid = Middle(range)
    OBVIOUS
  <2>2. range \in D /\ range[1] = low /\ range[2] = high
    BY <1>4, <2>1
  <2>3. CASE low >= high
    <3>1. f[range] = low
      BY <1>11, <2>2, <2>3
    <3>2. Clamp(r, range) = low
      BY <2>2, <2>3 DEF Clamp
    <3> QED
      BY <2>1, <3>1, <3>2
  <2>4. CASE low < high
    <3>1. /\ mid \in low..(high - 1)
          /\ spans[mid + 1].end > off => Clamp(r, <<low, mid>>) = Clamp(r, <<low, high>>)
          /\ ~(spans[mid + 1].end > off) => Clamp(r, <<mid + 1, high>>) = Clamp(r, <<low, high>>)
      BY <1>2, <1>3, <2>1, <2>4, ClampStep
    <3>2. /\ mid \in 0..n /\ mid <= low + d
          /\ mid + 1 \in 0..n /\ high <= (mid + 1) + d
      BY <1>2, <3>1
    <3>3. Agree(low, mid) /\ Agree(mid + 1, high)
      BY <1>13, <3>2
    <3>4. f[range] = IF spans[mid + 1].end > off THEN f[<<low, mid>>] ELSE f[<<mid + 1, high>>]
      BY <1>11, <2>1, <2>2, <2>4
    <3> QED
      BY <2>1, <3>1, <3>3, <3>4
  <2> QED
    BY <2>3, <2>4
<1> HIDE DEF U
<1>14. Nat \subseteq U
  BY <1>12, <1>13, NatInductionOnSets
<1>15. Agree(0, n)
  <2>1. n \in U /\ 0 \in 0..n /\ n \in 0..n /\ n <= 0 + n
    BY <1>2, <1>14
  <2> HIDE DEF Agree
  <2> QED
    BY <2>1 DEF U
<1>16. Clamp(r, <<0, n>>) = r
  BY <1>1, <1>2, <1>3 DEF Clamp, Before
<1> QED
  BY <1>3, <1>10, <1>15, <1>16

(***************************************************************************)
(* The queries answer exactly.                                             *)
(***************************************************************************)
LEMMA ContainsExact ==
  ASSUME NEW spans, Apart(spans), NEW off \in Nat
  PROVE  SpanSetContains(spans, off) <=> off \in Offsets(spans)
<1>1. PICK n, r : n = Len(spans) /\ r = SearchEnd(spans, off)
  OBVIOUS
<1>2. r \in 0..n /\ \A i \in 1..n : i <= r <=> spans[i].end <= off
  BY <1>1, SearchFacts DEF Before
<1>3. /\ n \in Nat /\ DOMAIN spans = 1..n
      /\ \A i \in 1..n : spans[i].start \in Nat /\ spans[i].end \in Nat
      /\ \A i, j \in 1..n : i < j => spans[i].end < spans[j].start
  BY <1>1, ApartFacts
<1>4. SpanSetContains(spans, off)
        <=> r < n /\ off >= spans[r + 1].start /\ off < spans[r + 1].end
  BY <1>1 DEF SpanSetContains, InSpan
<1>5. ASSUME r < n, off >= spans[r + 1].start, off < spans[r + 1].end
      PROVE  off \in Offsets(spans)
  <2>1. r + 1 \in 1..n /\ spans[r + 1].start \in Nat /\ spans[r + 1].end \in Nat
    BY <1>2, <1>3, <1>5
  <2>2. off \in spans[r + 1].start .. (spans[r + 1].end - 1)
    BY <1>5, <2>1
  <2> QED
    BY <1>3, <2>1, <2>2 DEF Offsets
<1>6. ASSUME off \in Offsets(spans)
      PROVE  r < n /\ off >= spans[r + 1].start /\ off < spans[r + 1].end
  <2>1. PICK i \in 1..n : off \in spans[i].start .. (spans[i].end - 1)
    BY <1>3, <1>6 DEF Offsets
  <2>2. spans[i].start \in Nat /\ spans[i].end \in Nat
    BY <1>3
  <2>3. spans[i].start <= off /\ off < spans[i].end
    BY <2>1, <2>2
  <2>4. r < i /\ r + 1 \in 1..n
    BY <1>2, <1>3, <2>2, <2>3
  <2>5. CASE r + 1 < i
    <3>1. spans[r + 1].end < spans[i].start /\ spans[r + 1].end \in Nat
      BY <1>3, <2>4, <2>5
    <3>2. ~(spans[r + 1].end <= off)
      BY <1>2, <2>4
    <3> QED
      BY <2>2, <2>3, <3>1, <3>2
  <2>6. CASE r + 1 = i
    BY <2>3, <2>4, <2>6, <1>2, <1>3
  <2> QED
    BY <1>2, <2>4, <2>5, <2>6
<1> QED
  BY <1>4, <1>5, <1>6

(***************************************************************************)
(* SpanSetOverlaps is true exactly if a byte of the range is in the set.   *)
(***************************************************************************)
LEMMA OverlapsExact ==
  ASSUME NEW spans, Apart(spans), NEW s \in Nat, NEW e \in Nat
  PROVE  SpanSetOverlaps(spans, s, e) <=> (s .. (e - 1)) \cap Offsets(spans) # {}
<1>1. PICK n, r : n = Len(spans) /\ r = SearchEnd(spans, s)
  OBVIOUS
<1>2. r \in 0..n /\ \A i \in 1..n : i <= r <=> spans[i].end <= s
  BY <1>1, SearchFacts DEF Before
<1>3. /\ n \in Nat /\ DOMAIN spans = 1..n
      /\ \A i \in 1..n : /\ spans[i].start \in Nat /\ spans[i].end \in Nat
                         /\ spans[i].start < spans[i].end
      /\ \A i, j \in 1..n : i < j => spans[i].start < spans[j].start
  BY <1>1, ApartFacts
<1>4. SpanSetOverlaps(spans, s, e) <=> e > s /\ r < n /\ spans[r + 1].start < e
  BY <1>1 DEF SpanSetOverlaps
<1>5. ASSUME e > s, r < n, spans[r + 1].start < e
      PROVE  (s .. (e - 1)) \cap Offsets(spans) # {}
  <2>1. /\ r + 1 \in 1..n /\ spans[r + 1].start \in Nat /\ spans[r + 1].end \in Nat
        /\ spans[r + 1].start < spans[r + 1].end /\ ~(spans[r + 1].end <= s)
    BY <1>2, <1>3, <1>5
  <2>2. PICK x : x = IF spans[r + 1].start <= s THEN s ELSE spans[r + 1].start
    OBVIOUS
  <2>3. x \in spans[r + 1].start .. (spans[r + 1].end - 1) /\ x \in s .. (e - 1)
    BY <1>5, <2>1, <2>2
  <2> QED
    BY <1>3, <2>1, <2>3 DEF Offsets
<1>6. ASSUME (s .. (e - 1)) \cap Offsets(spans) # {}
      PROVE  e > s /\ r < n /\ spans[r + 1].start < e
  <2>1. PICK x \in s .. (e - 1) : x \in Offsets(spans)
    BY <1>6
  <2>2. PICK i \in 1..n : x \in spans[i].start .. (spans[i].end - 1)
    BY <1>3, <2>1 DEF Offsets
  <2>3. spans[i].start \in Nat /\ spans[i].end \in Nat
    BY <1>3
  <2>4. e > s /\ spans[i].start < e /\ ~(spans[i].end <= s)
    BY <2>1, <2>2, <2>3
  <2>5. r < i /\ r + 1 \in 1..n /\ spans[r + 1].start \in Nat
    BY <1>2, <1>3, <2>3, <2>4
  <2>6. r + 1 = i \/ spans[r + 1].start < spans[i].start
    BY <1>2, <1>3, <2>5
  <2> QED
    BY <1>2, <1>3, <2>3, <2>4, <2>5, <2>6
<1> QED
  BY <1>4, <1>5, <1>6

(***************************************************************************)
(* editOverlapsForbidden: an insertion is refused exactly if it is at a    *)
(* forbidden byte, any other edit exactly if it replaces one.              *)
(***************************************************************************)
LEMMA ForbiddenExact ==
  ASSUME NEW spans, Apart(spans), NEW s \in Nat, NEW e \in Nat
  PROVE  editOverlapsForbidden(spans, s, e)
           <=> IF s = e THEN s \in Offsets(spans)
                        ELSE (s .. (e - 1)) \cap Offsets(spans) # {}
  BY ContainsExact, OverlapsExact DEF editOverlapsForbidden

-----------------------------------------------------------------------------
(***************************************************************************)
(* Slices.                                                                 *)
(***************************************************************************)
LEMMA SliceFacts ==
  ASSUME NEW B, NEW x \in Seq(B), NEW s \in 0..Len(x), NEW e \in s..Len(x)
  PROVE  /\ Slice(x, s, e) \in Seq(B)
         /\ Len(Slice(x, s, e)) = e - s
         /\ \A i \in 1..(e - s) : Slice(x, s, e)[i] = x[s + i]
<1>1. /\ Len(x) \in Nat /\ s + 1 \in Int /\ e \in Int
      /\ \A i \in (s + 1)..e : x[i] \in B
  OBVIOUS
<1>2. /\ SubSeq(x, s + 1, e) \in Seq(B)
      /\ Len(SubSeq(x, s + 1, e)) = IF s + 1 <= e THEN e - (s + 1) + 1 ELSE 0
      /\ \A i \in 1..(e - (s + 1) + 1) : SubSeq(x, s + 1, e)[i] = x[(s + 1) + i - 1]
  BY <1>1, SubSeqProperties
<1>3. e - (s + 1) + 1 = e - s /\ \A i \in 1..(e - s) : (s + 1) + i - 1 = s + i
  BY <1>1
<1> QED
  BY <1>1, <1>2, <1>3 DEF Slice

(***************************************************************************)
(* The slice of everything is the text.                                    *)
(***************************************************************************)
LEMMA SliceAll ==
  ASSUME NEW B, NEW x \in Seq(B)
  PROVE  Slice(x, 0, Len(x)) = x
  BY SubSeqFull DEF Slice

(***************************************************************************)
(* A slice is cut in two at any offset in it.                              *)
(***************************************************************************)
LEMMA SliceSplit ==
  ASSUME NEW B, NEW x \in Seq(B),
         NEW s \in 0..Len(x), NEW m \in s..Len(x), NEW e \in m..Len(x)
  PROVE  Slice(x, s, e) = Slice(x, s, m) \o Slice(x, m, e)
<1>1. s + 1 \in 1..(Len(x) + 1) /\ m \in ((s + 1) - 1)..Len(x) /\ e \in m..Len(x)
  OBVIOUS
<1>2. SubSeq(x, s + 1, m) \o SubSeq(x, m + 1, e) = SubSeq(x, s + 1, e)
  BY <1>1, ConcatAdjacentSubSeq
<1> QED
  BY <1>2 DEF Slice

(***************************************************************************)
(* A slice of the front of two joined texts.                               *)
(***************************************************************************)
LEMMA SliceFront ==
  ASSUME NEW B, NEW x \in Seq(B), NEW y \in Seq(B), NEW s \in 0..Len(x), NEW e \in s..Len(x)
  PROVE  Slice(x \o y, s, e) = Slice(x, s, e)
<1>1. PICK z : z = x \o y
  OBVIOUS
<1>2. /\ z \in Seq(B) /\ Len(z) = Len(x) + Len(y) /\ Len(x) \in Nat /\ Len(y) \in Nat
      /\ \A i \in 1..Len(x) : z[i] = x[i]
  BY <1>1
<1>3. s \in 0..Len(z) /\ e \in s..Len(z)
  BY <1>2
<1>4. PICK u, v : u = Slice(z, s, e) /\ v = Slice(x, s, e)
  OBVIOUS
<1>5. /\ u \in Seq(B) /\ v \in Seq(B) /\ Len(u) = e - s /\ Len(v) = e - s
      /\ \A i \in 1..(e - s) : u[i] = z[s + i] /\ v[i] = x[s + i]
  BY <1>2, <1>3, <1>4, SliceFacts
<1>6. ASSUME NEW i \in 1..Len(u) PROVE u[i] = v[i]
  <2>1. i \in 1..(e - s) /\ s + i \in 1..Len(x)
    BY <1>2, <1>5
  <2> QED
    BY <1>2, <1>5, <2>1
<1> QED
  BY <1>1, <1>4, <1>5, <1>6, SeqEqual

(***************************************************************************)
(* A slice of the back of two joined texts.                                *)
(***************************************************************************)
LEMMA SliceBack ==
  ASSUME NEW B, NEW x \in Seq(B), NEW y \in Seq(B), NEW s \in 0..Len(y), NEW e \in s..Len(y)
  PROVE  Slice(x \o y, Len(x) + s, Len(x) + e) = Slice(y, s, e)
<1>1. PICK z, m : z = x \o y /\ m = Len(x)
  OBVIOUS
<1>2. /\ z \in Seq(B) /\ Len(z) = m + Len(y) /\ m \in Nat /\ Len(y) \in Nat
      /\ \A i \in 1..Len(y) : z[m + i] = y[i]
  BY <1>1
<1>3. m + s \in 0..Len(z) /\ m + e \in (m + s)..Len(z) /\ (m + e) - (m + s) = e - s
  BY <1>2
<1>4. PICK u, v : u = Slice(z, m + s, m + e) /\ v = Slice(y, s, e)
  OBVIOUS
<1>5. /\ u \in Seq(B) /\ v \in Seq(B) /\ Len(u) = e - s /\ Len(v) = e - s
      /\ \A i \in 1..(e - s) : u[i] = z[(m + s) + i] /\ v[i] = y[s + i]
  <2>1. /\ u \in Seq(B) /\ Len(u) = (m + e) - (m + s)
        /\ \A i \in 1..((m + e) - (m + s)) : u[i] = z[(m + s) + i]
    BY <1>2, <1>3, <1>4, SliceFacts
  <2>2. v \in Seq(B) /\ Len(v) = e - s /\ \A i \in 1..(e - s) : v[i] = y[s + i]
    BY <1>2, <1>4, SliceFacts
  <2> QED
    BY <1>3, <2>1, <2>2
<1>6. ASSUME NEW i \in 1..Len(u) PROVE u[i] = v[i]
  <2>1. i \in 1..(e - s) /\ s + i \in 1..Len(y) /\ (m + s) + i = m + (s + i)
    BY <1>2, <1>5
  <2> QED
    BY <1>2, <1>5, <2>1
<1> QED
  BY <1>1, <1>4, <1>5, <1>6, SeqEqual

(***************************************************************************)
(* Four texts joined from the right or from the left.                      *)
(***************************************************************************)
Regroups(x, y, z, w) == x \o (y \o (z \o w)) = ((x \o y) \o z) \o w

LEMMA ConcatFour ==
  ASSUME NEW B, NEW x \in Seq(B), NEW y \in Seq(B), NEW z \in Seq(B), NEW w \in Seq(B)
  PROVE  Regroups(x, y, z, w)
<1>1. y \o (z \o w) = (y \o z) \o w
  OBVIOUS
<1>2. y \o z \in Seq(B)
  OBVIOUS
<1>3. PICK v : v = y \o z
  OBVIOUS
<1>4. x \o (v \o w) = (x \o v) \o w
  <2>1. v \in Seq(B)
    BY <1>2, <1>3
  <2> QED
    BY <2>1
<1>5. x \o (y \o z) = (x \o y) \o z
  OBVIOUS
<1> QED
  BY <1>1, <1>3, <1>4, <1>5, Zenon DEF Regroups

(***************************************************************************)
(* The largest of numbers that are bounded.                                *)
(***************************************************************************)
LEMMA MaxFacts ==
  ASSUME NEW n \in Nat, NEW T, T \subseteq 0..n, T # {}
  PROVE  Max(T) \in T /\ \A x \in T : x <= Max(T)
<1>1. PICK U : U = {n - x : x \in T}
  OBVIOUS
<1>2. U \subseteq Nat /\ U # {}
  <2>1. \A x \in T : n - x \in Nat
    OBVIOUS
  <2>2. PICK x \in T : TRUE
    OBVIOUS
  <2>3. n - x \in U
    BY <1>1
  <2> QED
    BY <1>1, <2>1, <2>3
<1>3. PICK u \in U : \A y \in U : u <= y
  BY <1>2, LeastNat
<1>4. PICK m \in T : u = n - m
  BY <1>1, <1>3
<1>5. ASSUME NEW x \in T PROVE x <= m
  <2>1. n - x \in U
    BY <1>1
  <2>2. u <= n - x
    BY <1>3, <2>1
  <2> QED
    BY <1>4, <2>2
<1>6. \E y \in T : \A x \in T : y >= x
  BY <1>5
<1>7. Max(T) = CHOOSE y \in T : \A x \in T : y >= x
  BY DEF Max
<1> QED
  BY <1>6, <1>7

(***************************************************************************)
(* The smaller of two numbers.                                             *)
(***************************************************************************)
LEMMA MinOfTwo ==
  ASSUME NEW m \in Nat, NEW n \in Nat
  PROVE  Min({m, n}) = IF m <= n THEN m ELSE n
  BY DEF Min

-----------------------------------------------------------------------------
(***************************************************************************)
(* Edits of a text of len bytes.                                           *)
(***************************************************************************)
EditOver(B, len) ==
  {e \in [start : 0..len, end : 0..len, put : Seq(B)] : e.start <= e.end}

(***************************************************************************)
(* No edit starts before the end of an earlier one.                        *)
(***************************************************************************)
Pairwise(sorted) ==
  \A k, l \in 1..Len(sorted) : k < l => sorted[k].end <= sorted[l].start

(***************************************************************************)
(* Edits are sorted as spans are (sortEdits).                              *)
(***************************************************************************)
LEMMA EditsInOrder ==
  ASSUME NEW s
  PROVE  SortEdits(s) = StableSort(s, SpanBefore)
  BY DEF SortEdits, StableSort, EditBefore, SpanBefore

(***************************************************************************)
(* t is s in the order that the permutation p gives: by start, then by     *)
(* end.                                                                    *)
(***************************************************************************)
Arranges(p, s, t, n) ==
  /\ p \in [1..n -> 1..n]
  /\ \A i \in 1..n : \E k \in 1..n : p[k] = i
  /\ \A k, l \in 1..n : k # l => p[k] # p[l]
  /\ t = [k \in 1..n |-> s[p[k]]]
  /\ Len(t) = n
  /\ \A k, l \in 1..n : k < l =>
       \/ s[p[k]].start < s[p[l]].start
       \/ s[p[k]].start = s[p[l]].start /\ s[p[k]].end <= s[p[l]].end

(***************************************************************************)
(* sortEdits arranges edits of any bounds.                                 *)
(***************************************************************************)
LEMMA EditsSort ==
  ASSUME NEW L, NEW s \in Seq(L), \A e \in L : e.start \in Int /\ e.end \in Int
  PROVE  /\ SortEdits(s) \in Seq(L)
         /\ \E p : Arranges(p, s, SortEdits(s), Len(s))
<1>1. PICK n, R : n = Len(s) /\ R = ByStartAndEnd(s)
  OBVIOUS
<1>2. n \in Nat /\ n = Len(s) /\ DOMAIN s = 1..n /\ \A i \in 1..n : s[i] \in L
  BY <1>1
<1>3. \A i \in 1..n : s[i].start \in Int /\ s[i].end \in Int
  BY <1>2
<1>4. Bounded(s)
  BY <1>2, <1>3 DEF Bounded
<1>5. TotalOrder(R, n)
  BY <1>1, <1>2, <1>4, LowerIsOrder
<1>6. SortEdits(s) = SortedBy(s, R)
  BY <1>1, <1>2, <1>4, SpansInOrder, EditsInOrder
<1>7. PICK p : /\ IsSorting(p, n, R)
               /\ SortedBy(s, R) = [k \in 1..n |-> s[p[k]]]
               /\ SortedBy(s, R) \in Seq(L)
               /\ Len(SortedBy(s, R)) = n
  BY <1>1, <1>5, SortedByPermutation
<1>8. ASSUME NEW k \in 1..n, NEW l \in 1..n, k < l
      PROVE  /\ p[k] # p[l]
             /\ \/ s[p[k]].start < s[p[l]].start
                \/ s[p[k]].start = s[p[l]].start /\ s[p[k]].end <= s[p[l]].end
  <2>1. p[k] \in 1..n /\ p[l] \in 1..n /\ <<p[k], p[l]>> \in R
    BY <1>7, <1>8 DEF IsSorting
  <2>2. Lower(s, p[k], p[l])
    BY <1>1, <2>1 DEF ByStartAndEnd
  <2>3. /\ s[p[k]].start \in Int /\ s[p[k]].end \in Int
        /\ s[p[l]].start \in Int /\ s[p[l]].end \in Int
    BY <1>3, <2>1
  <2>4. p[k] # p[l]
    BY <1>5, <2>1 DEF TotalOrder
  <2> QED
    BY <2>2, <2>3, <2>4 DEF Lower
<1>9. \A k, l \in 1..n : k # l => p[k] # p[l]
  <2> SUFFICES ASSUME NEW k \in 1..n, NEW l \in 1..n, k # l PROVE p[k] # p[l]
    OBVIOUS
  <2>1. k < l \/ l < k
    OBVIOUS
  <2> QED
    BY <1>8, <2>1
<1>10. /\ p \in [1..n -> 1..n]
       /\ \A i \in 1..n : \E k \in 1..n : p[k] = i
       /\ SortEdits(s) = [k \in 1..n |-> s[p[k]]]
       /\ SortEdits(s) \in Seq(L)
       /\ Len(SortEdits(s)) = n
  BY <1>6, <1>7 DEF IsSorting
<1>11. Arranges(p, s, SortEdits(s), n)
  BY <1>8, <1>9, <1>10 DEF Arranges
<1> QED
  BY <1>1, <1>10, <1>11

(***************************************************************************)
(* Edits within a text stay within it when they are sorted.                *)
(***************************************************************************)
LEMMA EditsSorted ==
  ASSUME NEW B, NEW len \in Nat, NEW s \in Seq(EditOver(B, len))
  PROVE  /\ SortEdits(s) \in Seq(EditOver(B, len))
         /\ \E p : Arranges(p, s, SortEdits(s), Len(s))
<1>1. \A e \in EditOver(B, len) : e.start \in Int /\ e.end \in Int
  BY DEF EditOver
<1> QED
  BY <1>1, EditsSort

(***************************************************************************)
(* What validateEdits lets pass is within the text.                        *)
(***************************************************************************)
(***************************************************************************)
(* Edits whose bounds nobody has looked at.                                *)
(***************************************************************************)
AnyEdit(B) == [start : Int, end : Int, put : Seq(B)]

LEMMA ValidAreOver ==
  ASSUME NEW B, NEW text, Len(text) \in Nat, NEW s \in Seq(AnyEdit(B)),
         ValidEdits(text, SortEdits(s))
  PROVE  s \in Seq(EditOver(B, Len(text)))
<1>1. PICK t, n, len : t = SortEdits(s) /\ n = Len(s) /\ len = Len(text)
  OBVIOUS
<1>2. \A e \in AnyEdit(B) : e.start \in Int /\ e.end \in Int
  BY DEF AnyEdit
<1>3. PICK p : Arranges(p, s, t, n)
  BY <1>1, <1>2, EditsSort
<1>4. t \in Seq(AnyEdit(B)) /\ Len(t) = n /\ n \in Nat /\ DOMAIN t = 1..n /\ DOMAIN s = 1..n
  BY <1>1, <1>2, <1>3, EditsSort DEF Arranges
<1>5. ASSUME NEW i \in 1..n PROVE s[i] \in EditOver(B, len)
  <2>1. PICK k \in 1..n : p[k] = i
    BY <1>3 DEF Arranges
  <2>2. t[k] = s[i]
    BY <1>3, <2>1 DEF Arranges
  <2>3. /\ t[k].start \in 0..len /\ t[k].end \in 0..len /\ t[k].start <= t[k].end
    BY <1>1, <1>4 DEF ValidEdits
  <2>4. PICK e : e = s[i]
    OBVIOUS
  <2>5. e \in AnyEdit(B) /\ e.start \in 0..len /\ e.end \in 0..len /\ e.start <= e.end
    BY <1>1, <2>2, <2>3, <2>4
  <2>6. e = [start |-> e.start, end |-> e.end, put |-> e.put] /\ e.put \in Seq(B)
    BY <2>5 DEF AnyEdit
  <2>7. e \in EditOver(B, len)
    BY <2>5, <2>6 DEF EditOver
  <2> QED
    BY <2>4, <2>7
<1> QED
  BY <1>1, <1>4, <1>5

(***************************************************************************)
(* Comparing neighbours of a sorted list compares all pairs.               *)
(***************************************************************************)
LEMMA ValidMeansPairwise ==
  ASSUME NEW B, NEW text, Len(text) \in Nat, NEW s \in Seq(EditOver(B, Len(text)))
  PROVE  ValidEdits(text, SortEdits(s)) <=> Pairwise(SortEdits(s))
<1>1. PICK t, n : t = SortEdits(s) /\ n = Len(s)
  OBVIOUS
<1>2. PICK p : Arranges(p, s, t, n)
  BY <1>1, EditsSorted
<1>3. /\ n \in Nat /\ DOMAIN t = 1..n
      /\ \A k \in 1..n : /\ t[k].start \in 0..Len(text) /\ t[k].end \in 0..Len(text)
                         /\ t[k].start <= t[k].end /\ t[k] = s[p[k]]
  <2>1. t \in Seq(EditOver(B, Len(text)))
    BY <1>1, EditsSorted
  <2>2. n \in Nat /\ Len(t) = n /\ DOMAIN t = 1..n /\ \A k \in 1..n : t[k] = s[p[k]]
    BY <1>1, <1>2 DEF Arranges
  <2>3. \A k \in 1..n : t[k] \in EditOver(B, Len(text))
    BY <2>1, <2>2
  <2> QED
    BY <2>2, <2>3 DEF EditOver
<1>4. ASSUME ValidEdits(text, t) PROVE Pairwise(t)
  <2> SUFFICES ASSUME NEW k \in 1..n, NEW l \in 1..n, k < l PROVE t[k].end <= t[l].start
    BY <1>2 DEF Pairwise, Arranges
  <2>1. k + 1 \in 1..n /\ k + 1 > 1 /\ (k + 1) - 1 = k /\ (k + 1 = l \/ k + 1 < l)
    BY <1>3
  <2>2. t[k].end <= t[k + 1].start
    BY <1>3, <1>4, <2>1 DEF ValidEdits
  <2>3. k + 1 < l => t[k + 1].start <= t[l].start
    <3> SUFFICES ASSUME k + 1 < l PROVE t[k + 1].start <= t[l].start
      OBVIOUS
    <3>1. t[k + 1] = s[p[k + 1]] /\ t[l] = s[p[l]] /\ t[k + 1].start \in Nat /\ t[l].start \in Nat
      BY <1>3, <2>1
    <3>2. \/ s[p[k + 1]].start < s[p[l]].start
          \/ s[p[k + 1]].start = s[p[l]].start
      BY <1>2, <2>1 DEF Arranges
    <3> QED
      BY <3>1, <3>2
  <2>4. t[k].end \in Nat /\ t[k + 1].start \in Nat /\ t[l].start \in Nat
    BY <1>3, <2>1
  <2> QED
    BY <2>1, <2>2, <2>3, <2>4
<1>5. ASSUME Pairwise(t) PROVE ValidEdits(text, t)
  <2>1. \A i \in 1..n : i > 1 => i - 1 \in 1..n /\ i - 1 < i
    BY <1>3
  <2>2. \A i \in 1..n : i > 1 => t[i - 1].end <= t[i].start
    BY <1>2, <1>5, <2>1 DEF Pairwise, Arranges
  <2> QED
    BY <1>3, <2>2 DEF ValidEdits
<1> QED
  BY <1>1, <1>4, <1>5

-----------------------------------------------------------------------------
(***************************************************************************)
(* The left-to-right pass.                                                 *)
(***************************************************************************)
IsEmission(text, t, out) ==
  out = [n \in 0..Len(t) |->
           IF n = 0
           THEN <<>>
           ELSE out[n - 1] \o Slice(text, Cursor(t, n - 1), t[n].start) \o t[n].put]

(***************************************************************************)
(* Edits within the text, one behind the other.                            *)
(***************************************************************************)
EditsInLine(text, t) ==
  /\ Pairwise(t)
  /\ \A k \in 1..Len(t) : /\ t[k].start \in 0..Len(text)
                          /\ t[k].end \in t[k].start..Len(text)

Orderly(B, text, t) ==
  text \in Seq(B) /\ t \in Seq(EditOver(B, Len(text))) /\ EditsInLine(text, t)

Emission(B, text, t, out) == out \in [0..Len(t) -> Seq(B)] /\ IsEmission(text, t, out)

(***************************************************************************)
(* The cursor of ApplyEdits stands at the end of the edit before, never    *)
(* behind the start of the next one.                                       *)
(***************************************************************************)
LEMMA CursorFacts ==
  ASSUME NEW text, Len(text) \in Nat, NEW t, Len(t) \in Nat, EditsInLine(text, t),
         NEW k \in 1..Len(t)
  PROVE  /\ Cursor(t, k - 1) \in 0..t[k].start
         /\ Cursor(t, k) = t[k].end
         /\ t[k].start \in 0..Len(text) /\ t[k].end \in t[k].start..Len(text)
<1>1. /\ t[k].start \in 0..Len(text) /\ t[k].end \in t[k].start..Len(text)
  BY DEF EditsInLine
<1>2. CASE k = 1
  BY <1>1, <1>2 DEF Cursor
<1>3. CASE k # 1
  <2>1. k - 1 \in 1..Len(t) /\ k - 1 < k /\ k - 1 # 0
    BY <1>3
  <2>2. t[k - 1].end \in Nat
    <3>1. t[k - 1].start \in 0..Len(text) /\ t[k - 1].end \in t[k - 1].start..Len(text)
      BY <2>1 DEF EditsInLine
    <3> QED
      BY <3>1
  <2>3. t[k - 1].end <= t[k].start
    BY <2>1 DEF EditsInLine, Pairwise
  <2> QED
    BY <1>1, <2>1, <2>2, <2>3 DEF Cursor
<1> QED
  BY <1>2, <1>3

(***************************************************************************)
(* Emitted returns the last value of that recursion.                       *)
(***************************************************************************)
LEMMA EmittedRecursion ==
  ASSUME NEW B, NEW text \in Seq(B), NEW t \in Seq(EditOver(B, Len(text))),
         EditsInLine(text, t)
  PROVE  \E out : /\ IsEmission(text, t, out)
                  /\ Emitted(text, t) = out[Len(t)]
                  /\ out \in [0..Len(t) -> Seq(B)]
<1>1. PICK n, X : n = Len(t) /\ X = Seq(B)
  OBVIOUS
<1>2. PICK G : G = [q \in (1..n) \X X |->
                      q[2] \o Slice(text, Cursor(t, q[1] - 1), t[q[1]].start) \o t[q[1]].put]
  OBVIOUS
<1>3. n \in Nat /\ Len(text) \in Nat
  BY <1>1
<1>4. ASSUME NEW i \in 1..n, NEW x \in X
      PROVE  x \o Slice(text, Cursor(t, i - 1), t[i].start) \o t[i].put \in X
  <2>1. Cursor(t, i - 1) \in 0..t[i].start /\ t[i].start \in 0..Len(text)
    BY <1>1, <1>3, CursorFacts
  <2>2. Cursor(t, i - 1) \in 0..Len(text) /\ t[i].start \in Cursor(t, i - 1)..Len(text)
    BY <1>3, <2>1
  <2>3. Slice(text, Cursor(t, i - 1), t[i].start) \in Seq(B)
    BY <2>2, SliceFacts
  <2>4. t[i].put \in Seq(B)
    BY <1>1 DEF EditOver
  <2> QED
    BY <1>1, <2>3, <2>4
<1>5. G \in [(1..n) \X X -> X]
  BY <1>2, <1>4
<1>6. PICK z : z = <<>>
  OBVIOUS
<1>7. z \in X
  BY <1>1, <1>6
<1>8. PICK f : Steps(f, X, z, n, G)
  BY <1>3, <1>5, <1>7, StepsExist
<1>9. ASSUME NEW i \in 1..n
      PROVE  f[i] = f[i - 1] \o Slice(text, Cursor(t, i - 1), t[i].start) \o t[i].put
  <2>1. i - 1 \in 0..n /\ f[i - 1] \in X /\ <<i, f[i - 1]>> \in (1..n) \X X
    BY <1>3, <1>8 DEF Steps
  <2> QED
    BY <1>2, <1>8, <2>1 DEF Steps
<1>10. IsEmission(text, t, f)
  <2>1. f = [i \in 0..n |-> f[i]] /\ f[0] = <<>>
    BY <1>6, <1>8 DEF Steps
  <2>2. \A i \in 0..n :
          f[i] = IF i = 0
                 THEN <<>>
                 ELSE f[i - 1] \o Slice(text, Cursor(t, i - 1), t[i].start) \o t[i].put
    <3> TAKE i \in 0..n
    <3>1. CASE i = 0
      BY <2>1, <3>1
    <3>2. CASE i # 0
      <4>1. i \in 1..n
        BY <1>3, <3>2
      <4> QED
        BY <1>9, <3>2, <4>1
    <3> QED
      BY <3>1, <3>2
  <2> QED
    BY <1>1, <2>1, <2>2 DEF IsEmission
<1>11. PICK g : g = CHOOSE h : IsEmission(text, t, h)
  OBVIOUS
<1>12. IsEmission(text, t, g)
  BY <1>10, <1>11
<1>13. Emitted(text, t) = g[n]
  BY <1>1, <1>11 DEF Emitted, IsEmission
<1>14. /\ DOMAIN g = 0..n /\ g[0] = z
       /\ g = [i \in 0..n |-> g[i]]
       /\ \A i \in 1..n : g[i] = g[i - 1] \o Slice(text, Cursor(t, i - 1), t[i].start) \o t[i].put
  BY <1>1, <1>3, <1>6, <1>12 DEF IsEmission
<1> DEFINE U == {i \in Nat : i <= n => g[i] \in X}
<1>15. 0 \in U
  BY <1>7, <1>14
<1>16. ASSUME NEW i \in Nat, i \in U PROVE i + 1 \in U
  <2> SUFFICES ASSUME i + 1 <= n PROVE g[i + 1] \in X
    OBVIOUS
  <2>1. i + 1 \in 1..n /\ (i + 1) - 1 = i /\ i <= n
    BY <1>3
  <2>2. g[i] \in X
    BY <1>16, <2>1
  <2>3. g[i] \o Slice(text, Cursor(t, (i + 1) - 1), t[i + 1].start) \o t[i + 1].put \in X
    BY <1>4, <2>1, <2>2
  <2> QED
    BY <1>14, <2>1, <2>3
<1> HIDE DEF U
<1>17. Nat \subseteq U
  BY <1>15, <1>16, NatInductionOnSets
<1>18. \A i \in 0..n : g[i] \in X
  BY <1>3, <1>17 DEF U
<1>19. g \in [0..n -> X]
  BY <1>14, <1>18
<1> QED
  BY <1>1, <1>12, <1>13, <1>19

(***************************************************************************)
(* Putting one edit into the source up to its end and a rest.              *)
(***************************************************************************)
PutsBehind(text, e, rest) ==
  Put(Slice(text, 0, e.end) \o rest, e) = Slice(text, 0, e.start) \o e.put \o rest

(***************************************************************************)
(* An edit put into a text of which everything behind the edit was         *)
(* changed.                                                                *)
(***************************************************************************)
LEMMA PutBehind ==
  ASSUME NEW B, NEW text \in Seq(B), NEW e \in EditOver(B, Len(text)), NEW rest \in Seq(B)
  PROVE  PutsBehind(text, e, rest)
<1>1. PICK x, y : x = Slice(text, 0, e.end) /\ y = x \o rest
  OBVIOUS
<1>2. /\ Len(text) \in Nat /\ e.start \in 0..Len(text) /\ e.end \in e.start..Len(text)
      /\ e.put \in Seq(B)
  BY DEF EditOver
<1>3. x \in Seq(B) /\ Len(x) = e.end /\ y \in Seq(B) /\ Len(y) = e.end + Len(rest)
      /\ Len(rest) \in Nat
  <2>1. 0 \in 0..Len(text) /\ e.end \in 0..Len(text) /\ e.end - 0 = e.end
    BY <1>2
  <2>2. x \in Seq(B) /\ Len(x) = e.end
    BY <1>1, <2>1, SliceFacts
  <2> QED
    BY <1>1, <1>2, <2>2
<1>4. Slice(y, 0, e.start) = Slice(text, 0, e.start)
  <2>1. 0 \in 0..Len(x) /\ e.start \in 0..Len(x)
    BY <1>2, <1>3
  <2>2. Slice(y, 0, e.start) = Slice(x, 0, e.start)
    BY <1>1, <1>3, <2>1, SliceFront
  <2>3. PICK z : z = Slice(text, e.end, Len(text))
    OBVIOUS
  <2>4. z \in Seq(B) /\ text = x \o z
    <3>1. 0 \in 0..Len(text) /\ e.end \in 0..Len(text) /\ Len(text) \in e.end..Len(text)
      BY <1>2
    <3>2. Slice(text, 0, Len(text)) = x \o z
      BY <1>1, <2>3, <3>1, SliceSplit
    <3> QED
      BY <2>3, <3>1, <3>2, SliceAll, SliceFacts
  <2>5. Slice(text, 0, e.start) = Slice(x, 0, e.start)
    BY <1>3, <2>1, <2>4, SliceFront
  <2> QED
    BY <2>2, <2>5
<1>5. Slice(y, e.end, Len(y)) = rest
  <2>1. 0 \in 0..Len(rest) /\ Len(rest) \in 0..Len(rest)
    BY <1>3
  <2>2. Slice(x \o rest, Len(x) + 0, Len(x) + Len(rest)) = Slice(rest, 0, Len(rest))
    BY <1>3, <2>1, SliceBack
  <2>3. Len(x) + 0 = e.end /\ Len(x) + Len(rest) = Len(y)
    BY <1>2, <1>3
  <2> QED
    BY <1>1, <2>2, <2>3, SliceAll
<1> QED
  BY <1>1, <1>4, <1>5 DEF Put, PutsBehind

(***************************************************************************)
(* The edits put one at a time, from the last to the first (OneByOne).     *)
(***************************************************************************)
IsBackward(text, t, last) ==
  last = [n \in 0..Len(t) |->
            IF n = 0 THEN text ELSE Put(last[n - 1], t[Len(t) + 1 - n])]

(***************************************************************************)
(* The rests: what the pass still has to emit, one edit more in each step  *)
(* from the last edit back to the first.                                   *)
(***************************************************************************)
IsRests(B, text, t, rest) ==
  /\ rest \in [0..Len(t) -> Seq(B)]
  /\ rest[0] = Slice(text, Cursor(t, Len(t)), Len(text))
  /\ \A k \in 1..Len(t) :
       rest[k] = Slice(text, Cursor(t, Len(t) - k), t[Len(t) - k + 1].start)
                   \o (t[Len(t) - k + 1].put \o rest[k - 1])

(***************************************************************************)
(* The bytes between two edits, and what is put there.                     *)
(***************************************************************************)
LEMMA GapFacts ==
  ASSUME NEW B, NEW text \in Seq(B), NEW t \in Seq(EditOver(B, Len(text))),
         EditsInLine(text, t), NEW k \in 1..Len(t)
  PROVE  /\ Slice(text, Cursor(t, k - 1), t[k].start) \in Seq(B)
         /\ t[k].put \in Seq(B)
         /\ Cursor(t, k - 1) \in 0..t[k].start
         /\ t[k].start \in 0..Len(text)
         /\ t[k].end \in t[k].start..Len(text)
         /\ Cursor(t, k) = t[k].end
<1>1. Len(text) \in Nat /\ Len(t) \in Nat
  OBVIOUS
<1>2. /\ Cursor(t, k - 1) \in 0..t[k].start /\ Cursor(t, k) = t[k].end
      /\ t[k].start \in 0..Len(text) /\ t[k].end \in t[k].start..Len(text)
  BY <1>1, CursorFacts
<1>3. Cursor(t, k - 1) \in 0..Len(text) /\ t[k].start \in Cursor(t, k - 1)..Len(text)
  BY <1>1, <1>2
<1>4. t[k].put \in Seq(B)
  BY DEF EditOver
<1> QED
  BY <1>2, <1>3, <1>4, SliceFacts

(***************************************************************************)
(* The bytes behind the last edit.                                         *)
(***************************************************************************)
LEMMA LastCursor ==
  ASSUME NEW B, NEW text \in Seq(B), NEW t \in Seq(EditOver(B, Len(text))), EditsInLine(text, t)
  PROVE  /\ Cursor(t, Len(t)) \in 0..Len(text)
         /\ Slice(text, Cursor(t, Len(t)), Len(text)) \in Seq(B)
<1>1. Len(t) \in Nat /\ Len(text) \in Nat
  OBVIOUS
<1>2. CASE Len(t) = 0
  <2>1. Cursor(t, Len(t)) = 0
    BY <1>2 DEF Cursor
  <2> QED
    BY <1>1, <2>1, SliceFacts
<1>3. CASE Len(t) # 0
  <2>1. Len(t) \in 1..Len(t)
    BY <1>1, <1>3
  <2>2. /\ t[Len(t)].start \in 0..Len(text) /\ t[Len(t)].end \in t[Len(t)].start..Len(text)
        /\ Cursor(t, Len(t)) = t[Len(t)].end
    BY <2>1, GapFacts
  <2>3. Cursor(t, Len(t)) \in 0..Len(text) /\ Len(text) \in Cursor(t, Len(t))..Len(text)
    BY <1>1, <2>2
  <2> QED
    BY <2>3, SliceFacts
<1> QED
  BY <1>2, <1>3

(***************************************************************************)
(* There are such rests for edits in line.                                 *)
(***************************************************************************)
LEMMA RestsExist ==
  ASSUME NEW B, NEW text \in Seq(B), NEW t \in Seq(EditOver(B, Len(text))), EditsInLine(text, t)
  PROVE  \E rest : IsRests(B, text, t, rest)
<1>1. PICK n, X : n = Len(t) /\ X = Seq(B)
  OBVIOUS
<1>2. PICK G : G = [q \in (1..n) \X X |->
                      Slice(text, Cursor(t, n - q[1]), t[n - q[1] + 1].start)
                        \o (t[n - q[1] + 1].put \o q[2])]
  OBVIOUS
<1>3. n \in Nat
  BY <1>1
<1>4. ASSUME NEW k \in 1..n, NEW x \in X
      PROVE  Slice(text, Cursor(t, n - k), t[n - k + 1].start) \o (t[n - k + 1].put \o x) \in X
  <2>1. PICK j : j = n - k + 1
    OBVIOUS
  <2>2. j \in 1..Len(t) /\ j - 1 = n - k
    BY <1>1, <1>3, <2>1
  <2>3. Slice(text, Cursor(t, j - 1), t[j].start) \in Seq(B) /\ t[j].put \in Seq(B)
    BY <2>2, GapFacts
  <2>4. Slice(text, Cursor(t, j - 1), t[j].start) \o (t[j].put \o x) \in X
    BY <1>1, <2>3
  <2> QED
    BY <2>1, <2>2, <2>4
<1>5. G \in [(1..n) \X X -> X]
  BY <1>2, <1>4
<1>6. PICK z : z = Slice(text, Cursor(t, Len(t)), Len(text))
  OBVIOUS
<1>7. z \in X
  BY <1>1, <1>6, LastCursor
<1>8. PICK f : Steps(f, X, z, n, G)
  BY <1>3, <1>5, <1>7, StepsExist
<1>9. ASSUME NEW k \in 1..n
      PROVE  f[k] = Slice(text, Cursor(t, n - k), t[n - k + 1].start)
                      \o (t[n - k + 1].put \o f[k - 1])
  <2>1. k - 1 \in 0..n /\ f[k - 1] \in X /\ <<k, f[k - 1]>> \in (1..n) \X X
    BY <1>3, <1>8 DEF Steps
  <2> QED
    BY <1>2, <1>8, <2>1 DEF Steps
<1>10. f \in [0..n -> X] /\ f[0] = z
  BY <1>8 DEF Steps
<1>11. IsRests(B, text, t, f)
  BY <1>1, <1>6, <1>9, <1>10 DEF IsRests
<1> QED
  BY <1>11

(***************************************************************************)
(* Whatever edit the pass has come to, the result is what it has emitted   *)
(* so far and the rest.                                                    *)
(***************************************************************************)
Continues(out, rest, n, k) == out[n - k] \o rest[k] = out[n] \o rest[0]

(***************************************************************************)
(* What the pass has emitted and the rest make the same text after any     *)
(* edit.                                                                   *)
(***************************************************************************)
LEMMA EmittedAndRest ==
  ASSUME NEW B, NEW text, NEW t, Orderly(B, text, t),
         NEW out, Emission(B, text, t, out),
         NEW rest, IsRests(B, text, t, rest),
         NEW k \in 0..Len(t)
  PROVE  Continues(out, rest, Len(t), k)
<1>1. PICK n : n = Len(t)
  OBVIOUS
<1>2. n \in Nat /\ n = Len(t)
  BY <1>1 DEF Orderly
<1>3. \A i \in 1..n :
        out[i] = out[i - 1] \o Slice(text, Cursor(t, i - 1), t[i].start) \o t[i].put
  <2>1. IsEmission(text, t, out)
    BY DEF Emission
  <2> QED
    BY <1>2, <2>1 DEF IsEmission
<1> DEFINE Whole(i) == out[n - i] \o rest[i] = out[n] \o rest[0]
           U == {i \in Nat : i <= n => Whole(i)}
<1>4. 0 \in U
  <2>1. n - 0 = n
    BY <1>2
  <2> QED
    BY <2>1
<1>5. ASSUME NEW i \in Nat, i \in U, i + 1 <= n PROVE Whole(i + 1)
  <2>1. PICK j, gap, put, u, v :
          /\ j = n - i
          /\ gap = Slice(text, Cursor(t, j - 1), t[j].start) /\ put = t[j].put
          /\ u = out[j - 1] /\ v = rest[i]
    OBVIOUS
  <2>2. /\ j \in 1..n /\ j - 1 \in 0..n /\ i + 1 \in 1..n /\ i \in 0..n /\ i <= n
        /\ j - 1 = n - (i + 1) /\ n - (i + 1) + 1 = j /\ (i + 1) - 1 = i /\ j # 0
    BY <1>2, <1>5, <2>1
  <2>3. gap \in Seq(B) /\ put \in Seq(B)
    BY <1>2, <2>1, <2>2, GapFacts DEF Orderly
  <2>4. u \in Seq(B) /\ v \in Seq(B)
    BY <1>2, <2>1, <2>2 DEF IsRests, Emission
  <2>5. out[j] = (u \o gap) \o put
    <3>1. out[j] = out[j - 1] \o Slice(text, Cursor(t, j - 1), t[j].start) \o t[j].put
      BY <1>3, <2>2
    <3> QED
      BY <2>1, <3>1
  <2>6. rest[i + 1] = gap \o (put \o v)
    BY <1>2, <2>1, <2>2 DEF IsRests
  <2>7. u \o (gap \o (put \o v)) = ((u \o gap) \o put) \o v
    <3>1. Regroups(u, gap, put, v)
      BY <2>3, <2>4, ConcatFour
    <3> QED
      BY <3>1 DEF Regroups
  <2>8. out[j] \o v = out[n] \o rest[0]
    BY <1>5, <2>1, <2>2
  <2> QED
    BY <2>1, <2>2, <2>5, <2>6, <2>7, <2>8
<1>6. Nat \subseteq U
  <2> HIDE DEF Whole
  <2>1. \A i \in Nat : i \in U => i + 1 \in U
    BY <1>5
  <2> HIDE DEF U
  <2> QED
    BY <1>4, <2>1, NatInductionOnSets
<1> HIDE DEF U
<1>7. Whole(k)
  <2>1. k \in U /\ k <= n
    BY <1>2, <1>6
  <2> HIDE DEF Whole
  <2> QED
    BY <2>1 DEF U
<1> QED
  BY <1>1, <1>7 DEF Continues

(***************************************************************************)
(* Putting in the edits one at a time gives the source in front of the     *)
(* edits that are left and the rest.                                       *)
(***************************************************************************)
LEMMA OneByOneFacts ==
  ASSUME NEW B, NEW text, NEW t, Orderly(B, text, t),
         NEW rest, IsRests(B, text, t, rest)
  PROVE  OneByOne(text, t) = rest[Len(t)]
<1>1. PICK n : n = Len(t)
  OBVIOUS
<1>2. n \in Nat /\ n = Len(t) /\ Len(text) \in Nat
  BY <1>1 DEF Orderly
<1>3. PICK g : g = [k \in 0..n |-> Slice(text, 0, Cursor(t, n - k)) \o rest[k]]
  OBVIOUS
<1>4. g[0] = text
  <2>1. Cursor(t, n) \in 0..Len(text) /\ rest[0] = Slice(text, Cursor(t, n), Len(text))
    BY <1>2, LastCursor DEF IsRests, Orderly
  <2>2. /\ 0 \in 0..Len(text) /\ Cursor(t, n) \in 0..Len(text)
        /\ Len(text) \in Cursor(t, n)..Len(text)
    BY <1>2, <2>1
  <2>3. Slice(text, 0, Len(text)) = Slice(text, 0, Cursor(t, n)) \o Slice(text, Cursor(t, n), Len(text))
    BY <2>2, SliceSplit DEF Orderly
  <2>4. g[0] = Slice(text, 0, Cursor(t, n - 0)) \o rest[0] /\ n - 0 = n
    BY <1>2, <1>3
  <2> QED
    BY <2>1, <2>3, <2>4, SliceAll, Zenon DEF Orderly
<1>5. ASSUME NEW k \in 1..n PROVE g[k] = Put(g[k - 1], t[n + 1 - k])
  <2>1. PICK j, gap, put, v, c :
          /\ j = n - k + 1 /\ c = Cursor(t, j - 1)
          /\ gap = Slice(text, c, t[j].start) /\ put = t[j].put
          /\ v = rest[k - 1]
    OBVIOUS
  <2>2. /\ j \in 1..n /\ j - 1 = n - k /\ n - (k - 1) = j /\ n + 1 - k = j
        /\ k - 1 \in 0..n /\ k \in 0..n
    BY <1>2, <2>1
  <2>3. /\ gap \in Seq(B) /\ put \in Seq(B) /\ c \in 0..t[j].start
        /\ t[j].start \in 0..Len(text) /\ Cursor(t, j) = t[j].end
        /\ t[j] \in EditOver(B, Len(text))
    <3>1. text \in Seq(B) /\ t \in Seq(EditOver(B, Len(text))) /\ EditsInLine(text, t)
      BY DEF Orderly
    <3>2. j \in 1..Len(t)
      BY <1>2, <2>2
    <3>3. t[j] \in EditOver(B, Len(text))
      BY <3>1, <3>2
    <3>4. /\ Slice(text, Cursor(t, j - 1), t[j].start) \in Seq(B)
          /\ t[j].put \in Seq(B)
          /\ Cursor(t, j - 1) \in 0..t[j].start
          /\ t[j].start \in 0..Len(text)
          /\ Cursor(t, j) = t[j].end
      BY <3>1, <3>2, GapFacts
    <3> QED
      BY <2>1, <3>3, <3>4
  <2>4. v \in Seq(B) /\ rest[k] = gap \o (put \o v)
    BY <1>2, <2>1, <2>2 DEF IsRests
  <2>5. g[k - 1] = Slice(text, 0, t[j].end) \o v
    BY <1>3, <2>1, <2>2, <2>3
  <2>6. Put(g[k - 1], t[j]) = Slice(text, 0, t[j].start) \o put \o v
    <3>1. PICK e : e = t[j]
      OBVIOUS
    <3>2. PutsBehind(text, e, v)
      BY <2>3, <2>4, <3>1, PutBehind DEF Orderly
    <3> QED
      BY <2>1, <2>5, <3>1, <3>2, Zenon DEF PutsBehind
  <2>7. g[k] = Slice(text, 0, c) \o (gap \o (put \o v))
    BY <1>3, <2>1, <2>2, <2>4
  <2>8. 0 \in 0..Len(text) /\ c \in 0..Len(text) /\ t[j].start \in c..Len(text)
    BY <1>2, <2>3
  <2>9. PICK x : x = Slice(text, 0, c)
    OBVIOUS
  <2>10. x \in Seq(B) /\ Slice(text, 0, t[j].start) = x \o gap
    BY <2>1, <2>8, <2>9, SliceFacts, SliceSplit DEF Orderly
  <2>11. x \o (gap \o (put \o v)) = ((x \o gap) \o put) \o v
    <3>1. Regroups(x, gap, put, v)
      BY <2>3, <2>4, <2>10, ConcatFour
    <3> QED
      BY <3>1 DEF Regroups
  <2> QED
    BY <2>2, <2>6, <2>7, <2>9, <2>10, <2>11
<1>6. IsBackward(text, t, g)
  <2>1. g = [k \in 0..n |-> g[k]]
    BY <1>3
  <2>2. \A k \in 0..n : g[k] = IF k = 0 THEN text ELSE Put(g[k - 1], t[n + 1 - k])
    <3> TAKE k \in 0..n
    <3>1. CASE k = 0
      BY <1>4, <3>1
    <3>2. CASE k # 0
      <4>1. k \in 1..n
        BY <1>2, <3>2
      <4> QED
        BY <1>5, <3>2, <4>1
    <3> QED
      BY <3>1, <3>2
  <2> QED
    BY <1>1, <2>1, <2>2 DEF IsBackward
<1>7. PICK h : h = CHOOSE last : IsBackward(text, t, last)
  OBVIOUS
<1>8. IsBackward(text, t, h)
  BY <1>6, <1>7
<1>9. OneByOne(text, t) = h[n]
  BY <1>1, <1>7 DEF OneByOne, IsBackward
<1>10. h[0] = text /\ \A k \in 1..n : h[k] = Put(h[k - 1], t[n + 1 - k])
  BY <1>1, <1>2, <1>8 DEF IsBackward
<1> DEFINE U == {i \in Nat : i <= n => h[i] = g[i]}
<1>11. 0 \in U
  BY <1>4, <1>10
<1>12. ASSUME NEW i \in Nat, i \in U PROVE i + 1 \in U
  <2> SUFFICES ASSUME i + 1 <= n PROVE h[i + 1] = g[i + 1]
    OBVIOUS
  <2>1. i + 1 \in 1..n /\ (i + 1) - 1 = i /\ i <= n
    BY <1>2
  <2>2. h[i] = g[i]
    BY <1>12, <2>1
  <2> QED
    BY <1>5, <1>10, <2>1, <2>2
<1> HIDE DEF U
<1>13. Nat \subseteq U
  BY <1>11, <1>12, NatInductionOnSets
<1>14. h[n] = g[n]
  BY <1>2, <1>13 DEF U
<1>15. g[n] = rest[n]
  <2>1. Cursor(t, n - n) = 0
    BY <1>2 DEF Cursor
  <2>2. 0 \in 0..Len(text) /\ 0 - 0 = 0
    BY <1>2
  <2>3. Slice(text, 0, 0) \in Seq(B) /\ Len(Slice(text, 0, 0)) = 0
    BY <2>2, SliceFacts DEF Orderly
  <2>4. Slice(text, 0, 0) = <<>>
    BY <2>3
  <2>5. rest[n] \in Seq(B)
    BY <1>2 DEF IsRests
  <2>6. g[n] = Slice(text, 0, Cursor(t, n - n)) \o rest[n]
    BY <1>2, <1>3
  <2> QED
    BY <2>1, <2>4, <2>5, <2>6, ConcatEmptySeq
<1> QED
  BY <1>1, <1>9, <1>14, <1>15

-----------------------------------------------------------------------------
(***************************************************************************)
(* ApplyEdits.                                                             *)
(***************************************************************************)
LEMMA SortedInOrder ==
  ASSUME NEW B, NEW text \in Seq(B), NEW t \in Seq(EditOver(B, Len(text))), Pairwise(t)
  PROVE  Orderly(B, text, t)
<1>1. /\ Len(text) \in Nat /\ Len(t) \in Nat
      /\ \A k \in 1..Len(t) : t[k] \in EditOver(B, Len(text))
  OBVIOUS
<1>2. \A k \in 1..Len(t) : /\ t[k].start \in 0..Len(text)
                           /\ t[k].end \in 0..Len(text) /\ t[k].start <= t[k].end
  BY <1>1 DEF EditOver
<1>3. \A k \in 1..Len(t) : t[k].end \in t[k].start..Len(text)
  BY <1>1, <1>2
<1> QED
  BY <1>2, <1>3 DEF Orderly, EditsInLine

(***************************************************************************)
(* The result of a pass, at each of its edits what was emitted and a rest. *)
(***************************************************************************)
OnePass(B, text, t, result, out, rest) ==
  /\ Emission(B, text, t, out)
  /\ IsRests(B, text, t, rest)
  /\ result \in Seq(B)
  /\ \A k \in 0..Len(t) : result = out[Len(t) - k] \o rest[k]

(***************************************************************************)
(* ApplyEdits accepts edits of which none starts before the end of an      *)
(* earlier one, and makes such a pass.                                     *)
(***************************************************************************)
LEMMA ApplyFacts ==
  ASSUME NEW B, NEW text \in Seq(B), NEW s \in Seq(EditOver(B, Len(text))),
         Pairwise(SortEdits(s))
  PROVE  /\ ApplyEdits(text, s).ok
         /\ Orderly(B, text, SortEdits(s))
         /\ \E out, rest : OnePass(B, text, SortEdits(s), ApplyEdits(text, s).text, out, rest)
<1>1. PICK t, n, result :
        t = SortEdits(s) /\ n = Len(t)
        /\ result = Emitted(text, t) \o Slice(text, Cursor(t, Len(t)), Len(text))
  OBVIOUS
<1>2. Len(text) \in Nat /\ t \in Seq(EditOver(B, Len(text))) /\ n \in Nat
  BY <1>1, EditsSorted
<1>3. Orderly(B, text, t)
  BY <1>1, <1>2, SortedInOrder
<1>4. ApplyEdits(text, s).ok /\ ApplyEdits(text, s).text = result
  <2>1. ValidEdits(text, t)
    BY <1>1, <1>2, ValidMeansPairwise
  <2> QED
    BY <1>1, <2>1 DEF ApplyEdits
<1>5. EditsInLine(text, t)
  BY <1>3 DEF Orderly
<1>6. PICK out : Emission(B, text, t, out) /\ Emitted(text, t) = out[n]
  BY <1>1, <1>2, <1>5, EmittedRecursion DEF Emission
<1>7. PICK rest : IsRests(B, text, t, rest)
  BY <1>2, <1>5, RestsExist
<1>8. result = out[n] \o rest[0]
  BY <1>1, <1>6, <1>7, Zenon DEF IsRests
<1>9. ASSUME NEW k \in 0..n PROVE result = out[n - k] \o rest[k]
  <2>1. Continues(out, rest, n, k)
    BY <1>1, <1>3, <1>6, <1>7, EmittedAndRest
  <2> QED
    BY <1>8, <2>1, Zenon DEF Continues
<1>10. result \in Seq(B)
  <2>1. out[n] \in Seq(B) /\ rest[0] \in Seq(B)
    <3>1. n \in 0..n /\ 0 \in 0..n
      BY <1>2
    <3>2. out \in [0..n -> Seq(B)] /\ rest \in [0..n -> Seq(B)]
      BY <1>1, <1>6, <1>7, Zenon DEF Emission, IsRests
    <3> QED
      BY <3>1, <3>2
  <2> QED
    BY <1>8, <2>1
<1>11. OnePass(B, text, t, result, out, rest)
  BY <1>1, <1>6, <1>7, <1>9, <1>10 DEF OnePass
<1> QED
  BY <1>1, <1>3, <1>4, <1>11

(***************************************************************************)
(* A single forward pass gives what the edits give one by one, last first. *)
(***************************************************************************)
LEMMA OnePassIsOneByOne ==
  ASSUME NEW B, NEW text, NEW t, Orderly(B, text, t),
         NEW result, NEW out, NEW rest, OnePass(B, text, t, result, out, rest)
  PROVE  result = OneByOne(text, t)
<1>1. PICK n : n = Len(t)
  OBVIOUS
<1>2. n \in Nat /\ n \in 0..n /\ n - n = 0 /\ 0 \in 0..n
  BY <1>1 DEF Orderly
<1>3. result = out[0] \o rest[n]
  BY <1>1, <1>2 DEF OnePass
<1>4. out[0] = <<>>
  BY <1>1, <1>2 DEF OnePass, Emission, IsEmission
<1>5. rest[n] \in Seq(B)
  BY <1>1, <1>2 DEF OnePass, IsRests
<1>6. <<>> \o rest[n] = rest[n]
  BY <1>5, ConcatEmptySeq
<1>7. OneByOne(text, t) = rest[n]
  BY <1>1, OneByOneFacts DEF OnePass
<1> QED
  BY <1>3, <1>4, <1>6, <1>7, Zenon

(***************************************************************************)
(* The result begins as the source does, up to the first edit.             *)
(***************************************************************************)
LEMMA BeginsAlike ==
  ASSUME NEW B, NEW text, NEW t, Orderly(B, text, t), Len(t) # 0,
         NEW result, NEW out, NEW rest, OnePass(B, text, t, result, out, rest)
  PROVE  /\ t[1].start \in 0..Len(text)
         /\ t[1].start <= Len(result)
         /\ Slice(result, 0, t[1].start) = Slice(text, 0, t[1].start)
<1>1. PICK n, x, y :
        /\ n = Len(t)
        /\ x = Slice(text, Cursor(t, n - n), t[n - n + 1].start)
        /\ y = t[n - n + 1].put \o rest[n - 1]
  OBVIOUS
<1>2. /\ n \in Nat /\ n \in 1..n /\ n \in 0..n /\ n - n = 0 /\ n - n + 1 = 1 /\ 1 \in 1..n
      /\ n - 1 \in 0..n /\ 1 - 1 = 0
  BY <1>1 DEF Orderly
<1>3. result = rest[n]
  BY OnePassIsOneByOne, OneByOneFacts, <1>1 DEF OnePass
<1>4. rest[n] = x \o y
  BY <1>1, <1>2, Zenon DEF OnePass, IsRests
<1>5. Slice(text, Cursor(t, 1 - 1), t[1].start) \in Seq(B) /\ t[1].put \in Seq(B)
      /\ t[1].start \in 0..Len(text)
  BY <1>1, <1>2, GapFacts DEF Orderly
<1>6. Cursor(t, 0) = 0
  BY DEF Cursor
<1>7. x = Slice(text, 0, t[1].start)
  BY <1>1, <1>2, <1>6
<1>8. rest[n - 1] \in Seq(B)
  BY <1>1, <1>2 DEF OnePass, IsRests
<1>9. y \in Seq(B)
  <2>1. y = t[1].put \o rest[n - 1]
    BY <1>1, <1>2
  <2> QED
    BY <1>5, <1>8, <2>1
<1>10. /\ text \in Seq(B) /\ Len(text) \in Nat /\ 0 \in 0..Len(text) /\ t[1].start - 0 = t[1].start
       /\ t[1].start \in 0..Len(text)
  BY <1>5 DEF Orderly
<1>11. x \in Seq(B) /\ Len(x) = t[1].start
  BY <1>7, <1>10, SliceFacts
<1>12. Slice(x \o y, 0, t[1].start) = Slice(x, 0, t[1].start)
  <2>1. 0 \in 0..Len(x) /\ t[1].start \in 0..Len(x)
    BY <1>10, <1>11
  <2> QED
    BY <1>9, <1>11, <2>1, SliceFront
<1>13. Slice(x, 0, t[1].start) = x
  BY <1>11, SliceAll
<1>14. Len(x \o y) = Len(x) + Len(y) /\ Len(y) \in Nat
  BY <1>9, <1>11
<1>15. t[1].start <= Len(x \o y)
  BY <1>10, <1>11, <1>14
<1> QED
  BY <1>3, <1>4, <1>7, <1>10, <1>12, <1>13, <1>15

-----------------------------------------------------------------------------
(***************************************************************************)
(* changedSpan.                                                            *)
(***************************************************************************)
(***************************************************************************)
(* Two texts agree in their first, or in their last, n bytes.              *)
(***************************************************************************)
AlikeUpTo(x, y, n) == n <= Len(y) /\ Slice(x, 0, n) = Slice(y, 0, n)

AlikeFrom(x, y, n) ==
  n <= Len(y) /\ Slice(x, Len(x) - n, Len(x)) = Slice(y, Len(y) - n, Len(y))

(***************************************************************************)
(* commonPrefixLen is the longest agreement in front.                      *)
(***************************************************************************)
LEMMA CommonPrefixFacts ==
  ASSUME NEW B, NEW x \in Seq(B), NEW y \in Seq(B)
  PROVE  /\ CommonPrefix(x, y) \in 0..Len(x)
         /\ AlikeUpTo(x, y, CommonPrefix(x, y))
         /\ \A n \in 0..Len(x) : AlikeUpTo(x, y, n) => n <= CommonPrefix(x, y)
<1>1. PICK m, T : /\ m = Min({Len(x), Len(y)})
                  /\ T = {n \in 0..m : SubSeq(x, 1, n) = SubSeq(y, 1, n)}
  OBVIOUS
<1>2. Len(x) \in Nat /\ Len(y) \in Nat
  OBVIOUS
<1>3. m = IF Len(x) <= Len(y) THEN Len(x) ELSE Len(y)
  BY <1>1, <1>2, MinOfTwo
<1>4. CommonPrefix(x, y) = Max(T)
  BY <1>1 DEF CommonPrefix
<1>5. \A n \in 0..Len(x) : n \in T <=> AlikeUpTo(x, y, n)
  <2> TAKE n \in 0..Len(x)
  <2>1. n \in 0..m <=> n <= Len(y)
    BY <1>2, <1>3
  <2>2. Slice(x, 0, n) = SubSeq(x, 1, n) /\ Slice(y, 0, n) = SubSeq(y, 1, n)
    BY DEF Slice
  <2> QED
    BY <1>1, <2>1, <2>2 DEF AlikeUpTo
<1>6. m \in Nat /\ T \subseteq 0..m /\ T \subseteq 0..Len(x)
  <2>1. T \subseteq 0..m
    BY <1>1, Zenon
  <2>2. m \in Nat /\ 0..m \subseteq 0..Len(x)
    BY <1>2, <1>3
  <2> QED
    BY <2>1, <2>2
<1>7. 0 \in T
  <2>1. SubSeq(x, 1, 0) = <<>> /\ SubSeq(y, 1, 0) = <<>>
    BY SubSeqEmpty
  <2>2. 0 \in 0..m
    BY <1>6
  <2> QED
    BY <1>1, <2>1, <2>2
<1>8. Max(T) \in T /\ \A n \in T : n <= Max(T)
  BY <1>6, <1>7, MaxFacts
<1> QED
  BY <1>4, <1>5, <1>6, <1>8

(***************************************************************************)
(* The longest agreement at the back.                                      *)
(***************************************************************************)
LEMMA CommonSuffixFacts ==
  ASSUME NEW B, NEW x \in Seq(B), NEW y \in Seq(B)
  PROVE  /\ CommonSuffix(x, y) \in 0..Len(x)
         /\ AlikeFrom(x, y, CommonSuffix(x, y))
         /\ \A n \in 0..Len(x) : AlikeFrom(x, y, n) => n <= CommonSuffix(x, y)
<1>1. PICK m, T :
        /\ m = Min({Len(x), Len(y)})
        /\ T = {n \in 0..m : Slice(x, Len(x) - n, Len(x)) = Slice(y, Len(y) - n, Len(y))}
  OBVIOUS
<1>2. Len(x) \in Nat /\ Len(y) \in Nat
  OBVIOUS
<1>3. m = IF Len(x) <= Len(y) THEN Len(x) ELSE Len(y)
  BY <1>1, <1>2, MinOfTwo
<1>4. CommonSuffix(x, y) = Max(T)
  BY <1>1 DEF CommonSuffix
<1>5. \A n \in 0..Len(x) : n \in T <=> AlikeFrom(x, y, n)
  <2> TAKE n \in 0..Len(x)
  <2>1. n \in 0..m <=> n <= Len(y)
    BY <1>2, <1>3
  <2> QED
    BY <1>1, <2>1 DEF AlikeFrom
<1>6. m \in Nat /\ T \subseteq 0..m /\ T \subseteq 0..Len(x)
  <2>1. T \subseteq 0..m
    BY <1>1, Zenon
  <2>2. m \in Nat /\ 0..m \subseteq 0..Len(x)
    BY <1>2, <1>3
  <2> QED
    BY <2>1, <2>2
<1>7. 0 \in T
  <2>1. /\ SubSeq(x, Len(x) + 1, Len(x)) = <<>> /\ SubSeq(y, Len(y) + 1, Len(y)) = <<>>
        /\ Len(x) - 0 = Len(x) /\ Len(y) - 0 = Len(y)
    BY <1>2, SubSeqEmpty
  <2>2. Slice(x, Len(x) - 0, Len(x)) = Slice(y, Len(y) - 0, Len(y))
    BY <2>1 DEF Slice
  <2>3. 0 \in 0..m
    BY <1>6
  <2> QED
    BY <1>1, <2>2, <2>3
<1>8. Max(T) \in T /\ \A n \in T : n <= Max(T)
  BY <1>6, <1>7, MaxFacts
<1> QED
  BY <1>4, <1>5, <1>6, <1>8

(***************************************************************************)
(* Slices of a slice that goes on to the end.                              *)
(***************************************************************************)
LEMMA SliceOfRest ==
  ASSUME NEW B, NEW x \in Seq(B), NEW p \in 0..Len(x), NEW k \in 0..(Len(x) - p)
  PROVE  /\ Slice(x, p, Len(x)) \in Seq(B)
         /\ Len(Slice(x, p, Len(x))) = Len(x) - p
         /\ Slice(Slice(x, p, Len(x)), Len(x) - p - k, Len(x) - p)
              = Slice(x, Len(x) - k, Len(x))
<1>1. PICK n, u, v : n = Len(x) /\ u = Slice(x, 0, p) /\ v = Slice(x, p, n)
  OBVIOUS
<1>2. n \in Nat /\ p \in 0..n /\ 0 \in 0..n /\ n \in p..n /\ p - 0 = p /\ n \in 0..n /\ 0 \in 0..n
  BY <1>1
<1>3. u \in Seq(B) /\ Len(u) = p /\ v \in Seq(B) /\ Len(v) = n - p
  BY <1>1, <1>2, SliceFacts
<1>4. x = u \o v
  <2>1. Slice(x, 0, n) = Slice(x, 0, p) \o Slice(x, p, n)
    BY <1>1, <1>2, SliceSplit
  <2>2. Slice(x, 0, n) = x
    BY <1>1, SliceAll
  <2> QED
    BY <1>1, <2>1, <2>2
<1>5. PICK s, e : s = n - p - k /\ e = n - p
  OBVIOUS
<1>6. s \in 0..Len(v) /\ e \in s..Len(v) /\ Len(u) + s = n - k /\ Len(u) + e = n
  BY <1>1, <1>2, <1>3, <1>5
<1>7. Slice(u \o v, Len(u) + s, Len(u) + e) = Slice(v, s, e)
  BY <1>3, <1>6, SliceBack
<1>8. Slice(x, n - k, n) = Slice(v, s, e)
  BY <1>4, <1>6, <1>7
<1> QED
  BY <1>1, <1>3, <1>5, <1>8

(***************************************************************************)
(* The difference of two texts: what they have in common before it, and    *)
(* what they have in common behind it.                                     *)
(***************************************************************************)
Differs(x, y, d, p, q) ==
  /\ p \in 0..Len(x) /\ p \in 0..Len(y)
  /\ q \in 0..(Len(x) - p) /\ q \in 0..(Len(y) - p)
  /\ d.start = p /\ d.endBefore = Len(x) - q /\ d.endAfter = Len(y) - q
  /\ AlikeUpTo(x, y, p)
  /\ AlikeFrom(x, y, q)
  /\ \A n \in 0..Len(x) : AlikeUpTo(x, y, n) => n <= p
  /\ \A n \in 0..(Len(x) - p) : n <= Len(y) - p /\ AlikeFrom(x, y, n) => n <= q

(***************************************************************************)
(* changedSpan of two different texts is their difference.                 *)
(***************************************************************************)
LEMMA ChangedSpanDiffers ==
  ASSUME NEW B, NEW x \in Seq(B), NEW y \in Seq(B), x # y
  PROVE  \E p, q : Differs(x, y, changedSpan(x, y), p, q)
<1>1. PICK p, u, v, q :
        /\ p = CommonPrefix(x, y)
        /\ u = Slice(x, p, Len(x)) /\ v = Slice(y, p, Len(y))
        /\ q = CommonSuffix(u, v)
  OBVIOUS
<1>2. Len(x) \in Nat /\ Len(y) \in Nat
  OBVIOUS
<1>3. /\ p \in 0..Len(x) /\ p <= Len(y) /\ AlikeUpTo(x, y, p)
      /\ \A n \in 0..Len(x) : AlikeUpTo(x, y, n) => n <= p
  <2>1. /\ p \in 0..Len(x) /\ AlikeUpTo(x, y, p)
        /\ \A n \in 0..Len(x) : AlikeUpTo(x, y, n) => n <= p
    BY <1>1, CommonPrefixFacts
  <2> QED
    BY <2>1 DEF AlikeUpTo
<1>4. p \in 0..Len(y) /\ 0 \in 0..(Len(x) - p) /\ 0 \in 0..(Len(y) - p)
  BY <1>2, <1>3
<1>5. u \in Seq(B) /\ Len(u) = Len(x) - p /\ v \in Seq(B) /\ Len(v) = Len(y) - p
  BY <1>1, <1>3, <1>4, SliceOfRest
<1>6. /\ q \in 0..Len(u) /\ AlikeFrom(u, v, q)
      /\ \A n \in 0..Len(u) : AlikeFrom(u, v, n) => n <= q
  BY <1>1, <1>5, CommonSuffixFacts
<1>7. ASSUME NEW n \in 0..(Len(x) - p)
      PROVE  AlikeFrom(u, v, n) <=> n <= Len(y) - p /\ AlikeFrom(x, y, n)
  <2>1. AlikeFrom(u, v, n) => n <= Len(y) - p
    BY <1>5 DEF AlikeFrom
  <2>2. ASSUME n <= Len(y) - p PROVE AlikeFrom(u, v, n) <=> AlikeFrom(x, y, n)
    <3>1. n \in 0..(Len(y) - p) /\ n <= Len(y) /\ n <= Len(v)
      BY <1>2, <1>4, <1>5, <2>2
    <3>2. Slice(u, Len(x) - p - n, Len(x) - p) = Slice(x, Len(x) - n, Len(x))
      BY <1>1, <1>3, SliceOfRest
    <3>3. Slice(v, Len(y) - p - n, Len(y) - p) = Slice(y, Len(y) - n, Len(y))
      BY <1>1, <1>4, <3>1, SliceOfRest
    <3> QED
      BY <1>5, <3>1, <3>2, <3>3 DEF AlikeFrom
  <2> QED
    BY <2>1, <2>2
<1>8. q \in 0..(Len(x) - p) /\ q \in 0..(Len(y) - p) /\ AlikeFrom(x, y, q)
  <2>1. q \in 0..(Len(x) - p)
    BY <1>5, <1>6
  <2>2. q <= Len(y) - p /\ AlikeFrom(x, y, q)
    BY <1>6, <1>7, <2>1
  <2> QED
    BY <1>2, <1>4, <2>1, <2>2
<1>9. \A n \in 0..(Len(x) - p) : n <= Len(y) - p /\ AlikeFrom(x, y, n) => n <= q
  BY <1>5, <1>6, <1>7
<1>10. /\ changedSpan(x, y).start = p
       /\ changedSpan(x, y).endBefore = Len(x) - q
       /\ changedSpan(x, y).endAfter = Len(y) - q
  BY <1>1 DEF changedSpan
<1>11. Differs(x, y, changedSpan(x, y), p, q)
  BY <1>3, <1>4, <1>8, <1>9, <1>10 DEF Differs
<1> QED
  BY <1>11

(***************************************************************************)
(* changedSpan of a text and itself is empty, at the end of the text.      *)
(***************************************************************************)
LEMMA ChangedSpanOfSame ==
  ASSUME NEW B, NEW x \in Seq(B)
  PROVE  /\ changedSpan(x, x).start = Len(x)
         /\ changedSpan(x, x).endBefore = Len(x)
         /\ changedSpan(x, x).endAfter = Len(x)
<1>1. PICK n, p : n = Len(x) /\ p = CommonPrefix(x, x)
  OBVIOUS
<1>2. n \in Nat /\ n \in 0..n
  BY <1>1
<1>3. AlikeUpTo(x, x, n)
  BY <1>1, <1>2 DEF AlikeUpTo
<1>4. p \in 0..n /\ n <= p
  BY <1>1, <1>2, <1>3, CommonPrefixFacts
<1>5. p = n
  BY <1>2, <1>4
<1> QED
  BY <1>1, <1>5 DEF changedSpan

(***************************************************************************)
(* Whatever the texts, changedSpan starts where their longest agreement    *)
(* ends.                                                                   *)
(***************************************************************************)
LEMMA ChangedSpanStart ==
  ASSUME NEW B, NEW x \in Seq(B), NEW y \in Seq(B)
  PROVE  /\ changedSpan(x, y).start \in 0..Len(x)
         /\ \A n \in 0..Len(x) : AlikeUpTo(x, y, n) => n <= changedSpan(x, y).start
<1>1. changedSpan(x, y).start = CommonPrefix(x, y)
  BY DEF changedSpan
<1> QED
  BY <1>1, CommonPrefixFacts

(***************************************************************************)
(* y is x with the bytes s to e replaced by the bytes s to c of y.         *)
(***************************************************************************)
IsPatch(x, y, s, c, e) == Slice(x, 0, s) \o Slice(y, s, c) \o Slice(x, e, Len(x)) = y

(***************************************************************************)
(* Texts that agree in front and at the back differ by a patch between.    *)
(***************************************************************************)
LEMMA PatchOfAlike ==
  ASSUME NEW B, NEW x \in Seq(B), NEW y \in Seq(B),
         NEW s \in 0..Len(x), s \in 0..Len(y),
         NEW k \in 0..(Len(x) - s), k \in 0..(Len(y) - s),
         AlikeUpTo(x, y, s), AlikeFrom(x, y, k)
  PROVE  IsPatch(x, y, s, Len(y) - k, Len(x) - k)
<1>1. PICK m, c : m = Len(y) /\ c = m - k
  OBVIOUS
<1>2. m \in Nat /\ 0 \in 0..m /\ c \in 0..m /\ s \in 0..c /\ c \in s..m /\ m \in c..m
  BY <1>1
<1>3. PICK u, v, w : u = Slice(y, 0, s) /\ v = Slice(y, s, c) /\ w = Slice(y, c, m)
  OBVIOUS
<1>4. Slice(y, 0, c) = u \o v
  BY <1>1, <1>2, <1>3, SliceSplit
<1>5. Slice(y, 0, m) = Slice(y, 0, c) \o w
  BY <1>1, <1>2, <1>3, SliceSplit
<1>6. Slice(y, 0, m) = y
  BY <1>1, SliceAll
<1>7. Slice(x, 0, s) = u /\ Slice(x, Len(x) - k, Len(x)) = w
  BY <1>1, <1>3 DEF AlikeUpTo, AlikeFrom
<1>8. (u \o v) \o w = y
  BY <1>4, <1>5, <1>6
<1> QED
  BY <1>1, <1>3, <1>7, <1>8, Zenon DEF IsPatch

(***************************************************************************)
(* Texts that differ by a patch agree in front of it and behind it.        *)
(***************************************************************************)
LEMMA AlikeOfPatch ==
  ASSUME NEW B, NEW x \in Seq(B), NEW y \in Seq(B),
         NEW s \in 0..Len(x), NEW e \in s..Len(x), NEW c \in s..Len(y),
         IsPatch(x, y, s, c, e)
  PROVE  /\ Len(x) - e = Len(y) - c
         /\ AlikeUpTo(x, y, s)
         /\ AlikeFrom(x, y, Len(x) - e)
<1>1. PICK l, m, u, v, w, uv :
        /\ l = Len(x) /\ m = Len(y)
        /\ u = Slice(x, 0, s) /\ v = Slice(y, s, c) /\ w = Slice(x, e, l)
        /\ uv = u \o v
  OBVIOUS
<1>2. /\ l \in Nat /\ m \in Nat /\ 0 \in 0..l /\ s \in 0..l /\ e \in 0..l /\ l \in e..l
      /\ s \in 0..m /\ c \in s..m
  BY <1>1
<1>3. u \in Seq(B) /\ Len(u) = s
  BY <1>1, <1>2, SliceFacts
<1>4. v \in Seq(B) /\ Len(v) = c - s
  BY <1>1, <1>2, SliceFacts
<1>5. w \in Seq(B) /\ Len(w) = l - e
  BY <1>1, <1>2, SliceFacts
<1>6. uv \in Seq(B) /\ Len(uv) = c
  BY <1>1, <1>2, <1>3, <1>4
<1>7. uv \o w = y
  BY <1>1, Zenon DEF IsPatch
<1>8. m = c + (l - e)
  <2>0. uv \in Seq(B) /\ w \in Seq(B)
    BY <1>5, <1>6
  <2>1. Len(uv \o w) = Len(uv) + Len(w)
    BY <2>0
  <2>2. Len(y) = Len(uv) + Len(w)
    BY <1>7, <2>1, Zenon
  <2> QED
    BY <1>1, <1>5, <1>6, <2>2
<1>9. Slice(y, 0, s) = u
  <2>1. 0 \in 0..Len(uv) /\ s \in 0..Len(uv) /\ 0 \in 0..Len(u) /\ s \in 0..Len(u)
    BY <1>2, <1>3, <1>6
  <2>2. Slice(uv \o w, 0, s) = Slice(uv, 0, s)
    BY <1>5, <1>6, <2>1, SliceFront
  <2>3. Slice(u \o v, 0, s) = Slice(u, 0, s)
    BY <1>3, <1>4, <2>1, SliceFront
  <2>4. Slice(u, 0, s) = u
    BY <1>3, SliceAll
  <2> QED
    BY <1>1, <1>7, <2>2, <2>3, <2>4
<1>10. Slice(y, c, m) = w
  <2>1. /\ 0 \in 0..Len(w) /\ Len(w) \in 0..Len(w)
        /\ Len(uv) + 0 = c /\ Len(uv) + Len(w) = m
    BY <1>2, <1>5, <1>6, <1>8
  <2>2. Slice(uv \o w, Len(uv) + 0, Len(uv) + Len(w)) = Slice(w, 0, Len(w))
    BY <1>5, <1>6, <2>1, SliceBack
  <2>3. Slice(w, 0, Len(w)) = w
    BY <1>5, SliceAll
  <2> QED
    BY <1>7, <2>1, <2>2, <2>3
<1>11. AlikeUpTo(x, y, s)
  BY <1>1, <1>2, <1>9 DEF AlikeUpTo
<1>12. AlikeFrom(x, y, l - e)
  <2>1. l - (l - e) = e /\ m - (l - e) = c /\ l - e <= m
    BY <1>2, <1>8
  <2> QED
    BY <1>1, <1>10, <2>1 DEF AlikeFrom
<1> QED
  BY <1>1, <1>2, <1>8, <1>11, <1>12

(***************************************************************************)
(* Texts that agree in their last k bytes agree in fewer.                  *)
(***************************************************************************)
LEMMA AlikeFromLess ==
  ASSUME NEW B, NEW x \in Seq(B), NEW y \in Seq(B),
         NEW k \in 0..Len(x), AlikeFrom(x, y, k), NEW j \in 0..k
  PROVE  AlikeFrom(x, y, j)
<1>1. PICK l, m : l = Len(x) /\ m = Len(y)
  OBVIOUS
<1>2. /\ l \in Nat /\ m \in Nat /\ k <= m /\ l - k \in 0..l /\ m - k \in 0..m
      /\ l - (l - k) = k /\ m - (m - k) = k /\ j \in 0..(l - (l - k)) /\ j \in 0..(m - (m - k))
      /\ j <= m
  BY <1>1 DEF AlikeFrom
<1>3. PICK u, v : u = Slice(x, l - k, l) /\ v = Slice(y, m - k, m)
  OBVIOUS
<1>4. u = v
  BY <1>1, <1>3 DEF AlikeFrom
<1>5. Slice(u, k - j, k) = Slice(x, l - j, l)
  BY <1>1, <1>2, <1>3, SliceOfRest
<1>6. Slice(v, k - j, k) = Slice(y, m - j, m)
  BY <1>1, <1>2, <1>3, SliceOfRest
<1> QED
  BY <1>1, <1>2, <1>4, <1>5, <1>6 DEF AlikeFrom

(***************************************************************************)
(* No shorter span would do: what is taken away in front is the longest    *)
(* common prefix, and behind it the longest suffix that is left.           *)
(***************************************************************************)
LEMMA PatchNotShorter ==
  ASSUME NEW B, NEW x \in Seq(B), NEW y \in Seq(B), NEW d, NEW p, NEW q,
         Differs(x, y, d, p, q),
         NEW s \in 0..Len(x), NEW e \in s..Len(x), NEW c \in s..Len(y),
         Len(x) - e = Len(y) - c, AlikeUpTo(x, y, s), AlikeFrom(x, y, Len(x) - e)
  PROVE  e - s >= d.endBefore - d.start
<1>1. PICK l, m, k : l = Len(x) /\ m = Len(y) /\ k = l - e
  OBVIOUS
<1>2. /\ l \in Nat /\ m \in Nat /\ k \in 0..l /\ e = l - k /\ c = m - k
      /\ s + k <= l /\ s + k <= m /\ s \in 0..l
  BY <1>1
<1>3. /\ p \in 0..l /\ p \in 0..m /\ q \in 0..(l - p) /\ q \in 0..(m - p)
      /\ d.start = p /\ d.endBefore = l - q
  BY <1>1 DEF Differs
<1>4. s <= p
  BY <1>1, <1>2 DEF Differs
<1>5. \A n \in 0..(l - p) : n <= m - p /\ AlikeFrom(x, y, n) => n <= q
  BY <1>1 DEF Differs
<1>6. CASE k <= l - p /\ k <= m - p
  <2>1. k \in 0..(l - p) /\ k <= m - p /\ AlikeFrom(x, y, k)
    BY <1>1, <1>2, <1>3, <1>6
  <2>2. k <= q
    BY <1>5, <2>1
  <2> QED
    BY <1>2, <1>3, <1>4, <2>2
<1>7. CASE ~(k <= l - p /\ k <= m - p)
  <2>1. PICK j \in 0..k : j \in 0..(l - p) /\ j <= m - p /\ (j = l - p \/ j = m - p)
    <3>1. CASE l <= m
      <4>1. l - p \in 0..k /\ l - p \in 0..(l - p) /\ l - p <= m - p
        BY <1>2, <1>3, <1>7, <3>1
      <4> QED
        BY <4>1
    <3>2. CASE m <= l
      <4>1. m - p \in 0..k /\ m - p \in 0..(l - p) /\ m - p <= m - p
        BY <1>2, <1>3, <1>7, <3>2
      <4> QED
        BY <4>1
    <3> QED
      BY <1>2, <3>1, <3>2
  <2>2. AlikeFrom(x, y, j)
    BY <1>1, <1>2, <2>1, AlikeFromLess
  <2>3. j <= q
    BY <1>5, <2>1, <2>2
  <2> QED
    BY <1>2, <1>3, <1>4, <2>1, <2>3
<1> QED
  BY <1>6, <1>7

(***************************************************************************)
(* The span of changedSpan, of equal texts too, is a patch, and no shorter *)
(* span is one.                                                            *)
(***************************************************************************)
LEMMA ChangedSpanPatches ==
  ASSUME NEW B, NEW x \in Seq(B), NEW y \in Seq(B), NEW d, d = changedSpan(x, y)
  PROVE  /\ IsPatch(x, y, d.start, d.endAfter, d.endBefore)
         /\ \A s \in 0..Len(x) : \A e \in s..Len(x), c \in s..Len(y) :
              IsPatch(x, y, s, c, e) => e - s >= d.endBefore - d.start
<1>1. Len(x) \in Nat /\ Len(y) \in Nat
  OBVIOUS
<1>2. CASE x # y
  <2>1. PICK p, q : Differs(x, y, d, p, q)
    BY <1>2, ChangedSpanDiffers
  <2>2. /\ p \in 0..Len(x) /\ p \in 0..Len(y)
        /\ q \in 0..(Len(x) - p) /\ q \in 0..(Len(y) - p)
        /\ d.start = p /\ d.endBefore = Len(x) - q /\ d.endAfter = Len(y) - q
        /\ AlikeUpTo(x, y, p) /\ AlikeFrom(x, y, q)
    BY <2>1 DEF Differs
  <2>3. IsPatch(x, y, p, Len(y) - q, Len(x) - q)
    BY <2>2, PatchOfAlike
  <2>4. ASSUME NEW s \in 0..Len(x), NEW e \in s..Len(x), NEW c \in s..Len(y),
               IsPatch(x, y, s, c, e)
        PROVE  e - s >= d.endBefore - d.start
    <3>1. Len(x) - e = Len(y) - c /\ AlikeUpTo(x, y, s) /\ AlikeFrom(x, y, Len(x) - e)
      BY <2>4, AlikeOfPatch
    <3> QED
      BY <2>1, <3>1, PatchNotShorter
  <2> QED
    BY <2>2, <2>3, <2>4
<1>3. CASE x = y
  <2>1. d.start = Len(x) /\ d.endBefore = Len(x) /\ d.endAfter = Len(x)
    BY <1>3, ChangedSpanOfSame
  <2>2. /\ Len(x) \in 0..Len(x) /\ 0 \in 0..(Len(x) - Len(x)) /\ Len(x) - 0 = Len(x)
        /\ 0 <= Len(x) /\ Len(x) <= Len(x)
    BY <1>1
  <2>3. AlikeUpTo(x, x, Len(x)) /\ AlikeFrom(x, x, 0)
    BY <2>2 DEF AlikeUpTo, AlikeFrom
  <2>4. IsPatch(x, x, Len(x), Len(x) - 0, Len(x) - 0)
    BY <2>2, <2>3, PatchOfAlike
  <2> QED
    BY <1>1, <1>3, <2>1, <2>2, <2>4
<1> QED
  BY <1>2, <1>3

(***************************************************************************)
(* A member below which there is none is the least.                        *)
(***************************************************************************)
LEMMA MinBelow ==
  ASSUME NEW T, T \subseteq Nat, NEW f \in T, \A x \in T : f <= x
  PROVE  Min(T) = f
<1>1. \A y \in T : (\A x \in T : y <= x) => y = f
  OBVIOUS
<1>2. \E y \in T : \A x \in T : y <= x
  OBVIOUS
<1>3. Min(T) \in T /\ \A x \in T : Min(T) <= x
  BY <1>2 DEF Min
<1> QED
  BY <1>1, <1>3

(***************************************************************************)
(* A slice of a slice.                                                     *)
(***************************************************************************)
LEMMA SliceOfSlice ==
  ASSUME NEW B, NEW x \in Seq(B), NEW s \in 0..Len(x), NEW e \in s..Len(x),
         NEW u \in 0..(e - s), NEW v \in u..(e - s)
  PROVE  Slice(Slice(x, s, e), u, v) = Slice(x, s + u, s + v)
<1>1. PICK w, n : w = Slice(x, s, e) /\ n = e - s
  OBVIOUS
<1>2. /\ w \in Seq(B) /\ Len(w) = n /\ n \in Nat /\ Len(x) \in Nat
      /\ \A i \in 1..n : w[i] = x[s + i]
  <2>1. /\ Slice(x, s, e) \in Seq(B) /\ Len(Slice(x, s, e)) = e - s
        /\ \A i \in 1..(e - s) : Slice(x, s, e)[i] = x[s + i]
    BY SliceFacts
  <2>2. e - s \in Nat /\ Len(x) \in Nat
    OBVIOUS
  <2> QED
    BY <1>1, <2>1, <2>2
<1>3. /\ u \in 0..Len(w) /\ v \in u..Len(w)
      /\ s + u \in 0..Len(x) /\ s + v \in (s + u)..Len(x) /\ (s + v) - (s + u) = v - u
  BY <1>1, <1>2
<1>4. PICK y, z : y = Slice(w, u, v) /\ z = Slice(x, s + u, s + v)
  OBVIOUS
<1>5. y \in Seq(B) /\ Len(y) = v - u /\ \A i \in 1..(v - u) : y[i] = w[u + i]
  BY <1>2, <1>3, <1>4, SliceFacts
<1>6. z \in Seq(B) /\ Len(z) = v - u /\ \A i \in 1..(v - u) : z[i] = x[(s + u) + i]
  <2>1. PICK o, k : o = s + u /\ k = s + v
    OBVIOUS
  <2>2. o \in 0..Len(x) /\ k \in o..Len(x) /\ k - o = v - u /\ z = Slice(x, o, k)
    BY <1>3, <1>4, <2>1
  <2>3. z \in Seq(B) /\ Len(z) = k - o /\ \A i \in 1..(k - o) : z[i] = x[o + i]
    BY <2>2, SliceFacts
  <2> QED
    BY <2>1, <2>2, <2>3
<1>7. ASSUME NEW i \in 1..Len(y) PROVE y[i] = z[i]
  <2>1. i \in 1..(v - u) /\ u + i \in 1..n /\ s + (u + i) = (s + u) + i
    BY <1>1, <1>5
  <2> QED
    BY <1>2, <1>5, <1>6, <2>1
<1> QED
  BY <1>1, <1>4, <1>5, <1>6, <1>7, SeqEqual

(***************************************************************************)
(* The bytes [a, b) of x are still together in y.                          *)
(***************************************************************************)
Moves(x, y, a, b) ==
  \E d \in -a .. (Len(y) - b) : Slice(y, a + d, b + d) = Slice(x, a, b)

(***************************************************************************)
(* Bytes in the common front stay where they are.                          *)
(***************************************************************************)
LEMMA StaysInFront ==
  ASSUME NEW B, NEW x \in Seq(B), NEW y \in Seq(B), NEW p \in 0..Len(x),
         AlikeUpTo(x, y, p), NEW a \in 0..p, NEW b \in a..p
  PROVE  Moves(x, y, a, b)
<1>1. /\ Len(x) \in Nat /\ Len(y) \in Nat /\ p \in 0..Len(y) /\ 0 \in 0..Len(x) /\ 0 \in 0..Len(y)
      /\ a \in 0..(p - 0) /\ b \in a..(p - 0) /\ 0 + a = a /\ 0 + b = b /\ a + 0 = a /\ b + 0 = b
      /\ 0 \in -a .. (Len(y) - b)
  BY DEF AlikeUpTo
<1>2. Slice(Slice(x, 0, p), a, b) = Slice(x, a, b)
  BY <1>1, SliceOfSlice
<1>3. Slice(Slice(y, 0, p), a, b) = Slice(y, a, b)
  BY <1>1, SliceOfSlice
<1>4. Slice(y, a + 0, b + 0) = Slice(x, a, b)
  BY <1>1, <1>2, <1>3 DEF AlikeUpTo
<1> QED
  BY <1>1, <1>4 DEF Moves

(***************************************************************************)
(* Bytes in the common back move by the difference of the lengths.         *)
(***************************************************************************)
LEMMA StaysBehind ==
  ASSUME NEW B, NEW x \in Seq(B), NEW y \in Seq(B), NEW q \in 0..Len(x),
         AlikeFrom(x, y, q), NEW a \in (Len(x) - q)..Len(x), NEW b \in a..Len(x)
  PROVE  Moves(x, y, a, b)
<1>1. PICK l, m, u, v : l = Len(x) /\ m = Len(y) /\ u = a - (l - q) /\ v = b - (l - q)
  OBVIOUS
<1>2. /\ l \in Nat /\ m \in Nat /\ q \in 0..m
      /\ l - q \in 0..l /\ m - q \in 0..m /\ l \in (l - q)..l /\ m \in (m - q)..m
      /\ u \in 0..(l - (l - q)) /\ v \in u..(l - (l - q))
      /\ u \in 0..(m - (m - q)) /\ v \in u..(m - (m - q))
      /\ (l - q) + u = a /\ (l - q) + v = b
      /\ (m - q) + u = a + (m - l) /\ (m - q) + v = b + (m - l)
      /\ m - l \in -a .. (m - b)
  BY <1>1 DEF AlikeFrom
<1>3. Slice(Slice(x, l - q, l), u, v) = Slice(x, a, b)
  <2>1. PICK s : s = l - q
    OBVIOUS
  <2>2. s \in 0..Len(x) /\ l \in s..Len(x) /\ u \in 0..(l - s) /\ v \in u..(l - s)
    BY <1>1, <1>2, <2>1
  <2>3. Slice(Slice(x, s, l), u, v) = Slice(x, s + u, s + v)
    BY <2>2, SliceOfSlice
  <2> QED
    BY <1>2, <2>1, <2>3
<1>4. Slice(Slice(y, m - q, m), u, v) = Slice(y, a + (m - l), b + (m - l))
  <2>1. PICK s : s = m - q
    OBVIOUS
  <2>2. s \in 0..Len(y) /\ m \in s..Len(y) /\ u \in 0..(m - s) /\ v \in u..(m - s)
    BY <1>1, <1>2, <2>1
  <2>3. Slice(Slice(y, s, m), u, v) = Slice(y, s + u, s + v)
    BY <2>2, SliceOfSlice
  <2> QED
    BY <1>2, <2>1, <2>3
<1>5. Slice(y, a + (m - l), b + (m - l)) = Slice(x, a, b)
  BY <1>1, <1>3, <1>4 DEF AlikeFrom
<1> QED
  BY <1>1, <1>2, <1>5 DEF Moves

(***************************************************************************)
(* A whole-text rewrite moves the bytes [a, b) together if the span in     *)
(* which it differs is in front of them or behind them.                    *)
(***************************************************************************)
LEMMA RewriteMoves ==
  ASSUME NEW B, NEW x \in Seq(B), NEW y \in Seq(B), NEW d, d = changedSpan(x, y),
         NEW a \in 0..Len(x), NEW b \in a..Len(x),
         d.endBefore <= a \/ b <= d.start
  PROVE  Moves(x, y, a, b)
<1>1. CASE x = y
  <2>1. Len(x) \in 0..Len(x) /\ a \in 0..Len(x) /\ b \in a..Len(x) /\ Len(x) <= Len(x)
    OBVIOUS
  <2>2. AlikeUpTo(x, x, Len(x))
    BY <2>1 DEF AlikeUpTo
  <2> QED
    BY <1>1, <2>1, <2>2, StaysInFront
<1>2. CASE x # y
  <2>1. PICK p, q : Differs(x, y, d, p, q)
    BY <1>2, ChangedSpanDiffers
  <2>2. /\ p \in 0..Len(x) /\ q \in 0..(Len(x) - p) /\ Len(x) \in Nat
        /\ d.start = p /\ d.endBefore = Len(x) - q
        /\ AlikeUpTo(x, y, p) /\ AlikeFrom(x, y, q)
    BY <2>1 DEF Differs
  <2>3. CASE b <= p
    <3>1. a \in 0..p /\ b \in a..p
      BY <2>2, <2>3
    <3> QED
      BY <2>2, <3>1, StaysInFront
  <2>4. CASE Len(x) - q <= a
    <3>1. q \in 0..Len(x) /\ a \in (Len(x) - q)..Len(x)
      BY <2>2, <2>4
    <3> QED
      BY <2>2, <3>1, StaysBehind
  <2> QED
    BY <2>2, <2>3, <2>4
<1> QED
  BY <1>1, <1>2

(***************************************************************************)
(* And so do edits that are each in front of them or behind them.          *)
(***************************************************************************)
LEMMA EditsMove ==
  ASSUME NEW B, NEW x, NEW t, Orderly(B, x, t),
         NEW y, NEW out, NEW rest, OnePass(B, x, t, y, out, rest),
         NEW a \in 0..Len(x), NEW b \in a..Len(x),
         \A k \in 1..Len(t) : t[k].end <= a \/ b <= t[k].start
  PROVE  Moves(x, y, a, b)
<1>1. PICK n, l : n = Len(t) /\ l = Len(x)
  OBVIOUS
<1>2. /\ n \in Nat /\ l \in Nat /\ x \in Seq(B)
      /\ \A k \in 1..n : /\ t[k].start \in 0..l /\ t[k].end \in t[k].start..l
      /\ \A k, j \in 1..n : k < j => t[k].end <= t[j].start
  BY <1>1 DEF Orderly, EditsInLine, Pairwise
<1>3. PICK T : T = {k \in 0..n : k = 0 \/ t[k].end <= a}
  OBVIOUS
<1>4. PICK m : m = Max(T)
  OBVIOUS
<1>5. m \in T /\ \A k \in T : k <= m
  <2>1. T \subseteq 0..n /\ 0 \in T
    BY <1>2, <1>3
  <2> QED
    BY <1>2, <1>4, <2>1, MaxFacts
<1>6. m \in 0..n /\ n - m \in 0..n /\ n - (n - m) = m /\ (m < n => n - m \in 1..n /\ m + 1 \in 1..n)
  BY <1>2, <1>3, <1>5
<1>7. PICK c, e : c = Cursor(t, m) /\ e = IF m < n THEN t[m + 1].start ELSE l
  OBVIOUS
<1>8. c \in 0..a
  <2>1. CASE m = 0
    BY <1>7, <2>1 DEF Cursor
  <2>2. CASE m # 0
    <3>1. m \in 1..n /\ t[m].end <= a
      BY <1>3, <1>5, <1>6, <2>2
    <3> QED
      BY <1>2, <1>7, <2>2, <3>1 DEF Cursor
  <2> QED
    BY <2>1, <2>2
<1>9. e \in b..l
  <2>1. CASE m < n
    <3>1. m + 1 \notin T /\ m + 1 \in 1..n
      BY <1>2, <1>5, <1>6, <2>1
    <3>2. ~(t[m + 1].end <= a)
      BY <1>2, <1>3, <3>1
    <3>3. b <= t[m + 1].start
      BY <1>1, <3>1, <3>2
    <3> QED
      BY <1>1, <1>2, <1>7, <2>1, <3>1, <3>3
  <2>2. CASE ~(m < n)
    BY <1>1, <1>2, <1>7, <2>2
  <2> QED
    BY <2>1, <2>2
<1>10. c \in 0..l /\ e \in c..l
  BY <1>1, <1>2, <1>8, <1>9
<1>11. PICK g : g = Slice(x, c, e)
  OBVIOUS
<1>12. g \in Seq(B) /\ Len(g) = e - c
  BY <1>1, <1>2, <1>10, <1>11, SliceFacts
<1>13. \E z \in Seq(B) : rest[n - m] = g \o z
  <2>1. CASE m < n
    <3>1. rest[n - m] = Slice(x, Cursor(t, n - (n - m)), t[n - (n - m) + 1].start)
                          \o (t[n - (n - m) + 1].put \o rest[(n - m) - 1])
      BY <1>1, <1>6, <2>1, Zenon DEF OnePass, IsRests
    <3>2. PICK z : z = t[m + 1].put \o rest[(n - m) - 1]
      OBVIOUS
    <3>3. z \in Seq(B)
      <4>1. t[m + 1].put \in Seq(B)
        <5>1. t \in Seq(EditOver(B, Len(x))) /\ m + 1 \in 1..Len(t)
          BY <1>1, <1>6, <2>1 DEF Orderly
        <5>2. t[m + 1] \in EditOver(B, Len(x))
          BY <5>1
        <5> QED
          BY <5>2 DEF EditOver
      <4>2. rest[(n - m) - 1] \in Seq(B)
        <5>1. (n - m) - 1 \in 0..n
          BY <1>2, <1>6, <2>1
        <5>2. rest \in [0..n -> Seq(B)]
          BY <1>1 DEF OnePass, IsRests
        <5> QED
          BY <5>1, <5>2
      <4> QED
        BY <3>2, <4>1, <4>2
    <3>4. rest[n - m] = g \o z
      BY <1>6, <1>7, <1>11, <2>1, <3>1, <3>2, Zenon
    <3> QED
      BY <3>3, <3>4
  <2>2. CASE ~(m < n)
    <3>1. n - m = 0
      BY <1>2, <1>6, <2>2
    <3>2. rest[0] = g
      BY <1>1, <1>6, <1>7, <1>11, <2>2, <3>1 DEF OnePass, IsRests
    <3>3. g \o <<>> = g
      BY <1>12
    <3>4. rest[n - m] = g \o <<>> /\ <<>> \in Seq(B)
      BY <3>1, <3>2, <3>3
    <3> QED
      BY <3>4
  <2> QED
    BY <2>1, <2>2
<1>14. PICK z \in Seq(B) : rest[n - m] = g \o z
  BY <1>13
<1>15. PICK f, w : f = out[m] /\ w = g \o z
  OBVIOUS
<1>16. f \in Seq(B)
  BY <1>1, <1>6, <1>15 DEF OnePass, Emission
<1>17. y = f \o w
  <2>1. y = out[Len(t) - (n - m)] \o rest[n - m]
    BY <1>1, <1>6 DEF OnePass
  <2> QED
    BY <1>1, <1>6, <1>14, <1>15, <2>1, Zenon
<1>18. /\ w \in Seq(B) /\ Len(w) = (e - c) + Len(z) /\ Len(z) \in Nat
  <2>1. g \in Seq(B) /\ z \in Seq(B)
    BY <1>12
  <2>2. g \o z \in Seq(B) /\ Len(g \o z) = Len(g) + Len(z) /\ Len(z) \in Nat
    BY <2>1
  <2> QED
    BY <1>12, <1>15, <2>2, Zenon
<1>19. PICK u, v : u = a - c /\ v = b - c
  OBVIOUS
<1>20. /\ u \in 0..(e - c) /\ v \in u..(e - c) /\ c + u = a /\ c + v = b
       /\ u \in 0..Len(g) /\ v \in u..Len(g) /\ u \in 0..Len(w) /\ v \in u..Len(w)
  BY <1>1, <1>2, <1>8, <1>9, <1>12, <1>18, <1>19
<1>21. Slice(f \o w, Len(f) + u, Len(f) + v) = Slice(w, u, v)
  BY <1>16, <1>18, <1>20, SliceBack
<1>22. Slice(g \o z, u, v) = Slice(g, u, v)
  BY <1>12, <1>20, SliceFront
<1>23. Slice(g, u, v) = Slice(x, a, b)
  <2>1. Slice(Slice(x, c, e), u, v) = Slice(x, c + u, c + v)
    BY <1>1, <1>2, <1>10, <1>20, SliceOfSlice
  <2> QED
    BY <1>11, <1>20, <2>1
<1>24. Slice(y, Len(f) + u, Len(f) + v) = Slice(x, a, b)
  BY <1>15, <1>17, <1>21, <1>22, <1>23, Zenon
<1>25. Len(y) = Len(f) + Len(w) /\ Len(f) \in Nat
  <2>1. Len(f \o w) = Len(f) + Len(w)
    <3>1. f \in Seq(B) /\ w \in Seq(B)
      BY <1>16, <1>18
    <3> QED
      BY <3>1
  <2>2. Len(y) = Len(f) + Len(w)
    BY <1>17, <2>1, Zenon
  <2> QED
    BY <1>16, <2>2
<1>26. PICK d : d = Len(f) - c
  OBVIOUS
<1>27. d \in -a .. (Len(y) - b) /\ a + d = Len(f) + u /\ b + d = Len(f) + v
  <2>1. PICK j, i, h : j = Len(f) /\ i = Len(z) /\ h = Len(y)
    OBVIOUS
  <2>2. /\ j \in Nat /\ i \in Nat /\ h = j + ((e - c) + i) /\ c \in 0..a /\ e \in b..l
        /\ a \in 0..l /\ b \in a..l /\ l \in Nat
    BY <1>1, <1>2, <1>8, <1>9, <1>18, <1>25, <2>1
  <2>3. d = j - c /\ u = a - c /\ v = b - c
    BY <1>19, <1>26, <2>1
  <2>4. d \in -a .. (h - b) /\ a + d = j + u /\ b + d = j + v
    BY <2>2, <2>3
  <2> QED
    BY <2>1, <2>4
<1>28. Slice(y, a + d, b + d) = Slice(x, a, b)
  BY <1>24, <1>27
<1> QED
  BY <1>27, <1>28 DEF Moves
=============================================================================
