--------------------------- MODULE PipelineProofs ---------------------------
(***************************************************************************)
(* The fixpoint search is idempotent, has one result per cycle and         *)
(* implements its closed form, for all texts, stages, registries and       *)
(* numbers of passes.                                                      *)
(***************************************************************************)
EXTENDS Pipeline, Lemmas

(***************************************************************************)
(* bytes.Compare is a total order.                                         *)
(***************************************************************************)
BytesAreOrdered ==
  /\ \A t : ~Less(t, t)
  /\ \A t, u : t = u \/ Less(t, u) \/ Less(u, t)
  /\ \A t, u, v : Less(t, u) /\ Less(u, v) => Less(t, v)

-----------------------------------------------------------------------------
(***************************************************************************)
(* The texts between the stages of a pass.                                 *)
(***************************************************************************)
IsRunOf(r, list, owned, t, n) ==
  r = [k \in 0..n |-> IF k = 0 THEN t ELSE Staged(list[k], owned, r[k - 1])]

LEMMA RunExists ==
  ASSUME NEW list, NEW owned, NEW t
  PROVE  \A n \in Nat : \E r : IsRunOf(r, list, owned, t, n)
<1> DEFINE S == {n \in Nat : \E r : IsRunOf(r, list, owned, t, n)}
<1>1. 0 \in S
  <2>1. IsRunOf([k \in 0..0 |-> t], list, owned, t, 0)
    BY DEF IsRunOf
  <2> QED
    BY <2>1
<1>2. ASSUME NEW n \in Nat, n \in S PROVE n + 1 \in S
  <2>1. PICK r : IsRunOf(r, list, owned, t, n)
    BY <1>2
  <2> DEFINE q == [k \in 0..(n + 1) |-> IF k <= n THEN r[k] ELSE Staged(list[n + 1], owned, r[n])]
  <2>2. \A k \in 0..n : q[k] = r[k]
    OBVIOUS
  <2>3. r[0] = t /\ \A k \in 1..n : r[k] = Staged(list[k], owned, r[k - 1])
    BY <2>1 DEF IsRunOf
  <2>4. IsRunOf(q, list, owned, t, n + 1)
    BY <2>2, <2>3 DEF IsRunOf
  <2> QED
    BY <2>4
<1> HIDE DEF S
<1>3. Nat \subseteq S
  BY <1>1, <1>2, NatInductionOnSets
<1> QED
  BY <1>3 DEF S

LEMMA RunUnique ==
  ASSUME NEW list, NEW owned, NEW t, NEW m \in Nat, NEW n \in Nat, NEW q, NEW r,
         IsRunOf(q, list, owned, t, m), IsRunOf(r, list, owned, t, n)
  PROVE  \A k \in Nat : k <= m /\ k <= n => q[k] = r[k]
<1> DEFINE S == {k \in Nat : k <= m /\ k <= n => q[k] = r[k]}
<1>1. 0 \in S
  BY DEF IsRunOf
<1>2. ASSUME NEW k \in Nat, k \in S PROVE k + 1 \in S
  <2> SUFFICES ASSUME k + 1 <= m, k + 1 <= n PROVE q[k + 1] = r[k + 1]
    OBVIOUS
  <2>1. q[k + 1] = Staged(list[k + 1], owned, q[k])
    BY DEF IsRunOf
  <2>2. r[k + 1] = Staged(list[k + 1], owned, r[k])
    BY DEF IsRunOf
  <2> QED
    BY <2>1, <2>2, <1>2
<1> HIDE DEF S
<1>3. Nat \subseteq S
  BY <1>1, <1>2, NatInductionOnSets
<1> QED
  BY <1>3 DEF S

LEMMA ThroughIs ==
  ASSUME NEW list, NEW owned, NEW t, NEW n \in Nat
  PROVE  \E r : IsRunOf(r, list, owned, t, n) /\ Through(list, owned, t, n) = r[n]
<1> DEFINE r == CHOOSE r : IsRunOf(r, list, owned, t, n)
<1>1. IsRunOf(r, list, owned, t, n)
  BY RunExists
<1>2. Through(list, owned, t, n) = r[n]
  BY DEF Through, IsRunOf
<1> QED
  BY <1>1, <1>2

LEMMA ThroughStart ==
  ASSUME NEW list, NEW owned, NEW t
  PROVE  Through(list, owned, t, 0) = t
  BY ThroughIs DEF IsRunOf

LEMMA ThroughNext ==
  ASSUME NEW list, NEW owned, NEW t, NEW k \in Nat \ {0}
  PROVE  Through(list, owned, t, k) = Staged(list[k], owned, Through(list, owned, t, k - 1))
<1>1. k - 1 \in Nat
  OBVIOUS
<1>2. PICK q : IsRunOf(q, list, owned, t, k - 1) /\ Through(list, owned, t, k - 1) = q[k - 1]
  BY <1>1, ThroughIs
<1>3. PICK r : IsRunOf(r, list, owned, t, k) /\ Through(list, owned, t, k) = r[k]
  BY ThroughIs
<1>4. q[k - 1] = r[k - 1]
  BY <1>1, <1>2, <1>3, RunUnique
<1>5. r[k] = Staged(list[k], owned, r[k - 1])
  BY <1>3 DEF IsRunOf
<1> QED
  BY <1>2, <1>3, <1>4, <1>5

-----------------------------------------------------------------------------
(***************************************************************************)
(* minByteState: a member of the list that no other member is before.      *)
(***************************************************************************)
BestStep(list, k, best) ==
  IF k = 1 THEN list[1] ELSE IF Less(list[k], best) THEN list[k] ELSE best

IsBest(b, list, n) == b = [k \in 1..n |-> BestStep(list, k, b[k - 1])]

LEMMA BestExists ==
  ASSUME NEW list
  PROVE  \A n \in Nat : \E b : IsBest(b, list, n)
<1> DEFINE S == {n \in Nat : \E b : IsBest(b, list, n)}
<1>1. 0 \in S
  <2>1. IsBest([k \in 1..0 |-> list[1]], list, 0)
    BY DEF IsBest
  <2> QED
    BY <2>1
<1>2. ASSUME NEW n \in Nat, n \in S PROVE n + 1 \in S
  <2>1. PICK b : IsBest(b, list, n)
    BY <1>2
  <2> DEFINE c == [k \in 1..(n + 1) |-> IF k <= n THEN b[k] ELSE BestStep(list, n + 1, b[n])]
  <2>2. \A k \in 1..n : c[k] = b[k]
    OBVIOUS
  <2>3. \A k \in 1..n : b[k] = BestStep(list, k, b[k - 1])
    BY <2>1 DEF IsBest
  <2>4. \A k \in 1..(n + 1) : c[k] = BestStep(list, k, c[k - 1])
    <3>1. ASSUME NEW k \in 1..n PROVE c[k] = BestStep(list, k, c[k - 1])
      <4>1. CASE k = 1
        BY <2>2, <2>3, <4>1 DEF BestStep
      <4>2. CASE k # 1
        <5>1. k - 1 \in 1..n
          BY <4>2
        <5>2. c[k] = b[k] /\ c[k - 1] = b[k - 1]
          BY <2>2, <5>1
        <5>3. b[k] = BestStep(list, k, b[k - 1])
          BY <2>3
        <5> HIDE DEF c
        <5> QED
          BY <5>2, <5>3
      <4> QED
        BY <4>1, <4>2
    <3>2. c[n + 1] = BestStep(list, n + 1, c[n])
      <4>0. c[n + 1] = BestStep(list, n + 1, b[n])
        OBVIOUS
      <4>1. CASE n = 0
        BY <4>0, <4>1 DEF BestStep
      <4>2. CASE n # 0
        <5>1. c[n] = b[n]
          BY <2>2, <4>2
        <5> HIDE DEF c
        <5> QED
          BY <4>0, <5>1
      <4> QED
        BY <4>1, <4>2
    <3>3. \A k \in 1..(n + 1) : k \in 1..n \/ k = n + 1
      OBVIOUS
    <3> HIDE DEF c
    <3> QED
      BY <3>1, <3>2, <3>3
  <2>5. IsBest(c, list, n + 1)
    BY <2>4 DEF IsBest
  <2> QED
    BY <2>5
<1> HIDE DEF S
<1>3. Nat \subseteq S
  BY <1>1, <1>2, NatInductionOnSets
<1> QED
  BY <1>3 DEF S

LEMMA BestIsLeast ==
  ASSUME NEW list, NEW n \in Nat \ {0}, NEW b, IsBest(b, list, n), BytesAreOrdered
  PROVE  /\ \E k \in 1..n : b[n] = list[k]
         /\ \A k \in 1..n : ~Less(list[k], b[n])
<1> DEFINE Good(j) == /\ \E k \in 1..j : b[j] = list[k]
                      /\ \A k \in 1..j : ~Less(list[k], b[j])
           S == {j \in 1..n : Good(j)}
<1>1. 1 \in S
  <2>1. b[1] = list[1]
    BY DEF IsBest, BestStep
  <2> QED
    BY <2>1 DEF BytesAreOrdered
<1>2. ASSUME NEW j \in 1..n, j \in S, j < n PROVE j + 1 \in S
  <2>1. b[j + 1] = IF Less(list[j + 1], b[j]) THEN list[j + 1] ELSE b[j]
    BY <1>2 DEF IsBest, BestStep
  <2>2. Good(j) /\ j + 1 \in 1..n
    BY <1>2
  <2>3. CASE Less(list[j + 1], b[j])
    <3>1. ASSUME NEW k \in 1..(j + 1), Less(list[k], b[j + 1]) PROVE FALSE
      <4>1. Less(list[k], b[j])
        BY <2>1, <2>3, <3>1 DEF BytesAreOrdered
      <4>2. k = j + 1
        BY <2>2, <4>1
      <4> QED
        BY <2>1, <2>3, <3>1, <4>2 DEF BytesAreOrdered
    <3> QED
      BY <2>1, <2>2, <2>3, <3>1
  <2>4. CASE ~Less(list[j + 1], b[j])
    BY <2>1, <2>2, <2>4
  <2> QED
    BY <2>3, <2>4
<1> HIDE DEF S
<1>3. \A j \in 1..n : j \in S
  BY <1>1, <1>2, InductionUpTo
<1> QED
  BY <1>3 DEF S

LEMMA MinIsLeast ==
  ASSUME NEW list, Len(list) \in Nat \ {0}, BytesAreOrdered
  PROVE  /\ \E k \in 1..Len(list) : minByteState(list) = list[k]
         /\ \A k \in 1..Len(list) : ~Less(list[k], minByteState(list))
<1> DEFINE b == CHOOSE b : IsBest(b, list, Len(list))
<1>1. IsBest(b, list, Len(list))
  BY BestExists
<1>2. minByteState(list) = b[Len(list)]
  BY DEF minByteState, IsBest, BestStep
<1> HIDE DEF b
<1> QED
  BY <1>1, <1>2, BestIsLeast

-----------------------------------------------------------------------------
(***************************************************************************)
(* The texts a call records are the passes one after the other.  A call    *)
(* has closed a cycle when the pass of the last text is one of them again, *)
(* from m on.                                                              *)
(***************************************************************************)
PassOf(list, owned, t) == Pass(list, owned, t)

IsChain(s, n, list, owned) ==
  /\ s = [k \in 1..n |-> s[k]]
  /\ \A k \in 1..(n - 1) : s[k + 1] = PassOf(list, owned, s[k])

ClosesAt(s, n, m, list, owned) ==
  /\ IsChain(s, n, list, owned)
  /\ PassOf(list, owned, s[n]) = s[m]

Distinct(s, n) == \A k, l \in 1..n : s[k] = s[l] => k = l

LEMMA ChainsAgree ==
  ASSUME NEW list, NEW owned, NEW s, NEW t, NEW n \in Nat, NEW o \in Nat,
         IsChain(s, n, list, owned), IsChain(t, o, list, owned),
         NEW x \in 1..n, NEW y \in 1..o, s[x] = t[y]
  PROVE  \A k \in Nat : x + k <= n /\ y + k <= o => s[x + k] = t[y + k]
<1> DEFINE S == {k \in Nat : x + k <= n /\ y + k <= o => s[x + k] = t[y + k]}
<1>1. 0 \in S
  OBVIOUS
<1>2. ASSUME NEW k \in Nat, k \in S PROVE k + 1 \in S
  <2> SUFFICES ASSUME x + (k + 1) <= n, y + (k + 1) <= o PROVE s[x + (k + 1)] = t[y + (k + 1)]
    OBVIOUS
  <2>1. s[x + k] = t[y + k]
    BY <1>2
  <2>2. x + k \in 1..(n - 1) /\ (x + k) + 1 = x + (k + 1)
    OBVIOUS
  <2>3. y + k \in 1..(o - 1) /\ (y + k) + 1 = y + (k + 1)
    OBVIOUS
  <2>4. s[x + (k + 1)] = PassOf(list, owned, s[x + k])
    BY <2>2 DEF IsChain
  <2>5. t[y + (k + 1)] = PassOf(list, owned, t[y + k])
    BY <2>3 DEF IsChain
  <2> QED
    BY <2>1, <2>4, <2>5
<1> HIDE DEF S
<1>3. Nat \subseteq S
  BY <1>1, <1>2, NatInductionOnSets
<1> QED
  BY <1>3 DEF S

Closed(D, list, owned) == \A t \in D : PassOf(list, owned, t) \in D

LEMMA ChainStaysIn ==
  ASSUME NEW list, NEW owned, NEW s, NEW n \in Nat, IsChain(s, n, list, owned),
         NEW D, Closed(D, list, owned), NEW x \in 1..n, s[x] \in D
  PROVE  \A k \in x..n : s[k] \in D
<1> DEFINE S == {k \in x..n : s[k] \in D}
<1>1. x \in S
  OBVIOUS
<1>2. ASSUME NEW k \in x..n, k \in S, k < n PROVE k + 1 \in S
  <2>1. k \in 1..(n - 1) /\ k + 1 \in x..n /\ s[k] \in D
    BY <1>2
  <2>2. s[k + 1] = PassOf(list, owned, s[k])
    BY <2>1 DEF IsChain
  <2> QED
    BY <2>1, <2>2 DEF Closed
<1> HIDE DEF S
<1>3. \A k \in x..n : k \in S
  BY <1>1, <1>2, InductionUpTo
<1> QED
  BY <1>3 DEF S

(***************************************************************************)
(* A cycle is its only part that no pass leaves.                           *)
(***************************************************************************)
CycleOf(s, n, m) == {s[k] : k \in m..n}

LEMMA CycleIsMinimal ==
  ASSUME NEW list, NEW owned, NEW s, NEW n \in Nat, NEW m \in 1..n,
         ClosesAt(s, n, m, list, owned),
         NEW D, Closed(D, list, owned), NEW x \in 1..n, s[x] \in D
  PROVE  CycleOf(s, n, m) \subseteq D
<1>1. s[n] \in D
  BY ChainStaysIn DEF ClosesAt
<1>2. s[m] \in D
  BY <1>1 DEF ClosesAt, Closed
<1>3. \A k \in m..n : s[k] \in D
  BY <1>2, ChainStaysIn DEF ClosesAt
<1> QED
  BY <1>3 DEF CycleOf

LEMMA RecordedIsClosed ==
  ASSUME NEW list, NEW owned, NEW s, NEW n \in Nat, NEW m \in 1..n,
         ClosesAt(s, n, m, list, owned), NEW l \in 1..m
  PROVE  Closed(CycleOf(s, n, l), list, owned)
<1> SUFFICES ASSUME NEW k \in l..n PROVE PassOf(list, owned, s[k]) \in CycleOf(s, n, l)
  BY DEF Closed, CycleOf
<1> USE DEF CycleOf
<1>1. CASE k = n
  BY <1>1 DEF ClosesAt
<1>2. CASE k # n
  <2>1. k \in 1..(n - 1) /\ k + 1 \in l..n
    BY <1>2
  <2>2. PassOf(list, owned, s[k]) = s[k + 1]
    BY <2>1 DEF ClosesAt, IsChain
  <2> QED
    BY <2>1, <2>2
<1> QED
  BY <1>1, <1>2

(***************************************************************************)
(* Two calls that closed a cycle and met a text in common closed the same. *)
(***************************************************************************)
LEMMA OneCycle ==
  ASSUME NEW list, NEW owned,
         NEW s, NEW n \in Nat, NEW m \in 1..n, ClosesAt(s, n, m, list, owned),
         NEW t, NEW o \in Nat, NEW p \in 1..o, ClosesAt(t, o, p, list, owned),
         NEW x \in 1..n, NEW y \in 1..o, s[x] = t[y]
  PROVE  CycleOf(s, n, m) \subseteq CycleOf(t, o, p)
<1> DEFINE T == CycleOf(t, o, 1)
<1>1. s[n] \in T
  <2>1. Closed(T, list, owned)
    <3>1. 1 \in 1..p
      OBVIOUS
    <3> QED
      BY <3>1, RecordedIsClosed
  <2>2. s[x] \in T
    BY DEF CycleOf
  <2> HIDE DEF T
  <2> QED
    BY <2>1, <2>2, ChainStaysIn DEF ClosesAt
<1>2. PICK z \in 1..o : s[n] = t[z]
  BY <1>1 DEF CycleOf
<1>3. t[o] \in CycleOf(s, n, m)
  <2>1. Closed(CycleOf(s, n, m), list, owned)
    <3>1. m \in 1..m
      OBVIOUS
    <3> QED
      BY <3>1, RecordedIsClosed
  <2>2. t[z] \in CycleOf(s, n, m)
    BY <1>2 DEF CycleOf
  <2>3. o \in z..o
    BY <1>2
  <2> QED
    BY <2>1, <2>2, <2>3, ChainStaysIn DEF ClosesAt
<1>4. PICK w \in m..n : t[o] = s[w]
  BY <1>3 DEF CycleOf
<1>5. Closed(CycleOf(t, o, p), list, owned)
  <2>1. p \in 1..p
    OBVIOUS
  <2> QED
    BY <2>1, RecordedIsClosed
<1>6. s[w] \in CycleOf(t, o, p) /\ w \in 1..n
  BY <1>4 DEF CycleOf
<1> QED
  BY <1>5, <1>6, CycleIsMinimal

-----------------------------------------------------------------------------
(***************************************************************************)
(* Lists, whatever their elements are.                                     *)
(***************************************************************************)
IsList(s) == Len(s) \in Nat /\ s = [k \in 1..Len(s) |-> s[k]]

LEMMA ListBySize ==
  ASSUME NEW s, NEW n \in Nat, s = [k \in 1..n |-> s[k]]
  PROVE  IsList(s) /\ Len(s) = n
<1>1. s \in Seq({s[k] : k \in 1..n})
  OBVIOUS
<1>2. DOMAIN s = 1..Len(s) /\ Len(s) \in Nat
  BY <1>1
<1>3. DOMAIN s = 1..n
  OBVIOUS
<1> QED
  BY <1>2, <1>3 DEF IsList

LEMMA AppendToList ==
  ASSUME NEW s, IsList(s), NEW e
  PROVE  /\ IsList(Append(s, e))
         /\ Len(Append(s, e)) = Len(s) + 1
         /\ \A k \in 1..Len(s) : Append(s, e)[k] = s[k]
         /\ Append(s, e)[Len(s) + 1] = e
<1> DEFINE T == {s[k] : k \in 1..Len(s)} \cup {e}
<1>1. s \in Seq(T) /\ e \in T
  BY DEF IsList
<1> HIDE DEF T
<1>2. Append(s, e) \in Seq(T)
  BY <1>1
<1>3. Append(s, e) \in [1..Len(Append(s, e)) -> T]
  BY <1>2, LenProperties
<1>4. IsList(Append(s, e))
  <2> DEFINE u == Append(s, e)
  <2>1. u \in [1..Len(u) -> T] /\ Len(u) \in Nat
    BY <1>2, <1>3
  <2> HIDE DEF u
  <2>2. IsList(u)
    BY <2>1 DEF IsList
  <2> QED
    BY <2>2 DEF u
<1> QED
  BY <1>1, <1>4, AppendProperties DEF IsList

(***************************************************************************)
(* The result of a closed cycle is its least text.                         *)
(***************************************************************************)
IsLeast(x, D) == x \in D /\ \A y \in D : ~Less(y, x)

LEMMA LeastIsOne ==
  ASSUME NEW D, NEW x, NEW y, IsLeast(x, D), IsLeast(y, D), BytesAreOrdered
  PROVE  x = y
  BY DEF IsLeast, BytesAreOrdered

LEMMA MinOfCycle ==
  ASSUME NEW s, IsList(s), NEW m \in 1..Len(s), BytesAreOrdered
  PROVE  IsLeast(minByteState(SubSeq(s, m, Len(s))), CycleOf(s, Len(s), m))
<1> DEFINE u == SubSeq(s, m, Len(s))
           n == Len(s) - m + 1
<1>1. Len(s) \in Nat /\ n \in Nat \ {0}
  BY DEF IsList
<1>2. Len(u) = n /\ \A k \in 1..n : u[k] = s[m + k - 1]
  BY <1>1, SubSeqProperties, \A k \in m..Len(s) : s[k] \in {s[j] : j \in m..Len(s)}
<1>3. /\ \E k \in 1..n : minByteState(u) = u[k]
      /\ \A k \in 1..n : ~Less(u[k], minByteState(u))
  BY <1>1, <1>2, MinIsLeast
<1> HIDE DEF u
<1>4. minByteState(u) \in CycleOf(s, Len(s), m)
  <2>1. PICK k \in 1..n : minByteState(u) = u[k]
    BY <1>3
  <2>2. m + k - 1 \in m..Len(s) /\ u[k] = s[m + k - 1]
    BY <1>1, <1>2
  <2> QED
    BY <2>1, <2>2 DEF CycleOf
<1>5. ASSUME NEW j \in m..Len(s) PROVE ~Less(s[j], minByteState(u))
  <2>1. j - m + 1 \in 1..n /\ m + (j - m + 1) - 1 = j
    BY <1>1
  <2>2. u[j - m + 1] = s[j]
    BY <1>2, <2>1
  <2> QED
    BY <1>3, <2>1, <2>2
<1>6. IsLeast(minByteState(u), CycleOf(s, Len(s), m))
  BY <1>4, <1>5 DEF IsLeast, CycleOf
<1> QED
  BY <1>6 DEF u

IndexOf(s, t) == SelectInSeq(s, LAMBDA x : x = t)

LEMMA FirstIndex ==
  ASSUME NEW s, IsList(s), NEW t, t \in ToSet(s)
  PROVE  IndexOf(s, t) \in 1..Len(s) /\ s[IndexOf(s, t)] = t
<1> DEFINE I == {i \in 1..Len(s) : s[i] = t}
<1>1. I \subseteq Nat /\ I # {}
  BY DEF IsList, ToSet
<1>2. \E i \in I : \A j \in I : i <= j
  <2> HIDE DEF I
  <2> QED
    BY <1>1, LeastNat
<1>3. Min(I) \in I
  BY <1>2 DEF Min
<1>4. IndexOf(s, t) = Min(I)
  BY <1>1 DEF IndexOf, SelectInSeq
<1> QED
  BY <1>3, <1>4

-----------------------------------------------------------------------------
(***************************************************************************)
(* What a call has recorded, and what it leaves in the log.                *)
(***************************************************************************)
Recorded(s, n, t, list, owned) ==
  /\ IsChain(s, n, list, owned)
  /\ Distinct(s, n)
  /\ s[1] = t

SettledInv(e, list) ==
  /\ maxIters(e.cfg) > 1
  /\ \E n \in Nat : \E m \in 1..n :
       /\ n <= maxIters(e.cfg)
       /\ Recorded(e.states, n, e.in, list, e.cfg.owned)
       /\ ClosesAt(e.states, n, m, list, e.cfg.owned)
       /\ IsLeast(e.out, CycleOf(e.states, n, m))

EntryInv(e, list) ==
  /\ e.cfg \in Configs
  /\ e.how \in {"single", "fixpoint", "cycle", "exhausted"}
  /\ e.how = "single" => maxIters(e.cfg) = 1
  /\ e.how = "exhausted" =>
       \E n \in Nat : n > maxIters(e.cfg) /\ Recorded(e.states, n, e.in, list, e.cfg.owned)
  /\ Settled(e) => SettledInv(e, list)

LogInv == IsList(log) /\ \A i \in 1..Len(log) : EntryInv(log[i], stages)

StagesInv ==
  /\ stages \in StageLists
  /\ regs = [s \in DOMAIN stages |-> regs[s]]
  /\ \A s \in DOMAIN stages : stages[s].aware \/ regs[s] = NoRegistry

CallInv ==
  /\ cfg \in Configs
  /\ si \in Nat \ {0}
  /\ pc \in {"idle", "stages", "gofmt"}
  /\ pc # "idle" =>
       /\ iter \in Nat
       /\ iter < maxIters(cfg)
       /\ Recorded(states, iter + 1, src, stages, cfg.owned)
       /\ before = states[iter + 1]
  /\ pc = "stages" =>
       /\ si <= Len(stages) + 1
       /\ out = Through(stages, cfg.owned, before, si - 1)
  /\ pc = "gofmt" => out = Pass(stages, cfg.owned, before)

PassInv == StagesInv /\ CallInv

LEMMA StagesAreListed ==
  ASSUME StagesInv
  PROVE  Len(stages) \in Nat /\ DOMAIN stages = 1..Len(stages)
  BY PipelineAssumption DEF StagesInv

(***************************************************************************)
(* A stage of a pass: the registry it holds is the one of its text.        *)
(***************************************************************************)
LEMMA SkipStageKeeps == PassInv /\ SkipStage => PassInv'
<1> SUFFICES ASSUME PassInv, SkipStage PROVE PassInv'
  OBVIOUS
<1>1. StagesInv'
  BY DEF PassInv, StagesInv, SkipStage
<1>2. si' \in Nat \ {0} /\ si' <= Len(stages) + 1 /\ si' - 1 = si
  BY StagesAreListed DEF PassInv, CallInv, SkipStage
<1>3. Through(stages, cfg.owned, before, si) = Through(stages, cfg.owned, before, si - 1)
  <2>1. Through(stages, cfg.owned, before, si)
          = Staged(stages[si], cfg.owned, Through(stages, cfg.owned, before, si - 1))
    BY ThroughNext DEF PassInv, CallInv
  <2> QED
    BY <1>2, <2>1 DEF SkipStage, Staged
<1>4. CallInv'
  BY <1>2, <1>3 DEF PassInv, CallInv, SkipStage, Recorded
<1> QED
  BY <1>1, <1>4 DEF PassInv

LEMMA RunStageKeeps == PassInv /\ RunStage => PassInv'
<1> SUFFICES ASSUME PassInv, RunStage PROVE PassInv'
  OBVIOUS
<1> DEFINE held == NewRegistry(si, out)
<1>1. si \in DOMAIN stages
  BY StagesAreListed DEF PassInv, CallInv, RunStage
<1>2. regs' = [regs EXCEPT ![si] = held] /\ DOMAIN regs = DOMAIN stages
  BY DEF PassInv, StagesInv, RunStage
<1>3. held = IF stages[si].aware /\ cfg.owned THEN BuildRegistry(out) ELSE NoRegistry
  BY <1>1 DEF PassInv, StagesInv, NewRegistry
<1> HIDE DEF held
<1>4. regs'[si] = held
  BY <1>1, <1>2
<1>5. StagesInv'
  BY <1>1, <1>2, <1>3, <1>4 DEF PassInv, StagesInv, RunStage
<1>6. si' \in Nat \ {0} /\ si' <= Len(stages) + 1 /\ si' - 1 = si
  BY StagesAreListed DEF PassInv, CallInv, RunStage
<1>7. out' = Through(stages, cfg.owned, before, si)
  <2>1. Through(stages, cfg.owned, before, si)
          = Staged(stages[si], cfg.owned, Through(stages, cfg.owned, before, si - 1))
    BY ThroughNext DEF PassInv, CallInv
  <2>2. out = Through(stages, cfg.owned, before, si - 1)
    BY DEF PassInv, CallInv, RunStage
  <2>3. out' = Staged(stages[si], cfg.owned, out)
    BY <1>3, <1>4 DEF RunStage, Staged
  <2> QED
    BY <1>6, <2>1, <2>2, <2>3
<1>8. CallInv'
  BY <1>6, <1>7 DEF PassInv, CallInv, RunStage, Recorded
<1> QED
  BY <1>5, <1>8 DEF PassInv

LEMMA StagesDoneKeeps == PassInv /\ StagesDone => PassInv'
<1> SUFFICES ASSUME PassInv, StagesDone PROVE PassInv'
  OBVIOUS
<1>1. StagesInv'
  BY DEF PassInv, StagesInv, StagesDone
<1>2. si - 1 = Len(stages)
  BY StagesAreListed DEF PassInv, CallInv, StagesDone
<1>3. out' = Pass(stages, cfg.owned, before)
  BY <1>2 DEF PassInv, CallInv, StagesDone, Pass
<1>4. CallInv'
  BY <1>3 DEF PassInv, CallInv, StagesDone, Recorded
<1> QED
  BY <1>1, <1>4 DEF PassInv

-----------------------------------------------------------------------------
(***************************************************************************)
(* The start of a call, the next pass and the ways to return.              *)
(***************************************************************************)
MaxItersPositive == \A c \in Configs : maxIters(c) \in Nat \ {0}

LEMMA MaxItersIsPositive == MaxItersPositive
  BY PipelineAssumption DEF MaxItersPositive, maxIters

LEMMA CallKeeps == PassInv /\ Call => PassInv'
<1> SUFFICES ASSUME PassInv, Call PROVE PassInv'
  OBVIOUS
<1>1. StagesInv'
  BY DEF PassInv, StagesInv, Call
<1>2. Recorded(<<src'>>, 1, src', stages, cfg'.owned)
  BY DEF Recorded, IsChain, Distinct
<1>3. Through(stages, cfg'.owned, before', 0) = before'
  BY ThroughStart
<1>4. cfg' \in Configs /\ 0 < maxIters(cfg')
  BY MaxItersIsPositive DEF MaxItersPositive, Call
<1>5. 1 <= Len(stages) + 1
  BY StagesAreListed DEF PassInv
<1>6. CallInv'
  BY <1>2, <1>3, <1>4, <1>5 DEF PassInv, CallInv, Call, Recorded
<1> QED
  BY <1>1, <1>6 DEF PassInv

(***************************************************************************)
(* A text that was not met before makes the record longer.                 *)
(***************************************************************************)
LEMMA RecordGrows ==
  ASSUME NEW s, NEW n \in Nat \ {0}, NEW t, NEW list, NEW owned, NEW e,
         Recorded(s, n, t, list, owned), e = Pass(list, owned, s[n]), e \notin ToSet(s)
  PROVE  Recorded(Append(s, e), n + 1, t, list, owned)
<1> DEFINE u == Append(s, e)
<1>1. IsList(s) /\ Len(s) = n
  BY ListBySize DEF Recorded, IsChain
<1>2. /\ u = [k \in 1..(n + 1) |-> u[k]]
      /\ \A k \in 1..n : u[k] = s[k]
      /\ u[n + 1] = e
  BY <1>1, AppendToList DEF IsList
<1> HIDE DEF u
<1>3. \A k \in 1..n : s[k] # e
  BY <1>1 DEF ToSet, IsList
<1>4. IsChain(u, n + 1, list, owned)
  <2> SUFFICES ASSUME NEW k \in 1..n PROVE u[k + 1] = PassOf(list, owned, u[k])
    <3>1. 1..((n + 1) - 1) = 1..n
      OBVIOUS
    <3> QED
      BY <1>2, <3>1 DEF IsChain
  <2>1. CASE k = n
    BY <1>2, <2>1 DEF PassOf
  <2>2. CASE k # n
    <3>1. k \in 1..(n - 1) /\ k + 1 \in 1..n
      BY <2>2
    <3> QED
      BY <1>2, <3>1 DEF Recorded, IsChain
  <2> QED
    BY <2>1, <2>2
<1>5. Distinct(u, n + 1)
  <2> SUFFICES ASSUME NEW k \in 1..(n + 1), NEW l \in 1..(n + 1), u[k] = u[l] PROVE k = l
    BY DEF Distinct
  <2>1. CASE k \in 1..n /\ l \in 1..n
    BY <1>2, <2>1 DEF Recorded, Distinct
  <2>2. CASE k = n + 1 /\ l \in 1..n
    BY <1>2, <1>3, <2>2
  <2>3. CASE k \in 1..n /\ l = n + 1
    BY <1>2, <1>3, <2>3
  <2> QED
    BY <2>1, <2>2, <2>3
<1>6. u[1] = t
  BY <1>2 DEF Recorded
<1>7. Recorded(u, n + 1, t, list, owned)
  BY <1>4, <1>5, <1>6 DEF Recorded
<1> QED
  BY <1>7 DEF u

(***************************************************************************)
(* What holds when a pass has ended.                                       *)
(***************************************************************************)
LEMMA AfterPass ==
  ASSUME PassInv, pc = "gofmt"
  PROVE  \E n \in Nat \ {0} :
           /\ n = iter + 1
           /\ n <= maxIters(cfg)
           /\ Recorded(states, n, src, stages, cfg.owned)
           /\ before = states[n]
           /\ out = Pass(stages, cfg.owned, states[n])
<1>1. /\ iter \in Nat /\ iter < maxIters(cfg)
      /\ Recorded(states, iter + 1, src, stages, cfg.owned)
      /\ before = states[iter + 1]
      /\ out = Pass(stages, cfg.owned, before)
      /\ maxIters(cfg) \in Nat
  BY MaxItersIsPositive DEF PassInv, CallInv, MaxItersPositive
<1>2. iter + 1 \in Nat \ {0} /\ iter + 1 <= maxIters(cfg)
  BY <1>1
<1> QED
  BY <1>1, <1>2

LEMMA NewStateRecorded ==
  ASSUME PassInv, NewState
  PROVE  \E n \in Nat \ {0} :
           /\ n = iter + 1
           /\ Recorded(Append(states, out), n + 1, src, stages, cfg.owned)
           /\ Append(states, out)[n + 1] = out
<1>1. PICK n \in Nat \ {0} :
        /\ n = iter + 1
        /\ Recorded(states, n, src, stages, cfg.owned)
        /\ out = Pass(stages, cfg.owned, states[n])
  BY AfterPass DEF NewState
<1>2. Recorded(Append(states, out), n + 1, src, stages, cfg.owned)
  BY <1>1, RecordGrows DEF NewState
<1>3. Append(states, out)[n + 1] = out
  <2>1. IsList(states) /\ Len(states) = n
    BY <1>1, ListBySize DEF Recorded, IsChain
  <2> QED
    BY <2>1, AppendToList
<1> QED
  BY <1>1, <1>2, <1>3

LEMMA NextPassKeeps == PassInv /\ NextPass => PassInv'
<1> SUFFICES ASSUME PassInv, NextPass PROVE PassInv'
  OBVIOUS
<1>1. StagesInv'
  BY DEF PassInv, StagesInv, NextPass
<1>2. PICK n \in Nat \ {0} :
        /\ n = iter + 1
        /\ Recorded(Append(states, out), n + 1, src, stages, cfg.owned)
        /\ Append(states, out)[n + 1] = out
  BY NewStateRecorded DEF NextPass
<1>3. Recorded(states', n + 1, src, stages, cfg.owned) /\ states'[n + 1] = out
  BY <1>2 DEF NextPass
<1>4. iter' = n /\ before' = states'[n + 1] /\ n < maxIters(cfg)
  BY <1>2, <1>3 DEF NextPass
<1>5. Through(stages, cfg.owned, before', 0) = before'
  BY ThroughStart
<1>6. 1 <= Len(stages) + 1
  BY StagesAreListed DEF PassInv
<1>7. cfg \in Configs /\ si' = 1 /\ si' - 1 = 0 /\ pc' = "stages"
  BY DEF PassInv, CallInv, NextPass
<1>8. stages' = stages /\ cfg' = cfg /\ src' = src /\ out' = before'
  BY DEF NextPass
<1>9. Recorded(states, iter + 1, src, stages, cfg.owned)'
  BY <1>3, <1>4, <1>8 DEF Recorded
<1>10. CallInv'
  BY <1>2, <1>4, <1>5, <1>6, <1>7, <1>8, <1>9 DEF CallInv
<1> QED
  BY <1>1, <1>10 DEF PassInv

LEMMA ReturnKeeps ==
  ASSUME PassInv, NEW result, NEW seen, NEW how, Return(result, seen, how)
  PROVE  PassInv'
<1>1. StagesInv'
  BY DEF PassInv, StagesInv, Return
<1>2. CallInv'
  BY DEF PassInv, CallInv, Return
<1> QED
  BY <1>1, <1>2 DEF PassInv

LEMMA InitPassInv == Init => PassInv
<1> SUFFICES ASSUME Init PROVE PassInv
  OBVIOUS
<1>1. StagesInv
  BY DEF Init, StagesInv
<1>2. CallInv
  BY DEF Init, CallInv
<1> QED
  BY <1>1, <1>2 DEF PassInv

LEMMA NextPassInv == PassInv /\ [Next]_vars => PassInv'
<1> SUFFICES ASSUME PassInv, [Next]_vars PROVE PassInv'
  OBVIOUS
<1>1. CASE Call
  BY <1>1, CallKeeps
<1>2. CASE SkipStage
  BY <1>2, SkipStageKeeps
<1>3. CASE RunStage
  BY <1>3, RunStageKeeps
<1>4. CASE StagesDone
  BY <1>4, StagesDoneKeeps
<1>5. CASE SinglePassDone
  BY <1>5, ReturnKeeps DEF SinglePassDone
<1>6. CASE FixpointReached
  BY <1>6, ReturnKeeps DEF FixpointReached
<1>7. CASE CycleDetected
  BY <1>7, ReturnKeeps DEF CycleDetected
<1>8. CASE NextPass
  BY <1>8, NextPassKeeps
<1>9. CASE OutOfPasses
  BY <1>9, ReturnKeeps DEF OutOfPasses
<1>10. CASE UNCHANGED vars
  BY <1>10 DEF vars, PassInv, StagesInv, CallInv, Recorded
<1> QED
  BY <1>1, <1>2, <1>3, <1>4, <1>5, <1>6, <1>7, <1>8, <1>9, <1>10 DEF Next, Work

-----------------------------------------------------------------------------
(***************************************************************************)
(* The log.                                                                *)
(***************************************************************************)
Entry(result, seen, how) ==
  [cfg |-> cfg, in |-> src, out |-> result, states |-> seen, how |-> how]

LEMMA ReturnLogs ==
  ASSUME LogInv, NEW result, NEW seen, NEW how, Return(result, seen, how),
         EntryInv(Entry(result, seen, how), stages)
  PROVE  LogInv'
<1>1. stages' = stages /\ log' = Append(log, Entry(result, seen, how))
  BY DEF Return, Entry
<1>3. /\ IsList(log')
      /\ Len(log') = Len(log) + 1
      /\ \A i \in 1..Len(log) : log'[i] = log[i]
      /\ log'[Len(log) + 1] = Entry(result, seen, how)
  BY <1>1, AppendToList DEF LogInv
<1>4. ASSUME NEW i \in 1..Len(log') PROVE EntryInv(log'[i], stages)
  <2>1. Len(log) \in Nat
    BY DEF LogInv, IsList
  <2>2. CASE i = Len(log) + 1
    BY <1>3, <2>2
  <2>3. CASE i # Len(log) + 1
    <3>1. i \in 1..Len(log)
      BY <1>3, <2>1, <2>3
    <3> QED
      BY <1>3, <3>1 DEF LogInv
  <2> QED
    BY <2>2, <2>3
<1> QED
  BY <1>1, <1>3, <1>4 DEF LogInv

LEMMA SingleEntry ==
  ASSUME PassInv, SinglePassDone
  PROVE  EntryInv(Entry(out, states, "single"), stages)
  BY DEF PassInv, CallInv, SinglePassDone, EntryInv, Entry, Settled

LEMMA FixpointEntry ==
  ASSUME PassInv, FixpointReached, BytesAreOrdered
  PROVE  EntryInv(Entry(out, states, "fixpoint"), stages)
<1>1. PICK n \in Nat \ {0} :
        /\ n <= maxIters(cfg)
        /\ Recorded(states, n, src, stages, cfg.owned)
        /\ before = states[n]
        /\ out = Pass(stages, cfg.owned, states[n])
  BY AfterPass DEF FixpointReached
<1>2. n \in Nat /\ n \in 1..n /\ out = states[n]
  BY <1>1 DEF FixpointReached
<1>3. ClosesAt(states, n, n, stages, cfg.owned)
  BY <1>1, <1>2 DEF ClosesAt, PassOf, Recorded
<1>4. IsLeast(out, CycleOf(states, n, n))
  BY <1>2 DEF IsLeast, CycleOf, BytesAreOrdered
<1>5. SettledInv(Entry(out, states, "fixpoint"), stages)
  BY <1>1, <1>2, <1>3, <1>4 DEF SettledInv, Entry, FixpointReached
<1>6. cfg \in Configs
  BY DEF PassInv, CallInv
<1> QED
  BY <1>5, <1>6 DEF EntryInv, Entry

LEMMA CycleEntry ==
  ASSUME PassInv, BytesAreOrdered, pc = "gofmt", maxIters(cfg) > 1, out \in ToSet(states),
         NEW least, least = minByteState(SubSeq(states, IndexOf(states, out), Len(states)))
  PROVE  EntryInv(Entry(least, states, "cycle"), stages)
<1> DEFINE idx == IndexOf(states, out)
<1>1. PICK n \in Nat \ {0} :
        /\ n <= maxIters(cfg)
        /\ Recorded(states, n, src, stages, cfg.owned)
        /\ out = Pass(stages, cfg.owned, states[n])
  BY AfterPass
<1>2. IsList(states) /\ Len(states) = n
  BY <1>1, ListBySize DEF Recorded, IsChain
<1>3. idx \in 1..n /\ states[idx] = out
  BY <1>2, FirstIndex
<1> HIDE DEF idx
<1>4. IsLeast(least, CycleOf(states, n, idx))
  BY <1>2, <1>3, MinOfCycle DEF idx
<1>5. ClosesAt(states, n, idx, stages, cfg.owned)
  BY <1>1, <1>3 DEF ClosesAt, PassOf, Recorded
<1>6. SettledInv(Entry(least, states, "cycle"), stages)
  BY <1>1, <1>3, <1>4, <1>5 DEF SettledInv, Entry
<1>7. cfg \in Configs
  BY DEF PassInv, CallInv
<1> QED
  BY <1>6, <1>7 DEF EntryInv, Entry

LEMMA ExhaustedEntry ==
  ASSUME PassInv, OutOfPasses
  PROVE  EntryInv(Entry(out, Append(states, out), "exhausted"), stages)
<1>1. PICK n \in Nat \ {0} :
        /\ n = iter + 1
        /\ Recorded(Append(states, out), n + 1, src, stages, cfg.owned)
  BY NewStateRecorded DEF OutOfPasses
<1>2. cfg \in Configs /\ maxIters(cfg) \in Nat
  BY MaxItersIsPositive DEF PassInv, CallInv, MaxItersPositive
<1>3. n + 1 \in Nat /\ n + 1 > maxIters(cfg)
  BY <1>1, <1>2 DEF OutOfPasses
<1> QED
  BY <1>1, <1>2, <1>3 DEF EntryInv, Entry, Settled

LEMMA InitLogInv == Init => LogInv
  BY DEF Init, LogInv, IsList

LEMMA NextLogInv == LogInv /\ PassInv /\ [Next]_vars /\ BytesAreOrdered => LogInv'
<1> SUFFICES ASSUME LogInv, PassInv, [Next]_vars, BytesAreOrdered PROVE LogInv'
  OBVIOUS
<1>1. CASE UNCHANGED <<stages, log>>
  BY <1>1 DEF LogInv
<1>2. CASE SinglePassDone
  BY <1>2, SingleEntry, ReturnLogs DEF SinglePassDone
<1>3. CASE FixpointReached
  BY <1>3, FixpointEntry, ReturnLogs DEF FixpointReached
<1>4. CASE CycleDetected
  <2> DEFINE least == minByteState(SubSeq(states, IndexOf(states, out), Len(states)))
  <2>1. Return(least, states, "cycle")
    BY <1>4 DEF CycleDetected, IndexOf
  <2>2. EntryInv(Entry(least, states, "cycle"), stages)
    BY <1>4, CycleEntry DEF CycleDetected
  <2> HIDE DEF least
  <2> QED
    BY <2>1, <2>2, ReturnLogs
<1>5. CASE OutOfPasses
  BY <1>5, ExhaustedEntry, ReturnLogs DEF OutOfPasses
<1> QED
  BY <1>1, <1>2, <1>3, <1>4, <1>5
     DEF Next, Work, vars, Call, SkipStage, RunStage, StagesDone, NextPass

(***************************************************************************)
(* Each pass of a call is the pass of the text it starts from, and each    *)
(* entry of the log says how its call ended.                               *)
(***************************************************************************)
THEOREM Invariance == BytesAreOrdered => (Spec => [](PassInv /\ LogInv))
<1> SUFFICES ASSUME BytesAreOrdered PROVE Spec => [](PassInv /\ LogInv)
  OBVIOUS
<1>1. Init => PassInv /\ LogInv
  BY InitPassInv, InitLogInv
<1>2. (PassInv /\ LogInv) /\ [Next]_vars => (PassInv /\ LogInv)'
  BY NextPassInv, NextLogInv
<1> QED
  BY <1>1, <1>2, PTL DEF Spec

-----------------------------------------------------------------------------
(***************************************************************************)
(* What the entries say about each other.                                  *)
(***************************************************************************)
LEMMA ClosedTwice ==
  ASSUME LogInv, BytesAreOrdered, NEW i \in 1..Len(log), NEW j \in 1..Len(log),
         Settled(log[i]), Settled(log[j]), log[i].cfg.owned = log[j].cfg.owned,
         ToSet(log[i].states) \cap ToSet(log[j].states) # {}
  PROVE  log[i].out = log[j].out
<1> DEFINE owned == log[i].cfg.owned
           s == log[i].states
           t == log[j].states
<1>1. SettledInv(log[i], stages) /\ SettledInv(log[j], stages)
  BY DEF LogInv, EntryInv
<1>2. PICK n \in Nat : \E m \in 1..n :
        /\ ClosesAt(s, n, m, stages, owned)
        /\ IsLeast(log[i].out, CycleOf(s, n, m))
  BY <1>1 DEF SettledInv
<1>3. PICK m \in 1..n :
        /\ ClosesAt(s, n, m, stages, owned)
        /\ IsLeast(log[i].out, CycleOf(s, n, m))
  BY <1>2
<1>4. PICK o \in Nat : \E p \in 1..o :
        /\ ClosesAt(t, o, p, stages, owned)
        /\ IsLeast(log[j].out, CycleOf(t, o, p))
  BY <1>1 DEF SettledInv
<1>5. PICK p \in 1..o :
        /\ ClosesAt(t, o, p, stages, owned)
        /\ IsLeast(log[j].out, CycleOf(t, o, p))
  BY <1>4
<1>6. ToSet(s) \cap ToSet(t) # {}
  OBVIOUS
<1> HIDE DEF s, t, owned
<1>7. DOMAIN s = 1..n /\ DOMAIN t = 1..o
  BY <1>3, <1>5 DEF ClosesAt, IsChain
<1>8. PICK x \in 1..n, y \in 1..o : s[x] = t[y]
  BY <1>6, <1>7 DEF ToSet
<1>9. CycleOf(s, n, m) \subseteq CycleOf(t, o, p)
  BY <1>3, <1>5, <1>8, OneCycle
<1>10. CycleOf(t, o, p) \subseteq CycleOf(s, n, m)
  BY <1>3, <1>5, <1>8, OneCycle
<1>11. CycleOf(t, o, p) = CycleOf(s, n, m)
  BY <1>9, <1>10
<1> QED
  BY <1>3, <1>5, <1>11, LeastIsOne

(***************************************************************************)
(* A call that starts from the result of a settled one comes back to it    *)
(* before its passes are used up.                                          *)
(***************************************************************************)
LEMMA ComesBack ==
  ASSUME NEW list, NEW owned,
         NEW s, NEW n \in Nat, NEW m \in 1..n, ClosesAt(s, n, m, list, owned),
         NEW t, NEW o \in Nat, o > n, IsChain(t, o, list, owned), Distinct(t, o),
         NEW w \in m..n, t[1] = s[w]
  PROVE  FALSE
<1>1. IsChain(s, n, list, owned) /\ PassOf(list, owned, s[n]) = s[m]
  BY DEF ClosesAt
<1>2. PICK k \in Nat : w = m + k
  <2>1. w - m \in Nat /\ w = m + (w - m)
    OBVIOUS
  <2> QED
    BY <2>1
<1>3. PICK l \in Nat : n = w + l
  <2>1. n - w \in Nat /\ n = w + (n - w)
    OBVIOUS
  <2> QED
    BY <2>1
<1>4. PICK z \in 1..(o - 1) : z = 1 + l
  BY <1>3
<1>5. PICK y \in 1..o : y = z + 1
  BY <1>4
<1>6. w \in 1..n /\ 1 \in 1..o /\ w + l <= n /\ 1 + l <= o
  BY <1>3
<1>7. s[w + l] = t[1 + l]
  BY <1>1, <1>6, ChainsAgree
<1>8. t[y] = s[m]
  BY <1>1, <1>3, <1>4, <1>5, <1>7 DEF IsChain
<1>9. m + k <= n /\ y + k <= o /\ y + k \in 1..o /\ y + k # 1
  BY <1>2, <1>3, <1>4, <1>5
<1>10. s[m + k] = t[y + k]
  BY <1>1, <1>8, <1>9, ChainsAgree
<1> QED
  BY <1>2, <1>6, <1>9, <1>10 DEF Distinct

LEMMA SettlesAgain ==
  ASSUME LogInv, NEW i \in 1..Len(log), NEW j \in 1..Len(log),
         Settled(log[i]), log[j].in = log[i].out,
         log[j].cfg.owned = log[i].cfg.owned,
         log[j].cfg.maxIterations >= log[i].cfg.maxIterations
  PROVE  /\ Settled(log[j])
         /\ ToSet(log[i].states) \cap ToSet(log[j].states) # {}
<1> DEFINE owned == log[i].cfg.owned
           s == log[i].states
           t == log[j].states
<1>1. EntryInv(log[i], stages) /\ EntryInv(log[j], stages)
  BY DEF LogInv
<1>2. maxIters(log[j].cfg) >= maxIters(log[i].cfg) /\ maxIters(log[i].cfg) > 1
  BY <1>1, PipelineAssumption DEF maxIters, EntryInv, SettledInv
<1>3. PICK n \in Nat : \E m \in 1..n :
        /\ n <= maxIters(log[i].cfg)
        /\ ClosesAt(s, n, m, stages, owned)
        /\ IsLeast(log[i].out, CycleOf(s, n, m))
  BY <1>1 DEF EntryInv, SettledInv
<1>4. PICK m \in 1..n :
        /\ n <= maxIters(log[i].cfg)
        /\ ClosesAt(s, n, m, stages, owned)
        /\ log[i].out \in CycleOf(s, n, m)
  BY <1>3 DEF IsLeast
<1>5. PICK w \in m..n : log[i].out = s[w]
  BY <1>4 DEF CycleOf
<1>6. log[j].how # "single"
  BY <1>1, <1>2, PipelineAssumption DEF EntryInv, maxIters
<1>7. ASSUME log[j].how = "exhausted" PROVE FALSE
  <2>1. PICK o \in Nat : /\ o > maxIters(log[j].cfg)
                         /\ IsChain(t, o, stages, owned)
                         /\ Distinct(t, o)
                         /\ t[1] = log[j].in
    BY <1>1, <1>7 DEF EntryInv, Recorded
  <2>2. o > n
    BY <1>1, <1>2, <1>4, <2>1, PipelineAssumption DEF EntryInv, maxIters
  <2>3. t[1] = s[w]
    BY <1>5, <2>1
  <2> HIDE DEF s, t, owned
  <2> QED
    BY <1>4, <1>5, <2>1, <2>2, <2>3, ComesBack
<1>8. Settled(log[j])
  BY <1>1, <1>6, <1>7 DEF EntryInv, Settled
<1>9. PICK o \in Nat : o >= 1 /\ IsChain(t, o, stages, owned) /\ t[1] = log[j].in
  BY <1>1, <1>8 DEF EntryInv, SettledInv, Recorded
<1>10. s[w] \in ToSet(s)
  BY <1>4, <1>5 DEF ToSet, ClosesAt, IsChain
<1>11. t[1] \in ToSet(t)
  BY <1>9 DEF ToSet, IsChain
<1> QED
  BY <1>5, <1>8, <1>9, <1>10, <1>11

-----------------------------------------------------------------------------
(***************************************************************************)
(* A cycle has one representative: calls that settle and have met a text   *)
(* in common return the same one (pipeline.go, minByteState over the       *)
(* cycle).                                                                 *)
(***************************************************************************)
THEOREM OneResultPerCycle == BytesAreOrdered => (Spec => []SameCycleSameResult)
<1> SUFFICES ASSUME BytesAreOrdered PROVE Spec => []SameCycleSameResult
  OBVIOUS
<1>1. Spec => [](PassInv /\ LogInv)
  BY Invariance
<1>2. PassInv /\ LogInv => SameCycleSameResult
  <2> SUFFICES ASSUME LogInv PROVE SameCycleSameResult
    OBVIOUS
  <2>1. DOMAIN log = 1..Len(log)
    BY DEF LogInv, IsList
  <2> QED
    BY <2>1, ClosedTwice DEF SameCycleSameResult
<1> QED
  BY <1>1, <1>2, PTL

(***************************************************************************)
(* Formatting the result of a call that settled gives it back, as long as  *)
(* no fewer passes are allowed, for all stages, registries and texts.      *)
(***************************************************************************)
THEOREM Idempotence == BytesAreOrdered => (Spec => []SettledIsIdempotent)
<1> SUFFICES ASSUME BytesAreOrdered PROVE Spec => []SettledIsIdempotent
  OBVIOUS
<1>1. Spec => [](PassInv /\ LogInv)
  BY Invariance
<1>2. PassInv /\ LogInv => SettledIsIdempotent
  <2> SUFFICES ASSUME LogInv, NEW i \in DOMAIN log, NEW j \in DOMAIN log,
                      Settled(log[i]), log[j].in = log[i].out,
                      log[j].cfg.owned = log[i].cfg.owned,
                      log[j].cfg.maxIterations >= log[i].cfg.maxIterations
               PROVE  Settled(log[j]) /\ log[j].out = log[j].in
    BY DEF SettledIsIdempotent
  <2>1. i \in 1..Len(log) /\ j \in 1..Len(log)
    BY DEF LogInv, IsList
  <2>2. /\ Settled(log[j])
        /\ ToSet(log[i].states) \cap ToSet(log[j].states) # {}
    BY <2>1, SettlesAgain
  <2>3. log[i].out = log[j].out
    BY <2>1, <2>2, ClosedTwice
  <2> QED
    BY <2>2, <2>3
<1> QED
  BY <1>1, <1>2, PTL

-----------------------------------------------------------------------------
(***************************************************************************)
(* The orbit of the contract is a chain of passes.                         *)
(***************************************************************************)
IsOrbit(o, m, x, n) ==
  o = [k \in 0..n |-> IF k = 0 THEN x ELSE Pass(m.stages, m.owned, o[k - 1])]

LEMMA OrbitExists ==
  ASSUME NEW m, NEW x
  PROVE  \A n \in Nat : \E o : IsOrbit(o, m, x, n)
<1> DEFINE S == {n \in Nat : \E o : IsOrbit(o, m, x, n)}
<1>1. 0 \in S
  <2>1. IsOrbit([k \in 0..0 |-> x], m, x, 0)
    BY DEF IsOrbit
  <2> QED
    BY <2>1
<1>2. ASSUME NEW n \in Nat, n \in S PROVE n + 1 \in S
  <2>1. PICK o : IsOrbit(o, m, x, n)
    BY <1>2
  <2> DEFINE q == [k \in 0..(n + 1) |-> IF k <= n THEN o[k] ELSE Pass(m.stages, m.owned, o[n])]
  <2>2. \A k \in 0..n : q[k] = o[k]
    OBVIOUS
  <2>3. o[0] = x /\ \A k \in 1..n : o[k] = Pass(m.stages, m.owned, o[k - 1])
    BY <2>1 DEF IsOrbit
  <2>4. IsOrbit(q, m, x, n + 1)
    BY <2>2, <2>3 DEF IsOrbit
  <2> QED
    BY <2>4
<1> HIDE DEF S
<1>3. Nat \subseteq S
  BY <1>1, <1>2, NatInductionOnSets
<1> QED
  BY <1>3 DEF S

LEMMA OrbitIsChain ==
  ASSUME NEW m, NEW x, NEW n \in Nat
  PROVE  \E t : /\ IsChain(t, n + 1, m.stages, m.owned)
                /\ t[1] = x
                /\ \A k \in 0..n : Contract!Orbit(m, x, n)[k] = t[k + 1]
<1> DEFINE o == CHOOSE o : IsOrbit(o, m, x, n)
           t == [k \in 1..(n + 1) |-> o[k - 1]]
<1>1. IsOrbit(o, m, x, n)
  BY OrbitExists
<1>2. Contract!Orbit(m, x, n) = o
  BY DEF Contract!Orbit, IsOrbit
<1> HIDE DEF o
<1>3. o[0] = x /\ \A k \in 1..n : o[k] = Pass(m.stages, m.owned, o[k - 1])
  BY <1>1 DEF IsOrbit
<1>4. \A k \in 0..n : o[k] = t[k + 1]
  OBVIOUS
<1>5. IsChain(t, n + 1, m.stages, m.owned)
  <2> SUFFICES ASSUME NEW k \in 1..n PROVE t[k + 1] = PassOf(m.stages, m.owned, t[k])
    <3>1. 1..((n + 1) - 1) = 1..n
      OBVIOUS
    <3> QED
      BY <3>1 DEF IsChain
  <2>1. t[k + 1] = o[k] /\ t[k] = o[k - 1]
    OBVIOUS
  <2> QED
    BY <1>3, <2>1 DEF PassOf
<1>6. t[1] = x
  BY <1>3
<1> QED
  BY <1>2, <1>4, <1>5, <1>6

(***************************************************************************)
(* Each way to return gives the answer of the contract.                    *)
(***************************************************************************)
LEMMA SingleAnswer ==
  ASSUME NEW m, m.limit = 1, NEW x
  PROVE  Contract!Answer(m, x) = Pass(m.stages, m.owned, x)
<1>1. PICK t : /\ IsChain(t, 1 + 1, m.stages, m.owned)
               /\ t[1] = x
               /\ \A k \in 0..1 : Contract!Orbit(m, x, 1)[k] = t[k + 1]
  BY OrbitIsChain
<1>2. t[2] = Pass(m.stages, m.owned, x)
  BY <1>1 DEF IsChain, PassOf
<1>3. Contract!Answer(m, x) = Contract!Orbit(m, x, 1)[1]
  BY DEF Contract!Answer
<1> QED
  BY <1>1, <1>2, <1>3

LEMMA ExhaustedAnswer ==
  ASSUME NEW m, NEW limit \in Nat, m.limit = limit, NEW x, NEW s, s[1] = x,
         IsChain(s, limit + 1, m.stages, m.owned), Distinct(s, limit + 1)
  PROVE  Contract!Answer(m, x) = s[limit + 1]
<1> DEFINE o == Contract!Orbit(m, x, limit)
<1>1. PICK t : /\ IsChain(t, limit + 1, m.stages, m.owned)
               /\ t[1] = x
               /\ \A k \in 0..limit : o[k] = t[k + 1]
  BY OrbitIsChain
<1>2. \A k \in 0..limit : o[k] = s[k + 1]
  <2> SUFFICES ASSUME NEW k \in 0..limit PROVE t[k + 1] = s[k + 1]
    BY <1>1
  <2>1. k \in Nat /\ 1 + k <= limit + 1 /\ 1 \in 1..(limit + 1) /\ k + 1 = 1 + k
    OBVIOUS
  <2>2. t[1 + k] = s[1 + k]
    BY <1>1, <2>1, ChainsAgree
  <2> QED
    BY <2>1, <2>2
<1>3. ~Contract!Settles(m, x, limit)
  <2> SUFFICES ASSUME NEW i \in 0..limit, NEW j \in 0..limit, i < j, o[i] = o[j] PROVE FALSE
    BY DEF Contract!Settles
  <2>1. i + 1 \in 1..(limit + 1) /\ j + 1 \in 1..(limit + 1) /\ s[i + 1] = s[j + 1]
    BY <1>2
  <2> QED
    BY <2>1 DEF Distinct
<1>4. Contract!Answer(m, x) = o[limit]
  BY <1>3 DEF Contract!Answer
<1> QED
  BY <1>2, <1>4

LEMMA ClosedReachable ==
  ASSUME NEW m, NEW limit \in Nat, NEW s, NEW n \in 1..limit, NEW p \in 1..n,
         ClosesAt(s, n, p, m.stages, m.owned), NEW last, last \in CycleOf(s, n, p)
  PROVE  Contract!Reachable(m, last, limit) = CycleOf(s, n, p)
<1>1. PICK u : /\ IsChain(u, limit + 1, m.stages, m.owned)
               /\ u[1] = last
               /\ \A k \in 0..limit : Contract!Orbit(m, last, limit)[k] = u[k + 1]
  BY OrbitIsChain
<1>2. Contract!Reachable(m, last, limit) = {u[k] : k \in 1..(limit + 1)}
  <2>1. Contract!Reachable(m, last, limit) = {u[k + 1] : k \in 0..limit}
    BY <1>1 DEF Contract!Reachable
  <2>2. \A k \in 1..(limit + 1) : k - 1 \in 0..limit /\ (k - 1) + 1 = k
    OBVIOUS
  <2> QED
    BY <2>1, <2>2
<1>3. Closed(CycleOf(s, n, p), m.stages, m.owned)
  <2>1. p \in 1..p
    OBVIOUS
  <2> QED
    BY <2>1, RecordedIsClosed
<1>4. \A k \in 1..(limit + 1) : u[k] \in CycleOf(s, n, p)
  <2>1. 1 \in 1..(limit + 1) /\ limit + 1 \in Nat
    OBVIOUS
  <2> QED
    BY <1>1, <1>3, <2>1, ChainStaysIn
<1>5. PICK w \in p..n : last = s[w]
  BY DEF CycleOf
<1>6. IsChain(s, n, m.stages, m.owned) /\ PassOf(m.stages, m.owned, s[n]) = s[p]
  BY DEF ClosesAt
<1>7. ASSUME NEW v \in w..n PROVE s[v] \in {u[k] : k \in 1..(limit + 1)}
  <2>1. PICK k \in Nat : v = w + k
    <3>1. v - w \in Nat /\ v = w + (v - w)
      OBVIOUS
    <3> QED
      BY <3>1
  <2>2. w \in 1..n /\ 1 \in 1..(limit + 1) /\ w + k <= n /\ 1 + k <= limit + 1
    BY <2>1
  <2>3. s[w + k] = u[1 + k]
    BY <1>1, <1>5, <1>6, <2>2, ChainsAgree
  <2> QED
    BY <2>1, <2>2, <2>3
<1>8. ASSUME NEW v \in p..n, v < w PROVE s[v] \in {u[k] : k \in 1..(limit + 1)}
  <2>1. PICK l \in Nat : n = w + l
    <3>1. n - w \in Nat /\ n = w + (n - w)
      OBVIOUS
    <3> QED
      BY <3>1
  <2>2. PICK k \in Nat : v = p + k
    <3>1. v - p \in Nat /\ v = p + (v - p)
      OBVIOUS
    <3> QED
      BY <3>1
  <2>3. PICK z \in 1..limit : z = 1 + l
    BY <2>1
  <2>4. w \in 1..n /\ 1 \in 1..(limit + 1) /\ w + l <= n /\ 1 + l <= limit + 1
    BY <2>1
  <2>5. s[w + l] = u[1 + l]
    BY <1>1, <1>5, <1>6, <2>4, ChainsAgree
  <2>6. u[z + 1] = s[p]
    <3>1. z \in 1..((limit + 1) - 1)
      OBVIOUS
    <3>2. u[z + 1] = PassOf(m.stages, m.owned, u[z])
      BY <1>1, <3>1 DEF IsChain
    <3>3. u[z] = s[n]
      BY <2>1, <2>3, <2>5
    <3> QED
      BY <1>6, <3>2, <3>3
  <2>7. PICK y \in 1..(limit + 1) : y = z + 1
    OBVIOUS
  <2>8. p + k <= n /\ y + k <= limit + 1 /\ y + k \in 1..(limit + 1)
    BY <1>8, <2>1, <2>2, <2>3, <2>7
  <2>9. u[y] = s[p]
    BY <2>6, <2>7
  <2>10. s[p + k] = u[y + k]
    BY <1>1, <1>6, <2>8, <2>9, ChainsAgree
  <2> QED
    BY <2>2, <2>8, <2>10
<1>9. \A v \in p..n : s[v] \in {u[k] : k \in 1..(limit + 1)}
  BY <1>7, <1>8
<1> QED
  BY <1>2, <1>4, <1>9 DEF CycleOf

LEMMA LeastOfSet ==
  ASSUME NEW T, NEW x, IsLeast(x, T), BytesAreOrdered
  PROVE  Contract!Least(T) = x
<1>1. x \in T /\ \A u \in T : u = x \/ Less(x, u)
  BY DEF IsLeast, BytesAreOrdered
<1>2. \A t \in T : (\A u \in T : u = t \/ Less(t, u)) => t = x
  BY <1>1 DEF BytesAreOrdered
<1> QED
  BY <1>1, <1>2 DEF Contract!Least

LEMMA ClosedAnswer ==
  ASSUME NEW m, NEW limit \in Nat, limit > 1, m.limit = limit, NEW x, NEW s, s[1] = x,
         NEW n \in 1..limit, NEW p \in 1..n, ClosesAt(s, n, p, m.stages, m.owned),
         NEW result, IsLeast(result, CycleOf(s, n, p)), BytesAreOrdered
  PROVE  Contract!Answer(m, x) = result
<1> DEFINE o == Contract!Orbit(m, x, limit)
<1>1. PICK t : /\ IsChain(t, limit + 1, m.stages, m.owned)
               /\ t[1] = x
               /\ \A k \in 0..limit : o[k] = t[k + 1]
  BY OrbitIsChain
<1>2. IsChain(s, n, m.stages, m.owned) /\ PassOf(m.stages, m.owned, s[n]) = s[p]
  BY DEF ClosesAt
<1>3. \A k \in 1..n : t[k] = s[k]
  <2> SUFFICES ASSUME NEW k \in 1..n PROVE t[k] = s[k]
    OBVIOUS
  <2>1. PICK l \in Nat : k = 1 + l
    <3>1. k - 1 \in Nat /\ k = 1 + (k - 1)
      OBVIOUS
    <3> QED
      BY <3>1
  <2>2. 1 \in 1..n /\ 1 \in 1..(limit + 1) /\ 1 + l <= n /\ 1 + l <= limit + 1
    BY <2>1
  <2>3. s[1 + l] = t[1 + l]
    BY <1>1, <1>2, <2>2, ChainsAgree
  <2> QED
    BY <2>1, <2>3
<1>4. t[n + 1] = s[p]
  <2>1. n \in 1..((limit + 1) - 1)
    OBVIOUS
  <2>2. t[n + 1] = PassOf(m.stages, m.owned, t[n])
    BY <1>1, <2>1 DEF IsChain
  <2>3. t[n] = s[n]
    BY <1>3
  <2> QED
    BY <1>2, <2>2, <2>3
<1>5. Contract!Settles(m, x, limit)
  <2>1. /\ p - 1 \in 0..limit /\ n \in 0..limit /\ p - 1 < n /\ (p - 1) + 1 = p
    OBVIOUS
  <2>2. o[p - 1] = t[p] /\ o[n] = t[n + 1]
    BY <1>1, <2>1
  <2>3. o[p - 1] = o[n]
    BY <1>3, <1>4, <2>2
  <2> QED
    BY <2>1, <2>3 DEF Contract!Settles
<1>6. o[limit] \in CycleOf(s, n, p)
  <2>1. Closed(CycleOf(s, n, p), m.stages, m.owned)
    <3>1. p \in 1..p
      OBVIOUS
    <3> QED
      BY <3>1, RecordedIsClosed
  <2>2. PICK y \in 1..(limit + 1) : y = n + 1
    OBVIOUS
  <2>3. t[y] \in CycleOf(s, n, p)
    BY <1>4, <2>2 DEF CycleOf
  <2>4. limit + 1 \in y..(limit + 1) /\ limit + 1 \in Nat
    OBVIOUS
  <2>5. t[limit + 1] \in CycleOf(s, n, p)
    BY <1>1, <2>1, <2>3, <2>4, ChainStaysIn
  <2> QED
    BY <1>1, <2>5
<1>7. Contract!Answer(m, x) = Contract!Least(Contract!Reachable(m, o[limit], limit))
  BY <1>5 DEF Contract!Answer
<1> HIDE DEF o
<1> QED
  BY <1>6, <1>7, ClosedReachable, LeastOfSet

-----------------------------------------------------------------------------
(***************************************************************************)
(* The search implements its closed form (PipelineContract): every return  *)
(* gives the contract's answer, every other step inside a call stutters.   *)
(***************************************************************************)
LEMMA CallMaps == PassInv /\ Call => Contract!Next
<1> SUFFICES ASSUME PassInv, Call PROVE Contract!Call
  BY DEF Contract!Next
<1> QED
  BY DEF PassInv, StagesInv, Call, Contract!Call, Mode

LEMMA InnerMaps ==
  ASSUME PassInv, pc # "idle", pc' # "idle", UNCHANGED <<stages, cfg, src>>
  PROVE  UNCHANGED Contract!vars
  BY DEF Contract!vars, Mode

LEMMA ReturnMaps ==
  ASSUME pc # "idle", NEW result, NEW seen, NEW how, Return(result, seen, how),
         Contract!Answer(Mode(cfg, stages), src) = result
  PROVE  Contract!Next
  BY DEF Return, Contract!Next, Contract!Return, Mode

LEMMA SingleMaps == PassInv /\ SinglePassDone => Contract!Next
<1> SUFFICES ASSUME PassInv, SinglePassDone PROVE Contract!Next
  OBVIOUS
<1> DEFINE m == Mode(cfg, stages)
<1>1. PICK n \in Nat \ {0} :
        /\ n <= maxIters(cfg)
        /\ Recorded(states, n, src, stages, cfg.owned)
        /\ out = Pass(stages, cfg.owned, states[n])
  BY AfterPass DEF SinglePassDone
<1>2. n = 1
  BY <1>1 DEF SinglePassDone
<1>3. m.limit = 1 /\ m.stages = stages /\ m.owned = cfg.owned
  BY DEF Mode, SinglePassDone
<1>4. Contract!Answer(m, src) = out
  <2> HIDE DEF m
  <2>1. Contract!Answer(m, src) = Pass(m.stages, m.owned, src)
    BY <1>3, SingleAnswer
  <2> QED
    BY <1>1, <1>2, <1>3, <2>1 DEF Recorded
<1> QED
  BY <1>4, ReturnMaps DEF SinglePassDone

LEMMA SettledMaps ==
  ASSUME PassInv, BytesAreOrdered, pc = "gofmt", NEW result, NEW how,
         how \in {"fixpoint", "cycle"}, EntryInv(Entry(result, states, how), stages),
         Return(result, states, how)
  PROVE  Contract!Next
<1> DEFINE m == Mode(cfg, stages)
<1>1. m.limit = maxIters(cfg) /\ m.stages = stages /\ m.owned = cfg.owned
  BY DEF Mode
<1>2. maxIters(cfg) > 1 /\ maxIters(cfg) \in Nat
  BY MaxItersIsPositive DEF MaxItersPositive, PassInv, CallInv, EntryInv, Settled, SettledInv, Entry
<1>3. PICK n \in Nat : \E p \in 1..n :
        /\ n <= maxIters(cfg)
        /\ Recorded(states, n, src, stages, cfg.owned)
        /\ ClosesAt(states, n, p, stages, cfg.owned)
        /\ IsLeast(result, CycleOf(states, n, p))
  BY DEF EntryInv, Settled, SettledInv, Entry
<1>4. PICK p \in 1..n :
        /\ n <= maxIters(cfg)
        /\ states[1] = src
        /\ ClosesAt(states, n, p, stages, cfg.owned)
        /\ IsLeast(result, CycleOf(states, n, p))
  BY <1>3 DEF Recorded
<1>5. n \in 1..maxIters(cfg)
  BY <1>2, <1>4
<1> HIDE DEF m
<1>6. ClosesAt(states, n, p, m.stages, m.owned)
  BY <1>1, <1>4
<1>7. Contract!Answer(m, src) = result
  BY <1>1, <1>2, <1>4, <1>5, <1>6, ClosedAnswer
<1> QED
  BY <1>7, ReturnMaps DEF m

LEMMA ExhaustedMaps == PassInv /\ OutOfPasses => Contract!Next
<1> SUFFICES ASSUME PassInv, OutOfPasses PROVE Contract!Next
  OBVIOUS
<1> DEFINE m == Mode(cfg, stages)
           s == Append(states, out)
<1>1. PICK n \in Nat \ {0} :
        /\ n = iter + 1
        /\ Recorded(s, n + 1, src, stages, cfg.owned)
        /\ s[n + 1] = out
  BY NewStateRecorded DEF OutOfPasses
<1>2. iter \in Nat /\ iter < maxIters(cfg) /\ maxIters(cfg) \in Nat /\ iter + 1 >= maxIters(cfg)
  BY MaxItersIsPositive DEF MaxItersPositive, PassInv, CallInv, OutOfPasses, NewState
<1>3. maxIters(cfg) = n
  BY <1>1, <1>2
<1>4. m.limit = n /\ m.stages = stages /\ m.owned = cfg.owned
  BY <1>3 DEF Mode
<1> HIDE DEF m, s
<1>5. IsChain(s, n + 1, m.stages, m.owned) /\ Distinct(s, n + 1) /\ s[1] = src
  BY <1>1, <1>4 DEF Recorded
<1>6. Contract!Answer(m, src) = out
  BY <1>1, <1>4, <1>5, ExhaustedAnswer
<1> QED
  BY <1>6, ReturnMaps DEF OutOfPasses, NewState, m

LEMMA StepMaps ==
  BytesAreOrdered /\ PassInv /\ [Next]_vars => [Contract!Next]_Contract!vars
<1> SUFFICES ASSUME BytesAreOrdered, PassInv, [Next]_vars
             PROVE  Contract!Next \/ UNCHANGED Contract!vars
  OBVIOUS
<1>1. CASE Call
  BY <1>1, CallMaps
<1>2. CASE SkipStage \/ RunStage \/ StagesDone \/ NextPass
  <2>1. pc # "idle" /\ pc' # "idle" /\ UNCHANGED <<stages, cfg, src>>
    BY <1>2 DEF SkipStage, RunStage, StagesDone, NextPass, NewState
  <2> QED
    BY <2>1, InnerMaps
<1>3. CASE SinglePassDone
  BY <1>3, SingleMaps
<1>4. CASE FixpointReached
  BY <1>4, FixpointEntry, SettledMaps DEF FixpointReached
<1>5. CASE CycleDetected
  <2> DEFINE least == minByteState(SubSeq(states, IndexOf(states, out), Len(states)))
  <2>1. Return(least, states, "cycle")
    BY <1>5 DEF CycleDetected, IndexOf
  <2>2. EntryInv(Entry(least, states, "cycle"), stages)
    BY <1>5, CycleEntry DEF CycleDetected
  <2> HIDE DEF least
  <2>3. pc = "gofmt"
    BY <1>5 DEF CycleDetected
  <2> QED
    BY <2>1, <2>2, <2>3, SettledMaps
<1>6. CASE OutOfPasses
  BY <1>6, ExhaustedMaps
<1>7. CASE UNCHANGED vars
  BY <1>7 DEF vars, Contract!vars, Mode
<1> QED
  BY <1>1, <1>2, <1>3, <1>4, <1>5, <1>6, <1>7 DEF Next, Work

LEMMA InitMaps == Init => Contract!Init
  BY DEF Init, Contract!Init, Mode

(***************************************************************************)
(* Pipeline.Format, for all stages, texts and numbers of passes: a call    *)
(* returns the least text of the cycle its orbit ends in, or the last text *)
(* of an orbit that does not come round in the passes allowed.             *)
(***************************************************************************)
THEOREM KeepsClosedForm == BytesAreOrdered => (Spec => Implements)
<1> SUFFICES ASSUME BytesAreOrdered PROVE Spec => Implements
  OBVIOUS
<1>1. Spec => [](PassInv /\ LogInv)
  BY Invariance
<1>2. Init => Contract!Init
  BY InitMaps
<1>3. PassInv /\ [Next]_vars => [Contract!Next]_Contract!vars
  BY StepMaps
<1> QED
  BY <1>1, <1>2, <1>3, PTL DEF Spec, Implements, Contract!Spec
=============================================================================
