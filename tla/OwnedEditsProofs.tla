-------------------------- MODULE OwnedEditsProofs --------------------------
(***************************************************************************)
(* Theorems about the ownership registry and the edit builder, for every   *)
(* list of stages, every spans they provide and every text: the queries    *)
(* are exact, a stage is kept off exactly what later stages own, edits are *)
(* refused exactly if they conflict and applied as if one by one, and the  *)
(* difference of two texts is the smallest.                                *)
(***************************************************************************)
EXTENDS Ownership, EditBuilder, Lemmas

(***************************************************************************)
(* The union of what the named stages own.                                 *)
(***************************************************************************)
IsUnion(r, names, f) ==
  f = [n \in 0..Len(names) |->
         IF n = 0 THEN EmptySpanSet ELSE SpanSetUnion(f[n - 1], r.byStage[names[n]])]

(***************************************************************************)
(* The union over a list of stages is a span set of the bytes of each.     *)
(***************************************************************************)
LEMMA UnionFacts ==
  ASSUME NEW r, NEW L, NEW names \in Seq(L), \A n \in L : Apart(r.byStage[n])
  PROVE  /\ Apart(UnionOf(r, names))
         /\ Offsets(UnionOf(r, names)) = UNION {Offsets(r.byStage[n]) : n \in ToSet(names)}
<1>1. PICK n, X : n = Len(names) /\ X = {x \in Seq(Span) : Apart(x)}
  OBVIOUS
<1>2. PICK G : G = [q \in (1..n) \X X |-> SpanSetUnion(q[2], r.byStage[names[q[1]]])]
  OBVIOUS
<1>3. n \in Nat /\ \A i \in 1..n : names[i] \in L /\ Apart(r.byStage[names[i]])
  BY <1>1
<1>4. ASSUME NEW i \in 1..n, NEW x \in X PROVE SpanSetUnion(x, r.byStage[names[i]]) \in X
  <2>1. Apart(SpanSetUnion(x, r.byStage[names[i]]))
    BY <1>1, <1>3, SpanSetUnionFacts
  <2> QED
    BY <1>1, <2>1 DEF Apart
<1>5. G \in [(1..n) \X X -> X]
  BY <1>2, <1>4
<1>6. PICK e : e = <<>>
  OBVIOUS
<1>7. e \in X /\ Apart(e) /\ Offsets(e) = {}
  BY <1>1, <1>6 DEF Apart, Offsets
<1>8. PICK f : Steps(f, X, e, n, G)
  BY <1>3, <1>5, <1>7, StepsExist
<1>9. ASSUME NEW i \in 1..n PROVE f[i] = SpanSetUnion(f[i - 1], r.byStage[names[i]])
  <2>1. i - 1 \in 0..n /\ f[i - 1] \in X
    BY <1>3, <1>8 DEF Steps
  <2> QED
    BY <1>2, <1>8, <2>1 DEF Steps
<1>10. IsUnion(r, names, f)
  BY <1>1, <1>3, <1>6, <1>8, <1>9 DEF IsUnion, Steps, EmptySpanSet
<1>11. PICK g : g = CHOOSE h : IsUnion(r, names, h)
  OBVIOUS
<1>12. IsUnion(r, names, g)
  BY <1>10, <1>11
<1>13. UnionOf(r, names) = g[n]
  BY <1>1, <1>11 DEF UnionOf, IsUnion
<1>14. g[0] = e /\ \A i \in 1..n : g[i] = SpanSetUnion(g[i - 1], r.byStage[names[i]])
  BY <1>1, <1>3, <1>6, <1>12 DEF IsUnion, EmptySpanSet
<1> DEFINE Named(i) == UNION {Offsets(r.byStage[names[j]]) : j \in 1..i}
           Good(i) == Apart(g[i]) /\ Offsets(g[i]) = Named(i)
           U == {i \in Nat : i <= n => Good(i)}
<1>15. 0 \in U
  <2>1. Named(0) = {}
    OBVIOUS
  <2>2. Good(0)
    BY <1>7, <1>14, <2>1
  <2> QED
    BY <2>2
<1>16. ASSUME NEW i \in Nat, i \in U PROVE i + 1 \in U
  <2> SUFFICES ASSUME i + 1 <= n PROVE Good(i + 1)
    OBVIOUS
  <2>1. PICK x, y : x = g[i] /\ y = r.byStage[names[i + 1]]
    OBVIOUS
  <2>2. i + 1 \in 1..n /\ Apart(x) /\ Offsets(x) = Named(i) /\ Apart(y)
    BY <1>3, <1>16, <2>1
  <2>3. g[i + 1] = SpanSetUnion(x, y)
    BY <1>14, <2>1, <2>2
  <2>4. Named(i + 1) = Named(i) \cup Offsets(y)
    <3>1. 1..(i + 1) = 1..i \cup {i + 1}
      OBVIOUS
    <3> QED
      BY <2>1, <3>1
  <2> HIDE DEF Named
  <2> QED
    BY <2>2, <2>3, <2>4, SpanSetUnionFacts
<1> HIDE DEF U
<1>17. Nat \subseteq U
  BY <1>15, <1>16, NatInductionOnSets
<1>18. Good(n)
  <2> HIDE DEF Good
  <2> QED
    BY <1>3, <1>17 DEF U
<1>19. Named(n) = UNION {Offsets(r.byStage[m]) : m \in ToSet(names)}
  BY <1>1, <1>3 DEF ToSet
<1> QED
  BY <1>13, <1>18, <1>19

-----------------------------------------------------------------------------
(***************************************************************************)
(* The registry: for each stage visited and listed the bytes it declared,  *)
(* the list in the order of the stages, and allOwned the union.            *)
(***************************************************************************)
VisitedInv ==
  /\ turn \in 1..(Len(Stages) + 1)
  /\ declared \in Seq(Seq(Span))
  /\ Len(declared) = turn - 1

AllOwnedInv ==
  /\ Apart(reg.allOwned)
  /\ Offsets(reg.allOwned) = UNION {Offsets(declared[i]) : i \in 1..(turn - 1)}

ListInv ==
  /\ reg.stageList \in Seq(ToSet(Stages))
  /\ IsInjective(reg.stageList)
  /\ DOMAIN reg.byStage = ToSet(reg.stageList)
  /\ ToSet(reg.stageList) \subseteq {Stages[i] : i \in 1..(turn - 1)}
  /\ \A k, l \in 1..Len(reg.stageList), i, j \in 1..(turn - 1) :
       reg.stageList[k] = Stages[i] /\ reg.stageList[l] = Stages[j] /\ k < l => i < j

ByStageInv ==
  \A i \in 1..(turn - 1) :
    /\ Stages[i] \in ToSet(reg.stageList) =>
         /\ Apart(reg.byStage[Stages[i]])
         /\ Offsets(reg.byStage[Stages[i]]) = Offsets(declared[i])
    /\ Stages[i] \notin ToSet(reg.stageList) => Offsets(declared[i]) = {}

RegistryInv == VisitedInv /\ AllOwnedInv /\ ListInv /\ ByStageInv

(***************************************************************************)
(* The stages are a list of names, each of them once.                      *)
(***************************************************************************)
LEMMA StagesFacts ==
  /\ Len(Stages) \in Nat
  /\ DOMAIN Stages = 1..Len(Stages)
  /\ \A i \in 1..Len(Stages) : Stages[i] \in ToSet(Stages) /\ Stages[i] # NoName
  /\ \A i, j \in 1..Len(Stages) : Stages[i] = Stages[j] => i = j
<1>1. Len(Stages) \in Nat /\ DOMAIN Stages = 1..Len(Stages)
  BY StagesAssumption
<1>2. \A i \in 1..Len(Stages) : Stages[i] \in ToSet(Stages)
  BY <1>1 DEF ToSet
<1> QED
  BY <1>1, <1>2, StagesAssumption

(***************************************************************************)
(* What a stage provides are spans.                                        *)
(***************************************************************************)
LEMMA ProvidedSpans ==
  ASSUME NEW i \in 1..Len(Stages), NEW raw \in Provides[Stages[i]]
  PROVE  raw \in Seq(Span)
<1>1. raw \in Seq(SpansOf(TextLen))
  BY StagesFacts, SpansAssumption
<1>2. SpansOf(TextLen) \subseteq Span
  BY SpansAssumption DEF SpansOf, Span
<1>3. Len(raw) \in Nat /\ raw \in [1..Len(raw) -> Span]
  BY <1>1, <1>2
<1> QED
  BY <1>3

(***************************************************************************)
(* The bytes declared by one stage more.                                   *)
(***************************************************************************)
LEMMA OneMoreDeclared ==
  ASSUME NEW n \in Nat, NEW d, NEW e, NEW x,
         \A i \in 1..n : e[i] = d[i], e[n + 1] = x
  PROVE  UNION {Offsets(e[i]) : i \in 1..(n + 1)}
           = (UNION {Offsets(d[i]) : i \in 1..n}) \cup Offsets(x)
<1>1. 1..(n + 1) = 1..n \cup {n + 1}
  OBVIOUS
<1>2. ASSUME NEW o
      PROVE  (\E i \in 1..(n + 1) : o \in Offsets(e[i]))
               <=> (\E i \in 1..n : o \in Offsets(d[i])) \/ o \in Offsets(x)
  BY <1>1
<1> QED
  BY <1>2

(***************************************************************************)
(* The invariant holds before the first stage,                             *)
(***************************************************************************)
LEMMA InitRegistryInv == Init => RegistryInv
<1> SUFFICES ASSUME Init PROVE RegistryInv
  OBVIOUS
<1>1. Len(Stages) \in Nat
  BY StagesFacts
<1>2. VisitedInv /\ turn - 1 = 0
  BY <1>1 DEF Init, VisitedInv
<1>3. AllOwnedInv
  BY <1>2 DEF Init, AllOwnedInv, newOwnershipRegistry, EmptySpanSet, Apart, Offsets
<1>4. reg.stageList = <<>> /\ DOMAIN reg.byStage = {} /\ ToSet(<<>>) = {}
  BY DEF Init, newOwnershipRegistry, ToSet
<1>5. ListInv
  BY <1>2, <1>4 DEF ListInv, IsInjective
<1>6. ByStageInv
  BY <1>2 DEF ByStageInv
<1> QED
  BY <1>2, <1>3, <1>5, <1>6 DEF RegistryInv

(***************************************************************************)
(* when a stage provides no spans,                                         *)
(***************************************************************************)
LEMMA SkipRegistryInv == RegistryInv /\ SkipStage => RegistryInv'
<1> SUFFICES ASSUME RegistryInv, SkipStage PROVE RegistryInv'
  OBVIOUS
<1> USE DEF RegistryInv
<1>1. /\ Len(Stages) \in Nat /\ turn \in 1..Len(Stages) /\ turn' = turn + 1
      /\ declared \in Seq(Seq(Span)) /\ Len(declared) = turn - 1
      /\ declared' = Append(declared, <<>>) /\ reg' = reg
      /\ turn' - 1 = turn
      /\ 1..turn = 1..(turn - 1) \cup {turn}
  BY StagesFacts DEF VisitedInv, SkipStage
<1>2. /\ declared' \in Seq(Seq(Span)) /\ Len(declared') = turn
      /\ declared'[turn] = <<>>
      /\ \A i \in 1..(turn - 1) : declared'[i] = declared[i]
  BY <1>1
<1>3. VisitedInv'
  BY <1>1, <1>2 DEF VisitedInv
<1>4. Offsets(<<>>) = {}
  BY DEF Offsets
<1>5. AllOwnedInv'
  <2>1. UNION {Offsets(declared'[i]) : i \in 1..turn}
          = (UNION {Offsets(declared[i]) : i \in 1..(turn - 1)}) \cup Offsets(<<>>)
    <3>1. PICK n, d, e, x : n = turn - 1 /\ d = declared /\ e = declared' /\ x = <<>>
      OBVIOUS
    <3>2. n \in Nat /\ n + 1 = turn /\ (\A i \in 1..n : e[i] = d[i]) /\ e[n + 1] = x
      BY <1>1, <1>2, <3>1
    <3>3. UNION {Offsets(e[i]) : i \in 1..(n + 1)} = (UNION {Offsets(d[i]) : i \in 1..n}) \cup Offsets(x)
      BY <3>2, OneMoreDeclared
    <3> QED
      BY <3>1, <3>2, <3>3
  <2> QED
    BY <1>1, <1>4, <2>1 DEF AllOwnedInv
<1>6. Stages[turn] \notin ToSet(reg.stageList)
  BY <1>1, StagesFacts DEF ListInv
<1>7. ListInv'
  <2>1. {Stages[i] : i \in 1..(turn - 1)} \subseteq {Stages[i] : i \in 1..turn}
    BY <1>1
  <2>2. \A k \in 1..Len(reg.stageList) : reg.stageList[k] # Stages[turn]
    BY <1>6 DEF ToSet, ListInv
  <2>3. /\ reg'.stageList = reg.stageList /\ reg'.byStage = reg.byStage
        /\ turn' - 1 = turn
    BY <1>1
  <2>4. ASSUME NEW k \in 1..Len(reg.stageList), NEW l \in 1..Len(reg.stageList),
               NEW i \in 1..turn, NEW j \in 1..turn,
               reg.stageList[k] = Stages[i], reg.stageList[l] = Stages[j], k < l
        PROVE  i < j
    <3>1. i # turn /\ j # turn
      BY <2>2, <2>4
    <3>2. i \in 1..(turn - 1) /\ j \in 1..(turn - 1)
      BY <1>1, <3>1
    <3> QED
      BY <2>4, <3>2 DEF ListInv
  <2>5. /\ reg.stageList \in Seq(ToSet(Stages))
        /\ IsInjective(reg.stageList)
        /\ DOMAIN reg.byStage = ToSet(reg.stageList)
        /\ ToSet(reg.stageList) \subseteq {Stages[i] : i \in 1..turn}
    BY <2>1 DEF ListInv
  <2> QED
    BY <2>3, <2>4, <2>5 DEF ListInv
<1>8. ByStageInv'
  BY <1>1, <1>2, <1>4, <1>6 DEF ByStageInv
<1> QED
  BY <1>3, <1>5, <1>7, <1>8

(***************************************************************************)
(* when the spans of a stage are added,                                    *)
(***************************************************************************)
LEMMA AddRegistryInv == RegistryInv /\ AddStage => RegistryInv'
<1> SUFFICES ASSUME RegistryInv, AddStage PROVE RegistryInv'
  OBVIOUS
<1> USE DEF RegistryInv
<1>1. /\ Len(Stages) \in Nat /\ turn \in 1..Len(Stages) /\ turn' = turn + 1
      /\ declared \in Seq(Seq(Span)) /\ Len(declared) = turn - 1
      /\ turn' - 1 = turn
      /\ 1..turn = 1..(turn - 1) \cup {turn}
  BY StagesFacts DEF VisitedInv, AddStage
<1>2. PICK name, spans, raw :
        /\ name = Stages[turn]
        /\ raw \in Seq(Span)
        /\ spans = NewOffsetSpanSet(raw)
        /\ reg' = add(reg, name, spans)
        /\ declared' = Append(declared, raw)
  BY <1>1, ProvidedSpans DEF AddStage
<1>3. Apart(spans) /\ Offsets(spans) = Offsets(raw)
  BY <1>2, NewSpanSetFacts
<1>4. name \notin ToSet(reg.stageList) /\ name \in ToSet(Stages)
  <2>1. \A i \in 1..(turn - 1) : Stages[i] # name
    <3> TAKE i \in 1..(turn - 1)
    <3>1. i \in 1..Len(Stages) /\ turn \in 1..Len(Stages) /\ i # turn
      BY <1>1
    <3> QED
      BY <1>2, <3>1, StagesFacts
  <2>2. name \in ToSet(Stages)
    BY <1>1, <1>2, StagesFacts
  <2> QED
    BY <2>1, <2>2 DEF ListInv
<1>5. PICK all, list, by : all = reg.allOwned /\ list = reg.stageList /\ by = reg.byStage
  OBVIOUS
<1>6. /\ reg'.allOwned = SpanSetUnion(all, spans)
      /\ reg'.stageList = Append(list, name)
      /\ DOMAIN reg'.byStage = DOMAIN by \cup {name}
      /\ reg'.byStage[name] = spans
      /\ \A n \in DOMAIN by : n # name => reg'.byStage[n] = by[n]
  BY <1>2, <1>4, <1>5 DEF add, ListInv
<1>7. /\ declared' \in Seq(Seq(Span)) /\ Len(declared') = turn
      /\ declared'[turn] = raw
      /\ \A i \in 1..(turn - 1) : declared'[i] = declared[i]
  BY <1>1, <1>2
<1>8. VisitedInv'
  BY <1>1, <1>7 DEF VisitedInv
<1>9. AllOwnedInv'
  <2>1. UNION {Offsets(declared'[i]) : i \in 1..turn}
          = (UNION {Offsets(declared[i]) : i \in 1..(turn - 1)}) \cup Offsets(raw)
    <3>1. PICK n, d, e, x : n = turn - 1 /\ d = declared /\ e = declared' /\ x = raw
      OBVIOUS
    <3>2. n \in Nat /\ n + 1 = turn /\ (\A i \in 1..n : e[i] = d[i]) /\ e[n + 1] = x
      BY <1>1, <1>7, <3>1
    <3>3. UNION {Offsets(e[i]) : i \in 1..(n + 1)} = (UNION {Offsets(d[i]) : i \in 1..n}) \cup Offsets(x)
      BY <3>2, OneMoreDeclared
    <3> QED
      BY <3>1, <3>2, <3>3
  <2>2. Apart(all) /\ Offsets(all) = UNION {Offsets(declared[i]) : i \in 1..(turn - 1)}
    BY <1>5 DEF AllOwnedInv
  <2>3. Apart(SpanSetUnion(all, spans))
        /\ Offsets(SpanSetUnion(all, spans)) = Offsets(all) \cup Offsets(spans)
    BY <1>3, <2>2, SpanSetUnionFacts
  <2>4. turn' - 1 = turn /\ reg'.allOwned = SpanSetUnion(all, spans)
    BY <1>1, <1>6
  <2>5. Offsets(reg'.allOwned) = UNION {Offsets(declared'[i]) : i \in 1..turn}
    <3>1. PICK new, D, E :
            /\ new = SpanSetUnion(all, spans)
            /\ D = UNION {Offsets(declared[i]) : i \in 1..(turn - 1)}
            /\ E = UNION {Offsets(declared'[i]) : i \in 1..turn}
      OBVIOUS
    <3>2. Offsets(new) = Offsets(all) \cup Offsets(raw)
      BY <1>3, <2>3, <3>1
    <3>3. E = D \cup Offsets(raw) /\ Offsets(all) = D
      BY <2>1, <2>2, <3>1
    <3>4. Offsets(new) = E
      BY <3>2, <3>3
    <3> QED
      BY <2>4, <3>1, <3>4
  <2> QED
    BY <2>3, <2>4, <2>5 DEF AllOwnedInv
<1>10. PICK m, new : m = Len(list) /\ new = Append(list, name)
  OBVIOUS
<1>11. /\ list \in Seq(ToSet(Stages)) /\ IsInjective(list)
       /\ DOMAIN by = ToSet(list)
       /\ ToSet(list) \subseteq {Stages[i] : i \in 1..(turn - 1)}
       /\ \A k, l \in 1..m, i, j \in 1..(turn - 1) :
            list[k] = Stages[i] /\ list[l] = Stages[j] /\ k < l => i < j
  BY <1>5, <1>10 DEF ListInv
<1>12. new \in Seq(ToSet(Stages)) /\ IsInjective(new) /\ ToSet(new) = ToSet(list) \cup {name}
  BY <1>4, <1>5, <1>10, <1>11, AppendNew
<1>13. ListInv'
  <2>1. ToSet(new) \subseteq {Stages[i] : i \in 1..turn}
    BY <1>1, <1>2, <1>11, <1>12
  <2>2. /\ m \in Nat /\ Len(new) = m + 1 /\ new[m + 1] = name
        /\ \A k \in 1..m : new[k] = list[k] /\ list[k] # name
    BY <1>4, <1>5, <1>10, <1>11 DEF ToSet
  <2>3. ASSUME NEW k \in 1..Len(new), NEW l \in 1..Len(new),
               NEW i \in 1..turn, NEW j \in 1..turn,
               new[k] = Stages[i], new[l] = Stages[j], k < l
        PROVE  i < j
    <3>1. k \in 1..m /\ new[k] = list[k] /\ i # turn /\ i \in 1..(turn - 1)
      <4>1. k \in 1..m /\ new[k] = list[k] /\ list[k] # name
        BY <2>2, <2>3
      <4>2. i # turn
        BY <1>2, <2>3, <4>1
      <4> QED
        BY <1>1, <4>1, <4>2
    <3>2. CASE l = m + 1
      <4>1. j = turn
        BY <1>1, <1>2, <2>2, <2>3, <3>2, StagesFacts
      <4> QED
        BY <1>1, <3>1, <4>1
    <3>3. CASE l \in 1..m
      <4>1. new[l] = list[l] /\ j # turn /\ j \in 1..(turn - 1)
        <5>1. new[l] = list[l] /\ list[l] # name
          BY <2>2, <3>3
        <5>2. j # turn
          BY <1>2, <2>3, <5>1
        <5> QED
          BY <1>1, <5>1, <5>2
      <4> QED
        BY <1>11, <2>3, <3>1, <3>3, <4>1
    <3> QED
      BY <2>2, <3>2, <3>3
  <2>4. reg'.stageList = new /\ turn' - 1 = turn
    BY <1>1, <1>6, <1>10
  <2>5. DOMAIN reg'.byStage = ToSet(new)
    BY <1>6, <1>11, <1>12
  <2> QED
    BY <1>12, <2>1, <2>3, <2>4, <2>5 DEF ListInv
<1>14. ByStageInv'
  <2>1. reg'.stageList = new /\ turn' - 1 = turn
    BY <1>1, <1>6, <1>10
  <2>2. ASSUME NEW i \in 1..turn
        PROVE  /\ Stages[i] \in ToSet(new) =>
                    /\ Apart(reg'.byStage[Stages[i]])
                    /\ Offsets(reg'.byStage[Stages[i]]) = Offsets(declared'[i])
               /\ Stages[i] \notin ToSet(new) => Offsets(declared'[i]) = {}
    <3>1. CASE i = turn
      BY <1>2, <1>3, <1>6, <1>7, <1>12, <3>1
    <3>2. CASE i \in 1..(turn - 1)
      <4>1. Stages[i] # name /\ declared'[i] = declared[i]
        BY <1>1, <1>2, <1>7, <3>2, StagesFacts
      <4>2. Stages[i] \in ToSet(new) <=> Stages[i] \in ToSet(list)
        BY <1>12, <4>1
      <4>3. Stages[i] \in ToSet(list) => reg'.byStage[Stages[i]] = by[Stages[i]]
        BY <1>6, <1>11, <4>1
      <4> QED
        BY <1>5, <3>2, <4>1, <4>2, <4>3 DEF ByStageInv
    <3> QED
      BY <1>1, <3>1, <3>2
  <2> QED
    BY <2>1, <2>2 DEF ByStageInv
<1> QED
  BY <1>8, <1>9, <1>13, <1>14

(***************************************************************************)
(* and in every other step.                                                *)
(***************************************************************************)
LEMMA NextRegistryInv == RegistryInv /\ [Next]_vars => RegistryInv'
<1> SUFFICES ASSUME RegistryInv, [Next]_vars PROVE RegistryInv'
  OBVIOUS
<1>1. CASE SkipStage
  BY <1>1, SkipRegistryInv
<1>2. CASE AddStage
  BY <1>2, AddRegistryInv
<1>3. CASE UNCHANGED vars
  BY <1>3 DEF RegistryInv, VisitedInv, AllOwnedInv, ListInv, ByStageInv, vars
<1> QED
  BY <1>1, <1>2, <1>3 DEF Next

(***************************************************************************)
(* The registry says which bytes each stage declared, and all of them      *)
(* together (Ownership.Add, AddSpans, AllOwned).                           *)
(***************************************************************************)
THEOREM RegistryInvariant == Spec => []RegistryInv
  BY InitRegistryInv, NextRegistryInv, PTL DEF Spec

-----------------------------------------------------------------------------
(***************************************************************************)
(* All that was declared is in the set of everything owned.                *)
(***************************************************************************)
LEMMA DeclaredAll ==
  ASSUME RegistryInv
  PROVE  /\ DOMAIN declared = 1..(turn - 1)
         /\ DeclaredOffsets(DOMAIN declared) = Offsets(reg.allOwned)
<1>1. DOMAIN declared = 1..(turn - 1)
  BY DEF RegistryInv, VisitedInv
<1> QED
  BY <1>1 DEF RegistryInv, AllOwnedInv, DeclaredOffsets

(***************************************************************************)
(* The queries.                                                            *)
(***************************************************************************)
THEOREM QueriesAreExact == Spec => []QueriesExact
<1>1. RegistryInv => QueriesExact
  <2> SUFFICES ASSUME RegistryInv PROVE QueriesExact
    OBVIOUS
  <2>1. PICK all : all = reg.allOwned
    OBVIOUS
  <2>2. Apart(all) /\ DeclaredOffsets(DOMAIN declared) = Offsets(all)
    BY <2>1, DeclaredAll DEF RegistryInv, AllOwnedInv
  <2>3. ASSUME NEW s \in 0..TextLen, NEW e \in 0..TextLen
        PROVE  editOverlapsForbidden(all, s, e)
                 <=> IF s = e THEN s \in Offsets(all)
                              ELSE (s .. (e - 1)) \cap Offsets(all) # {}
    <3>1. s \in Nat /\ e \in Nat
      BY SpansAssumption
    <3> QED
      BY <2>2, <3>1, ForbiddenExact
  <2> QED
    BY <2>1, <2>2, <2>3 DEF QueriesExact
<1> QED
  BY <1>1, RegistryInvariant, PTL

(***************************************************************************)
(* What listed stages own together.                                        *)
(***************************************************************************)
LEMMA NamedOffsets ==
  ASSUME RegistryInv, NEW names \in Seq(ToSet(reg.stageList))
  PROVE  Offsets(UnionOf(reg, names))
           = UNION {Offsets(declared[i]) : i \in {j \in 1..(turn - 1) : Stages[j] \in ToSet(names)}}
<1>1. PICK r, L : r = reg /\ L = ToSet(reg.stageList)
  OBVIOUS
<1>2. ASSUME NEW n \in L
      PROVE  \E i \in 1..(turn - 1) : /\ n = Stages[i] /\ Apart(r.byStage[n])
                                      /\ Offsets(r.byStage[n]) = Offsets(declared[i])
  BY <1>1 DEF RegistryInv, ListInv, ByStageInv
<1>3. names \in Seq(L) /\ \A n \in L : Apart(r.byStage[n])
  BY <1>1, <1>2
<1>4. Offsets(UnionOf(r, names)) = UNION {Offsets(r.byStage[n]) : n \in ToSet(names)}
  BY <1>3, UnionFacts
<1>5. ToSet(names) \subseteq L
  BY <1>3 DEF ToSet
<1>6. \A i \in 1..(turn - 1) :
        Stages[i] \in L => Offsets(r.byStage[Stages[i]]) = Offsets(declared[i])
  BY <1>1 DEF RegistryInv, ByStageInv
<1>7. UNION {Offsets(r.byStage[n]) : n \in ToSet(names)}
        = UNION {Offsets(declared[i]) : i \in {j \in 1..(turn - 1) : Stages[j] \in ToSet(names)}}
  BY <1>2, <1>5, <1>6
<1> QED
  BY <1>1, <1>4, <1>7

(***************************************************************************)
(* Directional ownership.                                                  *)
(***************************************************************************)
THEOREM ForbidsLater == Spec => []ForbidsExactlyLater
<1>1. ASSUME RegistryInv, NEW i \in 1..(turn - 1)
      PROVE  Offsets(ForbiddenSpans(reg, Stages[i]))
               = IF Stages[i] \in DOMAIN reg.byStage
                   THEN DeclaredOffsets((i + 1)..Len(Stages))
                   ELSE DeclaredOffsets(DOMAIN declared)
  <2>1. PICK list, name, m : list = reg.stageList /\ name = Stages[i] /\ m = Len(list)
    OBVIOUS
  <2>2. /\ Len(Stages) \in Nat /\ turn \in 1..(Len(Stages) + 1) /\ i \in 1..Len(Stages)
        /\ name # NoName
    BY <1>1, <2>1, StagesFacts DEF RegistryInv, VisitedInv
  <2>3. /\ list \in Seq(ToSet(Stages)) /\ m \in Nat /\ DOMAIN list = 1..m
        /\ IsInjective(list)
        /\ DOMAIN reg.byStage = ToSet(list)
        /\ ToSet(list) = {list[k] : k \in 1..m}
    BY <1>1, <2>1 DEF RegistryInv, ListInv, ToSet
  <2>4. PICK idx : idx = SelectInSeq(list, LAMBDA n : n = name)
    OBVIOUS
  <2>5. ForbiddenSpans(reg, name)
          = IF idx = 0 THEN reg.allOwned ELSE UnionOf(reg, SubSeq(list, idx + 1, m))
    BY <2>1, <2>2, <2>4 DEF ForbiddenSpans, AllOwnedAfter
  <2>6. CASE name \notin ToSet(list)
    <3>1. {k \in 1..m : list[k] = name} = {}
      BY <2>3, <2>6
    <3>2. idx = 0
      BY <2>1, <2>4, <3>1 DEF SelectInSeq
    <3> QED
      BY <1>1, <2>1, <2>3, <2>5, <2>6, <3>2, DeclaredAll
  <2>7. CASE name \in ToSet(list)
    <3>1. PICK k \in 1..m : list[k] = name
      BY <2>3, <2>7
    <3>2. {l \in 1..m : list[l] = name} = {k}
      BY <2>3, <3>1 DEF IsInjective
    <3>3. idx = k
      BY <2>1, <2>4, <3>2 DEF SelectInSeq, Min
    <3>4. PICK rest : rest = SubSeq(list, k + 1, m)
      OBVIOUS
    <3>5. rest \in Seq(ToSet(list)) /\ ToSet(rest) = {list[l] : l \in (k + 1)..m}
      <4>1. /\ Len(rest) = m - k
            /\ \A l \in 1..(m - k) : rest[l] = list[k + l]
            /\ DOMAIN rest = 1..(m - k)
        BY <2>1, <2>3, <3>1, <3>4
      <4>2. rest \in Seq(ToSet(list))
        <5>1. k + 1 \in Int /\ m \in Int /\ \A l \in (k + 1)..m : list[l] \in ToSet(list)
          BY <2>3, <3>1
        <5> QED
          BY <3>4, <5>1, SubSeqProperties
      <4>3. ASSUME NEW l \in (k + 1)..m PROVE list[l] \in ToSet(rest)
        <5>1. l - k \in 1..(m - k) /\ k + (l - k) = l
          BY <2>3, <3>1
        <5> QED
          BY <4>1, <5>1 DEF ToSet
      <4>4. ToSet(rest) \subseteq {list[l] : l \in (k + 1)..m}
        BY <2>3, <3>1, <4>1 DEF ToSet
      <4> QED
        BY <4>2, <4>3, <4>4
    <3>6. Offsets(UnionOf(reg, rest))
            = UNION {Offsets(declared[j]) : j \in {j \in 1..(turn - 1) : Stages[j] \in ToSet(rest)}}
      BY <1>1, <2>1, <3>5, NamedOffsets
    <3>7. ASSUME NEW j \in 1..(turn - 1), Stages[j] \in ToSet(rest) PROVE j \in (i + 1)..Len(Stages)
      <4>1. PICK l \in (k + 1)..m : Stages[j] = list[l]
        BY <3>5, <3>7
      <4>2. i < j
        BY <1>1, <2>1, <2>3, <3>1, <4>1 DEF RegistryInv, ListInv
      <4> QED
        BY <2>2, <4>2
    <3>8. ASSUME NEW j \in 1..(turn - 1), i < j, Stages[j] \notin ToSet(rest)
          PROVE  Offsets(declared[j]) = {}
      <4>1. Stages[j] \notin ToSet(list)
        <5> SUFFICES ASSUME Stages[j] \in ToSet(list) PROVE FALSE
          OBVIOUS
        <5>1. PICK l \in 1..m : Stages[j] = list[l]
          BY <2>3
        <5>2. ~(l < k)
          BY <1>1, <2>1, <3>1, <3>8, <5>1 DEF RegistryInv, ListInv
        <5>3. l # k
          BY <2>1, <2>2, <3>1, <3>8, <5>1, StagesFacts
        <5>4. l \in (k + 1)..m
          BY <2>3, <3>1, <5>2, <5>3
        <5> QED
          BY <3>5, <3>8, <5>1, <5>4
      <4> QED
        BY <1>1, <2>1, <4>1 DEF RegistryInv, ByStageInv
    <3>9. DeclaredOffsets((i + 1)..Len(Stages))
            = UNION {Offsets(declared[j]) : j \in {j \in 1..(turn - 1) : i < j}}
      <4>1. (i + 1)..Len(Stages) \cap DOMAIN declared = {j \in 1..(turn - 1) : i < j}
        BY <1>1, <2>2, DeclaredAll
      <4> QED
        BY <4>1 DEF DeclaredOffsets
    <3>10. UNION {Offsets(declared[j]) : j \in {j \in 1..(turn - 1) : i < j}}
             = UNION {Offsets(declared[j]) : j \in {j \in 1..(turn - 1) : Stages[j] \in ToSet(rest)}}
      <4>1. ASSUME NEW j \in 1..(turn - 1)
            PROVE  /\ Stages[j] \in ToSet(rest) => i < j
                   /\ i < j /\ Stages[j] \notin ToSet(rest) => Offsets(declared[j]) = {}
        <5>1. Stages[j] \in ToSet(rest) => i < j
          BY <2>2, <3>7
        <5> QED
          BY <3>8, <5>1
      <4> QED
        BY <4>1
    <3>11. Offsets(ForbiddenSpans(reg, name)) = DeclaredOffsets((i + 1)..Len(Stages))
      <4>1. idx # 0
        BY <2>3, <3>1, <3>3
      <4> QED
        BY <2>5, <3>3, <3>4, <3>6, <3>9, <3>10, <4>1
    <3> QED
      BY <2>1, <2>3, <2>7, <3>11
  <2> QED
    BY <2>6, <2>7
<1>2. ASSUME RegistryInv, NEW i \in 1..(turn - 1)
      PROVE  Offsets(AllOwnedExcept(reg, Stages[i])) = DeclaredOffsets(DOMAIN declared \ {i})
  <2>1. PICK list, name, others :
          /\ list = reg.stageList /\ name = Stages[i]
          /\ others = Selected(list, ToSet(list) \ {name})
    OBVIOUS
  <2>2. /\ Len(Stages) \in Nat /\ turn \in 1..(Len(Stages) + 1) /\ i \in 1..Len(Stages)
        /\ name # NoName
    BY <1>2, <2>1, StagesFacts DEF RegistryInv, VisitedInv
  <2>3. others \in Seq(ToSet(list)) /\ ToSet(others) = ToSet(list) \ {name}
    <3>1. list \in Seq(ToSet(Stages)) /\ IsInjective(list)
      BY <1>2, <2>1 DEF RegistryInv, ListInv
    <3>2. others \in Seq(ToSet(Stages)) /\ ToSet(others) = ToSet(list) \ {name}
      BY <2>1, <3>1, SelectedFacts
    <3>3. Len(others) \in Nat /\ others \in [1..Len(others) -> ToSet(list)]
      BY <3>2 DEF ToSet
    <3> QED
      BY <3>2, <3>3
  <2>4. AllOwnedExcept(reg, name) = UnionOf(reg, others)
    BY <2>1, <2>2 DEF AllOwnedExcept
  <2>5. Offsets(UnionOf(reg, others))
          = UNION {Offsets(declared[j]) : j \in {j \in 1..(turn - 1) : Stages[j] \in ToSet(others)}}
    BY <1>2, <2>1, <2>3, NamedOffsets
  <2>6. \A j \in 1..(turn - 1) : Stages[j] \in ToSet(others) <=> Stages[j] \in ToSet(list) /\ j # i
    <3> TAKE j \in 1..(turn - 1)
    <3>1. j \in 1..Len(Stages)
      BY <2>2
    <3>2. Stages[j] = Stages[i] <=> j = i
      BY <2>2, <3>1, StagesFacts
    <3> QED
      BY <2>1, <2>3, <3>2
  <2>7. \A j \in 1..(turn - 1) : Stages[j] \notin ToSet(list) => Offsets(declared[j]) = {}
    BY <1>2, <2>1 DEF RegistryInv, ByStageInv
  <2>8. DeclaredOffsets(DOMAIN declared \ {i})
          = UNION {Offsets(declared[j]) : j \in {j \in 1..(turn - 1) : j # i}}
    <3>1. (DOMAIN declared \ {i}) \cap DOMAIN declared = {j \in 1..(turn - 1) : j # i}
      BY <1>2, DeclaredAll
    <3> QED
      BY <3>1 DEF DeclaredOffsets
  <2>9. UNION {Offsets(declared[j]) : j \in {j \in 1..(turn - 1) : j # i}}
          = UNION {Offsets(declared[j]) : j \in {j \in 1..(turn - 1) : Stages[j] \in ToSet(others)}}
    BY <2>6, <2>7
  <2> QED
    BY <2>1, <2>4, <2>5, <2>8, <2>9
<1>3. RegistryInv => ForbidsExactlyLater
  BY <1>1, <1>2 DEF ForbidsExactlyLater
<1> QED
  BY <1>3, RegistryInvariant, PTL

-----------------------------------------------------------------------------
Byte == UNION {ToSet(t) : t \in Sources \cup Contents}

BuilderInv ==
  /\ src \in Seq(Byte)
  /\ edits \in Seq(EditOver(Byte, Len(src)))
  /\ result.done => /\ result.ok = BuilderApply(src, edits).ok
                    /\ result.changed = BuilderApply(src, edits).changed
                    /\ result.text = BuilderApply(src, edits).text

(***************************************************************************)
(* All texts are made of bytes.                                            *)
(***************************************************************************)
LEMMA TextsOfBytes ==
  ASSUME NEW t \in Sources \cup Contents
  PROVE  t \in Seq(Byte)
<1>1. t \in Seq(ToSet(t)) /\ ToSet(t) \subseteq Byte
  BY TextsAssumption DEF Byte
<1>2. PICK T : T = ToSet(t)
  OBVIOUS
<1>3. Len(t) \in Nat /\ t \in [1..Len(t) -> Byte]
  BY <1>1, <1>2
<1> QED
  BY <1>3

(***************************************************************************)
(* The invariant holds before the first edit,                              *)
(***************************************************************************)
LEMMA InitBuilderInv == BuilderInit => BuilderInv
  BY TextsOfBytes DEF BuilderInit, BuilderInv, NotApplied

(***************************************************************************)
(* when an edit is collected,                                              *)
(***************************************************************************)
LEMMA CollectKeeps ==
  ASSUME BuilderInv, NEW e \in EditOver(Byte, Len(src)), Collect(e)
  PROVE  BuilderInv'
<1>1. src' = src /\ edits' = Append(edits, e) /\ result' = result /\ ~result.done
  BY DEF Collect
<1>2. PICK L : L = EditOver(Byte, Len(src))
  OBVIOUS
<1>3. edits' \in Seq(L)
  BY <1>1, <1>2 DEF BuilderInv
<1> QED
  BY <1>1, <1>2, <1>3 DEF BuilderInv

(***************************************************************************)
(* an edit made within a text is an edit of it,                            *)
(***************************************************************************)
LEMMA EditIsOver ==
  ASSUME NEW B, NEW n \in Nat, NEW s \in 0..n, NEW e \in s..n, NEW p \in Seq(B)
  PROVE  Edit(s, e, p) \in EditOver(B, n)
  BY DEF Edit, EditOver

(***************************************************************************)
(* and in every step.                                                      *)
(***************************************************************************)
LEMMA NextBuilderInv == BuilderInv /\ [BuilderNext]_builderVars => BuilderInv'
<1> SUFFICES ASSUME BuilderInv, [BuilderNext]_builderVars PROVE BuilderInv'
  OBVIOUS
<1>1. Len(src) \in Nat
  BY DEF BuilderInv
<1>2. \A p \in Spans : p[1] \in 0..Len(src) /\ p[2] \in p[1]..Len(src)
  BY <1>1 DEF Spans
<1>3. CASE Replace
  <2>1. PICK p \in Spans, c \in Contents \ {<<>>} : Collect(Edit(p[1], p[2], c))
    BY <1>3 DEF Replace
  <2>2. Edit(p[1], p[2], c) \in EditOver(Byte, Len(src))
    BY <1>1, <1>2, TextsOfBytes, EditIsOver
  <2> QED
    BY <2>1, <2>2, CollectKeeps
<1>4. CASE Insert
  <2>1. PICK pos \in 0..Len(src), c \in Contents : Collect(Edit(pos, pos, c))
    BY <1>4 DEF Insert
  <2>2. Edit(pos, pos, c) \in EditOver(Byte, Len(src))
    BY <1>1, TextsOfBytes, EditIsOver
  <2> QED
    BY <2>1, <2>2, CollectKeeps
<1>5. CASE Delete
  <2>1. PICK p \in Spans : Collect(Edit(p[1], p[2], <<>>))
    BY <1>5 DEF Delete
  <2>2. PICK c : c = <<>>
    OBVIOUS
  <2>3. c \in Seq(Byte)
    BY <2>2
  <2>4. Edit(p[1], p[2], c) \in EditOver(Byte, Len(src))
    BY <1>1, <1>2, <2>3, EditIsOver
  <2> QED
    BY <2>1, <2>2, <2>4, CollectKeeps
<1>6. CASE Apply
  BY <1>6 DEF Apply, BuilderInv
<1>7. CASE UNCHANGED builderVars
  BY <1>7 DEF BuilderInv, builderVars
<1> QED
  BY <1>3, <1>4, <1>5, <1>6, <1>7 DEF BuilderNext

(***************************************************************************)
(* The edits collected are within the text, and a result is that of        *)
(* EditBuilder.Apply.                                                      *)
(***************************************************************************)
THEOREM BuilderInvariant == BuilderSpec => []BuilderInv
  BY InitBuilderInv, NextBuilderInv, PTL DEF BuilderSpec

-----------------------------------------------------------------------------
(***************************************************************************)
(* filterNoOps keeps some of the edits.                                    *)
(***************************************************************************)
LEMMA KeptEdits ==
  ASSUME BuilderInv
  PROVE  Kept \in Seq(EditOver(Byte, Len(src)))
  BY SelectedMembers DEF BuilderInv, Kept, filterNoOps

(***************************************************************************)
(* What Apply returns: the text as it was if nothing is kept, else what    *)
(* ApplyEdits makes of what is kept.                                       *)
(***************************************************************************)
LEMMA AppliedFacts ==
  ASSUME BuilderInv, result.done
  PROVE  /\ Kept = <<>> => result.ok /\ ~result.changed /\ result.text = src
         /\ Kept # <<>> => /\ result.ok <=> ValidEdits(src, SortEdits(Kept))
                           /\ result.text = ApplyEdits(src, Kept).text
<1>1. PICK r : r = BuilderApply(src, edits)
  OBVIOUS
<1>2. result.ok = r.ok /\ result.changed = r.changed /\ result.text = r.text
  BY <1>1 DEF BuilderInv
<1>3. r = IF Kept = <<>>
            THEN [ok |-> TRUE, changed |-> FALSE, text |-> src]
            ELSE [ok      |-> ApplyEdits(src, Kept).ok,
                  changed |-> ApplyEdits(src, Kept).ok,
                  text    |-> ApplyEdits(src, Kept).text]
  BY <1>1 DEF BuilderApply, Kept
<1>4. ApplyEdits(src, Kept).ok <=> ValidEdits(src, SortEdits(Kept))
  BY DEF ApplyEdits, ApplyFailed
<1> QED
  BY <1>2, <1>3, <1>4

(***************************************************************************)
(* Of two edits in the order of the sort, the first one ends behind the    *)
(* start of the second exactly when they conflict.                         *)
(***************************************************************************)
LEMMA ConflictInOrder ==
  ASSUME NEW d, NEW e,
         d.start \in Nat, d.end \in Nat, d.start <= d.end,
         e.start \in Nat, e.end \in Nat, e.start <= e.end,
         \/ d.start < e.start
         \/ d.start = e.start /\ d.end <= e.end
  PROVE  /\ Conflict(d, e) <=> ~(d.end <= e.start)
         /\ Conflict(e, d) <=> ~(d.end <= e.start)
  BY DEF Conflict

(***************************************************************************)
(* Apply refuses the edits collected exactly if two that change something  *)
(* conflict (validateEdits).                                               *)
(***************************************************************************)
THEOREM RefusalIsExact == BuilderSpec => []RefusesExactlyConflicts
<1>1. ASSUME BuilderInv, result.done
      PROVE  result.ok <=> \A i, j \in DOMAIN Kept : i # j => ~Conflict(Kept[i], Kept[j])
  <2>1. CASE Kept = <<>>
    BY <1>1, <2>1, AppliedFacts
  <2>2. CASE Kept # <<>>
    <3>1. PICK s, t, n : s = Kept /\ t = SortEdits(s) /\ n = Len(s)
      OBVIOUS
    <3>2. /\ s \in Seq(EditOver(Byte, Len(src))) /\ Len(src) \in Nat /\ n \in Nat
          /\ DOMAIN s = 1..n
      BY <1>1, <3>1, KeptEdits DEF BuilderInv
    <3>3. PICK p : Arranges(p, s, t, n)
      BY <3>1, <3>2, EditsSorted
    <3>4. result.ok <=> Pairwise(t)
      <4>1. result.ok <=> ValidEdits(src, t)
        BY <1>1, <2>2, <3>1, AppliedFacts
      <4>2. ValidEdits(src, t) <=> Pairwise(t)
        BY <3>1, <3>2, ValidMeansPairwise
      <4> QED
        BY <4>1, <4>2
    <3>5. \A i \in 1..n : /\ s[i].start \in Nat /\ s[i].end \in Nat
                          /\ s[i].start <= s[i].end
      BY <3>1, <3>2 DEF EditOver
    <3>6. ASSUME NEW k \in 1..n, NEW l \in 1..n, k < l
          PROVE  /\ p[k] \in 1..n /\ p[l] \in 1..n /\ p[k] # p[l]
                 /\ t[k] = s[p[k]] /\ t[l] = s[p[l]]
                 /\ Conflict(s[p[k]], s[p[l]]) <=> ~(t[k].end <= t[l].start)
                 /\ Conflict(s[p[l]], s[p[k]]) <=> ~(t[k].end <= t[l].start)
      <4>0. p[k] \in 1..n /\ p[l] \in 1..n /\ t[k] = s[p[k]] /\ t[l] = s[p[l]]
        BY <3>3, <3>6 DEF Arranges
      <4>5. p[k] # p[l]
        BY <3>2, <3>3, <3>6 DEF Arranges
      <4>6. \/ s[p[k]].start < s[p[l]].start
            \/ s[p[k]].start = s[p[l]].start /\ s[p[k]].end <= s[p[l]].end
        BY <3>2, <3>3, <3>6, <4>0 DEF Arranges
      <4>1. /\ p[k] \in 1..n /\ p[l] \in 1..n /\ p[k] # p[l]
            /\ t[k] = s[p[k]] /\ t[l] = s[p[l]]
            /\ \/ s[p[k]].start < s[p[l]].start
               \/ s[p[k]].start = s[p[l]].start /\ s[p[k]].end <= s[p[l]].end
        BY <4>0, <4>5, <4>6
      <4>2. PICK d, e : d = s[p[k]] /\ e = s[p[l]]
        OBVIOUS
      <4>3. /\ d.start \in Nat /\ d.end \in Nat /\ d.start <= d.end
            /\ e.start \in Nat /\ e.end \in Nat /\ e.start <= e.end
            /\ \/ d.start < e.start
               \/ d.start = e.start /\ d.end <= e.end
        BY <3>5, <4>1, <4>2
      <4>4. /\ Conflict(d, e) <=> ~(d.end <= e.start)
            /\ Conflict(e, d) <=> ~(d.end <= e.start)
        BY <4>3, ConflictInOrder
      <4> QED
        BY <4>1, <4>2, <4>4
    <3>7. ASSUME Pairwise(t), NEW i \in 1..n, NEW j \in 1..n, i # j
          PROVE  ~Conflict(s[i], s[j])
      <4>1. PICK k \in 1..n, l \in 1..n : p[k] = i /\ p[l] = j
        BY <3>3 DEF Arranges
      <4>2. k < l \/ l < k
        BY <3>2, <3>7, <4>1
      <4>3. Len(t) = n
        BY <3>3 DEF Arranges
      <4>4. CASE k < l
        BY <3>6, <3>7, <4>1, <4>3, <4>4 DEF Pairwise
      <4>5. CASE l < k
        BY <3>6, <3>7, <4>1, <4>3, <4>5 DEF Pairwise
      <4> QED
        BY <4>2, <4>4, <4>5
    <3>8. ASSUME \A i, j \in 1..n : i # j => ~Conflict(s[i], s[j]) PROVE Pairwise(t)
      <4>1. Len(t) = n
        BY <3>3 DEF Arranges
      <4>2. ASSUME NEW k \in 1..n, NEW l \in 1..n, k < l PROVE t[k].end <= t[l].start
        BY <3>6, <3>8, <4>2
      <4> QED
        BY <4>1, <4>2 DEF Pairwise
    <3> QED
      BY <3>1, <3>2, <3>4, <3>7, <3>8
  <2> QED
    BY <2>1, <2>2
<1>2. BuilderInv => RefusesExactlyConflicts
  BY <1>1 DEF RefusesExactlyConflicts
<1> QED
  BY <1>2, BuilderInvariant, PTL

-----------------------------------------------------------------------------
(***************************************************************************)
(* A result that is accepted is that of a pass over edits in line.         *)
(***************************************************************************)
LEMMA DoneFacts ==
  ASSUME BuilderInv, result.done, result.ok, Kept # <<>>
  PROVE  /\ Orderly(Byte, src, SortEdits(Kept))
         /\ \E out, rest : OnePass(Byte, src, SortEdits(Kept), result.text, out, rest)
<1>1. PICK s, t : s = Kept /\ t = SortEdits(s)
  OBVIOUS
<1>2. s \in Seq(EditOver(Byte, Len(src))) /\ src \in Seq(Byte) /\ Len(src) \in Nat
  BY <1>1, KeptEdits DEF BuilderInv
<1>3. Pairwise(t)
  BY <1>1, <1>2, AppliedFacts, ValidMeansPairwise
<1>4. result.text = ApplyEdits(src, s).text
  BY <1>1, AppliedFacts
<1> QED
  BY <1>1, <1>2, <1>3, <1>4, ApplyFacts

(***************************************************************************)
(* The result of Apply is what the edits give put one by one, last first   *)
(* (ApplyEdits).                                                           *)
(***************************************************************************)
THEOREM AppliesOneByOne == BuilderSpec => []AppliesAsIfOneByOne
<1>1. ASSUME BuilderInv, result.done, result.ok
      PROVE  result.text = OneByOne(src, SortEdits(Kept))
  <2>1. CASE Kept # <<>>
    <3>1. PICK t, r : t = SortEdits(Kept) /\ r = result.text
      OBVIOUS
    <3>2. PICK out, rest : OnePass(Byte, src, t, r, out, rest)
      BY <1>1, <2>1, <3>1, DoneFacts
    <3>3. Orderly(Byte, src, t)
      BY <1>1, <2>1, <3>1, DoneFacts
    <3> QED
      BY <3>1, <3>2, <3>3, OnePassIsOneByOne
  <2>2. CASE Kept = <<>>
    <3>1. PICK t, x : t = SortEdits(Kept) /\ x = src
      OBVIOUS
    <3>2. t = <<>> /\ x \in Seq(Byte)
      BY <1>1, <2>2, <3>1 DEF SortEdits, StableSort, BuilderInv
    <3>3. Orderly(Byte, x, t) /\ Len(t) = 0
      BY <3>2 DEF Orderly, EditsInLine, Pairwise
    <3>4. PICK rest : IsRests(Byte, x, t, rest)
      BY <3>3, RestsExist DEF Orderly
    <3>5. OneByOne(x, t) = rest[0]
      BY <3>3, <3>4, OneByOneFacts
    <3>6. rest[0] = Slice(x, 0, Len(x))
      BY <3>3, <3>4 DEF IsRests, Cursor
    <3>7. Slice(x, 0, Len(x)) = x
      BY <3>2, SliceAll
    <3>8. result.text = x
      BY <1>1, <2>2, <3>1, AppliedFacts
    <3> QED
      BY <3>1, <3>5, <3>6, <3>7, <3>8
  <2> QED
    BY <2>1, <2>2
<1>2. BuilderInv => AppliesAsIfOneByOne
  BY <1>1 DEF AppliesAsIfOneByOne
<1> QED
  BY <1>2, BuilderInvariant, PTL

(***************************************************************************)
(* changedSpan of a result is a correct and smallest difference: it puts   *)
(* the bytes of the result into the source, no shorter span of the source  *)
(* would do, and it never begins before the first edit.                    *)
(***************************************************************************)
THEOREM DifferenceIsExact == BuilderSpec => []ChangedSpanExact
<1>1. ASSUME BuilderInv, result.done, result.ok PROVE result.text \in Seq(Byte)
  <2>1. CASE Kept = <<>>
    BY <1>1, <2>1, AppliedFacts DEF BuilderInv
  <2>2. CASE Kept # <<>>
    BY <1>1, <2>2, DoneFacts DEF OnePass
  <2> QED
    BY <2>1, <2>2
<1>2. ASSUME BuilderInv, result.done, result.ok, result.changed,
             NEW d, d = changedSpan(src, result.text)
      PROVE  d.start >= Min({Kept[i].start : i \in DOMAIN Kept})
  <2>1. Kept # <<>>
    BY <1>2, AppliedFacts
  <2>2. PICK s, t, n, r : s = Kept /\ t = SortEdits(s) /\ n = Len(s) /\ r = result.text
    OBVIOUS
  <2>3. /\ s \in Seq(EditOver(Byte, Len(src))) /\ Len(src) \in Nat /\ n \in Nat \ {0}
        /\ DOMAIN s = 1..n /\ src \in Seq(Byte) /\ r \in Seq(Byte)
    BY <1>1, <1>2, <2>1, <2>2, KeptEdits DEF BuilderInv
  <2>4. PICK p : Arranges(p, s, t, n)
    BY <2>2, <2>3, EditsSorted
  <2>5. /\ 1 \in 1..n /\ p[1] \in 1..n /\ t[1] = s[p[1]] /\ Len(t) # 0
    <3>1. p \in [1..n -> 1..n] /\ t = [k \in 1..n |-> s[p[k]]] /\ Len(t) = n
      BY <2>4 DEF Arranges
    <3> QED
      BY <2>3, <3>1
  <2>6. \A i \in 1..n : s[i].start \in Nat
    BY <2>2, <2>3 DEF EditOver
  <2>7. ASSUME NEW i \in 1..n PROVE t[1].start <= s[i].start
    <3>1. PICK k \in 1..n : p[k] = i
      BY <2>4 DEF Arranges
    <3>2. CASE k = 1
      BY <2>5, <2>6, <3>1, <3>2
    <3>3. CASE k # 1
      <4>1. 1 < k
        BY <2>3, <3>3
      <4>2. s[p[1]].start < s[p[k]].start \/ s[p[1]].start = s[p[k]].start
        BY <2>4, <2>5, <4>1 DEF Arranges
      <4> QED
        BY <2>5, <2>6, <3>1, <4>2
    <3> QED
      BY <3>2, <3>3
  <2>8. PICK T, f : T = {s[i].start : i \in 1..n} /\ f = t[1].start
    OBVIOUS
  <2>9. f \in T /\ T \subseteq Nat /\ \A x \in T : f <= x
    BY <2>5, <2>6, <2>7, <2>8
  <2>10. Min(T) = f
    BY <2>9, MinBelow
  <2>11. Orderly(Byte, src, t) /\ \E out, rest : OnePass(Byte, src, t, r, out, rest)
    BY <1>2, <2>1, <2>2, DoneFacts
  <2>12. /\ f \in 0..Len(src) /\ f <= Len(r)
         /\ Slice(r, 0, f) = Slice(src, 0, f)
    BY <2>5, <2>8, <2>11, BeginsAlike
  <2>13. AlikeUpTo(src, r, f)
    BY <2>12 DEF AlikeUpTo
  <2>14. d.start \in 0..Len(src) /\ f <= d.start
    BY <1>2, <2>2, <2>3, <2>12, <2>13, ChangedSpanStart
  <2>15. Min({Kept[i].start : i \in DOMAIN Kept}) = f
    BY <2>2, <2>3, <2>8, <2>10
  <2> QED
    BY <2>3, <2>12, <2>14, <2>15
<1>3. BuilderInv => ChangedSpanExact
  <2> SUFFICES ASSUME BuilderInv, result.done, result.ok,
                      NEW d, d = changedSpan(src, result.text)
               PROVE  /\ Patch(d.start, d.endAfter, d.endBefore) = result.text
                      /\ \A p \in Spans, c \in 0..Len(result.text) :
                           p[1] <= c /\ Patch(p[1], c, p[2]) = result.text
                             => p[2] - p[1] >= d.endBefore - d.start
                      /\ result.changed => d.start >= Min({Kept[i].start : i \in DOMAIN Kept})
    BY DEF ChangedSpanExact
  <2>1. /\ src \in Seq(Byte) /\ Len(src) \in Nat
        /\ result.text \in Seq(Byte) /\ Len(result.text) \in Nat
    BY <1>1 DEF BuilderInv
  <2>2. \A s, c, e : Patch(s, c, e) = result.text <=> IsPatch(src, result.text, s, c, e)
    BY Zenon DEF Patch, IsPatch
  <2>3. IsPatch(src, result.text, d.start, d.endAfter, d.endBefore)
    BY <2>1, ChangedSpanPatches
  <2>4. ASSUME NEW p \in Spans, NEW c \in 0..Len(result.text), p[1] <= c,
               Patch(p[1], c, p[2]) = result.text
        PROVE  p[2] - p[1] >= d.endBefore - d.start
    <3>1. PICK s, e : s = p[1] /\ e = p[2]
      OBVIOUS
    <3>2. s \in 0..Len(src) /\ e \in s..Len(src)
      BY <2>1, <3>1 DEF Spans
    <3>3. c \in s..Len(result.text)
      BY <2>1, <2>4, <3>1, <3>2
    <3>4. IsPatch(src, result.text, s, c, e)
      BY <2>2, <2>4, <3>1
    <3> QED
      BY <2>1, <3>1, <3>2, <3>3, <3>4, ChangedSpanPatches
  <2> QED
    BY <1>2, <2>2, <2>3, <2>4
<1> QED
  BY <1>3, BuilderInvariant, PTL
=============================================================================
