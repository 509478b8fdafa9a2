---------------------------- MODULE EngineProofs ----------------------------
(***************************************************************************)
(* Proofs about the rule engine, for every parser, rule library, rule list *)
(* and setting.                                                            *)
(***************************************************************************)
EXTENDS Engine, Lemmas

(***************************************************************************)
(* The automatic iteration limit is an integer: the nodes are counted over *)
(* a finite list.                                                          *)
(***************************************************************************)
LEMMA EstimateType ==
  ASSUME NEW src \in Inputs, NEW rules
  PROVE  estimateMaxIterations(src, rules) \in Int
<1> DEFINE S == {i \in DOMAIN Nodes(src) : Nodes(src)[i].type \in ruleNodeTypes(rules)}
<1>1. DOMAIN Nodes(src) = 1 .. Len(Nodes(src)) /\ Len(Nodes(src)) \in Nat
  BY EngineAssumption
<1>2. IsFiniteSet(1 .. Len(Nodes(src)))
  BY <1>1, FS_Interval
<1>3. IsFiniteSet(S)
  BY <1>1, <1>2, FS_Subset
<1>4. Cardinality(S) \in Nat
  BY <1>3, FS_CardinalityType
<1> QED
  BY <1>4, EngineAssumption DEF estimateMaxIterations

(***************************************************************************)
(* IterationLimit: a limit of zero or less is raised to one.               *)
(***************************************************************************)
LEMMA LimitType ==
  ASSUME NEW src \in Inputs, NEW e, e.cfg \in Config
  PROVE  IterationLimit(src, e) \in Nat \ {0}
<1>1. estimateMaxIterations(src, e.rules) \in Int
  BY EstimateType
<1>2. e.cfg.maxIterations \in Int
  BY DEF Config
<1> QED
  BY <1>1, <1>2 DEF IterationLimit

(***************************************************************************)
(* Type correctness of Format's loop.                                      *)
(***************************************************************************)
LEMMA InitTypeOK == Init => TypeOK
<1> SUFFICES ASSUME Init PROVE TypeOK
  OBVIOUS
<1>1. engine.cfg \in Config
  BY EngineAssumption DEF Init
<1>2. maxIters \in Nat \ {0}
  BY <1>1, LimitType DEF Init
<1> QED
  BY <1>1, <1>2 DEF Init, TypeOK, Reasons

LEMMA NextTypeOK == TypeOK /\ [Next]_vars => TypeOK'
<1> SUFFICES ASSUME TypeOK, [Next]_vars PROVE TypeOK'
  OBVIOUS
<1> USE DEF TypeOK, Reasons
<1>1. CASE ParseAndMark
  BY <1>1 DEF ParseAndMark
<1>2. CASE OutOfIterations
  BY <1>2 DEF OutOfIterations, Finish
<1>3. CASE NextNode
  BY <1>3 DEF NextNode
<1>4. CASE SkipRule
  BY <1>4 DEF SkipRule, AtRule
<1>5. CASE ApplyRule
  BY <1>5 DEF ApplyRule, AtRule
<1>6. CASE NoRuleApplies
  BY <1>6 DEF NoRuleApplies, Finish
<1>7. CASE RefuseOverBudget
  BY <1>7 DEF RefuseOverBudget, Finish
<1>8. CASE CommitNew
  BY <1>8 DEF CommitNew, Commit
<1>9. CASE CommitRepeated
  BY <1>9 DEF CommitRepeated, Commit, Finish
<1>10. CASE Returned \/ UNCHANGED vars
  BY <1>10 DEF Returned, vars
<1> QED
  BY <1>1, <1>2, <1>3, <1>4, <1>5, <1>6, <1>7, <1>8, <1>9, <1>10 DEF Next

(***************************************************************************)
(* The variables of a call keep their types; in particular the iteration   *)
(* limit in force is positive, whatever was configured.                    *)
(***************************************************************************)
THEOREM TypeCorrect == Spec => []TypeOK
  BY InitTypeOK, NextTypeOK, PTL DEF Spec

-----------------------------------------------------------------------------
(***************************************************************************)
(* An accepted rewrite is parseable if the text it was made from is.       *)
(***************************************************************************)
LEMMA AcceptedIsParseable ==
  ASSUME NEW rule, NEW node, NEW src, NEW parseable, NEW forbidden,
         executeAction(rule, node, src, parseable, forbidden).ok
  PROVE  ensureParseable(parseable, executeAction(rule, node, src, parseable, forbidden).text)
<1>1. executeEditAction(rule, node, src, parseable, forbidden).ok
        => ensureParseable(parseable,
             executeEditAction(rule, node, src, parseable, forbidden).text)
  BY DEF executeEditAction, Refused
<1> QED
  BY <1>1 DEF executeAction, Refused

LEMMA AttemptIsParseable ==
  ASSUME NEW i, NEW j, Attempt(i, j).ok
  PROVE  ensureParseable(tree.parseable, Attempt(i, j).text)
  BY AcceptedIsParseable DEF Attempt, Refused

(***************************************************************************)
(* The inductive invariant of the loop: a scan is entered with iterations  *)
(* left; during a scan the tree is the one of the text, so that the answer *)
(* of ensureParseable is about the text it replaces.                       *)
(***************************************************************************)
ScanIsCurrent ==
  pc \in {"scan", "check"} => iter < maxIters /\ tree.parseable = Parses(text)

CandidateIsSafe == pc = "check" => (Parses(text) => Parses(cand))

LoopInv == TypeOK /\ IterationsBounded /\ ScanIsCurrent /\ CandidateIsSafe

LEMMA InitLoopInv == Init => LoopInv
<1> SUFFICES ASSUME Init PROVE LoopInv
  OBVIOUS
<1>1. TypeOK
  BY InitTypeOK
<1>2. IterationsBounded
  BY <1>1 DEF TypeOK, Init, IterationsBounded
<1> QED
  BY <1>1, <1>2 DEF LoopInv, Init, ScanIsCurrent, CandidateIsSafe

LEMMA NextLoopInv == LoopInv /\ [Next]_vars => LoopInv'
<1> SUFFICES ASSUME LoopInv, [Next]_vars PROVE LoopInv'
  OBVIOUS
<1>0. TypeOK /\ TypeOK'
  BY NextTypeOK DEF LoopInv
<1>t. iter \in Nat /\ maxIters \in Nat
  BY <1>0 DEF TypeOK
<1> USE <1>t DEF LoopInv, IterationsBounded, ScanIsCurrent, CandidateIsSafe
<1>1. CASE ParseAndMark
  BY <1>0, <1>1 DEF ParseAndMark, TypeOK
<1>2. CASE OutOfIterations
  BY <1>0, <1>2 DEF OutOfIterations, Finish
<1>3. CASE NextNode
  BY <1>0, <1>3 DEF NextNode
<1>4. CASE SkipRule
  BY <1>0, <1>4 DEF SkipRule, AtRule
<1>5. CASE ApplyRule
  <2>1. Parses(text) => Parses(Attempt(ni, ri).text)
    BY <1>5, AttemptIsParseable DEF ApplyRule, AtRule, ensureParseable
  <2> QED
    BY <1>0, <1>5, <2>1 DEF ApplyRule, AtRule
<1>6. CASE NoRuleApplies
  BY <1>0, <1>6 DEF NoRuleApplies, Finish
<1>7. CASE RefuseOverBudget
  BY <1>0, <1>7 DEF RefuseOverBudget, Finish
<1>8. CASE CommitNew
  BY <1>0, <1>8 DEF CommitNew, Commit, TypeOK
<1>9. CASE CommitRepeated
  BY <1>0, <1>9 DEF CommitRepeated, Commit, Finish
<1>10. CASE Returned \/ UNCHANGED vars
  BY <1>0, <1>10 DEF Returned, vars
<1> QED
  BY <1>1, <1>2, <1>3, <1>4, <1>5, <1>6, <1>7, <1>8, <1>9, <1>10 DEF Next

THEOREM LoopInvariant == Spec => []LoopInv
  BY InitLoopInv, NextLoopInv, PTL DEF Spec

(***************************************************************************)
(* A call makes at most maxIters rewrites, and ends for lack of iterations *)
(* only when it has used all of them.                                      *)
(***************************************************************************)
THEOREM BoundedIterations == Spec => []IterationsBounded
<1>1. LoopInv => IterationsBounded
  BY DEF LoopInv
<1> QED
  BY <1>1, LoopInvariant, PTL

(***************************************************************************)
(* Only a commit writes the text, and it writes the candidate.             *)
(***************************************************************************)
LEMMA OnlyCommitWrites ==
  ASSUME [Next]_vars
  PROVE  text' = text \/ (Commit /\ (CommitNew \/ CommitRepeated))
  BY DEF Next, vars, ParseAndMark, OutOfIterations, NextNode, SkipRule, ApplyRule,
         NoRuleApplies, RefuseOverBudget, CommitNew, CommitRepeated, Returned

(***************************************************************************)
(* No step replaces a text that parses by one that does not.               *)
(***************************************************************************)
THEOREM KeepsParseability == Spec => ParseabilityKept
<1>1. LoopInv /\ [Next]_vars => [Parses(text) => Parses(text')]_vars
  BY OnlyCommitWrites DEF LoopInv, CandidateIsSafe, Commit
<1> QED
  BY <1>1, LoopInvariant, PTL DEF Spec, ParseabilityKept

(***************************************************************************)
(* If the input of the call parses, so does its result.                    *)
(***************************************************************************)
THEOREM ResultParses == Spec => []ParseSafe
<1>1. Init => ParseSafe
  BY DEF Init, ParseSafe
<1>2. LoopInv /\ ParseSafe /\ [Next]_vars => ParseSafe'
  <2> SUFFICES ASSUME LoopInv, ParseSafe, [Next]_vars PROVE ParseSafe'
    OBVIOUS
  <2>1. input' = input
    BY DEF Next, vars, ParseAndMark, OutOfIterations, NextNode, SkipRule, ApplyRule,
           NoRuleApplies, RefuseOverBudget, CommitNew, CommitRepeated, Returned
  <2> QED
    BY <2>1, OnlyCommitWrites DEF LoopInv, CandidateIsSafe, Commit, ParseSafe
<1> QED
  BY <1>1, <1>2, LoopInvariant, PTL DEF Spec

(***************************************************************************)
(* The result is the input or within the budget measured from the input.   *)
(***************************************************************************)
THEOREM WithinBudget == Spec => []BudgetKept
<1>1. Init => BudgetKept
  BY DEF Init, BudgetKept
<1>2. BudgetKept /\ [Next]_vars => BudgetKept'
  <2> SUFFICES ASSUME BudgetKept, [Next]_vars PROVE BudgetKept'
    OBVIOUS
  <2>1. input' = input /\ engine' = engine
    BY DEF Next, vars, ParseAndMark, OutOfIterations, NextNode, SkipRule, ApplyRule,
           NoRuleApplies, RefuseOverBudget, CommitNew, CommitRepeated, Returned
  <2> QED
    BY <2>1, OnlyCommitWrites DEF BudgetKept, Commit, withinBudget
<1> QED
  BY <1>1, <1>2, PTL DEF Spec

-----------------------------------------------------------------------------
(***************************************************************************)
(* With cycle detection no text is worked on twice.  The set of texts seen *)
(* is finite, and grows with every iteration but the one that repeats.     *)
(***************************************************************************)
SeenInv == IsFiniteSet(seen) /\ NoTextTwice

LEMMA InitSeenInv == Init => SeenInv
<1> SUFFICES ASSUME Init PROVE SeenInv
  OBVIOUS
<1>1. IsFiniteSet({input}) /\ Cardinality({input}) = 1 /\ IsFiniteSet({})
  BY FS_Singleton, FS_EmptySet
<1> QED
  BY <1>1 DEF Init, SeenInv, NoTextTwice

LEMMA NextSeenInv == LoopInv /\ SeenInv /\ [Next]_vars => SeenInv'
<1> SUFFICES ASSUME LoopInv, SeenInv, [Next]_vars PROVE SeenInv'
  OBVIOUS
<1>0. TypeOK
  BY DEF LoopInv
<1>1. CASE CommitNew
  <2>1. engine' = engine /\ text' = cand /\ iter' = iter + 1 /\ why' = why /\ why = "running"
    BY <1>0, <1>1 DEF CommitNew, Commit, TypeOK
  <2>2. CASE ~engine.cfg.detectCycles
    BY <1>1, <2>1, <2>2 DEF CommitNew, SeenInv, NoTextTwice
  <2>3. CASE engine.cfg.detectCycles
    <3>1. cand \notin seen /\ seen' = seen \cup {cand}
      BY <1>1, <2>3 DEF CommitNew, Repeats
    <3>2. IsFiniteSet(seen') /\ Cardinality(seen') = Cardinality(seen) + 1
      BY <3>1, FS_AddElement DEF SeenInv
    <3>3. Cardinality(seen) = iter + 1
      BY <2>1, <2>3 DEF SeenInv, NoTextTwice
    <3> QED
      BY <2>1, <3>1, <3>2, <3>3 DEF SeenInv, NoTextTwice
  <2> QED
    BY <2>2, <2>3
<1>2. CASE CommitRepeated
  BY <1>0, <1>2 DEF CommitRepeated, Commit, Finish, Repeats, TypeOK, SeenInv, NoTextTwice
<1>3. CASE ~CommitNew /\ ~CommitRepeated
  <2>1. /\ engine' = engine /\ text' = text /\ seen' = seen /\ iter' = iter
        /\ why' = why \/ (why = "running" /\ why' # "cycle")
    BY <1>0, <1>3 DEF Next, vars, ParseAndMark, OutOfIterations, NextNode, SkipRule,
       ApplyRule, AtRule, NoRuleApplies, RefuseOverBudget, Returned, Finish, TypeOK
  <2> QED
    BY <2>1 DEF SeenInv, NoTextTwice
<1> QED
  BY <1>1, <1>2, <1>3

THEOREM TextsAreNew == Spec => []NoTextTwice
<1>1. SeenInv => NoTextTwice
  BY DEF SeenInv
<1> QED
  BY <1>1, InitSeenInv, NextSeenInv, LoopInvariant, PTL DEF Spec

-----------------------------------------------------------------------------
(***************************************************************************)
(* Refinement: a commit is a replacement, the other ways to end a call are *)
(* a return, and everything else is a stutter of the contract.             *)
(***************************************************************************)
LEMMA InitRefines == Init => Contract!Init
<1> SUFFICES ASSUME Init PROVE Contract!Init
  OBVIOUS
<1>1. maxIters \in Nat \ {0}
  BY InitTypeOK DEF TypeOK
<1> QED
  BY <1>1 DEF Init, Contract!Init

LEMMA NextRefines == LoopInv /\ [Next]_vars => [Contract!Next]_Contract!vars
<1> SUFFICES ASSUME LoopInv, [Next]_vars PROVE [Contract!Next]_Contract!vars
  OBVIOUS
<1>0. engine.cfg \in Config /\ maxIters \in Nat /\ iter \in Nat
  BY DEF LoopInv, TypeOK
<1> USE DEF Contract!Next, Contract!vars
<1>1. CASE CommitNew \/ CommitRepeated
  <2>1. /\ engine' = engine /\ input' = input /\ maxIters' = maxIters
        /\ iter' = iter + 1 /\ text' = cand /\ pc = "check"
    BY <1>1 DEF CommitNew, CommitRepeated, Commit
  <2>2. Contract!WithinLimits(cand)
    BY <1>0, <1>1 DEF CommitNew, CommitRepeated, Commit, withinBudget,
                      Contract!WithinLimits, Config
  <2>3. iter < maxIters /\ (Parses(text) => Parses(cand))
    BY <2>1 DEF LoopInv, ScanIsCurrent, CandidateIsSafe
  <2>4. Contract!Replace
    BY <1>0, <2>1, <2>2, <2>3 DEF Contract!Replace, Contract!WithinLimits
  <2> QED
    BY <2>4
<1>2. CASE OutOfIterations \/ NoRuleApplies \/ RefuseOverBudget
  <2>1. Contract!Return
    BY <1>2 DEF OutOfIterations, NoRuleApplies, RefuseOverBudget, Finish, Contract!Return
  <2> QED
    BY <2>1
<1>3. CASE ParseAndMark \/ NextNode \/ SkipRule \/ ApplyRule \/ Returned \/ UNCHANGED vars
  BY <1>3 DEF ParseAndMark, NextNode, SkipRule, ApplyRule, AtRule, Returned, vars
<1> QED
  BY <1>1, <1>2, <1>3 DEF Next

(***************************************************************************)
(* A call of Format keeps the contract of a formatting stage.              *)
(***************************************************************************)
THEOREM KeepsContract == Spec => Implements
  BY InitRefines, NextRefines, LoopInvariant, PTL DEF Spec, Implements, Contract!Spec

-----------------------------------------------------------------------------
(***************************************************************************)
(* The three sorts of the engine: rules by falling priority, nodes by key, *)
(* nodes by width and key.                                                 *)
(***************************************************************************)
Zero(n) == [i \in 1..n |-> 0]

RuleRanks(list) == ByRanks(Len(list), [i \in 1..Len(list) |-> -list[i].priority], Zero(Len(list)))

KeyRanks(nodes) == ByRanks(Len(nodes), [i \in 1..Len(nodes) |-> nodes[i].key], Zero(Len(nodes)))

WidthRanks(nodes) ==
  ByRanks(Len(nodes), [i \in 1..Len(nodes) |-> nodes[i].end - nodes[i].start],
                      [i \in 1..Len(nodes) |-> nodes[i].key])

(***************************************************************************)
(* NewEngine sorts by rank: the priority, highest first.                   *)
(***************************************************************************)
LEMMA RulesSortedByRanks ==
  ASSUME NEW list, Len(list) \in Nat, DOMAIN list = 1..Len(list),
         \A i \in 1..Len(list) : list[i].priority \in Int
  PROVE  NewEngineRules(list) = SortedBy(list, RuleRanks(list))
<1>1. PICK R, t : R = RuleRanks(list) /\ t = NewEngineRules(list)
  OBVIOUS
<1>2. ASSUME NEW i \in 1..Len(list), NEW j \in 1..Len(list)
      PROVE  (\/ list[j].priority > list[i].priority
              \/ ~(list[i].priority > list[j].priority) /\ j < i) <=> <<j, i>> \in R
  <2>1. list[i].priority \in Int /\ list[j].priority \in Int
    BY <1>1
  <2> QED
    BY <1>1, <2>1 DEF RuleRanks, ByRanks, Zero
<1>3. ASSUME NEW i \in 1..Len(list)
      PROVE  {j \in 1..Len(list) : \/ list[j].priority > list[i].priority
                                   \/ ~(list[i].priority > list[j].priority) /\ j < i} = AheadIn(R, Len(list), i)
  BY <1>2 DEF AheadIn
<1>4. t = [k \in DOMAIN list |->
             list[CHOOSE i \in DOMAIN list :
                 Cardinality({j \in DOMAIN list :
                                \/ list[j].priority > list[i].priority
                                \/ ~(list[i].priority > list[j].priority) /\ j < i}) + 1 = k]]
  BY <1>1 DEF NewEngineRules, StableSort
<1>5. ASSUME NEW k \in 1..Len(list) PROVE t[k] = SortedBy(list, R)[k]
  <2>1. (CHOOSE i \in DOMAIN list :
           Cardinality({j \in DOMAIN list : \/ list[j].priority > list[i].priority
                                            \/ ~(list[i].priority > list[j].priority) /\ j < i}) + 1 = k)
          = (CHOOSE i \in DOMAIN list : PlaceIn(R, Len(list), i) = k)
    BY <1>1, <1>3 DEF PlaceIn
  <2>2. SortedBy(list, R)[k] = list[CHOOSE i \in DOMAIN list : PlaceIn(R, Len(list), i) = k]
    BY <1>1 DEF SortedBy
  <2>3. t[k] = list[CHOOSE i \in DOMAIN list :
                 Cardinality({j \in DOMAIN list :
                                \/ list[j].priority > list[i].priority
                                \/ ~(list[i].priority > list[j].priority) /\ j < i}) + 1 = k]
    BY <1>1, <1>4
  <2> QED
    BY <2>1, <2>2, <2>3
<1>6. t = [k \in 1..Len(list) |-> t[k]] /\ SortedBy(list, R) = [k \in 1..Len(list) |-> SortedBy(list, R)[k]]
  BY <1>1, <1>4 DEF SortedBy
<1> QED
  BY <1>1, <1>5, <1>6

(***************************************************************************)
(* The order "source" sorts by rank: the offset.                           *)
(***************************************************************************)
LEMMA NodesSortedByKey ==
  ASSUME NEW nodes, Len(nodes) \in Nat, DOMAIN nodes = 1..Len(nodes),
         \A i \in 1..Len(nodes) : nodes[i] \in Node
  PROVE  sortNodesForOrder(nodes, "source") = SortedBy(nodes, KeyRanks(nodes))
<1>1. PICK R, t : R = KeyRanks(nodes) /\ t = sortNodesForOrder(nodes, "source")
  OBVIOUS
<1>2. ASSUME NEW i \in 1..Len(nodes), NEW j \in 1..Len(nodes)
      PROVE  (\/ nodes[j].key < nodes[i].key
              \/ ~(nodes[i].key < nodes[j].key) /\ j < i) <=> <<j, i>> \in R
  <2>1. nodes[i].key \in Int /\ nodes[j].key \in Int
    BY <1>1 DEF Node
  <2> QED
    BY <1>1, <2>1 DEF KeyRanks, ByRanks, Zero
<1>3. ASSUME NEW i \in 1..Len(nodes)
      PROVE  {j \in 1..Len(nodes) : \/ nodes[j].key < nodes[i].key
                                    \/ ~(nodes[i].key < nodes[j].key) /\ j < i} = AheadIn(R, Len(nodes), i)
  BY <1>2 DEF AheadIn
<1>4. t = [k \in DOMAIN nodes |->
             nodes[CHOOSE i \in DOMAIN nodes :
                 Cardinality({j \in DOMAIN nodes :
                                \/ nodes[j].key < nodes[i].key
                                \/ ~(nodes[i].key < nodes[j].key) /\ j < i}) + 1 = k]]
  BY <1>1 DEF sortNodesForOrder, StableSort
<1>5. ASSUME NEW k \in 1..Len(nodes) PROVE t[k] = SortedBy(nodes, R)[k]
  <2>1. (CHOOSE i \in DOMAIN nodes :
           Cardinality({j \in DOMAIN nodes : \/ nodes[j].key < nodes[i].key
                                             \/ ~(nodes[i].key < nodes[j].key) /\ j < i}) + 1 = k)
          = (CHOOSE i \in DOMAIN nodes : PlaceIn(R, Len(nodes), i) = k)
    BY <1>1, <1>3 DEF PlaceIn
  <2>2. SortedBy(nodes, R)[k] = nodes[CHOOSE i \in DOMAIN nodes : PlaceIn(R, Len(nodes), i) = k]
    BY <1>1 DEF SortedBy
  <2>3. t[k] = nodes[CHOOSE i \in DOMAIN nodes :
                 Cardinality({j \in DOMAIN nodes :
                                \/ nodes[j].key < nodes[i].key
                                \/ ~(nodes[i].key < nodes[j].key) /\ j < i}) + 1 = k]
    BY <1>1, <1>4
  <2> QED
    BY <2>1, <2>2, <2>3
<1>6. t = [k \in 1..Len(nodes) |-> t[k]] /\ SortedBy(nodes, R) = [k \in 1..Len(nodes) |-> SortedBy(nodes, R)[k]]
  BY <1>1, <1>4 DEF SortedBy
<1> QED
  BY <1>1, <1>5, <1>6

(***************************************************************************)
(* The order "deepest": the narrower node, of two equally wide ones the    *)
(* first.                                                                  *)
(***************************************************************************)
WidthLess(m, n) ==
  \/ m.end - m.start < n.end - n.start
  \/ m.end - m.start = n.end - n.start /\ m.key < n.key

(***************************************************************************)
(* It sorts by rank: the width and the offset.                             *)
(***************************************************************************)
LEMMA NodesSortedByWidth ==
  ASSUME NEW nodes, Len(nodes) \in Nat, DOMAIN nodes = 1..Len(nodes),
         \A i \in 1..Len(nodes) : nodes[i] \in Node
  PROVE  sortNodesForOrder(nodes, "deepest") = SortedBy(nodes, WidthRanks(nodes))
<1>1. PICK R, t : R = WidthRanks(nodes) /\ t = sortNodesForOrder(nodes, "deepest")
  OBVIOUS
<1>2. ASSUME NEW i \in 1..Len(nodes), NEW j \in 1..Len(nodes)
      PROVE  (\/ WidthLess(nodes[j], nodes[i])
              \/ ~(WidthLess(nodes[i], nodes[j])) /\ j < i) <=> <<j, i>> \in R
  <2>1. /\ nodes[i].key \in Int /\ nodes[i].end - nodes[i].start \in Int
        /\ nodes[j].key \in Int /\ nodes[j].end - nodes[j].start \in Int
    BY <1>1 DEF Node
  <2> QED
    BY <1>1, <2>1 DEF WidthRanks, ByRanks, WidthLess
<1>3. ASSUME NEW i \in 1..Len(nodes)
      PROVE  {j \in 1..Len(nodes) : \/ WidthLess(nodes[j], nodes[i])
                                    \/ ~(WidthLess(nodes[i], nodes[j])) /\ j < i} = AheadIn(R, Len(nodes), i)
  BY <1>2 DEF AheadIn
<1>4. t = [k \in DOMAIN nodes |->
             nodes[CHOOSE i \in DOMAIN nodes :
                 Cardinality({j \in DOMAIN nodes :
                                \/ WidthLess(nodes[j], nodes[i])
                                \/ ~(WidthLess(nodes[i], nodes[j])) /\ j < i}) + 1 = k]]
  BY <1>1 DEF sortNodesForOrder, WidthLess, StableSort
<1>5. ASSUME NEW k \in 1..Len(nodes) PROVE t[k] = SortedBy(nodes, R)[k]
  <2>1. (CHOOSE i \in DOMAIN nodes :
           Cardinality({j \in DOMAIN nodes : \/ WidthLess(nodes[j], nodes[i])
                                             \/ ~(WidthLess(nodes[i], nodes[j])) /\ j < i}) + 1 = k)
          = (CHOOSE i \in DOMAIN nodes : PlaceIn(R, Len(nodes), i) = k)
    BY <1>1, <1>3 DEF PlaceIn
  <2>2. SortedBy(nodes, R)[k] = nodes[CHOOSE i \in DOMAIN nodes : PlaceIn(R, Len(nodes), i) = k]
    BY <1>1 DEF SortedBy
  <2>3. t[k] = nodes[CHOOSE i \in DOMAIN nodes :
                 Cardinality({j \in DOMAIN nodes :
                                \/ WidthLess(nodes[j], nodes[i])
                                \/ ~(WidthLess(nodes[i], nodes[j])) /\ j < i}) + 1 = k]
    BY <1>1, <1>4
  <2> QED
    BY <2>1, <2>2, <2>3
<1>6. t = [k \in 1..Len(nodes) |-> t[k]] /\ SortedBy(nodes, R) = [k \in 1..Len(nodes) |-> SortedBy(nodes, R)[k]]
  BY <1>1, <1>4 DEF SortedBy
<1> QED
  BY <1>1, <1>5, <1>6

(***************************************************************************)
(* What is sorted are the same rules, by falling priority.                 *)
(***************************************************************************)
PrioritiesFall(rules) ==
  \A i, j \in DOMAIN rules : i <= j => rules[j].priority <= rules[i].priority

LEMMA RulesAreSorted ==
  ASSUME NEW list \in RuleLists
  PROVE  /\ NewEngineRules(list) \in Seq({list[i] : i \in DOMAIN list})
         /\ PrioritiesFall(NewEngineRules(list))
<1>1. PICK L, n, R, t, f :
        /\ L = {list[i] : i \in DOMAIN list}
        /\ n = Len(list)
        /\ R = RuleRanks(list)
        /\ t = NewEngineRules(list)
        /\ f = [i \in 1..n |-> -list[i].priority]
  OBVIOUS
<1>2. list \in Seq(L) /\ \A i \in DOMAIN list : list[i].priority \in Int
  BY <1>1, EngineAssumption
<1>3. n \in Nat /\ DOMAIN list = 1..n
  BY <1>1, <1>2
<1>4. f \in [1..n -> Int] /\ Zero(n) \in [1..n -> Int]
  BY <1>1, <1>2, <1>3 DEF Zero
<1>5. R = ByRanks(n, f, Zero(n))
  BY <1>1 DEF RuleRanks
<1>6. TotalOrder(R, n)
  BY <1>3, <1>4, <1>5, RanksAreOrder
<1>7. t = SortedBy(list, R)
  BY <1>1, <1>2, <1>3, RulesSortedByRanks
<1>8. PICK p : /\ IsSorting(p, n, R)
               /\ t = [k \in 1..n |-> list[p[k]]]
               /\ t \in Seq(L)
  <2>1. TotalOrder(R, Len(list))
    BY <1>1, <1>6
  <2>2. \E p : /\ IsSorting(p, Len(list), R)
               /\ SortedBy(list, R) = [k \in 1..Len(list) |-> list[p[k]]]
               /\ SortedBy(list, R) \in Seq(L)
    BY <1>2, <2>1, SortedByPermutation
  <2> QED
    BY <1>1, <1>7, <2>2
<1>9. ASSUME NEW k \in 1..n, NEW l \in 1..n, k <= l
      PROVE  t[l].priority <= t[k].priority
  <2>1. /\ p[k] \in 1..n /\ p[l] \in 1..n /\ t[k] = list[p[k]] /\ t[l] = list[p[l]]
        /\ list[p[k]].priority \in Int /\ list[p[l]].priority \in Int
    BY <1>2, <1>3, <1>8 DEF IsSorting
  <2>2. CASE k = l
    BY <2>1, <2>2
  <2>3. CASE k < l
    <3>1. <<p[k], p[l]>> \in R
      BY <1>8, <2>3 DEF IsSorting
    <3>2. f[p[k]] <= f[p[l]]
      BY <1>4, <1>5, <2>1, <3>1 DEF ByRanks
    <3> QED
      BY <1>1, <2>1, <3>2
  <2> QED
    BY <1>9, <2>2, <2>3
<1>10. DOMAIN t = 1..n
  BY <1>8
<1> QED
  BY <1>1, <1>8, <1>9, <1>10 DEF PrioritiesFall

(***************************************************************************)
(* And the same nodes.                                                     *)
(***************************************************************************)
LEMMA NodesAreSorted ==
  ASSUME NEW L \in SUBSET Node, NEW nodes \in Seq(L), NEW order \in NodeOrders
  PROVE  sortNodesForOrder(nodes, order) \in Seq(L)
<1>1. /\ Len(nodes) \in Nat /\ DOMAIN nodes = 1..Len(nodes)
      /\ \A i \in 1..Len(nodes) : nodes[i] \in Node
  OBVIOUS
<1>2. PICK n, key, width : /\ n = Len(nodes)
                           /\ key = [i \in 1..n |-> nodes[i].key]
                           /\ width = [i \in 1..n |-> nodes[i].end - nodes[i].start]
  OBVIOUS
<1>3. key \in [1..n -> Int] /\ width \in [1..n -> Int] /\ Zero(n) \in [1..n -> Int] /\ n \in Nat
  <2>1. \A i \in 1..n : nodes[i].key \in Int /\ nodes[i].end - nodes[i].start \in Int
    BY <1>1, <1>2 DEF Node
  <2> QED
    BY <1>1, <1>2, <2>1 DEF Zero
<1>4. CASE order = "preorder"
  BY <1>4 DEF sortNodesForOrder
<1>5. CASE order = "source"
  <2>1. KeyRanks(nodes) = ByRanks(n, key, Zero(n))
    BY <1>2 DEF KeyRanks
  <2>2. TotalOrder(KeyRanks(nodes), n)
    BY <1>3, <2>1, RanksAreOrder
  <2>3. SortedBy(nodes, KeyRanks(nodes)) \in Seq(L)
    BY <1>2, <2>2, SortedByPermutation
  <2> QED
    BY <1>1, <1>5, <2>3, NodesSortedByKey
<1>6. CASE order = "deepest"
  <2>1. WidthRanks(nodes) = ByRanks(n, width, key)
    BY <1>2 DEF WidthRanks
  <2>2. TotalOrder(WidthRanks(nodes), n)
    BY <1>3, <2>1, RanksAreOrder
  <2>3. SortedBy(nodes, WidthRanks(nodes)) \in Seq(L)
    BY <1>2, <2>2, SortedByPermutation
  <2> QED
    BY <1>1, <1>6, <2>3, NodesSortedByWidth
<1> QED
  BY <1>4, <1>5, <1>6 DEF NodeOrders

-----------------------------------------------------------------------------
(***************************************************************************)
(* The parser gives a list of nodes for every text, not only for those     *)
(* Format is called with.  (What the actions of the rules produce is not   *)
(* enumerable, so this is a hypothesis of the theorems that need it.)      *)
(***************************************************************************)
NodesAreLists == \A t : Nodes(t) \in Seq(Node)

IsListing(s) == Len(s) \in Nat /\ DOMAIN s = 1 .. Len(s)

LEMMA SeqIsListing ==
  ASSUME NEW S, NEW s \in Seq(S)
  PROVE  IsListing(s)
  BY DEF IsListing

(***************************************************************************)
(* The lists the scan walks along.                                         *)
(***************************************************************************)
ListInv == IsListing(engine.rules) /\ IsListing(tree.nodes)

LEMMA InitListInv == Init => ListInv
<1> SUFFICES ASSUME Init PROVE ListInv
  OBVIOUS
<1>0. PICK list \in RuleLists : engine.rules = NewEngineRules(list)
  BY DEF Init
<1>1. IsListing(engine.rules)
  <2>1. PICK L : engine.rules \in Seq(L)
    BY <1>0, RulesAreSorted
  <2> QED
    BY <2>1, SeqIsListing
<1>2. IsListing(NoTree.nodes)
  BY DEF NoTree, IsListing
<1> QED
  BY <1>1, <1>2 DEF Init, ListInv

LEMMA NextListInv ==
  ASSUME NodesAreLists, TypeOK, ListInv, [Next]_vars
  PROVE  ListInv'
<1>1. engine' = engine
  BY DEF Next, vars, ParseAndMark, OutOfIterations, NextNode, SkipRule, ApplyRule,
         NoRuleApplies, RefuseOverBudget, CommitNew, CommitRepeated, Returned
<1>2. CASE ParseAndMark
  <2>1. engine.cfg.nodeOrder \in NodeOrders
    BY DEF TypeOK, Config
  <2>2. sortNodesForOrder(Nodes(text), engine.cfg.nodeOrder) \in Seq(Node)
    BY <2>1, NodesAreSorted DEF NodesAreLists
  <2>3. IsListing(sortNodesForOrder(Nodes(text), engine.cfg.nodeOrder))
    BY <2>2, SeqIsListing
  <2> QED
    BY <1>1, <1>2, <2>3 DEF ParseAndMark, ListInv
<1>3. CASE ~ParseAndMark
  <2>1. tree' = tree
    BY <1>3 DEF Next, vars, OutOfIterations, NextNode, SkipRule, ApplyRule,
         NoRuleApplies, RefuseOverBudget, CommitNew, CommitRepeated, Returned
  <2> QED
    BY <1>1, <2>1 DEF ListInv
<1> QED
  BY <1>2, <1>3

(***************************************************************************)
(* Where the scan stands: nothing is acceptable on the nodes behind it,    *)
(* nor on its node by the rules behind it.                                 *)
(***************************************************************************)
NothingAt(i, j) == tree.nodes[i] \notin tree.atomic => ~Attempt(i, j).ok

Behind ==
  /\ \A i \in 1 .. (ni - 1), j \in DOMAIN engine.rules : NothingAt(i, j)
  /\ \A j \in 1 .. (ri - 1) : NothingAt(ni, j)

ScanInv ==
  /\ pc \in {"scan", "check"} => Behind
  /\ pc = "check" => cand = Attempt(ni, ri).text /\ ri <= Len(engine.rules)
                       /\ tree.nodes[ni] \notin tree.atomic
  /\ StableIsNormalForm

LEMMA SameScan ==
  ASSUME engine' = engine, tree' = tree, text' = text
  PROVE  /\ \A i, j : Attempt(i, j)' = Attempt(i, j)
         /\ \A i, j : NothingAt(i, j)' <=> NothingAt(i, j)
  BY DEF Attempt, NothingAt

LEMMA InitScanInv == Init => ScanInv
  BY DEF Init, ScanInv, StableIsNormalForm

LEMMA NextScanInv ==
  ASSUME TypeOK, ListInv, ScanInv, [Next]_vars
  PROVE  ScanInv'
<1>0. ni \in Nat \ {0} /\ ri \in Nat \ {0} /\ (pc = "done" <=> why # "running")
  BY DEF TypeOK
<1>1. CASE ParseAndMark
  BY <1>0, <1>1 DEF ParseAndMark, ScanInv, Behind, StableIsNormalForm
<1>2. CASE NextNode
  <2>1. /\ engine' = engine /\ tree' = tree /\ text' = text
        /\ ni' = ni + 1 /\ ri' = 1 /\ pc' = "scan" /\ pc = "scan" /\ why' = why
    BY <1>2 DEF NextNode
  <2>2. \A j \in DOMAIN engine.rules : NothingAt(ni, j)
    BY <1>0, <1>2 DEF NextNode, ScanInv, Behind, NothingAt, ListInv, IsListing
  <2>3. \A i \in 1 .. ni, j \in DOMAIN engine.rules : NothingAt(i, j)
    BY <1>0, <2>1, <2>2 DEF ScanInv, Behind
  <2>4. Behind'
    BY <1>0, <2>1, <2>3, SameScan DEF Behind
  <2> QED
    BY <1>0, <2>1, <2>4 DEF ScanInv, StableIsNormalForm
<1>3. CASE SkipRule
  <2>1. /\ engine' = engine /\ tree' = tree /\ text' = text
        /\ ni' = ni /\ ri' = ri + 1 /\ pc' = "scan" /\ pc = "scan" /\ why' = why
    BY <1>3 DEF SkipRule, AtRule
  <2>2. NothingAt(ni, ri)
    BY <1>3 DEF SkipRule, NothingAt
  <2>3. \A j \in 1 .. ri : NothingAt(ni, j)
    BY <1>0, <2>1, <2>2 DEF ScanInv, Behind
  <2>4. Behind'
    BY <1>0, <2>1, <2>3, SameScan DEF ScanInv, Behind
  <2> QED
    BY <1>0, <2>1, <2>4 DEF ScanInv, StableIsNormalForm
<1>4. CASE ApplyRule
  <2>1. /\ engine' = engine /\ tree' = tree /\ text' = text /\ ni' = ni /\ ri' = ri
        /\ pc' = "check" /\ pc = "scan" /\ why' = why /\ cand' = Attempt(ni, ri).text
        /\ ri <= Len(engine.rules) /\ tree.nodes[ni] \notin tree.atomic
    BY <1>4 DEF ApplyRule, AtRule
  <2>2. Behind' /\ cand' = Attempt(ni, ri)'.text
    BY <2>1, SameScan DEF ScanInv, Behind
  <2> QED
    BY <1>0, <2>1, <2>2 DEF ScanInv, StableIsNormalForm
<1>5. CASE NoRuleApplies
  <2>1. /\ engine' = engine /\ tree' = tree /\ text' = text /\ pc' = "done"
        /\ pc = "scan" /\ ni > Len(tree.nodes)
    BY <1>5 DEF NoRuleApplies, Finish
  <2>2. \A i \in DOMAIN tree.nodes, j \in DOMAIN engine.rules : NothingAt(i, j)
    BY <1>0, <2>1 DEF ScanInv, Behind, ListInv, IsListing
  <2>3. StableIsNormalForm'
    BY <2>1, <2>2, SameScan DEF StableIsNormalForm, NothingAt
  <2> QED
    BY <2>1, <2>3 DEF ScanInv
<1>6. CASE OutOfIterations \/ RefuseOverBudget \/ CommitNew \/ CommitRepeated
  <2>1. pc' \in {"parse", "done"} /\ why' # "stable"
    BY <1>0, <1>6 DEF OutOfIterations, RefuseOverBudget, CommitNew, CommitRepeated,
                      Commit, Finish
  <2> QED
    BY <2>1 DEF ScanInv, StableIsNormalForm
<1>7. CASE Returned \/ UNCHANGED vars
  <2>1. UNCHANGED vars
    BY <1>7 DEF Returned
  <2>2. /\ engine' = engine /\ tree' = tree /\ text' = text /\ ni' = ni /\ ri' = ri
        /\ pc' = pc /\ why' = why /\ cand' = cand
    BY <2>1 DEF vars
  <2>3. Behind => Behind'
    BY <2>2, SameScan DEF Behind
  <2>4. StableIsNormalForm => StableIsNormalForm'
    BY <2>2, SameScan DEF StableIsNormalForm
  <2>5. Attempt(ni, ri)' = Attempt(ni, ri)
    BY <2>2, SameScan
  <2> QED
    BY <2>2, <2>3, <2>4, <2>5 DEF ScanInv
<1> QED
  BY <1>1, <1>2, <1>3, <1>4, <1>5, <1>6, <1>7 DEF Next

(***************************************************************************)
(* A call that ends for want of a rule to apply leaves a normal form.      *)
(***************************************************************************)
THEOREM StableMeansNormalForm == NodesAreLists => (Spec => []StableIsNormalForm)
<1> SUFFICES ASSUME NodesAreLists PROVE Spec => []StableIsNormalForm
  OBVIOUS
<1>1. TypeOK /\ ListInv /\ [Next]_vars => ListInv'
  BY NextListInv
<1>2. TypeOK /\ ListInv /\ ScanInv /\ [Next]_vars => ScanInv'
  BY NextScanInv
<1>3. ScanInv => StableIsNormalForm
  BY DEF ScanInv
<1> QED
  BY <1>1, <1>2, <1>3, InitListInv, InitScanInv, TypeCorrect, PTL DEF Spec

SortedInv == PrioritiesFall(engine.rules)

LEMMA InitSortedInv == Init => SortedInv
<1> SUFFICES ASSUME Init PROVE SortedInv
  OBVIOUS
<1>1. PICK list \in RuleLists : engine.rules = NewEngineRules(list)
  BY DEF Init
<1> QED
  BY <1>1, RulesAreSorted DEF SortedInv

LEMMA NextSortedInv == SortedInv /\ [Next]_vars => SortedInv'
<1>1. [Next]_vars => engine' = engine
  BY DEF Next, vars, ParseAndMark, OutOfIterations, NextNode, SkipRule, ApplyRule,
         NoRuleApplies, RefuseOverBudget, CommitNew, CommitRepeated, Returned
<1> QED
  BY <1>1 DEF PrioritiesFall, SortedInv

LEMMA FirstIsChosen ==
  ASSUME TypeOK, ListInv, ScanInv, SortedInv
  PROVE  FirstByOrderAndPriority
<1> SUFFICES ASSUME pc = "check" PROVE FirstByOrderAndPriority
  BY DEF FirstByOrderAndPriority
<1>1. ri \in DOMAIN engine.rules /\ ri \in Nat \ {0} /\ DOMAIN engine.rules \subseteq Nat \ {0}
  BY DEF TypeOK, ScanInv, ListInv, IsListing
<1>2. cand = Attempt(ni, ri).text
  BY DEF ScanInv
<1>3. \A i \in 1 .. (ni - 1), j \in DOMAIN engine.rules :
         tree.nodes[i] \notin tree.atomic => ~Attempt(i, j).ok
  BY DEF ScanInv, Behind, NothingAt
<1>4. ASSUME NEW j \in DOMAIN engine.rules, Attempt(ni, j).ok
      PROVE  engine.rules[j].priority <= engine.rules[ri].priority
  <2>1. tree.nodes[ni] \notin tree.atomic
    BY DEF ScanInv
  <2>2. ~(j < ri)
    BY <1>1, <1>4, <2>1 DEF ScanInv, Behind, NothingAt
  <2> QED
    BY <1>1, <2>2 DEF SortedInv, PrioritiesFall
<1> QED
  BY <1>2, <1>3, <1>4 DEF FirstByOrderAndPriority

(***************************************************************************)
(* Deterministic selection: the first node of the configured order with an *)
(* acceptable rewrite, and its rule of the highest priority.               *)
(***************************************************************************)
THEOREM SelectsFirst ==
  NodesAreLists => (Spec => []FirstByOrderAndPriority)
<1> SUFFICES ASSUME NodesAreLists PROVE Spec => []FirstByOrderAndPriority
  OBVIOUS
<1>1. TypeOK /\ ListInv /\ [Next]_vars => ListInv'
  BY NextListInv
<1>2. TypeOK /\ ListInv /\ ScanInv /\ [Next]_vars => ScanInv'
  BY NextScanInv
<1>3. Init => SortedInv
  BY InitSortedInv
<1>4. TypeOK /\ ListInv /\ ScanInv /\ SortedInv => FirstByOrderAndPriority
  BY FirstIsChosen
<1> QED
  BY <1>1, <1>2, <1>3, <1>4, NextSortedInv, InitListInv, InitScanInv, TypeCorrect, PTL
     DEF Spec

-----------------------------------------------------------------------------
(***************************************************************************)
(* Termination.  The positions of the scan stay within one of the ends of  *)
(* their lists, so that the parts of the rank are natural numbers.         *)
(***************************************************************************)
PositionInv == ni <= Len(tree.nodes) + 1 /\ ri <= Len(engine.rules) + 1

LEMMA InitPositionInv == Init => PositionInv
<1> SUFFICES ASSUME Init PROVE PositionInv
  OBVIOUS
<1>1. Len(tree.nodes) \in Nat /\ Len(engine.rules) \in Nat
  BY InitListInv DEF ListInv, IsListing
<1> QED
  BY <1>1 DEF Init, PositionInv

LEMMA BelowAt ==
  ASSUME NEW a, NEW b, NEW k \in 1 .. 4, b[k] < a[k],
         \A m \in 1 .. (k - 1) : b[m] = a[m]
  PROVE  LexBelow(b, a)
  BY DEF LexBelow

LEMMA OneCloser ==
  ASSUME NEW n \in Nat, NEW i \in Nat, i <= n
  PROVE  n + 1 - (i + 1) \in Nat /\ n + 1 - (i + 1) < n + 1 - i
  OBVIOUS

LEMMA NotBeyond ==
  ASSUME NEW n \in Nat, NEW i \in Nat, n + 1 - i \in Nat
  PROVE  i <= n + 1
  OBVIOUS

LEMMA NextPositionInv ==
  ASSUME LoopInv, ListInv, ListInv', PositionInv, [Next]_vars
  PROVE  /\ PositionInv'
         /\ vars' # vars =>
              LexBelow(Rank', Rank) /\ \A k \in 1 .. 4 : Rank'[k] >= 0
<1>0. /\ Len(tree.nodes) \in Nat /\ Len(tree'.nodes) \in Nat
      /\ Len(engine.rules) \in Nat /\ Len(engine'.rules) \in Nat
      /\ ni \in Nat \ {0} /\ ri \in Nat \ {0}
      /\ iter \in Nat /\ maxIters \in Nat /\ iter <= maxIters
      /\ pc \in {"scan", "check"} => iter < maxIters
      /\ pc \in {"parse", "scan", "check", "done"}
  BY DEF LoopInv, TypeOK, IterationsBounded, ScanIsCurrent, ListInv, IsListing
<1>1. ni <= Len(tree.nodes) + 1 /\ ri <= Len(engine.rules) + 1
  BY DEF PositionInv
<1>2. Phase \in 0 .. 3
  BY <1>0 DEF Phase
<1>3. \/ UNCHANGED vars
      \/ /\ maxIters' - iter' \in Nat
         /\ Phase' \in Nat
         /\ Len(tree'.nodes) + 1 - ni' \in Nat
         /\ Len(engine'.rules) + 1 - ri' \in Nat
         /\ ni' \in Nat /\ ri' \in Nat
         /\ \/ maxIters' - iter' < maxIters - iter
            \/ maxIters' - iter' = maxIters - iter /\ Phase' < Phase
            \/ /\ maxIters' - iter' = maxIters - iter /\ Phase' = Phase
               /\ Len(tree'.nodes) + 1 - ni' < Len(tree.nodes) + 1 - ni
            \/ /\ maxIters' - iter' = maxIters - iter /\ Phase' = Phase
               /\ Len(tree'.nodes) + 1 - ni' = Len(tree.nodes) + 1 - ni
               /\ Len(engine'.rules) + 1 - ri' < Len(engine.rules) + 1 - ri
  <2>1. CASE ParseAndMark
    <3>1. Phase = 3 /\ Phase' = 2
      BY <2>1 DEF ParseAndMark, Phase
    <3> QED
      BY <1>0, <1>1, <2>1, <3>1 DEF ParseAndMark
  <2>2. CASE NextNode
    <3>1. Phase = 2 /\ Phase' = 2
      BY <2>2 DEF NextNode, Phase
    <3>2. /\ engine' = engine /\ maxIters' = maxIters /\ iter' = iter /\ tree' = tree
          /\ ni' = ni + 1 /\ ri' = 1 /\ ni <= Len(tree.nodes)
      BY <2>2 DEF NextNode
    <3>3. /\ Len(tree.nodes) + 1 - (ni + 1) \in Nat
          /\ Len(tree.nodes) + 1 - (ni + 1) < Len(tree.nodes) + 1 - ni
      BY <1>0, <3>2, OneCloser
    <3>4. /\ maxIters' - iter' = maxIters - iter /\ maxIters - iter \in Nat
          /\ Len(engine'.rules) + 1 - ri' \in Nat /\ ni' \in Nat /\ ri' \in Nat
      BY <1>0, <3>2
    <3> QED
      BY <3>1, <3>2, <3>3, <3>4
  <2>3. CASE SkipRule
    <3>1. Phase = 2 /\ Phase' = 2
      BY <2>3 DEF SkipRule, AtRule, Phase
    <3>2. /\ engine' = engine /\ maxIters' = maxIters /\ iter' = iter /\ tree' = tree
          /\ ni' = ni /\ ri' = ri + 1 /\ ri <= Len(engine.rules)
      BY <2>3 DEF SkipRule, AtRule
    <3>3. /\ Len(engine.rules) + 1 - (ri + 1) \in Nat
          /\ Len(engine.rules) + 1 - (ri + 1) < Len(engine.rules) + 1 - ri
      BY <1>0, <3>2, OneCloser
    <3>4. /\ maxIters' - iter' = maxIters - iter /\ maxIters - iter \in Nat
          /\ Len(tree'.nodes) + 1 - ni' = Len(tree.nodes) + 1 - ni
          /\ Len(tree.nodes) + 1 - ni \in Nat /\ ni' \in Nat /\ ri' \in Nat
      BY <1>0, <1>1, <3>2
    <3> QED
      BY <3>1, <3>2, <3>3, <3>4
  <2>4. CASE ApplyRule \/ NoRuleApplies \/ OutOfIterations \/ RefuseOverBudget
    <3>1. Phase' \in {0, 1} /\ Phase' < Phase
      BY <2>4 DEF ApplyRule, AtRule, NoRuleApplies, OutOfIterations, RefuseOverBudget,
                  Finish, Phase
    <3>2. /\ engine' = engine /\ maxIters' = maxIters /\ iter' = iter /\ tree' = tree
          /\ ni' = ni /\ ri' = ri
      BY <2>4 DEF ApplyRule, NoRuleApplies, OutOfIterations, RefuseOverBudget
    <3>3. /\ maxIters - iter \in Nat /\ ni \in Nat /\ ri \in Nat
          /\ Len(tree.nodes) + 1 - ni \in Nat /\ Len(engine.rules) + 1 - ri \in Nat
      BY <1>0, <1>1
    <3>4. /\ maxIters' - iter' = maxIters - iter
          /\ Len(tree'.nodes) + 1 - ni' = Len(tree.nodes) + 1 - ni
          /\ Len(engine'.rules) + 1 - ri' = Len(engine.rules) + 1 - ri
      BY <3>2
    <3> QED
      BY <3>1, <3>2, <3>3, <3>4
  <2>5. CASE CommitNew \/ CommitRepeated
    <3>1. Phase' \in {0, 3}
      BY <2>5 DEF CommitNew, CommitRepeated, Finish, Phase
    <3>2. /\ engine' = engine /\ maxIters' = maxIters /\ iter' = iter + 1 /\ tree' = tree
          /\ ni' = ni /\ ri' = ri /\ iter < maxIters
      BY <1>0, <2>5 DEF CommitNew, CommitRepeated, Commit, Finish
    <3> QED
      BY <1>0, <1>1, <3>1, <3>2
  <2>6. CASE Returned \/ UNCHANGED vars
    BY <2>6 DEF Returned
  <2> QED
    BY <2>1, <2>2, <2>3, <2>4, <2>5, <2>6 DEF Next
<1>4. CASE UNCHANGED vars
  BY <1>1, <1>4 DEF vars, PositionInv
<1>5. CASE ~UNCHANGED vars
  <2>1. PositionInv'
    BY <1>0, <1>3, <1>5, NotBeyond DEF PositionInv
  <2> DEFINE a1 == maxIters - iter
             a2 == Phase
             a3 == Len(tree.nodes) + 1 - ni
             a4 == Len(engine.rules) + 1 - ri
  <2>a. a1 \in Int /\ a2 \in Int /\ a3 \in Int /\ a4 \in Int
    BY <1>0, <1>2
  <2>b. /\ a1' \in Nat /\ a2' \in Nat /\ a3' \in Nat /\ a4' \in Nat
        /\ \/ a1' < a1
           \/ a1' = a1 /\ a2' < a2
           \/ a1' = a1 /\ a2' = a2 /\ a3' < a3
           \/ a1' = a1 /\ a2' = a2 /\ a3' = a3 /\ a4' < a4
    BY <1>3, <1>5
  <2>c. Rank = <<a1, a2, a3, a4>> /\ Rank' = <<a1', a2', a3', a4'>>
    BY DEF Rank
  <2> HIDE DEF a1, a2, a3, a4
  <2>d. /\ Rank[1] = a1 /\ Rank[2] = a2 /\ Rank[3] = a3 /\ Rank[4] = a4
        /\ Rank'[1] = a1' /\ Rank'[2] = a2' /\ Rank'[3] = a3' /\ Rank'[4] = a4'
    BY <2>c
  <2>2. LexBelow(Rank', Rank)
    <3>1. CASE a1' < a1
      <4>1. Rank'[1] < Rank[1] /\ \A m \in 1 .. (1 - 1) : Rank'[m] = Rank[m]
        BY <2>d, <3>1
      <4> QED
        BY <4>1, BelowAt
    <3>2. CASE a1' = a1 /\ a2' < a2
      <4>1. Rank'[2] < Rank[2] /\ \A m \in 1 .. (2 - 1) : Rank'[m] = Rank[m]
        BY <2>d, <3>2
      <4> QED
        BY <4>1, BelowAt
    <3>3. CASE a1' = a1 /\ a2' = a2 /\ a3' < a3
      <4>1. Rank'[3] < Rank[3] /\ \A m \in 1 .. (3 - 1) : Rank'[m] = Rank[m]
        BY <2>d, <3>3
      <4> QED
        BY <4>1, BelowAt
    <3>4. CASE a1' = a1 /\ a2' = a2 /\ a3' = a3 /\ a4' < a4
      <4>1. Rank'[4] < Rank[4] /\ \A m \in 1 .. (4 - 1) : Rank'[m] = Rank[m]
        BY <2>d, <3>4
      <4> QED
        BY <4>1, BelowAt
    <3> QED
      BY <2>b, <3>1, <3>2, <3>3, <3>4
  <2>3. \A k \in 1 .. 4 : Rank'[k] >= 0
    BY <2>b, <2>d
  <2> QED
    BY <2>1, <2>2, <2>3
<1> QED
  BY <1>4, <1>5

(***************************************************************************)
(* Every step of a call lowers a rank of natural numbers: a call ends,     *)
(* whatever its rules do.                                                  *)
(***************************************************************************)
THEOREM CallsEnd == NodesAreLists => (Spec => RankFalls)
<1> SUFFICES ASSUME NodesAreLists PROVE Spec => RankFalls
  OBVIOUS
<1>1. LoopInv => TypeOK
  BY DEF LoopInv
<1>2. TypeOK /\ ListInv /\ [Next]_vars => ListInv'
  BY NextListInv
<1>3. LoopInv /\ ListInv /\ ListInv' /\ PositionInv /\ [Next]_vars => PositionInv'
  BY NextPositionInv
<1>4. LoopInv /\ ListInv /\ ListInv' /\ PositionInv /\ [Next]_vars
        => [LexBelow(Rank', Rank) /\ \A k \in 1 .. 4 : Rank'[k] >= 0]_vars
  BY NextPositionInv
<1> QED
  BY <1>1, <1>2, <1>3, <1>4, InitListInv, InitPositionInv, LoopInvariant, PTL
     DEF Spec, RankFalls

-----------------------------------------------------------------------------
(***************************************************************************)
(* An accepted rewrite of an input by a rule that matches moves the bytes  *)
(* of a forbidden span together.                                           *)
(***************************************************************************)
LEMMA ForbiddenFacts ==
  ASSUME NEW f \in Forbiddens, NEW t \in Inputs
  PROVE  /\ Apart(f)
         /\ \A i \in DOMAIN f : /\ f[i].start \in 0..Len(t)
                                /\ f[i].end \in f[i].start..Len(t)
                                /\ f[i].start < f[i].end
<1>1. PICK S : S = ToSet(f)
  OBVIOUS
<1>2. /\ f \in Seq(S)
      /\ \A s \in S : s \in [start : Nat, end : Nat] /\ s.start < s.end /\ s.end <= Len(t)
      /\ \A i, j \in DOMAIN f : i < j => f[i].end < f[j].start
  BY <1>1, ForbiddensAssumption
<1>3. Len(t) \in Nat /\ Len(f) \in Nat
  <2>1. PICK T : T = ToSet(t)
    OBVIOUS
  <2>2. t \in Seq(T)
    BY <2>1, LibraryAssumption DEF IsText
  <2> QED
    BY <1>2, <2>2
<1>4. DOMAIN f = 1..Len(f) /\ \A i \in 1..Len(f) : f[i] \in S
  BY <1>2
<1>5. f \in Seq(Span)
  BY <1>2 DEF Span
<1>6. Apart(f)
  BY <1>2, <1>4, <1>5 DEF Apart
<1>7. ASSUME NEW i \in DOMAIN f
      PROVE  /\ f[i].start \in 0..Len(t)
             /\ f[i].end \in f[i].start..Len(t)
             /\ f[i].start < f[i].end
  <2>1. f[i] \in S
    BY <1>4
  <2>2. f[i] \in [start : Nat, end : Nat] /\ f[i].start < f[i].end /\ f[i].end <= Len(t)
    BY <1>2, <2>1
  <2> QED
    BY <1>3, <2>2
<1> QED
  BY <1>6, <1>7

(***************************************************************************)
(* An edit that the engine does not refuse leaves a forbidden span in      *)
(* front of it or behind it.                                               *)
(***************************************************************************)
LEMMA NotOverlapping ==
  ASSUME NEW f, Apart(f), NEW i \in DOMAIN f, NEW s \in Nat, NEW e \in Nat, s <= e,
         ~editOverlapsForbidden(f, s, e)
  PROVE  e <= f[i].start \/ f[i].end <= s
<1>1. PICK a, b : a = f[i].start /\ b = f[i].end
  OBVIOUS
<1>2. a \in Nat /\ b \in Nat /\ a < b
  <2>1. f \in Seq(Span)
    BY DEF Apart
  <2>2. f[i] \in Span
    BY <2>1
  <2> QED
    BY <1>1, <2>2 DEF Span
<1>3. a .. (b - 1) \subseteq Offsets(f)
  BY <1>1 DEF Offsets
<1>4. CASE s = e
  <2>1. s \notin Offsets(f)
    BY <1>4, ForbiddenExact
  <2>2. s \notin a .. (b - 1)
    BY <1>3, <2>1
  <2> QED
    BY <1>1, <1>2, <1>4, <2>2
<1>5. CASE s # e
  <2>1. (s .. (e - 1)) \cap Offsets(f) = {}
    BY <1>5, ForbiddenExact
  <2>2. (s .. (e - 1)) \cap (a .. (b - 1)) = {}
    BY <1>3, <2>1
  <2>3. PICK k : k = IF s <= a THEN a ELSE s
    OBVIOUS
  <2>4. ~(k \in s .. (e - 1) /\ k \in a .. (b - 1))
    BY <2>2
  <2> QED
    BY <1>1, <1>2, <1>5, <2>3, <2>4
<1> QED
  BY <1>4, <1>5

LEMMA EditActionMoves ==
  ASSUME NEW rule, NEW node, NEW t \in Inputs, NEW parseable, NEW f \in Forbiddens,
         NEW edits, edits = ExecuteEdits(rule, node, t).edits,
         edits \in Seq(ToSet(edits)), \A e \in ToSet(edits) : IsEdit(e),
         NEW r, r = executeEditAction(rule, node, t, parseable, f), r.ok,
         NEW i \in DOMAIN f
  PROVE  Moves(t, r.text, f[i].start, f[i].end)
<1>1. PICK E, B, s : /\ E = ToSet(edits)
                     /\ B = ToSet(t) \cup (UNION {ToSet(e.put) : e \in E})
                     /\ s = SortEdits(edits)
  OBVIOUS
<1>2. t \in Seq(B) /\ Len(t) \in Nat
  <2>1. PICK T : T = ToSet(t)
    OBVIOUS
  <2>2. t \in Seq(T) /\ T \subseteq B
    BY <1>1, <2>1, LibraryAssumption DEF IsText
  <2> QED
    BY <2>2
<1>3. edits \in Seq(AnyEdit(B))
  <2>1. ASSUME NEW e \in E PROVE e \in AnyEdit(B)
    <3>1. PICK P : P = ToSet(e.put)
      OBVIOUS
    <3>2. e.put \in Seq(P) /\ P \subseteq B
      BY <1>1, <2>1, <3>1 DEF IsEdit, IsText
    <3>3. e.put \in Seq(B)
      BY <3>2
    <3>4. e \in [start : Int, end : Int, put : {e.put}]
      BY <1>1, <2>1 DEF IsEdit
    <3> QED
      BY <3>3, <3>4 DEF AnyEdit
  <2>2. edits \in Seq(E)
    BY <1>1
  <2> QED
    BY <2>1, <2>2
<1>4. PICK x : x = ApplyEdits(t, edits)
  OBVIOUS
<1>5. /\ x.ok /\ r.text = x.text
      /\ \A k \in DOMAIN edits : ~editOverlapsForbidden(f, edits[k].start, edits[k].end)
  BY <1>4 DEF executeEditAction, Refused
<1>6. ValidEdits(t, s)
  BY <1>1, <1>4, <1>5 DEF ApplyEdits, ApplyFailed
<1>7. edits \in Seq(EditOver(B, Len(t)))
  BY <1>1, <1>2, <1>3, <1>6, ValidAreOver
<1>8. Pairwise(s)
  BY <1>1, <1>2, <1>6, <1>7, ValidMeansPairwise
<1>9. /\ Orderly(B, t, s)
      /\ \E out, rest : OnePass(B, t, s, x.text, out, rest)
  BY <1>1, <1>2, <1>4, <1>7, <1>8, ApplyFacts
<1>10. PICK p, n : n = Len(edits) /\ Arranges(p, edits, s, n)
  BY <1>1, <1>2, <1>7, EditsSorted
<1>11. n \in Nat /\ DOMAIN edits = 1..n /\ Len(s) = n
  BY <1>7, <1>10 DEF Arranges
<1>12. Apart(f) /\ f[i].start \in 0..Len(t) /\ f[i].end \in f[i].start..Len(t)
  BY ForbiddenFacts
<1>13. ASSUME NEW k \in 1..Len(s)
       PROVE  s[k].end <= f[i].start \/ f[i].end <= s[k].start
  <2>1. p[k] \in 1..n /\ s[k] = edits[p[k]]
    BY <1>10, <1>11, <1>13 DEF Arranges
  <2>2. edits[p[k]] \in EditOver(B, Len(t))
    BY <1>7, <1>11, <2>1
  <2>3. /\ s[k].start \in Nat /\ s[k].end \in Nat /\ s[k].start <= s[k].end
        /\ ~editOverlapsForbidden(f, s[k].start, s[k].end)
    BY <1>5, <1>11, <2>1, <2>2 DEF EditOver
  <2> QED
    BY <1>12, <2>3, NotOverlapping
<1>14. Moves(t, x.text, f[i].start, f[i].end)
  BY <1>9, <1>12, <1>13, EditsMove
<1> QED
  BY <1>5, <1>14

LEMMA ActionMoves ==
  ASSUME NEW t \in Inputs, NEW list \in RuleLists, NEW j \in DOMAIN list,
         NEW k \in DOMAIN Nodes(t), NEW rule, rule = list[j], NEW node, node = Nodes(t)[k],
         ~IsMarker(rule), Matches(rule, node, t), NEW parseable, NEW f \in Forbiddens,
         NEW r, r = executeAction(rule, node, t, parseable, f), r.ok,
         NEW i \in DOMAIN f
  PROVE  Moves(t, r.text, f[i].start, f[i].end)
<1>1. rule.kind # "keep"
  BY DEF IsMarker
<1>2. CASE rule.kind = "edit"
  <2>1. PICK edits : edits = ExecuteEdits(rule, node, t).edits
    OBVIOUS
  <2>2. edits \in Seq(ToSet(edits)) /\ \A e \in ToSet(edits) : IsEdit(e)
    BY <1>1, <1>2, <2>1, LibraryAssumption
  <2>3. r = executeEditAction(rule, node, t, parseable, f)
    BY <1>2 DEF executeAction
  <2> QED
    BY <2>1, <2>2, <2>3, EditActionMoves
<1>3. CASE rule.kind # "edit"
  <2>1. PICK y, d, B : /\ y = Execute(rule, node, t).text
                       /\ d = changedSpan(t, y)
                       /\ B = ToSet(t) \cup ToSet(y)
    OBVIOUS
  <2>2. IsText(t) /\ IsText(y)
    BY <1>1, <1>3, <2>1, LibraryAssumption
  <2>3. t \in Seq(B) /\ y \in Seq(B) /\ Len(t) \in Nat
    <3>1. PICK T, Y : T = ToSet(t) /\ Y = ToSet(y)
      OBVIOUS
    <3>2. t \in Seq(T) /\ y \in Seq(Y) /\ T \subseteq B /\ Y \subseteq B
      BY <2>1, <2>2, <3>1 DEF IsText
    <3> QED
      BY <3>2
  <2>4. r.text = y /\ ~editOverlapsForbidden(f, d.start, d.endBefore)
    BY <1>3, <2>1 DEF executeAction, Refused
  <2>5. d.start \in Nat /\ d.endBefore \in Nat /\ d.start <= d.endBefore
    <3>1. CASE t = y
      BY <2>1, <2>3, <3>1, ChangedSpanOfSame
    <3>2. CASE t # y
      <4>1. PICK p, q : Differs(t, y, d, p, q)
        BY <2>1, <2>3, <3>2, ChangedSpanDiffers
      <4> QED
        BY <2>3, <4>1 DEF Differs
    <3> QED
      BY <3>1, <3>2
  <2>6. Apart(f) /\ f[i].start \in 0..Len(t) /\ f[i].end \in f[i].start..Len(t)
    BY ForbiddenFacts
  <2>7. d.endBefore <= f[i].start \/ f[i].end <= d.start
    BY <2>4, <2>5, <2>6, NotOverlapping
  <2>8. Moves(t, y, f[i].start, f[i].end)
    BY <2>1, <2>3, <2>6, <2>7, RewriteMoves
  <2> QED
    BY <2>4, <2>8
<1> QED
  BY <1>2, <1>3

(***************************************************************************)
(* Until the first rewrite the text is the input, the scan walks along the *)
(* nodes of the input, and a candidate keeps the forbidden spans together. *)
(***************************************************************************)
NodeOfInput(n) == \E k \in DOMAIN Nodes(input) : n = Nodes(input)[k]

Owned(t) == \A i \in DOMAIN engine.forbidden : SurvivesIn(engine.forbidden[i], t)

RuleOf(list, r) == \E j \in DOMAIN list : r = list[j]

OwnedInv ==
  /\ input \in Inputs
  /\ engine.cfg \in Config
  /\ engine.forbidden \in Forbiddens
  /\ \E list \in RuleLists : /\ DOMAIN engine.rules = 1..Len(engine.rules)
                             /\ \A j \in DOMAIN engine.rules : RuleOf(list, engine.rules[j])
  /\ ni \in Nat \ {0} /\ ri \in Nat \ {0} /\ iter \in Nat
  /\ iter = 0 => text = input
  /\ iter = 0 /\ pc \in {"scan", "check"} =>
       /\ DOMAIN tree.nodes = 1..Len(tree.nodes)
       /\ \A i \in DOMAIN tree.nodes : NodeOfInput(tree.nodes[i])
  /\ iter = 0 /\ pc = "check" => Owned(cand)
  /\ iter <= 1 => Owned(text)

(***************************************************************************)
(* In the input every forbidden span is where it is.                       *)
(***************************************************************************)
LEMMA InputIsOwned == input \in Inputs /\ engine.forbidden \in Forbiddens => Owned(input)
<1> SUFFICES ASSUME input \in Inputs, engine.forbidden \in Forbiddens,
                    NEW i \in DOMAIN engine.forbidden
             PROVE  SurvivesIn(engine.forbidden[i], input)
  BY DEF Owned
<1>1. PICK s, t : s = engine.forbidden[i] /\ t = input
  OBVIOUS
<1>2. s.start \in Nat /\ s.end \in Nat /\ s.end <= Len(t) /\ Len(t) \in Nat
  <2>1. PICK f : f = engine.forbidden
    OBVIOUS
  <2>2. f[i].start \in 0..Len(t) /\ f[i].end \in f[i].start..Len(t)
    BY <1>1, <2>1, ForbiddenFacts
  <2>3. PICK T : T = ToSet(t)
    OBVIOUS
  <2>4. t \in Seq(T)
    BY <1>1, <2>3, LibraryAssumption DEF IsText
  <2> QED
    BY <1>1, <2>1, <2>2, <2>4
<1>3. 0 \in -s.start .. (Len(t) - s.end) /\ s.start + 0 = s.start /\ s.end + 0 = s.end
  BY <1>2
<1> QED
  BY <1>1, <1>3 DEF SurvivesIn

(***************************************************************************)
(* The invariant holds initially.                                          *)
(***************************************************************************)
LEMMA InitOwnedInv == Init => OwnedInv
<1> SUFFICES ASSUME Init PROVE OwnedInv
  OBVIOUS
<1>1. PICK list \in RuleLists, c \in Configs, f \in Forbiddens :
        engine = [rules |-> NewEngineRules(list), cfg |-> c, forbidden |-> f]
  BY DEF Init
<1>2. engine.rules = NewEngineRules(list) /\ engine.cfg \in Config /\ engine.forbidden \in Forbiddens
  BY <1>1, EngineAssumption
<1>3. PICK L, rules : L = {list[i] : i \in DOMAIN list} /\ rules = engine.rules
  OBVIOUS
<1>4. rules \in Seq(L)
  BY <1>2, <1>3, RulesAreSorted
<1>5. /\ DOMAIN rules = 1..Len(rules)
      /\ \A j \in DOMAIN rules : RuleOf(list, rules[j])
  BY <1>3, <1>4 DEF RuleOf
<1>6. /\ input \in Inputs /\ ni = 1 /\ ri = 1 /\ iter = 0 /\ text = input /\ pc = "parse"
  BY DEF Init
<1>7. Owned(text)
  BY <1>2, <1>6, InputIsOwned
<1> QED
  BY <1>2, <1>3, <1>5, <1>6, <1>7 DEF OwnedInv

(***************************************************************************)
(* The spans and the nodes of the input do not change during a call.       *)
(***************************************************************************)
LEMMA OwnedSame ==
  ASSUME engine' = engine, input' = input
  PROVE  /\ \A t : Owned(t)' <=> Owned(t)
         /\ \A n : NodeOfInput(n)' <=> NodeOfInput(n)
  BY DEF Owned, SurvivesIn, NodeOfInput

(***************************************************************************)
(* The first scan walks along the nodes of the input.                      *)
(***************************************************************************)
LEMMA FirstScan ==
  ASSUME OwnedInv, iter = 0, ParseAndMark
  PROVE  /\ DOMAIN tree'.nodes = 1..Len(tree'.nodes)
         /\ \A i \in DOMAIN tree'.nodes : NodeOfInput(tree'.nodes[i])
<1>1. PICK nodes, t, L, order :
        /\ nodes = Nodes(input) /\ t = tree'.nodes
        /\ L = {nodes[k] : k \in DOMAIN nodes}
        /\ order = engine.cfg.nodeOrder
  OBVIOUS
<1>2. nodes \in Seq(Node) /\ order \in NodeOrders
  BY <1>1, EngineAssumption DEF OwnedInv, Config
<1>3. nodes \in Seq(L) /\ L \in SUBSET Node
  BY <1>1, <1>2
<1>4. t = sortNodesForOrder(nodes, order)
  BY <1>1 DEF OwnedInv, ParseAndMark
<1>5. t \in Seq(L)
  BY <1>2, <1>3, <1>4, NodesAreSorted
<1>6. DOMAIN t = 1..Len(t) /\ \A i \in DOMAIN t : t[i] \in L
  BY <1>5
<1> QED
  BY <1>1, <1>6 DEF NodeOfInput

(***************************************************************************)
(* The first candidate is made from the input by a rule of the engine on a *)
(* node of the input.                                                      *)
(***************************************************************************)
LEMMA FirstCandidate ==
  ASSUME OwnedInv, iter = 0, ApplyRule
  PROVE  Owned(cand')
<1>1. PICK list \in RuleLists :
        /\ DOMAIN engine.rules = 1..Len(engine.rules)
        /\ \A j \in DOMAIN engine.rules : RuleOf(list, engine.rules[j])
  BY DEF OwnedInv
<1>2. PICK rule, node, p, f, t, r :
        /\ rule = engine.rules[ri] /\ node = tree.nodes[ni] /\ p = tree.parseable
        /\ f = engine.forbidden /\ t = input /\ r = executeAction(rule, node, t, p, f)
  OBVIOUS
<1>3. ri \in DOMAIN engine.rules /\ ni \in DOMAIN tree.nodes /\ t \in Inputs /\ f \in Forbiddens
  BY <1>1, <1>2 DEF OwnedInv, ApplyRule, AtRule
<1>4. PICK j \in DOMAIN list : rule = list[j]
  BY <1>1, <1>2, <1>3 DEF RuleOf
<1>5. PICK k \in DOMAIN Nodes(t) : node = Nodes(t)[k]
  BY <1>2, <1>3 DEF OwnedInv, ApplyRule, AtRule, NodeOfInput
<1>6. ~IsMarker(rule) /\ Matches(rule, node, t) /\ r.ok /\ cand' = r.text
  BY <1>2 DEF OwnedInv, ApplyRule, AtRule, Attempt, Refused
<1>7. ASSUME NEW i \in DOMAIN f PROVE SurvivesIn(f[i], r.text)
  <2>1. Moves(t, r.text, f[i].start, f[i].end)
    BY <1>2, <1>3, <1>4, <1>5, <1>6, ActionMoves
  <2> QED
    BY <1>2, <2>1 DEF Moves, SurvivesIn
<1> QED
  BY <1>2, <1>6, <1>7 DEF Owned

(***************************************************************************)
(* Every step keeps the invariant.                                         *)
(***************************************************************************)
LEMMA NextOwnedInv == OwnedInv /\ [Next]_vars => OwnedInv'
<1> SUFFICES ASSUME OwnedInv, [Next]_vars PROVE OwnedInv'
  OBVIOUS
<1>1. engine' = engine /\ input' = input
  BY DEF Next, vars, ParseAndMark, OutOfIterations, NextNode, SkipRule, ApplyRule,
         NoRuleApplies, RefuseOverBudget, CommitNew, CommitRepeated, Returned
<1>2. /\ \A t : Owned(t)' <=> Owned(t)
      /\ \A n : NodeOfInput(n)' <=> NodeOfInput(n)
  BY <1>1, OwnedSame
<1>3. CASE ParseAndMark
  <2>1. /\ ni' = 1 /\ ri' = 1 /\ iter' = iter /\ text' = text /\ cand' = cand /\ pc' = "scan"
    BY <1>3 DEF ParseAndMark
  <2>2. iter = 0 => /\ DOMAIN tree'.nodes = 1..Len(tree'.nodes)
                    /\ \A i \in DOMAIN tree'.nodes : NodeOfInput(tree'.nodes[i])
    BY <1>3, FirstScan
  <2> QED
    BY <1>1, <1>2, <2>1, <2>2 DEF OwnedInv
<1>4. CASE ApplyRule
  <2>1. /\ ni' = ni /\ ri' = ri /\ iter' = iter /\ text' = text /\ tree' = tree
        /\ pc = "scan" /\ pc' = "check"
    BY <1>4 DEF ApplyRule, AtRule
  <2>2. iter = 0 => Owned(cand')
    BY <1>4, FirstCandidate
  <2> QED
    BY <1>1, <1>2, <2>1, <2>2 DEF OwnedInv
<1>5. CASE CommitNew \/ CommitRepeated
  <2>1. /\ ni' = ni /\ ri' = ri /\ iter' = iter + 1 /\ text' = cand /\ tree' = tree
        /\ pc = "check"
    BY <1>5 DEF CommitNew, CommitRepeated, Commit
  <2>2. iter \in Nat /\ (iter = 0 => Owned(cand))
    BY <2>1 DEF OwnedInv
  <2>3. iter' \in Nat /\ iter' # 0 /\ (iter' <= 1 => iter = 0)
    BY <2>1, <2>2
  <2>4. iter' <= 1 => Owned(text')
    BY <2>1, <2>2, <2>3
  <2> QED
    BY <1>1, <1>2, <2>1, <2>3, <2>4 DEF OwnedInv
<1>6. CASE NextNode \/ SkipRule
  <2>1. /\ ni' \in Nat \ {0} /\ ri' \in Nat \ {0} /\ iter' = iter /\ text' = text
        /\ tree' = tree /\ cand' = cand /\ pc' = pc /\ pc = "scan"
    BY <1>6 DEF NextNode, SkipRule, AtRule, OwnedInv
  <2> QED
    BY <1>1, <1>2, <2>1 DEF OwnedInv
<1>7. CASE OutOfIterations \/ NoRuleApplies \/ RefuseOverBudget
  <2>1. /\ ni' = ni /\ ri' = ri /\ iter' = iter /\ text' = text /\ pc' = "done"
    BY <1>7 DEF OutOfIterations, NoRuleApplies, RefuseOverBudget, Finish
  <2> QED
    BY <1>1, <1>2, <2>1 DEF OwnedInv
<1>8. CASE Returned \/ UNCHANGED vars
  BY <1>1, <1>2, <1>8 DEF Returned, vars, OwnedInv
<1> QED
  BY <1>3, <1>4, <1>5, <1>6, <1>7, <1>8 DEF Next

(***************************************************************************)
(* The bytes of a forbidden span are still together after the first        *)
(* rewrite of a call, whatever the rules do (Context.editOverlapsForbidden *)
(* and the span that changedSpan reports).                                 *)
(***************************************************************************)
THEOREM OwnedBytesStayTogether == Spec => []OwnedSurviveFirstRewrite
<1>1. OwnedInv => OwnedSurviveFirstRewrite
  BY DEF OwnedInv, Owned, OwnedSurviveFirstRewrite
<1> QED
  BY <1>1, InitOwnedInv, NextOwnedInv, PTL DEF Spec
=============================================================================
