------------------------------- MODULE Engine -------------------------------
(***************************************************************************)
(* The rule engine (dsl/engine.go): one call of Engine.Format.             *)
(*                                                                         *)
(* Each iteration parses the current text, marks the nodes that rules want *)
(* kept together, and scans the nodes in the configured order, trying the  *)
(* rules of each node by priority, until one action yields a rewrite that  *)
(* is accepted.  At most one rewrite is made per iteration, against the    *)
(* offsets of the text that was parsed in that iteration.                  *)
(*                                                                         *)
(* Go's parser and the rule library are parameters.  The path for a text   *)
(* without any syntax tree is left out: the parser returns a (partial)     *)
(* tree for every text that it is given in memory.                         *)
(***************************************************************************)
EXTENDS OffsetSpans, SourceEdits, FiniteSets

CONSTANTS
  Inputs,                 \* texts given to Format
  RuleLists,              \* rule lists given to NewEngine
  Configs,                \* engine settings
  Forbiddens,             \* span sets set by the pipeline before Format
  NodeTypes,              \* syntax node types
  MinIters, IterCap,      \* clamp of the automatic iteration limit
  Parses(_),              \* the parser reports no syntax error
  Nodes(_),               \* the nodes of the (partial) tree, in preorder
  Matches(_, _, _),       \* rule, node, text: the pattern and the condition hold
  Target(_, _, _),        \* rule, node, text: the node a keep rule marks
  ExecuteEdits(_, _, _),  \* rule, node, text: [changed, edits] of an edit action
  Execute(_, _, _)        \* rule, node, text: [changed, text] of any other action

Node == [type : NodeTypes, start : Nat, end : Nat, key : Nat]

NodeOrders == {"preorder", "source", "deepest"}

Config == [maxIterations : Int, auto : BOOLEAN, detectCycles : BOOLEAN,
           maxOutputBytes : Nat, maxBytesIncrease : Nat, nodeOrder : NodeOrders]

ASSUME EngineAssumption ==
  /\ Configs \subseteq Config
  /\ \A list \in RuleLists :
       /\ list \in Seq({list[i] : i \in DOMAIN list})
       /\ \A i \in DOMAIN list : list[i].priority \in Int
  /\ MinIters \in Nat \ {0}
  /\ IterCap \in Nat /\ IterCap >= MinIters
  /\ \A t \in Inputs : Nodes(t) \in Seq(Node)

(***************************************************************************)
(* The span sets are sorted and merged, and made over the text that Format *)
(* is then called with (SetOwnershipRegistry).                             *)
(***************************************************************************)
ASSUME ForbiddensAssumption ==
  \A f \in Forbiddens :
    /\ f \in Seq(ToSet(f))
    /\ \A s \in ToSet(f) :
         /\ s \in [start : Nat, end : Nat]
         /\ s.start < s.end
         /\ \A t \in Inputs : s.end <= Len(t)
    /\ \A i, j \in DOMAIN f : i < j => f[i].end < f[j].start

(***************************************************************************)
(* A rule that matches answers with edits, in or out of bounds, or with a  *)
(* text, according to its kind.                                            *)
(***************************************************************************)
IsText(t) == t \in Seq(ToSet(t))

IsEdit(e) == e \in [start : Int, end : Int, put : {e.put}] /\ IsText(e.put)

ASSUME LibraryAssumption ==
  \A t \in Inputs :
    /\ IsText(t)
    /\ \A list \in RuleLists : \A j \in DOMAIN list, i \in DOMAIN Nodes(t) :
         LET edits == ExecuteEdits(list[j], Nodes(t)[i], t).edits
         IN  list[j].kind # "keep" /\ Matches(list[j], Nodes(t)[i], t) =>
               IF list[j].kind = "edit"
                 THEN edits \in Seq(ToSet(edits)) /\ \A e \in ToSet(edits) : IsEdit(e)
                 ELSE IsText(Execute(list[j], Nodes(t)[i], t).text)

VARIABLES
  engine,     \* [rules, cfg, forbidden], fixed during the call
  input,      \* the text Format was called with
  text,       \* result: the text as rewritten so far
  maxIters,   \* the iteration limit of this call
  iter,       \* iterations that made a rewrite
  seen,       \* texts recorded for cycle detection
  tree,       \* [nodes, parseable, atomic] of the text at the last parse
  ni, ri,     \* the node and the rule the scan is at
  cand,       \* the rewrite under examination
  pc,         \* "parse", "scan", "check" or "done"
  why         \* why the call ended

vars == <<engine, input, text, maxIters, iter, seen, tree, ni, ri, cand, pc, why>>

Reasons == {"running", "stable", "budget", "cycle", "iterations"}

-----------------------------------------------------------------------------
\* Mutant: the lowest priority first.
RulesByRisingPriority(list) == StableSort(list, LAMBDA r, s : r.priority < s.priority)

(***************************************************************************)
(* NewEngine: a stable sort by falling priority.                           *)
(***************************************************************************)
NewEngineRules(list) == StableSort(list, LAMBDA r, s : r.priority > s.priority)

(***************************************************************************)
(* sortNodesForOrder; key is nodeOrderOffset, the offset of a call's       *)
(* parenthesis and of the first byte of any other node.                    *)
(***************************************************************************)
sortNodesForOrder(nodes, order) ==
  LET Width(n) == n.end - n.start
  IN  CASE order = "preorder" -> nodes
        [] order = "source"   -> StableSort(nodes, LAMBDA m, n : m.key < n.key)
        [] order = "deepest"  ->
             StableSort(nodes, LAMBDA m, n : \/ Width(m) < Width(n)
                                             \/ Width(m) = Width(n) /\ m.key < n.key)

ruleNodeTypes(rules) == {rules[i].type : i \in DOMAIN rules} \cap NodeTypes

(***************************************************************************)
(* estimateMaxIterations: two iterations per node that some rule may       *)
(* match, plus a margin, clamped; one iteration if no rule names a type.   *)
(***************************************************************************)
estimateMaxIterations(src, rules) ==
  LET candidates == Cardinality({i \in DOMAIN Nodes(src) :
                                   Nodes(src)[i].type \in ruleNodeTypes(rules)})
      estimate == 2 * candidates + MinIters
  IN  IF ruleNodeTypes(rules) = {} THEN 1
      ELSE IF estimate > IterCap THEN IterCap
      ELSE estimate

\* Mutant: a limit of zero is taken as it is.
UnclampedLimit(src, e) ==
  IF e.cfg.auto THEN estimateMaxIterations(src, e.rules) ELSE e.cfg.maxIterations

IterationLimit(src, e) ==
  LET limit == IF e.cfg.auto THEN estimateMaxIterations(src, e.rules)
                             ELSE e.cfg.maxIterations
  IN  IF limit <= 0 THEN 1 ELSE limit

(***************************************************************************)
(* withinBudget; a limit of zero is no limit.                              *)
(***************************************************************************)
withinBudget(cfg, initialLen, candidate) ==
  /\ cfg.maxOutputBytes > 0 => Len(candidate) <= cfg.maxOutputBytes
  /\ cfg.maxBytesIncrease > 0 => Len(candidate) <= initialLen + cfg.maxBytesIncrease

IsMarker(rule) == rule.kind = "keep"

applyAtomicMarkers(src, rules, nodes) ==
  {Target(rules[p[1]], nodes[p[2]], src) :
     p \in {q \in (DOMAIN rules) \X (DOMAIN nodes) :
              IsMarker(rules[q[1]]) /\ Matches(rules[q[1]], nodes[q[2]], src)}}

\* Mutant: a result is accepted as it comes.
acceptUnparsed(parseable, out) == TRUE

(***************************************************************************)
(* ensureParseable: a text that parsed must not be replaced by one that    *)
(* does not.                                                               *)
(***************************************************************************)
ensureParseable(parseable, out) == parseable => Parses(out)

Refused == [ok |-> FALSE, text |-> <<>>]

executeEditAction(rule, node, src, parseable, forbidden) ==
  LET r       == ExecuteEdits(rule, node, src)
      blocked == \E i \in DOMAIN r.edits :
                   editOverlapsForbidden(forbidden, r.edits[i].start, r.edits[i].end)
      applied == ApplyEdits(src, r.edits)
  IN  IF r.changed /\ ~blocked /\ applied.ok /\ ensureParseable(parseable, applied.text)
        THEN [ok |-> TRUE, text |-> applied.text]
        ELSE Refused

\* Mutant: whole-text actions are not held to ownership.
executeActionAnywhere(rule, node, src, parseable, forbidden) ==
  LET r == Execute(rule, node, src)
  IN  IF rule.kind = "edit"
        THEN executeEditAction(rule, node, src, parseable, forbidden)
        ELSE IF r.changed /\ ensureParseable(parseable, r.text)
               THEN [ok |-> TRUE, text |-> r.text]
               ELSE Refused

(***************************************************************************)
(* executeAction: any other action returns a whole text, and ownership is  *)
(* judged by the span in which the two texts differ.                       *)
(***************************************************************************)
executeAction(rule, node, src, parseable, forbidden) ==
  LET r    == Execute(rule, node, src)
      span == changedSpan(src, r.text)
  IN  IF rule.kind = "edit"
        THEN executeEditAction(rule, node, src, parseable, forbidden)
        ELSE IF /\ r.changed
                /\ ~editOverlapsForbidden(forbidden, span.start, span.endBefore)
                /\ ensureParseable(parseable, r.text)
               THEN [ok |-> TRUE, text |-> r.text]
               ELSE Refused

(***************************************************************************)
(* What applyRulesForNode gets from the i-th node and the j-th rule.       *)
(***************************************************************************)
Attempt(i, j) ==
  LET rule == engine.rules[j]
      node == tree.nodes[i]
  IN  IF IsMarker(rule) \/ ~Matches(rule, node, text)
        THEN Refused
        ELSE executeAction(rule, node, text, tree.parseable, engine.forbidden)

-----------------------------------------------------------------------------
NoTree == [nodes |-> <<>>, parseable |-> FALSE, atomic |-> {}]

Init ==
  /\ \E list \in RuleLists, c \in Configs, f \in Forbiddens :
       engine = [rules |-> NewEngineRules(list), cfg |-> c, forbidden |-> f]
  /\ input \in Inputs
  /\ text = input
  /\ maxIters = IterationLimit(input, engine)
  /\ iter = 0
  /\ seen = IF engine.cfg.detectCycles THEN {input} ELSE {}
  /\ tree = NoTree
  /\ ni = 1
  /\ ri = 1
  /\ cand = <<>>
  /\ pc = "parse"
  /\ why = "running"

Finish(reason) == pc' = "done" /\ why' = reason

(***************************************************************************)
(* The head of the loop: parse, mark, and start the scan.                  *)
(***************************************************************************)
ParseAndMark ==
  /\ pc = "parse"
  /\ iter < maxIters
  /\ tree' = [nodes     |-> sortNodesForOrder(Nodes(text), engine.cfg.nodeOrder),
              parseable |-> Parses(text),
              atomic    |-> applyAtomicMarkers(text, engine.rules, Nodes(text))]
  /\ ni' = 1
  /\ ri' = 1
  /\ pc' = "scan"
  /\ UNCHANGED <<engine, input, text, maxIters, iter, seen, cand, why>>

OutOfIterations ==
  /\ pc = "parse"
  /\ iter >= maxIters
  /\ Finish("iterations")
  /\ UNCHANGED <<engine, input, text, maxIters, iter, seen, tree, ni, ri, cand>>

(***************************************************************************)
(* applyOneRule passes over atomic nodes, and over a node none of whose    *)
(* rules made a change.                                                    *)
(***************************************************************************)
NextNode ==
  /\ pc = "scan"
  /\ ni <= Len(tree.nodes)
  /\ tree.nodes[ni] \in tree.atomic \/ ri > Len(engine.rules)
  /\ ni' = ni + 1
  /\ ri' = 1
  /\ UNCHANGED <<engine, input, text, maxIters, iter, seen, tree, cand, pc, why>>

AtRule ==
  /\ pc = "scan"
  /\ ni <= Len(tree.nodes)
  /\ tree.nodes[ni] \notin tree.atomic
  /\ ri <= Len(engine.rules)

\* Mutant: a rule that is refused ends the turn of its node.
SkipNodeOfRule ==
  /\ AtRule
  /\ ~Attempt(ni, ri).ok
  /\ ni' = ni + 1
  /\ ri' = 1
  /\ UNCHANGED <<engine, input, text, maxIters, iter, seen, tree, cand, pc, why>>

SkipRule ==
  /\ AtRule
  /\ ~Attempt(ni, ri).ok
  /\ ri' = ri + 1
  /\ UNCHANGED <<engine, input, text, maxIters, iter, seen, tree, ni, cand, pc, why>>

ApplyRule ==
  /\ AtRule
  /\ Attempt(ni, ri).ok
  /\ cand' = Attempt(ni, ri).text
  /\ pc' = "check"
  /\ UNCHANGED <<engine, input, text, maxIters, iter, seen, tree, ni, ri, why>>

NoRuleApplies ==
  /\ pc = "scan"
  /\ ni > Len(tree.nodes)
  /\ Finish("stable")
  /\ UNCHANGED <<engine, input, text, maxIters, iter, seen, tree, ni, ri, cand>>

\* Mutant: the rewrite over budget stays in place.
StopOverBudget ==
  /\ pc = "check"
  /\ ~withinBudget(engine.cfg, Len(input), cand)
  /\ text' = cand
  /\ Finish("budget")
  /\ UNCHANGED <<engine, input, maxIters, iter, seen, tree, ni, ri, cand>>

(***************************************************************************)
(* A rewrite over budget is refused and ends the call: no later rule of    *)
(* the iteration is tried.                                                 *)
(***************************************************************************)
RefuseOverBudget ==
  /\ pc = "check"
  /\ ~withinBudget(engine.cfg, Len(input), cand)
  /\ Finish("budget")
  /\ UNCHANGED <<engine, input, text, maxIters, iter, seen, tree, ni, ri, cand>>

Repeats == engine.cfg.detectCycles /\ cand \in seen

\* Mutant: the iteration is not counted.
CommitUncounted ==
  /\ pc = "check"
  /\ withinBudget(engine.cfg, Len(input), cand)
  /\ text' = cand
  /\ iter' = iter

Commit ==
  /\ pc = "check"
  /\ withinBudget(engine.cfg, Len(input), cand)
  /\ text' = cand
  /\ iter' = iter + 1

\* Mutant: the text before the rewrite is recorded, not the one after.
CommitRecordingOld ==
  /\ Commit
  /\ ~Repeats
  /\ seen' = IF engine.cfg.detectCycles THEN seen \cup {text} ELSE seen
  /\ pc' = "parse"
  /\ UNCHANGED <<engine, input, maxIters, tree, ni, ri, cand, why>>

CommitNew ==
  /\ Commit
  /\ ~Repeats
  /\ seen' = IF engine.cfg.detectCycles THEN seen \cup {cand} ELSE seen
  /\ pc' = "parse"
  /\ UNCHANGED <<engine, input, maxIters, tree, ni, ri, cand, why>>

(***************************************************************************)
(* detectCycle: the rewrite is kept, and the call ends.                    *)
(***************************************************************************)
CommitRepeated ==
  /\ Commit
  /\ Repeats
  /\ Finish("cycle")
  /\ UNCHANGED <<engine, input, maxIters, seen, tree, ni, ri, cand>>

(***************************************************************************)
(* Format has returned; nothing is left to do.                             *)
(***************************************************************************)
Returned == pc = "done" /\ UNCHANGED vars

Next ==
  \/ ParseAndMark
  \/ OutOfIterations
  \/ NextNode
  \/ SkipRule
  \/ ApplyRule
  \/ NoRuleApplies
  \/ RefuseOverBudget
  \/ CommitNew
  \/ CommitRepeated
  \/ Returned

Spec == Init /\ [][Next]_vars

-----------------------------------------------------------------------------
(***************************************************************************)
(* Type correctness.  Texts are not typed: they are whatever the actions   *)
(* of the rules produce.                                                   *)
(***************************************************************************)
TypeOK ==
  /\ engine.cfg \in Config
  /\ input \in Inputs
  /\ maxIters \in Nat \ {0}
  /\ iter \in Nat
  /\ ni \in Nat \ {0}
  /\ ri \in Nat \ {0}
  /\ pc \in {"parse", "scan", "check", "done"}
  /\ why \in Reasons
  /\ pc = "done" <=> why # "running"

(***************************************************************************)
(* The engine does not break a file: once the text parses it parses for    *)
(* good, whatever the rules do, also when the input did not parse.         *)
(***************************************************************************)
ParseabilityKept == [][Parses(text) => Parses(text')]_vars

(***************************************************************************)
(* The state form of the same promise, for the input of the call.          *)
(***************************************************************************)
ParseSafe == Parses(input) => Parses(text)

(***************************************************************************)
(* The result is the input itself or within the rewrite budget, measured   *)
(* against the input and not against the previous iteration.               *)
(***************************************************************************)
BudgetKept == text = input \/ withinBudget(engine.cfg, Len(input), text)

(***************************************************************************)
(* A call makes at most maxIters rewrites, and ends for lack of iterations *)
(* only when it has used all of them.                                      *)
(***************************************************************************)
IterationsBounded ==
  /\ iter <= maxIters
  /\ why = "iterations" => iter = maxIters

(***************************************************************************)
(* Deterministic selection: the rewrite examined comes from the first node *)
(* of the configured order that has an acceptable rewrite and, there, from *)
(* a rule of the highest priority among the rules that have one.           *)
(***************************************************************************)
FirstByOrderAndPriority ==
  pc = "check" =>
    /\ cand = Attempt(ni, ri).text
    /\ \A i \in 1..(ni - 1), j \in DOMAIN engine.rules :
         tree.nodes[i] \notin tree.atomic => ~Attempt(i, j).ok
    /\ \A j \in DOMAIN engine.rules :
         Attempt(ni, j).ok => engine.rules[j].priority <= engine.rules[ri].priority

(***************************************************************************)
(* A call that ends because nothing applies ends in a normal form: no rule *)
(* has an acceptable rewrite on any node that is not atomic.  A refused    *)
(* rewrite never hides another one.                                        *)
(***************************************************************************)
StableIsNormalForm ==
  why = "stable" =>
    \A i \in DOMAIN tree.nodes, j \in DOMAIN engine.rules :
      tree.nodes[i] \notin tree.atomic => ~Attempt(i, j).ok

(***************************************************************************)
(* With cycle detection no text is worked on twice: until the call ends    *)
(* every rewrite made has produced a text not met before.                  *)
(***************************************************************************)
NoTextTwice ==
  engine.cfg.detectCycles =>
    /\ text \in seen
    /\ why # "cycle" => Cardinality(seen) = iter + 1
    /\ why = "cycle" => Cardinality(seen) = iter

(***************************************************************************)
(* Ownership: the bytes of a forbidden span are still together in the      *)
(* text after the first rewrite.                                           *)
(***************************************************************************)
SurvivesIn(span, t) ==
  \E d \in -span.start .. (Len(t) - span.end) :
    Slice(t, span.start + d, span.end + d) = Slice(input, span.start, span.end)

OwnedSurviveFirstRewrite ==
  iter <= 1 =>
    \A i \in DOMAIN engine.forbidden : SurvivesIn(engine.forbidden[i], text)

(***************************************************************************)
(* What ARCHITECTURE.md says of ownership without a word on iterations:    *)
(* the edits of a stage never touch bytes owned by a later stage.          *)
(***************************************************************************)
OwnedSurvive ==
  \A i \in DOMAIN engine.forbidden : SurvivesIn(engine.forbidden[i], text)

(***************************************************************************)
(* What KeepTogetherAction says of itself: a node marked as atomic is not  *)
(* broken by other rules.  Its bytes are still together in the rewrite.    *)
(***************************************************************************)
AtomicNotBroken ==
  pc = "check" =>
    \A n \in tree.atomic :
      \E d \in -n.start .. (Len(cand) - n.end) :
        Slice(cand, n.start + d, n.end + d) = Slice(text, n.start, n.end)

(***************************************************************************)
(* Every call ends, also when its rules rewrite in circles or grow the     *)
(* text without end and neither budget nor cycle detection is on: each     *)
(* step lowers a rank of four natural numbers, the first that differs      *)
(* deciding.  (With no deadlock before the call has returned, that is      *)
(* termination, and it does not rest on any fairness.)                     *)
(***************************************************************************)
Phase == CASE pc = "parse" -> 3 [] pc = "scan" -> 2 [] pc = "check" -> 1 [] OTHER -> 0

Rank ==
  <<maxIters - iter, Phase, Len(tree.nodes) + 1 - ni, Len(engine.rules) + 1 - ri>>

LexBelow(r, q) ==
  \E k \in 1..4 : r[k] < q[k] /\ \A m \in 1..(k - 1) : r[m] = q[m]

RankFalls == [][LexBelow(Rank', Rank) /\ \A k \in 1..4 : Rank'[k] >= 0]_vars

(***************************************************************************)
(* The contract of one call, to the rest of the system (RewriteContract).  *)
(***************************************************************************)
Contract ==
  INSTANCE RewriteContract
    WITH limits <- engine.cfg,
         doc    <- text,
         fuel   <- maxIters - iter,
         open   <- pc # "done"

Implements == Contract!Spec
=============================================================================
