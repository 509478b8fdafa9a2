---------------------------- MODULE StageProofs ----------------------------
(***************************************************************************)
(* Theorems about StageConfig, StageOrder and BlankLines.  For all         *)
(* configurations and trees: the plan says what runs, an accepted          *)
(* configuration is understood, the log stage owns what it formats, and an *)
(* argument has one editor.  For all lists of stages: they are put in an   *)
(* order in which each is behind all that it requires, and refused as a    *)
(* cycle only if there is no such order.  For all files: the blank-lines   *)
(* stage cuts off no comment, and its batch does what its rules do.        *)
(***************************************************************************)
EXTENDS StageConfig, StageOrder, BlankLines, Lemmas

(***************************************************************************)
(* Hypotheses.  A configuration has the fields the theorems look at; a     *)
(* rule set of an engine that runs alone has not the name of the log       *)
(* stage; the trees come from files that parse; a parent is before its     *)
(* children in the list of nodes; and no name to be left alone is empty.   *)
(***************************************************************************)
Fields == {"use", "override", "multiStyle", "registry", "allow", "excludes", "names", "prefixes"}

HasFields(c) == Fields \subseteq DOMAIN c /\ Stages \subseteq DOMAIN c.use

ConfigsAreComplete == \A j \in Jobs : HasFields(j.cfg)

SetsAreNoStages == "compact-calls" \notin RuleSets

TreesParse == \A j \in Jobs : j.tree.parses

IsTree(T) ==
  /\ Len(T.nodes) \in Nat
  /\ NodesOf(T) = 1..Len(T.nodes)
  /\ \A m \in NodesOf(T) : T.nodes[m].up \in 0..(m - 1)

TreesAreInPreorder == \A j \in Jobs : IsTree(j.tree)

NoNameIsEmpty == \A j \in Jobs : <<>> \notin j.cfg.excludes

LEMMA StageSet ==
  Stages = {"comments", "compact-calls", "expressions", "multiline-calls", "signatures", "blank-lines"}
  BY DEF Stages, StageNames, ToSet

-----------------------------------------------------------------------------
(***************************************************************************)
(* The plan.  A stage is on in what Build makes of a plan exactly if the   *)
(* plan says so.                                                           *)
(***************************************************************************)
LEMMA BuiltAsPlanned ==
  ASSUME NEW c, NEW plan, NEW s \in Stages
  PROVE  Build(c, plan)[s].on <=> plan[s] = "dsl"
<1>1. CASE plan[s] = "dsl"
  <2>1. Build(c, plan)[s] = EngineOf(c, s)
    BY <1>1 DEF Build
  <2>2. EngineOf(c, s).on = TRUE
    BY StageSet DEF EngineOf, Set
  <2> QED
    BY <1>1, <2>1, <2>2
<1>2. CASE plan[s] # "dsl"
  <2>1. Build(c, plan)[s] = Noop
    BY <1>2 DEF Build
  <2> QED
    BY <1>2, <2>1 DEF Noop
<1> QED
  BY <1>1, <1>2

(***************************************************************************)
(* The engines are those of the configuration as it was left, and only a   *)
(* stage that is on has tried a rule.                                      *)
(***************************************************************************)
PlanInv ==
  /\ pc \in {"asked", "accepted", "rejected"} => attempts = {}
  /\ pc = "ready" =>
       /\ engines = Build(cfg, Plan)
       /\ \A a \in attempts : a[1] \in Stages /\ engines[a[1]].on

LEMMA PlanInit == Init => PlanInv
  BY DEF Init, PlanInv

LEMMA PlanStep ==
  ASSUME PlanInv, [Next]_vars
  PROVE  PlanInv'
<1> USE DEF PlanInv
<1>1. CASE UNCHANGED vars
  BY <1>1 DEF vars, Plan
<1>2. CASE ValidatePipelineConfig
  BY <1>2 DEF ValidatePipelineConfig
<1>3. ASSUME pc \in {"asked", "accepted"}, NewPipeline(cfg) PROVE PlanInv'
  BY <1>3 DEF NewPipeline, Plan
<1>4. CASE NewValidated
  BY <1>3, <1>4 DEF NewValidated
<1>5. CASE NewUnchecked
  BY <1>3, <1>5 DEF NewUnchecked
<1>6. CASE RunStage
  <2>1. pc = "ready" /\ UNCHANGED <<pc, cfg, engines>>
    BY <1>6 DEF RunStage
  <2>2. \A a \in attempts' : a[1] \in Stages /\ engines[a[1]].on
    BY <1>6, <2>1 DEF RunStage
  <2> QED
    BY <2>1, <2>2 DEF Plan
<1>7. CASE RunAlone
  BY <1>7 DEF RunAlone
<1> QED
  BY <1>1, <1>2, <1>4, <1>5, <1>6, <1>7 DEF Next

(***************************************************************************)
(* The plan a pipeline reports, derived a second time from the             *)
(* configuration its constructor has adjusted, is the one its engines were *)
(* built from.                                                             *)
(***************************************************************************)
THEOREM PlansAreTrue == Spec => []PlanSaysWhatRuns
<1>1. PlanInv => PlanSaysWhatRuns
  BY BuiltAsPlanned DEF PlanInv, PlanSaysWhatRuns
<1> QED
  BY PlanInit, PlanStep, <1>1, PTL DEF Spec

-----------------------------------------------------------------------------
(***************************************************************************)
(* Log calls.  Either rule of the log stage asks that the node is a call   *)
(* of its kind.                                                            *)
(***************************************************************************)
LEMMA StructuredRule ==
  ASSUME NEW T, NEW n, NEW log,
         Applies(T, n, LogPrintfRulesWithOptions(log)[1])
  PROVE  Type(T, n) = "CallExpr" /\ IsStructuredLogCall(T, n)
<1> DEFINE r == LogPrintfRulesWithOptions(log)[1]
           caps == Captures(T, n, r.pattern)
           lit == Is("IsStructuredLogCall")
<1>1. r.pattern = Node("CallExpr") /\ r.when = All(<<lit, Not(Is("HasAnyComment"))>>)
  BY DEF LogPrintfRulesWithOptions, Rule
<1>2. matchType(T, n, "CallExpr")
  BY <1>1 DEF Applies, Matches, Node
<1>3. Eval(T, caps, lit)
  <2>1. r.when = << <<lit>>, <<Not(Is("HasAnyComment"))>> >>
    BY <1>1 DEF All
  <2>2. \E j \in DOMAIN r.when[1] : Eval(T, caps, r.when[1][j])
    BY <2>1 DEF Applies
  <2> QED
    BY <2>1, <2>2
<1>4. Truth(T, n, lit)
  <2>1. "node" \in DOMAIN caps /\ caps["node"] = n
    BY DEF Captures
  <2>2. lit.of = "node" /\ lit.want = TRUE /\ lit.cond = "IsStructuredLogCall"
    BY DEF Is
  <2>3. resolveTarget(caps, lit.of) = n
    BY <2>1, <2>2 DEF resolveTarget
  <2> QED
    BY <1>3, <2>2, <2>3 DEF Eval
<1>5. IsStructuredLogCall(T, n)
  BY <1>4 DEF Truth, Is
<1> QED
  BY <1>2, <1>5 DEF matchType

LEMMA LogRule ==
  ASSUME NEW T, NEW n, NEW log,
         Applies(T, n, LogPrintfRulesWithOptions(log)[2])
  PROVE  Type(T, n) = "CallExpr" /\ IsLogOrPrintfCall(T, n, log)
<1> DEFINE r == LogPrintfRulesWithOptions(log)[2]
           caps == Captures(T, n, r.pattern)
           lit == LogCall("node", log)
<1>1. r.pattern = Node("CallExpr") /\ r.when = All(<<lit>>)
  BY DEF LogPrintfRulesWithOptions, Rule
<1>2. matchType(T, n, "CallExpr")
  BY <1>1 DEF Applies, Matches, Node
<1>3. Eval(T, caps, lit)
  <2>1. r.when = << <<lit>> >>
    BY <1>1 DEF All
  <2>2. \E j \in DOMAIN r.when[1] : Eval(T, caps, r.when[1][j])
    BY <2>1 DEF Applies
  <2> QED
    BY <2>1, <2>2
<1>4. Truth(T, n, lit)
  <2>1. "node" \in DOMAIN caps /\ caps["node"] = n
    BY DEF Captures
  <2>2. lit.of = "node" /\ lit.want = TRUE /\ lit.cond = "IsLogOrPrintfCall" /\ lit.o.log = log
    BY DEF LogCall, IsOf, Is, NoOptions
  <2>3. resolveTarget(caps, lit.of) = n
    BY <2>1, <2>2 DEF resolveTarget
  <2> QED
    BY <1>3, <2>2, <2>3 DEF Eval
<1>5. IsLogOrPrintfCall(T, n, log)
  <2>1. lit.cond = "IsLogOrPrintfCall" /\ lit.o.log = log
    BY DEF LogCall, IsOf, Is, NoOptions
  <2> QED
    BY <1>4, <2>1 DEF Truth
<1> QED
  BY <1>2, <1>5 DEF matchType

(***************************************************************************)
(* What the log stage formats it claims, and the multi-line stage does     *)
(* not: the two lists of names agree on every tree.                        *)
(***************************************************************************)
LEMMA FormattedIsClaimed ==
  ASSUME NEW c, NEW T, T.parses,
         NEW a \in Applied(RulesOfStage(c, "compact-calls"), T)
  PROVE  /\ a[2] \in ownedSpansForCalls(c, "compact-calls", T)
         /\ a[2] \notin ownedSpansForCalls(c, "multiline-calls", T)
<1> DEFINE rules == LogPrintfRulesWithOptions(LogSelection(c))
           n == a[2]
<1>1. RulesOfStage(c, "compact-calls") = rules
  BY DEF RulesOfStage
<1>2. PICK i \in DOMAIN rules : n \in NodesOf(T) /\ Applies(T, n, rules[i])
  BY <1>1 DEF Applied
<1>3. DOMAIN rules = {1, 2}
  BY DEF LogPrintfRulesWithOptions
<1>4. Type(T, n) = "CallExpr"
      /\ (IsStructuredLogCall(T, n) \/ IsLogOrPrintfCall(T, n, LogSelection(c)))
  <2>1. CASE i = 1
    BY <1>2, <2>1, StructuredRule
  <2>2. CASE i = 2
    BY <1>2, <2>2, LogRule
  <2> QED
    BY <1>2, <1>3, <2>1, <2>2
<1>5. n \in ownedSpansForCalls(c, "compact-calls", T)
  BY <1>2, <1>4 DEF ownedSpansForCalls, ShouldOwnLogCall
<1>6. n \notin ownedSpansForCalls(c, "multiline-calls", T)
  BY <1>4 DEF ownedSpansForCalls, shouldOwnMultilineCall
<1> QED
  BY <1>5, <1>6

(***************************************************************************)
(* Who owns what.  A claim is one of ownedSpansForCalls, and what the log  *)
(* stage has tried it has claimed, if there is a registry.                 *)
(***************************************************************************)
Claimed(o) == o[1] \in Stages /\ o[2] \in ownedSpansForCalls(cfg, o[1], asked.tree)

OwnedAlone(n) ==
  /\ n \notin ownedSpansForCalls(cfg, "multiline-calls", asked.tree)
  /\ cfg.registry => <<"compact-calls", n>> \in owned

OwnInv ==
  /\ asked \in Jobs
  /\ pc \in {"asked", "accepted", "rejected", "ready", "alone"}
  /\ pc \in {"asked", "accepted", "rejected"} => attempts = {} /\ owned = {}
  /\ pc = "alone" => \A a \in attempts : a[1] \in RuleSets
  /\ pc = "ready" =>
       /\ \A o \in owned : Claimed(o)
       /\ \A a \in attempts : a[1] = "compact-calls" => OwnedAlone(a[3])

LEMMA OwnInit == Init => OwnInv
  BY DEF Init, OwnInv

(***************************************************************************)
(* A stage that runs adds its claims before another can look at them.      *)
(***************************************************************************)
LEMMA OwnRun ==
  ASSUME TreesParse, OwnInv, RunStage
  PROVE  OwnInv'
<1>1. pc = "ready" /\ UNCHANGED <<asked, pc, cfg, engines>>
  BY DEF RunStage
<1>2. PICK s \in Stages :
        /\ attempts' = attempts \cup
             IF engines[s].on
               THEN {<<s, a[1], a[2]>> : a \in Applied(RulesOfStage(cfg, s), asked.tree)}
               ELSE {}
        /\ owned' = owned \cup
             IF engines[s].on /\ cfg.registry
               THEN {<<s, n>> : n \in ownedSpansForCalls(cfg, s, asked.tree)}
               ELSE {}
  BY DEF RunStage
<1>3. \A o \in owned' : Claimed(o)'
  <2> SUFFICES ASSUME NEW o \in owned' PROVE Claimed(o)
    BY <1>1 DEF Claimed
  <2>1. CASE o \in owned
    BY <1>1, <2>1 DEF OwnInv
  <2>2. CASE o \notin owned
    <3>1. PICK n \in ownedSpansForCalls(cfg, s, asked.tree) : o = <<s, n>>
      BY <1>2, <2>2
    <3> QED
      BY <3>1 DEF Claimed
  <2> QED
    BY <2>1, <2>2
<1>4. ASSUME NEW a \in attempts', a[1] = "compact-calls" PROVE OwnedAlone(a[3])'
  <2>1. CASE a \in attempts
    <3>1. OwnedAlone(a[3])
      BY <1>1, <1>4, <2>1 DEF OwnInv
    <3>2. owned \subseteq owned'
      BY <1>2
    <3> QED
      BY <1>1, <3>1, <3>2 DEF OwnedAlone
  <2>2. CASE a \notin attempts
    <3>1. engines[s].on
      BY <1>2, <2>2
    <3>2. PICK r \in Applied(RulesOfStage(cfg, s), asked.tree) : a = <<s, r[1], r[2]>>
      BY <1>2, <2>2
    <3>3. s = "compact-calls" /\ a[3] = r[2]
      BY <1>4, <3>2
    <3>4. asked.tree.parses
      BY DEF OwnInv, TreesParse
    <3>5. /\ r[2] \in ownedSpansForCalls(cfg, "compact-calls", asked.tree)
          /\ r[2] \notin ownedSpansForCalls(cfg, "multiline-calls", asked.tree)
      <4>1. r \in Applied(RulesOfStage(cfg, "compact-calls"), asked.tree)
        BY <3>2, <3>3
      <4> QED
        BY <3>4, <4>1, FormattedIsClaimed
    <3>6. cfg.registry => <<"compact-calls", r[2]>> \in owned'
      BY <1>2, <3>1, <3>3, <3>5
    <3> QED
      BY <1>1, <3>3, <3>5, <3>6 DEF OwnedAlone
  <2> QED
    BY <2>1, <2>2
<1> QED
  BY <1>1, <1>3, <1>4 DEF OwnInv

LEMMA OwnStep ==
  ASSUME TreesParse, OwnInv, [Next]_vars
  PROVE  OwnInv'
<1>1. CASE UNCHANGED vars
  BY <1>1 DEF vars, OwnInv, Claimed, OwnedAlone
<1>2. CASE ValidatePipelineConfig
  BY <1>2 DEF ValidatePipelineConfig, OwnInv
<1>3. ASSUME pc \in {"asked", "accepted"}, NewPipeline(cfg) PROVE OwnInv'
  BY <1>3 DEF NewPipeline, OwnInv
<1>4. CASE NewValidated
  BY <1>3, <1>4 DEF NewValidated
<1>5. CASE NewUnchecked
  BY <1>3, <1>5 DEF NewUnchecked
<1>6. CASE RunStage
  BY <1>6, OwnRun
<1>7. CASE RunAlone
  <2>1. pc' = "alone" /\ asked' = asked
    BY <1>7 DEF RunAlone
  <2>2. \A a \in attempts' : a[1] \in RuleSets
    BY <1>7 DEF RunAlone
  <2> QED
    BY <2>1, <2>2 DEF OwnInv
<1> QED
  BY <1>1, <1>2, <1>4, <1>5, <1>6, <1>7 DEF Next

(***************************************************************************)
(* What the log stage formats, it and no other call stage has claimed      *)
(* (shouldOwnMultilineCall and the conditions of the log rules, written    *)
(* down twice), on every tree and for all names that count as log calls.   *)
(***************************************************************************)
THEOREM FormattedIsOwned ==
  ASSUME TreesParse, SetsAreNoStages
  PROVE  Spec => []LogStageOwnsWhatItFormats
<1>1. OwnInv => LogStageOwnsWhatItFormats
  <2> SUFFICES ASSUME OwnInv, cfg.registry, NEW a \in attempts, a[1] = "compact-calls"
               PROVE  {o[1] : o \in {p \in owned : p[2] = a[3]}} = {"compact-calls"}
    BY DEF LogStageOwnsWhatItFormats
  <2>1. pc = "ready"
    BY DEF OwnInv, SetsAreNoStages
  <2>2. OwnedAlone(a[3])
    BY <2>1 DEF OwnInv
  <2>3. <<"compact-calls", a[3]>> \in {p \in owned : p[2] = a[3]}
    BY <2>2 DEF OwnedAlone
  <2>4. ASSUME NEW p \in owned, p[2] = a[3] PROVE p[1] = "compact-calls"
    <3>1. a[3] \in ownedSpansForCalls(cfg, p[1], asked.tree)
      BY <2>1, <2>4 DEF OwnInv, Claimed
    <3>2. p[1] \in {"compact-calls", "multiline-calls"}
      BY <3>1 DEF ownedSpansForCalls
    <3> QED
      BY <2>2, <3>1, <3>2 DEF OwnedAlone
  <2> QED
    BY <2>3, <2>4
<1> QED
  BY OwnInit, OwnStep, <1>1, PTL DEF Spec

-----------------------------------------------------------------------------
(***************************************************************************)
(* What the names of a configuration mean.  No list of rules but that of   *)
(* the multi-line stage has the packed rule.                               *)
(***************************************************************************)
Packed == "long_call_expr_packed"

HasNoPacked(rules) == \E S : rules \in Seq(S) /\ \A r \in S : r.name # Packed

LEMMA NoPackedIn ==
  ASSUME NEW S, NEW rules \in Seq(S), \A r \in S : r.name # Packed
  PROVE  HasNoPacked(rules)
<1> SUFFICES \E V : rules \in Seq(V) /\ \A r \in V : r.name # Packed
  BY DEF HasNoPacked
<1> WITNESS S
<1> QED
  OBVIOUS

LEMMA NoneIsPacked ==
  ASSUME NEW rules, HasNoPacked(rules), NEW i \in DOMAIN rules
  PROVE  rules[i].name # Packed
  BY DEF HasNoPacked

LEMMA NoPackedInBoth ==
  ASSUME NEW s, NEW t, HasNoPacked(s), HasNoPacked(t)
  PROVE  HasNoPacked(s \o t)
<1>1. PICK S : s \in Seq(S) /\ \A r \in S : r.name # Packed
  BY DEF HasNoPacked
<1>2. PICK U : t \in Seq(U) /\ \A r \in U : r.name # Packed
  BY DEF HasNoPacked
<1>3. s \in Seq(S \cup U) /\ t \in Seq(S \cup U)
  BY <1>1, <1>2
<1>4. PICK V : V = S \cup U
  OBVIOUS
<1>5. s \o t \in Seq(V) /\ \A r \in V : r.name # Packed
  BY <1>1, <1>2, <1>3, <1>4
<1> QED
  BY <1>5, NoPackedIn

LEMMA NoPackedInNone == HasNoPacked(<<>>)
<1>1. PICK S : S = {}
  OBVIOUS
<1>2. <<>> \in Seq(S) /\ \A r \in S : r.name # Packed
  BY <1>1
<1> QED
  BY <1>2, NoPackedIn

LEMMA NoPackedInOne ==
  ASSUME NEW a, a.name # Packed
  PROVE  HasNoPacked(<<a>>)
<1>1. PICK S : S = {a}
  OBVIOUS
<1>2. <<a>> \in Seq(S) /\ \A r \in S : r.name # Packed
  BY <1>1
<1> QED
  BY <1>2, NoPackedIn

LEMMA NoPackedInTwo ==
  ASSUME NEW a, NEW b, a.name # Packed, b.name # Packed
  PROVE  HasNoPacked(<<a, b>>)
<1>1. PICK S : S = {a, b}
  OBVIOUS
<1>2. <<a, b>> \in Seq(S) /\ \A r \in S : r.name # Packed
  BY <1>1
<1> QED
  BY <1>2, NoPackedIn

LEMMA NoPackedInThree ==
  ASSUME NEW a, NEW b, NEW c, a.name # Packed, b.name # Packed, c.name # Packed
  PROVE  HasNoPacked(<<a, b, c>>)
<1>1. PICK S : S = {a, b, c}
  OBVIOUS
<1>2. <<a, b, c>> \in Seq(S) /\ \A r \in S : r.name # Packed
  BY <1>1
<1> QED
  BY <1>2, NoPackedIn

LEMMA NoPackedInEleven ==
  ASSUME NEW a1, NEW a2, NEW a3, NEW a4, NEW a5, NEW a6, NEW a7, NEW a8, NEW a9, NEW a10, NEW a11,
         a1.name # Packed, a2.name # Packed, a3.name # Packed, a4.name # Packed,
         a5.name # Packed, a6.name # Packed, a7.name # Packed, a8.name # Packed,
         a9.name # Packed, a10.name # Packed, a11.name # Packed
  PROVE  HasNoPacked(<<a1, a2, a3, a4, a5, a6, a7, a8, a9, a10, a11>>)
<1>1. PICK S : S = {a1, a2, a3, a4, a5, a6, a7, a8, a9, a10, a11}
  OBVIOUS
<1>2. /\ a1 \in S /\ a2 \in S /\ a3 \in S /\ a4 \in S /\ a5 \in S /\ a6 \in S
      /\ a7 \in S /\ a8 \in S /\ a9 \in S /\ a10 \in S /\ a11 \in S
  BY <1>1
<1>3. <<a1, a2, a3, a4, a5, a6, a7, a8, a9, a10, a11>> \in Seq(S)
  BY <1>2
<1>4. \A r \in S : r.name # Packed
  BY <1>1
<1> QED
  BY <1>3, <1>4, NoPackedIn

LEMMA NameOfRule ==
  ASSUME NEW name, NEW pattern, NEW when, NEW priority, NEW actions
  PROVE  Rule(name, pattern, when, priority, actions).name = name
  BY DEF Rule

LEMMA ExpressionRulesAreNotPacked ==
  ASSUME NEW c
  PROVE  HasNoPacked(dslRulesForExpr(c))
<1>1. ASSUME NEW o PROVE HasNoPacked(LongExprRulesWithOptions(o))
  <2>1. /\ keep_simple_comparison.name # Packed
        /\ long_string_concat(o).name # Packed
        /\ long_selector_chain(o).name # Packed
        /\ safe_logical_chain(o).name # Packed
        /\ safe_arithmetic_expr(o).name # Packed
        /\ safe_for_cond.name # Packed
        /\ safe_return_binary.name # Packed
        /\ safe_case_clause(o).name # Packed
        /\ safe_assign_binary.name # Packed
        /\ assign_type_assert.name # Packed
        /\ generic_conversion.name # Packed
    BY NameOfRule DEF Packed, keep_simple_comparison, long_string_concat, long_selector_chain,
       safe_logical_chain, safe_arithmetic_expr, safe_for_cond, safe_return_binary,
       safe_case_clause, safe_assign_binary, assign_type_assert, generic_conversion
  <2> QED
    BY <2>1, NoPackedInEleven DEF LongExprRulesWithOptions
<1>2. HasNoPacked(ExpandFuncLitBodyRules)
  BY NoPackedInOne, NameOfRule DEF ExpandFuncLitBodyRules, Packed
<1>3. HasNoPacked(ExpandCompositeLitRules)
  BY NoPackedInThree, NameOfRule DEF ExpandCompositeLitRules, Packed
<1>4. HasNoPacked(SplitLongStringLiteralRules)
  BY NoPackedInOne, NameOfRule DEF SplitLongStringLiteralRules, Packed
<1> QED
  BY <1>1, <1>2, <1>3, <1>4, NoPackedInBoth DEF dslRulesForExpr

LEMMA SignatureRulesAreNotPacked ==
  ASSUME NEW c
  PROVE  HasNoPacked(dslRulesForSignatures(c))
<1>1. HasNoPacked(LegacyFuncSigRules) /\ HasNoPacked(LegacyFuncSigFallbackRules)
  BY NoPackedInOne, NameOfRule DEF LegacyFuncSigRules, LegacyFuncSigFallbackRules, Packed
<1>2. HasNoPacked(SignatureRules)
  BY NoPackedInTwo, NameOfRule DEF SignatureRules, Packed
<1>3. HasNoPacked(ReflowSignatureRules)
  <2> DEFINE R == ReflowSignatureRules
  <2>1. R \in Seq({R[i] : i \in 1..4})
    BY DEF ReflowSignatureRules
  <2>2. \A i \in 1..4 : R[i].name # Packed
    BY DEF Packed, ReflowSignatureRules, Rule
  <2> QED
    BY <2>1, <2>2, NoPackedIn
<1>4. HasNoPacked(IF c.sigStyle \in {"", "legacy"} THEN ReflowSignatureRules ELSE <<>>)
  BY <1>3, NoPackedInNone
<1> QED
  BY <1>1, <1>2, <1>4, NoPackedInBoth DEF dslRulesForSignatures

LEMMA BlankLineRulesAreNotPacked ==
  ASSUME NEW c
  PROVE  HasNoPacked(dslRulesForBlankLines(c))
<1>1. HasNoPacked(BlankLineRules)
  <2> DEFINE R == BlankLineRules
  <2>1. R \in Seq({R[i] : i \in 1..5})
    BY DEF BlankLineRules
  <2>2. \A i \in 1..5 : R[i].name # Packed
    BY DEF Packed, BlankLineRules, blank_lines_batch, blank_before_case, blank_before_comm_clause,
           blank_before_return, blank_between_interface_methods, Rule
  <2> QED
    BY <2>1, <2>2, NoPackedIn
<1>2. HasNoPacked(AfterHeaderRules)
  BY NoPackedInThree, NameOfRule DEF AfterHeaderRules, AfterHeader, Packed
<1>3. ASSUME NEW extra PROVE HasNoPacked(BlankLineRulesWithOptions(extra))
  <2>1. CASE extra
    BY <1>1, <2>1, NoPackedInOne, NoPackedInBoth, NameOfRule
       DEF BlankLineRulesWithOptions, blank_before_if_err_return, Packed
  <2>2. CASE ~extra
    BY <1>1, <2>2, NoPackedInNone, NoPackedInBoth DEF BlankLineRulesWithOptions
  <2> QED
    BY <2>1, <2>2
<1> QED
  BY <1>2, <1>3, NoPackedInBoth DEF dslRulesForBlankLines

LEMMA CallRulesAreNotPacked ==
  ASSUME NEW c, StyleOf(c) \in CallLayouts
  PROVE  HasNoPacked(dslRulesForMultiLineCalls(c))
<1>1. ASSUME NEW o PROVE HasNoPacked(MultiLineCallRulesWithOptions(o))
  <2>1. HasNoPacked(<<long_method_chain(o)>>)
    BY NoPackedInOne, NameOfRule DEF long_method_chain, Packed
  <2> DEFINE chains == IF o.argsStyle # "layout" \/ o.chainStyle # ""
                       THEN <<long_method_chain(o)>> ELSE <<>>
             actions == IF o.argsStyle = "layout"
                        THEN <<"BreakCallArgsLayout", "PackedMultiLineCall">>
                        ELSE <<"PackedMultiLineCall">>
             call == Rule("long_call_expr", Node("CallExpr"), longCallConds(o), 50, actions)
  <2>2. HasNoPacked(chains)
    BY <2>1, NoPackedInNone
  <2>3. call.name # Packed
    BY NameOfRule DEF Packed
  <2>4. MultiLineCallRulesWithOptions(o) = chains \o <<call>>
    BY DEF MultiLineCallRulesWithOptions
  <2> HIDE DEF chains, call
  <2>5. HasNoPacked(<<call>>)
    BY <2>3, NoPackedInOne
  <2> QED
    BY <2>2, <2>4, <2>5, NoPackedInBoth
<1> QED
  BY <1>1 DEF dslRulesForMultiLineCalls

LEMMA PackedIsOfCalls ==
  ASSUME NEW c, NEW s \in Stages, NEW i \in DOMAIN RulesOfStage(c, s),
         RulesOfStage(c, s)[i].name = Packed
  PROVE  StyleOf(c) \notin CallLayouts
<1>1. ~HasNoPacked(RulesOfStage(c, s))
  BY NoneIsPacked
<1>2. CASE s = "comments"
  BY <1>1, <1>2, NoPackedInOne, NameOfRule DEF RulesOfStage, LegacyCommentRules, Packed
<1>3. CASE s = "compact-calls"
  BY <1>1, <1>3, NoPackedInTwo, NameOfRule DEF RulesOfStage, LogPrintfRulesWithOptions, Packed
<1>4. CASE s = "expressions"
  BY <1>1, <1>4, ExpressionRulesAreNotPacked DEF RulesOfStage
<1>5. CASE s = "multiline-calls"
  BY <1>1, <1>5, CallRulesAreNotPacked DEF RulesOfStage
<1>6. CASE s = "signatures"
  BY <1>1, <1>6, SignatureRulesAreNotPacked DEF RulesOfStage
<1>7. CASE s = "blank-lines"
  BY <1>1, <1>7, BlankLineRulesAreNotPacked DEF RulesOfStage
<1> QED
  BY <1>2, <1>3, <1>4, <1>5, <1>6, <1>7, StageSet

(***************************************************************************)
(* NewPipeline keeps the explicit plan, the names, and the style for calls *)
(* unless there is none; it gives no permission to break arguments that    *)
(* was not asked for, and leaves some stage on.                            *)
(***************************************************************************)
Keeps(c, d) ==
  /\ HasFields(d)
  /\ d.override = c.override
  /\ d.excludes = c.excludes /\ d.names = c.names /\ d.prefixes = c.prefixes
  /\ d.multiStyle = c.multiStyle \/ (c.multiStyle = "" /\ d.multiStyle = "packed-chain-layout")
  /\ d.allow => c.allow

LEMMA AdjustedKeeps ==
  ASSUME NEW c, HasFields(c)
  PROVE  /\ Keeps(c, Adjusted(c))
         /\ ~NoToggle(Adjusted(c))
         /\ Adjusted(c).allow => \/ ~Adjusted(c).use["multiline-calls"]
                                 \/ ~OwnsArgs(Adjusted(c).multiStyle)
                                 \/ Adjusted(c).registry
<1> USE DEF HasFields, Fields, Keeps, If
<1>1. ASSUME NEW d, Keeps(c, d) PROVE Keeps(c, CommentDefault(d))
  BY <1>1 DEF CommentDefault
<1>2. ASSUME NEW d, Keeps(c, d) PROVE Keeps(c, AllByDefault(d)) /\ ~NoToggle(AllByDefault(d))
  <2>1. CASE NoToggle(d)
    <3>1. AllByDefault(d) = [d EXCEPT !.use = EveryStage]
      BY <2>1 DEF AllByDefault
    <3>2. PICK e : e = [d EXCEPT !.use = EveryStage]
      OBVIOUS
    <3>3. e.use = EveryStage /\ Keeps(c, e)
      BY <1>2, <3>2 DEF EveryStage
    <3>4. ~NoToggle(e)
      BY <3>3, StageSet DEF NoToggle, EveryStage
    <3> QED
      BY <3>1, <3>2, <3>3, <3>4
  <2>2. CASE ~NoToggle(d)
    BY <1>2, <2>2 DEF AllByDefault
  <2> QED
    BY <2>1, <2>2
<1> DEFINE Good(d) == Keeps(c, d) /\ ~NoToggle(d)
<1>3. ASSUME NEW d, Good(d) PROVE Good(SignatureDefaults(d))
  BY <1>3 DEF SignatureDefaults, NoToggle
<1>4. ASSUME NEW d, Good(d) PROVE Good(BlankLineDefaults(d))
  BY <1>4 DEF BlankLineDefaults, NoToggle
<1>5. ASSUME NEW d, Good(d) PROVE Good(CallArgsDefault(d))
  BY <1>5 DEF CallArgsDefault, NoToggle
<1>6. ASSUME NEW d, Good(d) PROVE Good(MultiLineDefault(d))
  BY <1>6 DEF MultiLineDefault, NoToggle
<1>7. ASSUME NEW d, Good(d) PROVE Good(ExpressionsForArgs(d))
  BY <1>7 DEF ExpressionsForArgs, NoToggle
<1>8. ASSUME NEW d, Good(d)
      PROVE  /\ Good(ArgsLeftToCalls(d))
             /\ ArgsLeftToCalls(d).allow => ~LaysOutArgs(ArgsLeftToCalls(d)) \/ ArgsLeftToCalls(d).registry
  BY <1>8 DEF ArgsLeftToCalls, NoToggle, LaysOutArgs
<1>9. Keeps(c, c)
  OBVIOUS
<1> HIDE DEF HasFields, Fields, Keeps, If
<1>10. PICK a : a = AllByDefault(CommentDefault(c))
  OBVIOUS
<1>11. Good(a)
  BY <1>1, <1>2, <1>9, <1>10
<1>12. PICK b : b = CallArgsDefault(BlankLineDefaults(SignatureDefaults(a)))
  OBVIOUS
<1>13. Good(b)
  BY <1>3, <1>4, <1>5, <1>11, <1>12
<1>14. PICK e : e = ExpressionsForArgs(MultiLineDefault(b))
  OBVIOUS
<1>15. Good(e)
  BY <1>6, <1>7, <1>13, <1>14
<1>16. Adjusted(c) = ArgsLeftToCalls(e)
  BY <1>10, <1>12, <1>14 DEF Adjusted
<1> QED
  BY <1>8, <1>15, <1>16 DEF LaysOutArgs

(***************************************************************************)
(* A rule a stage has tried is in its list.                                *)
(***************************************************************************)
UnderstoodInv ==
  /\ asked \in Jobs
  /\ pc \in {"asked", "accepted"} => cfg = asked.cfg
  /\ pc \in {"asked", "accepted", "rejected"} => attempts = {}
  /\ pc = "ready" =>
       /\ Keeps(asked.cfg, cfg)
       /\ \A a \in attempts : a[2] = Packed => StyleOf(cfg) \notin CallLayouts

LEMMA UnderstoodInit == Init => UnderstoodInv
  BY DEF Init, UnderstoodInv

LEMMA UnderstoodStep ==
  ASSUME ConfigsAreComplete, UnderstoodInv, [Next]_vars
  PROVE  UnderstoodInv'
<1>1. CASE UNCHANGED vars
  BY <1>1 DEF vars, UnderstoodInv
<1>2. CASE ValidatePipelineConfig
  BY <1>2 DEF ValidatePipelineConfig, UnderstoodInv
<1>3. ASSUME pc \in {"asked", "accepted"}, NewPipeline(cfg) PROVE UnderstoodInv'
  <2>1. cfg' = Adjusted(asked.cfg) /\ asked' = asked /\ pc' = "ready" /\ attempts' = {}
    BY <1>3 DEF NewPipeline, UnderstoodInv
  <2>2. Keeps(asked.cfg, Adjusted(asked.cfg))
    BY AdjustedKeeps DEF ConfigsAreComplete, UnderstoodInv
  <2> QED
    BY <2>1, <2>2 DEF UnderstoodInv
<1>4. CASE NewValidated
  BY <1>3, <1>4 DEF NewValidated
<1>5. CASE NewUnchecked
  BY <1>3, <1>5 DEF NewUnchecked
<1>6. CASE RunStage
  <2>1. pc = "ready" /\ UNCHANGED <<asked, pc, cfg>>
    BY <1>6 DEF RunStage
  <2>2. PICK s \in Stages :
          attempts' = attempts \cup
            IF engines[s].on
              THEN {<<s, a[1], a[2]>> : a \in Applied(RulesOfStage(cfg, s), asked.tree)}
              ELSE {}
    BY <1>6 DEF RunStage
  <2>3. ASSUME NEW a \in attempts', a[2] = Packed PROVE StyleOf(cfg) \notin CallLayouts
    <3>1. CASE a \in attempts
      BY <2>1, <2>3, <3>1 DEF UnderstoodInv
    <3>2. CASE a \notin attempts
      <4>1. PICK r \in Applied(RulesOfStage(cfg, s), asked.tree) : a = <<s, r[1], r[2]>>
        BY <2>2, <3>2
      <4>2. PICK i \in DOMAIN RulesOfStage(cfg, s) : r[1] = RulesOfStage(cfg, s)[i].name
        BY <4>1 DEF Applied
      <4>3. RulesOfStage(cfg, s)[i].name = Packed
        BY <2>3, <4>1, <4>2
      <4> QED
        BY <4>3, PackedIsOfCalls
    <3> QED
      BY <3>1, <3>2
  <2> QED
    BY <2>1, <2>3 DEF UnderstoodInv
<1>7. CASE RunAlone
  BY <1>7 DEF RunAlone, UnderstoodInv
<1> QED
  BY <1>1, <1>2, <1>4, <1>5, <1>6, <1>7 DEF Next

(***************************************************************************)
(* A configuration ValidatePipelineConfig has no complaint about is never  *)
(* taken for another: the rules for calls fall back to the packed ones     *)
(* only if that style was asked for, and a stage is off only if the plan   *)
(* turns it off.                                                           *)
(***************************************************************************)
THEOREM AcceptedIsUnderstood ==
  ASSUME ConfigsAreComplete
  PROVE  Spec => []AcceptedMeansUnderstood
<1>1. PlanInv /\ UnderstoodInv => AcceptedMeansUnderstood
  <2> SUFFICES ASSUME PlanInv, UnderstoodInv, pc = "ready", Issues(asked.cfg) = {}
               PROVE  /\ \A a \in attempts : a[2] = "long_call_expr_packed" => asked.cfg.multiStyle = "packed"
                      /\ \A s \in Stages : ~engines[s].on => Plan[s] = "off"
    BY DEF AcceptedMeansUnderstood
  <2>1. asked.cfg.multiStyle \in allowedDSLMultiLineStyles \cup {""}
    BY DEF Issues, Unknown
  <2>2. ASSUME NEW a \in attempts, a[2] = "long_call_expr_packed"
        PROVE  asked.cfg.multiStyle = "packed"
    <3>1. StyleOf(cfg) \notin CallLayouts /\ Keeps(asked.cfg, cfg)
      BY <2>2 DEF UnderstoodInv, Packed
    <3> QED
      BY <2>1, <3>1 DEF StyleOf, Keeps, CallLayouts, allowedDSLMultiLineStyles
  <2>3. ASSUME NEW s \in Stages, ~engines[s].on PROVE Plan[s] = "off"
    <3>1. Plan[s] # "dsl"
      BY <2>3, BuiltAsPlanned DEF PlanInv
    <3>2. CASE cfg.override # NoPlan
      <4>1. Plan[s] = asked.cfg.override[s] /\ asked.cfg.override # NoPlan
        BY <3>2 DEF Plan, stagePlanFromPipelineConfig, UnderstoodInv, Keeps
      <4>2. asked.cfg.override[s] \in {"off", "dsl"}
        BY <4>1 DEF Issues
      <4> QED
        BY <3>1, <4>1, <4>2
    <3>3. CASE cfg.override = NoPlan
      BY <3>1, <3>3 DEF Plan, stagePlanFromPipelineConfig, PlanOf
    <3> QED
      BY <3>2, <3>3
  <2> QED
    BY <2>2, <2>3
<1> QED
  BY PlanInit, PlanStep, UnderstoodInit, UnderstoodStep, <1>1, PTL DEF Spec

-----------------------------------------------------------------------------
Upwards(next, n) ==
  next \in [1..n -> 0..n] /\ \A m \in 1..n : next[m] = 0 \/ m < next[m]

Follows(f, X, x0, n, next, G) ==
  /\ f \in [0..n -> X]
  /\ f[0] = x0
  /\ \A m \in 1..n : f[m] = G[<<m, f[next[m]]>>]

(***************************************************************************)
(* A function is defined along the steps from a number to a larger one, or *)
(* to 0, where they end.                                                   *)
(***************************************************************************)
LEMMA RecursionUpwards ==
  ASSUME NEW n \in Nat, NEW X, NEW x0 \in X, NEW next, Upwards(next, n),
         NEW G \in [(1..n) \X X -> X]
  PROVE  \E f : Follows(f, X, x0, n, next, G)
<1> USE DEF Upwards
<1> DEFINE Good(f, k) == f[0] = x0 /\ \A m \in (n - k + 1)..n : f[m] = G[<<m, f[next[m]]>>]
           S == {k \in 0..n : \E f \in [0..n -> X] : Good(f, k)}
<1>1. 0 \in S
  <2>1. PICK f : f = [m \in 0..n |-> x0]
    OBVIOUS
  <2>2. f \in [0..n -> X] /\ Good(f, 0)
    BY <2>1
  <2> QED
    BY <2>2
<1>2. ASSUME NEW k \in 0..n, k \in S, k < n PROVE k + 1 \in S
  <2>1. PICK f \in [0..n -> X] : Good(f, k)
    BY <1>2
  <2>2. PICK m0 \in 1..n : m0 = n - k
    BY <1>2
  <2>3. f[next[m0]] \in X
    OBVIOUS
  <2>4. PICK g : g = [f EXCEPT ![m0] = G[<<m0, f[next[m0]]>>]]
    OBVIOUS
  <2>5. g \in [0..n -> X] /\ g[0] = x0
    BY <2>1, <2>2, <2>3, <2>4
  <2>6. ASSUME NEW m \in m0..n PROVE g[m] = G[<<m, g[next[m]]>>]
    <3>1. m \in 1..n /\ next[m] \in 0..n /\ next[m] # m0
      BY <2>2, <2>6
    <3>2. g[next[m]] = f[next[m]]
      BY <2>4, <3>1
    <3>3. CASE m = m0
      <4>1. g[m0] = G[<<m0, f[next[m0]]>>]
        BY <2>2, <2>4
      <4> QED
        BY <3>2, <3>3, <4>1
    <3>4. CASE m # m0
      <4>1. m \in (n - k + 1)..n /\ g[m] = f[m]
        BY <2>2, <2>4, <2>6, <3>1, <3>4
      <4> QED
        BY <2>1, <3>2, <4>1
    <3> QED
      BY <3>3, <3>4
  <2>7. Good(g, k + 1)
    BY <2>2, <2>5, <2>6
  <2>8. k + 1 \in 0..n
    BY <1>2
  <2> HIDE DEF Good
  <2> QED
    BY <2>5, <2>7, <2>8
<1>3. n \in S
  <2> HIDE DEF S
  <2>1. \A k \in 0..n : k \in S
    BY <1>1, <1>2, InductionUpTo
  <2> QED
    BY <2>1
<1>4. PICK f \in [0..n -> X] : Good(f, n)
  BY <1>3
<1> QED
  BY <1>4 DEF Follows

-----------------------------------------------------------------------------
(***************************************************************************)
(* A child is a node that stands in its parent, behind it in preorder.     *)
(***************************************************************************)
LEMMA ChildIsNode ==
  ASSUME NEW T, NodesOf(T) \subseteq Nat, NEW n, NEW role
  PROVE  \/ Child(T, n, role) = None
         \/ Child(T, n, role) \in NodesOf(T) /\ T.nodes[Child(T, n, role)].up = n
<1> DEFINE found == {m \in NodesOf(T) : T.nodes[m].up = n /\ T.nodes[m].role = role}
<1>1. CASE found = {}
  BY <1>1 DEF Child
<1>2. CASE found # {}
  <2>1. \E m \in found : \A k \in found : m <= k
    <3>1. found \subseteq Nat
      OBVIOUS
    <3> HIDE DEF found
    <3> QED
      BY <1>2, <3>1, LeastNat
  <2>2. Min(found) \in found
    <3> HIDE DEF found
    <3> QED
      BY <2>1 DEF Min
  <2>3. PICK c : c = Child(T, n, role)
    OBVIOUS
  <2>4. c \in found
    BY <1>2, <2>2, <2>3 DEF Child
  <2> QED
    BY <2>3, <2>4
<1> QED
  BY <1>1, <1>2

LEMMA ChildFacts ==
  ASSUME NEW T, IsTree(T), NEW n, NEW role
  PROVE  \/ Child(T, n, role) = None
         \/ /\ Child(T, n, role) \in NodesOf(T)
            /\ T.nodes[Child(T, n, role)].up = n
            /\ n < Child(T, n, role)
<1>1. NodesOf(T) \subseteq Nat /\ \A m \in NodesOf(T) : T.nodes[m].up < m
  BY DEF IsTree
<1> QED
  BY <1>1, ChildIsNode

IsUpTo(T, f) ==
  f = [m \in 0..Len(T.nodes) |-> IF m = None THEN {} ELSE {m} \cup f[T.nodes[m].up]]

(***************************************************************************)
(* What is above a node is the node and what is above its parent.          *)
(***************************************************************************)
LEMMA UpFromFacts ==
  ASSUME NEW T, IsTree(T), NEW n \in NodesOf(T)
  PROVE  UpFrom(T, n) = {n} \cup UpFrom(T, T.nodes[n].up)
<1>1. PICK N, up : N = Len(T.nodes) /\ up = [m \in 1..N |-> T.nodes[m].up]
  OBVIOUS
<1>2. N \in Nat /\ up \in [1..N -> 0..N]
  BY <1>1 DEF IsTree
<1> DEFINE Closed(X) == \A m \in X : m # 0 => up[m] \in X
           Upward(m) == {k \in 1..N : \A X \in SUBSET (0..N) : m \in X /\ Closed(X) => k \in X}
<1>3. PICK f : f = [m \in 0..N |-> Upward(m)]
  OBVIOUS
<1>4. f[0] = {}
  <2>1. Closed({0}) /\ {0} \in SUBSET (0..N)
    BY <1>2
  <2> HIDE DEF Closed
  <2>2. Upward(0) = {}
    BY <2>1
  <2> QED
    BY <1>2, <1>3, <2>2
<1>5. ASSUME NEW m \in 1..N PROVE f[m] = {m} \cup f[up[m]]
  <2>1. up[m] \in 0..N
    BY <1>2
  <2>2. f[m] = Upward(m) /\ f[up[m]] = Upward(up[m])
    BY <1>3, <2>1
  <2>3. ASSUME NEW k \in Upward(up[m]) PROVE k \in Upward(m)
    <3> SUFFICES ASSUME NEW X \in SUBSET (0..N), m \in X, Closed(X) PROVE k \in X
      OBVIOUS
    <3>1. up[m] \in X
      OBVIOUS
    <3> QED
      BY <2>3, <3>1
  <2>4. ASSUME NEW k \in Upward(m), k # m PROVE k \in Upward(up[m])
    <3> SUFFICES ASSUME NEW X \in SUBSET (0..N), up[m] \in X, Closed(X) PROVE k \in X
      OBVIOUS
    <3>1. PICK Y : Y = X \cup {m}
      OBVIOUS
    <3>2. Y \in SUBSET (0..N) /\ m \in Y /\ Closed(Y)
      BY <3>1
    <3>3. k \in Y
      BY <2>4, <3>2
    <3> QED
      BY <2>4, <3>1, <3>3
  <2>5. m \in Upward(m)
    OBVIOUS
  <2> QED
    BY <2>2, <2>3, <2>4, <2>5
<1>6. IsUpTo(T, f)
  <2>1. \A m \in 0..N : f[m] = IF m = None THEN {} ELSE {m} \cup f[T.nodes[m].up]
    <3> SUFFICES ASSUME NEW m \in 0..N
                 PROVE  f[m] = IF m = None THEN {} ELSE {m} \cup f[T.nodes[m].up]
      OBVIOUS
    <3> HIDE DEF Upward
    <3>1. CASE m = 0
      BY <1>4, <3>1 DEF None
    <3>2. CASE m # 0
      <4>1. m \in 1..N /\ up[m] = T.nodes[m].up
        BY <1>1, <1>2, <3>2
      <4> QED
        BY <1>5, <4>1 DEF None
    <3> QED
      BY <3>1, <3>2
  <2> HIDE DEF Upward
  <2>2. f = [m \in 0..N |-> f[m]]
    BY <1>3
  <2> QED
    BY <1>1, <2>1, <2>2 DEF IsUpTo
<1>7. PICK g : g = CHOOSE h : IsUpTo(T, h)
  OBVIOUS
<1>8. IsUpTo(T, g)
  BY <1>6, <1>7
<1>9. \A m : UpFrom(T, m) = g[m]
  BY <1>7 DEF UpFrom, IsUpTo
<1>10. n \in 1..N /\ n # 0
  BY <1>1 DEF IsTree
<1>11. g[n] = {n} \cup g[T.nodes[n].up]
  BY <1>1, <1>2, <1>8, <1>10 DEF IsUpTo, None
<1> QED
  BY <1>9, <1>11

DottedName(T, m, front) ==
  IF Type(T, m) = "Ident" THEN <<Val(T, m)>>
  ELSE IF Type(T, m) = "SelectorExpr" THEN front \o <<Val(T, m)>> ELSE <<>>

IsNaming(T, f) ==
  f = [m \in 0..Len(T.nodes) |->
         IF Type(T, m) = "Ident" THEN <<Val(T, m)>>
         ELSE IF Type(T, m) = "SelectorExpr" THEN f[Child(T, m, "x")] \o <<Val(T, m)>>
         ELSE <<>>]

(***************************************************************************)
(* The dotted name of an expression: a name, or the name of what is before *)
(* the dot and what is behind it, or nothing.                              *)
(***************************************************************************)
LEMMA SelectorPrefixFacts ==
  ASSUME NEW T, IsTree(T)
  PROVE  \E V : \A m \in 0..Len(T.nodes) :
           /\ selectorPrefix(T, m) \in Seq(V)
           /\ selectorPrefix(T, m) = DottedName(T, m, selectorPrefix(T, Child(T, m, "x")))
<1>1. PICK N, V : N = Len(T.nodes) /\ V = {Val(T, m) : m \in 1..Len(T.nodes)}
  OBVIOUS
<1>2. N \in Nat /\ NodesOf(T) = 1..N
  BY <1>1 DEF IsTree
<1>3. PICK next : next = [m \in 1..N |-> Child(T, m, "x")]
  OBVIOUS
<1>4. \A m \in 1..N : next[m] \in 0..N /\ (next[m] = 0 \/ m < next[m])
  BY <1>2, <1>3, ChildFacts DEF None
<1>5. next \in [1..N -> 0..N]
  BY <1>3, <1>4
<1>6. PICK G : G = [q \in (1..N) \X Seq(V) |-> DottedName(T, q[1], q[2])]
  OBVIOUS
<1>7. ASSUME NEW m \in 1..N, NEW b \in Seq(V) PROVE DottedName(T, m, b) \in Seq(V)
  <2>1. PICK v \in V : v = Val(T, m)
    BY <1>1
  <2>2. <<v>> \in Seq(V) /\ b \o <<v>> \in Seq(V) /\ <<>> \in Seq(V)
    OBVIOUS
  <2> QED
    BY <2>1, <2>2 DEF DottedName
<1>8. G \in [(1..N) \X Seq(V) -> Seq(V)]
  BY <1>6, <1>7
<1>9. PICK e : e = <<>>
  OBVIOUS
<1>10. PICK f : Follows(f, Seq(V), e, N, next, G)
  <2>1. e \in Seq(V) /\ Upwards(next, N)
    BY <1>4, <1>5, <1>9 DEF Upwards
  <2> QED
    BY <1>2, <1>8, <2>1, RecursionUpwards
<1>11. ASSUME NEW m \in 1..N PROVE f[m] = DottedName(T, m, f[Child(T, m, "x")])
  <2>1. f[next[m]] \in Seq(V)
    BY <1>4, <1>10 DEF Follows
  <2> QED
    BY <1>3, <1>6, <1>10, <2>1 DEF Follows
<1>12. Type(T, 0) = "none"
  BY DEF Type, None
<1>13. ASSUME NEW m \in 0..N PROVE f[m] = DottedName(T, m, f[Child(T, m, "x")])
  <2>1. CASE m = 0
    BY <1>9, <1>10, <1>12, <2>1 DEF DottedName, Follows
  <2>2. CASE m # 0
    BY <1>2, <1>11, <2>2
  <2> QED
    BY <2>1, <2>2
<1>14. IsNaming(T, f)
  <2>1. f = [m \in 0..N |-> f[m]]
    BY <1>10 DEF Follows
  <2> QED
    BY <1>1, <1>13, <2>1 DEF IsNaming, DottedName
<1>15. PICK g : g = CHOOSE h : IsNaming(T, h)
  OBVIOUS
<1>16. IsNaming(T, g)
  BY <1>14, <1>15
<1>17. \A m : selectorPrefix(T, m) = g[m]
  BY <1>15 DEF selectorPrefix, IsNaming
<1>18. \A m \in 0..N : g[m] = DottedName(T, m, g[Child(T, m, "x")])
  BY <1>1, <1>16 DEF IsNaming, DottedName
<1>19. \A m \in 0..N : g[m] \in Seq(V)
  <2> DEFINE S == {k \in 0..N : \A m \in 0..N : m = 0 \/ m > N - k => g[m] \in Seq(V)}
  <2>1. 0 \in S
    <3>1. 0 \in 0..N
      BY <1>2
    <3>2. g[0] = <<>>
      BY <1>12, <1>18, <3>1 DEF DottedName
    <3>3. <<>> \in Seq(V)
      OBVIOUS
    <3>4. \A m \in 0..N : m = 0 \/ m > N - 0 => g[m] \in Seq(V)
      <4> SUFFICES ASSUME NEW m \in 0..N, m = 0 \/ m > N - 0 PROVE g[m] \in Seq(V)
        OBVIOUS
      <4>1. m = 0
        BY <1>2
      <4>2. g[0] \in Seq(V)
        BY <3>2, <3>3
      <4> QED
        BY <4>1, <4>2
    <3> QED
      BY <3>1, <3>4
  <2>2. ASSUME NEW k \in 0..N, k \in S, k < N PROVE k + 1 \in S
    <3>1. ASSUME NEW m \in 0..N, m > N - (k + 1) PROVE g[m] \in Seq(V)
      <4>1. m \in 1..N
        BY <1>2, <2>2, <3>1
      <4>2. PICK b : b = g[Child(T, m, "x")]
        OBVIOUS
      <4>3. Child(T, m, "x") \in 0..N /\ (Child(T, m, "x") = 0 \/ Child(T, m, "x") > N - k)
        BY <1>2, <1>3, <1>4, <2>2, <3>1, <4>1
      <4>4. b \in Seq(V)
        BY <2>2, <4>2, <4>3
      <4> QED
        BY <1>7, <1>18, <4>1, <4>2, <4>4
    <3>2. 0 \in 0..N /\ g[0] \in Seq(V)
      BY <2>1, <1>2
    <3> QED
      BY <1>2, <2>2, <3>1, <3>2
  <2> HIDE DEF S
  <2>3. \A k \in 0..N : k \in S
    BY <1>2, <2>1, <2>2, InductionUpTo
  <2>4. N \in S
    BY <1>2, <2>3
  <2> QED
    BY <1>2, <2>4 DEF S
<1>20. \A m \in 0..N : selectorPrefix(T, m) \in Seq(V)
  BY <1>17, <1>19
<1>21. \A m \in 0..N : selectorPrefix(T, m) = DottedName(T, m, selectorPrefix(T, Child(T, m, "x")))
  BY <1>17, <1>18
<1> QED
  BY <1>1, <1>20, <1>21

IsCounting(T, f) ==
  f = [m \in 0..Len(T.nodes) |->
         IF Type(T, m) # "CallExpr" THEN 0
         ELSE 1 + (IF Type(T, Fun(T, m)) = "SelectorExpr" THEN f[Child(T, Fun(T, m), "x")] ELSE 0)]

(***************************************************************************)
(* A chain of two calls or more has a call before its last dot.            *)
(***************************************************************************)
LEMMA ChainFacts ==
  ASSUME NEW T, IsTree(T), NEW call \in NodesOf(T), countMethodChainCalls(T, call) >= 2
  PROVE  /\ Type(T, Fun(T, call)) = "SelectorExpr"
         /\ Type(T, Child(T, Fun(T, call), "x")) = "CallExpr"
<1>1. PICK N : N = Len(T.nodes)
  OBVIOUS
<1>2. N \in Nat /\ NodesOf(T) = 1..N
  BY <1>1 DEF IsTree
<1>3. PICK next : next = [m \in 1..N |-> IF Type(T, Fun(T, m)) = "SelectorExpr"
                                         THEN Child(T, Fun(T, m), "x") ELSE 0]
  OBVIOUS
<1>4. ASSUME NEW m \in 1..N PROVE next[m] \in 0..N /\ (next[m] = 0 \/ m < next[m])
  <2>1. CASE Type(T, Fun(T, m)) # "SelectorExpr"
    BY <1>2, <1>3, <2>1
  <2>2. CASE Type(T, Fun(T, m)) = "SelectorExpr"
    <3>1. PICK k : k = Fun(T, m)
      OBVIOUS
    <3>2. k \in 1..N /\ m < k
      BY <1>2, <2>2, <3>1, ChildFacts DEF Fun, Type
    <3>3. next[m] = Child(T, k, "x")
      BY <1>3, <2>2, <3>1
    <3>4. Child(T, k, "x") = 0 \/ (Child(T, k, "x") \in 1..N /\ k < Child(T, k, "x"))
      BY <1>2, <3>2, ChildFacts DEF None
    <3> QED
      BY <1>2, <3>2, <3>3, <3>4
  <2> QED
    BY <2>1, <2>2
<1>5. next \in [1..N -> 0..N]
  BY <1>3, <1>4
<1> DEFINE count(m, c) == IF Type(T, m) # "CallExpr" THEN 0
                          ELSE 1 + (IF Type(T, Fun(T, m)) = "SelectorExpr" THEN c ELSE 0)
<1>6. PICK G : G = [q \in (1..N) \X Nat |-> count(q[1], q[2])]
  OBVIOUS
<1>7. G \in [(1..N) \X Nat -> Nat]
  BY <1>6
<1>8. PICK f : Follows(f, Nat, 0, N, next, G)
  <2>1. 0 \in Nat /\ Upwards(next, N)
    BY <1>4, <1>5 DEF Upwards
  <2> QED
    BY <1>2, <1>7, <2>1, RecursionUpwards
<1>9. ASSUME NEW m \in 0..N PROVE f[m] = count(m, f[Child(T, Fun(T, m), "x")])
  <2>1. CASE m = 0
    BY <1>8, <2>1 DEF Type, None, Follows
  <2>2. CASE m # 0
    <3>1. m \in 1..N
      BY <1>2, <2>2
    <3>2. f[next[m]] \in Nat
      BY <1>4, <1>8, <3>1 DEF Follows
    <3>3. f[m] = count(m, f[next[m]])
      BY <1>6, <1>8, <3>1, <3>2 DEF Follows
    <3> QED
      BY <1>3, <3>1, <3>3
  <2> QED
    BY <2>1, <2>2
<1>10. IsCounting(T, f)
  <2>1. f = [m \in 0..N |-> f[m]]
    BY <1>8 DEF Follows
  <2> QED
    BY <1>1, <1>9, <2>1 DEF IsCounting
<1>11. PICK g : g = CHOOSE h : IsCounting(T, h)
  OBVIOUS
<1>12. IsCounting(T, g)
  BY <1>10, <1>11
<1>13. \A m : countMethodChainCalls(T, m) = g[m]
  BY <1>11 DEF countMethodChainCalls, IsCounting
<1>14. \A m \in 0..N : g[m] = count(m, g[Child(T, Fun(T, m), "x")])
  BY <1>1, <1>12 DEF IsCounting
<1>15. Type(T, Fun(T, call)) = "SelectorExpr" /\ g[Child(T, Fun(T, call), "x")] # 0
  <2>1. call \in 0..N /\ g[call] >= 2
    BY <1>2, <1>13
  <2> QED
    BY <1>14, <2>1
<1>16. Child(T, Fun(T, call), "x") \in 0..N
  BY <1>2, ChildFacts DEF None
<1> QED
  BY <1>14, <1>15, <1>16

-----------------------------------------------------------------------------
(***************************************************************************)
(* What a rule that applies has asked of its node.                         *)
(***************************************************************************)
HasClause(when, lit) == \E i \in DOMAIN when : when[i] = <<lit>>

LEMMA ClauseHolds ==
  ASSUME NEW T, NEW n, NEW r, Applies(T, n, r), NEW lit, HasClause(r.when, lit)
  PROVE  Eval(T, Captures(T, n, r.pattern), lit)
<1>1. PICK i \in DOMAIN r.when : r.when[i] = <<lit>>
  BY DEF HasClause
<1>2. PICK caps : caps = Captures(T, n, r.pattern)
  OBVIOUS
<1>3. \E j \in DOMAIN r.when[i] : Eval(T, caps, r.when[i][j])
  BY <1>2 DEF Applies
<1> QED
  BY <1>1, <1>2, <1>3

LEMMA ClauseOfAll ==
  ASSUME NEW lits, NEW i \in DOMAIN lits
  PROVE  HasClause(All(lits), lits[i])
  BY DEF HasClause, All

LEMMA ClauseOfBoth ==
  ASSUME NEW S, NEW s \in Seq(S), NEW t \in Seq(S), NEW lit, HasClause(s, lit) \/ HasClause(t, lit)
  PROVE  HasClause(s \o t, lit)
<1>1. CASE HasClause(s, lit)
  <2>1. PICK i \in 1..Len(s) : s[i] = <<lit>>
    BY <1>1 DEF HasClause
  <2>2. i \in 1..Len(s \o t) /\ (s \o t)[i] = s[i]
    OBVIOUS
  <2>3. PICK u : u = s \o t
    OBVIOUS
  <2>4. i \in DOMAIN u /\ u[i] = <<lit>>
    BY <2>1, <2>2, <2>3
  <2> QED
    BY <2>3, <2>4 DEF HasClause
<1>2. CASE HasClause(t, lit)
  <2>1. PICK i \in 1..Len(t) : t[i] = <<lit>>
    BY <1>2 DEF HasClause
  <2>2. PICK k : k = Len(s) + i
    OBVIOUS
  <2>3. k \in 1..Len(s \o t) /\ (s \o t)[k] = t[i]
    BY <2>2
  <2>4. PICK u : u = s \o t
    OBVIOUS
  <2>5. k \in DOMAIN u /\ u[k] = <<lit>>
    BY <2>1, <2>3, <2>4
  <2> QED
    BY <2>4, <2>5 DEF HasClause
<1> QED
  BY <1>1, <1>2

LEMMA NodeAsked ==
  ASSUME NEW T, NEW n, NEW p, NEW lit, lit.of = "node", Eval(T, Captures(T, n, p), lit)
  PROVE  (n # None /\ Truth(T, n, lit)) = lit.want
<1>1. PICK caps : caps = Captures(T, n, p)
  OBVIOUS
<1>2. "node" \in DOMAIN caps /\ caps["node"] = n
  BY <1>1 DEF Captures
<1>3. resolveTarget(caps, lit.of) = n
  BY <1>2 DEF resolveTarget
<1> QED
  BY <1>1, <1>3 DEF Eval

LEMMA NodeIsChain ==
  ASSUME NEW T, NEW n, NEW p, Eval(T, Captures(T, n, p), Is("IsMethodChain"))
  PROVE  IsMethodChain(T, n, 2)
<1> DEFINE lit == Is("IsMethodChain")
<1>1. lit.of = "node" /\ lit.want = TRUE /\ lit.cond = "IsMethodChain"
  BY DEF Is
<1>2. Truth(T, n, lit)
  BY <1>1, NodeAsked
<1> HIDE DEF lit
<1> QED
  BY <1>1, <1>2 DEF Truth

LEMMA NodeNotInArgs ==
  ASSUME NEW T, NEW n, n # None, NEW p, Eval(T, Captures(T, n, p), Not(Is("IsInCallArgs")))
  PROVE  ~IsInCallArgs(T, n)
<1> DEFINE lit == Not(Is("IsInCallArgs"))
<1>1. lit.of = "node" /\ lit.want = FALSE /\ lit.cond = "IsInCallArgs"
  BY DEF Is, Not
<1>2. ~Truth(T, n, lit)
  BY <1>1, NodeAsked
<1> HIDE DEF lit
<1> QED
  BY <1>1, <1>2 DEF Truth

LEMMA NodeNotNamed ==
  ASSUME NEW T, NEW n, n # None, NEW p, NEW names, Eval(T, Captures(T, n, p), Not(Named(names)))
  PROVE  ~IsCallFuncContainsAny(T, n, names)
<1> DEFINE lit == Not(Named(names))
<1>1. /\ lit.of = "node" /\ lit.want = FALSE /\ lit.cond = "IsCallFuncContainsAny"
      /\ lit.o.names = names
  BY DEF Is, Not, Named, NoOptions
<1>2. ~Truth(T, n, lit)
  BY <1>1, NodeAsked
<1> HIDE DEF lit
<1> QED
  BY <1>1, <1>2 DEF Truth

LEMMA NodeNotLog ==
  ASSUME NEW T, NEW n, n # None, NEW p, NEW o, Eval(T, Captures(T, n, p), Not(AnyLogCall(o)))
  PROVE  ~IsLogOrPrintfCall(T, n, [any |-> TRUE, names |-> o.names, prefixes |-> o.prefixes, nonF |-> FALSE])
<1> DEFINE lit == Not(AnyLogCall(o))
           log == [any |-> TRUE, names |-> o.names, prefixes |-> o.prefixes, nonF |-> FALSE]
<1>1. lit.of = "node" /\ lit.want = FALSE /\ lit.cond = "IsLogOrPrintfCall" /\ lit.o.log = log
  BY DEF Is, IsOf, Not, AnyLogCall, LogCall, NoOptions
<1>2. ~Truth(T, n, lit)
  BY <1>1, NodeAsked
<1> HIDE DEF lit, log
<1>3. ~IsLogOrPrintfCall(T, n, log)
  BY <1>1, <1>2 DEF Truth
<1> QED
  BY <1>3 DEF log

LEMMA NodeIsSafe ==
  ASSUME NEW T, NEW n, NEW p, NEW policy, NEW names,
         Eval(T, Captures(T, n, p), EditSafe("node", policy, names))
  PROVE  ExprEditSafe(T, n, policy, names)
<1> DEFINE lit == EditSafe("node", policy, names)
<1>1. /\ lit.of = "node" /\ lit.want = TRUE /\ lit.cond = "ExprEditSafe"
      /\ lit.o.policy = policy /\ lit.o.names = names
  BY DEF Is, IsOf, EditSafe, NoOptions
<1>2. Truth(T, n, lit)
  BY <1>1, NodeAsked
<1> HIDE DEF lit
<1> QED
  BY <1>1, <1>2 DEF Truth

-----------------------------------------------------------------------------
(***************************************************************************)
(* A call the multi-line stage formats has no name to be left alone, and   *)
(* is a chain or no log call.                                              *)
(***************************************************************************)
AnyLog == [any |-> TRUE, names |-> {}, prefixes |-> {}, nonF |-> FALSE]

LEMMA ChainRule ==
  ASSUME NEW T, NEW n, n # None, NEW o, Applies(T, n, long_method_chain(o))
  PROVE  IsMethodChain(T, n, 2) /\ ~IsCallFuncContainsAny(T, n, o.excludes)
<1> DEFINE r == long_method_chain(o)
           lits == <<Is("LineWidth"), Is("IsMethodChain"), Not(Named(o.excludes)),
                     Not(Is("HasAnyComment"))>>
<1>1. r.when = All(lits)
  BY DEF long_method_chain, Rule
<1>2. HasClause(All(lits), lits[2]) /\ HasClause(All(lits), lits[3])
  <2>1. 2 \in DOMAIN lits /\ 3 \in DOMAIN lits
    OBVIOUS
  <2> HIDE DEF lits
  <2> QED
    BY <2>1, ClauseOfAll
<1>3. lits[2] = Is("IsMethodChain") /\ lits[3] = Not(Named(o.excludes))
  OBVIOUS
<1> HIDE DEF r, lits
<1>4. /\ Eval(T, Captures(T, n, r.pattern), Is("IsMethodChain"))
      /\ Eval(T, Captures(T, n, r.pattern), Not(Named(o.excludes)))
  <2>1. Applies(T, n, r)
    BY DEF r
  <2> QED
    BY <1>1, <1>2, <1>3, <2>1, ClauseHolds
<1> QED
  BY <1>4, NodeIsChain, NodeNotNamed

CallLits(o) ==
  <<Not(AnyLogCall(o)), Not(Is("IsNonFLogCall")), Not(Is("IsStructuredLogCall")),
    Not(Is("IsMethodChain")), Not(Named(o.excludes)), Not(Is("HasAnyComment"))>>

LEMMA LongCallClauses ==
  ASSUME NEW o
  PROVE  /\ HasClause(longCallConds(o), Not(AnyLogCall(o)))
         /\ HasClause(longCallConds(o), Not(Named(o.excludes)))
<1> DEFINE a == <<TooWide(o)>>
           b == All(CallLits(o))
           c == IF "layout" \in {o.argsStyle, o.chainStyle}
                THEN All(<<Not(Is("IsChainedCallReceiver"))>>) ELSE <<>>
           d == IF o.argsStyle = "layout" THEN All(<<Not(Is("IsCallArg"))>>) ELSE <<>>
<1>1. longCallConds(o) = ((a \o b) \o c) \o d
  BY DEF longCallConds, CallLits
<1>3. PICK S : S = {a[i] : i \in DOMAIN a} \cup {b[i] : i \in DOMAIN b}
                   \cup {c[i] : i \in DOMAIN c} \cup {d[i] : i \in DOMAIN d}
  OBVIOUS
<1>4. DOMAIN a = 1..1 /\ DOMAIN b = 1..6
  BY DEF All, CallLits
<1>5. a \in Seq(S) /\ b \in Seq(S) /\ c \in Seq(S) /\ d \in Seq(S)
  <2>1. a \in Seq({a[i] : i \in DOMAIN a})
    OBVIOUS
  <2>2. b \in Seq({b[i] : i \in DOMAIN b})
    BY DEF All, CallLits
  <2>3. c \in Seq({c[i] : i \in DOMAIN c})
    <3>1. PICK l : l = <<Not(Is("IsChainedCallReceiver"))>>
      OBVIOUS
    <3>2. All(l) \in Seq({All(l)[i] : i \in DOMAIN All(l)})
      BY <3>1 DEF All
    <3> QED
      BY <3>1, <3>2
  <2>4. d \in Seq({d[i] : i \in DOMAIN d})
    <3>1. PICK l : l = <<Not(Is("IsCallArg"))>>
      OBVIOUS
    <3>2. All(l) \in Seq({All(l)[i] : i \in DOMAIN All(l)})
      BY <3>1 DEF All
    <3> QED
      BY <3>1, <3>2
  <2> HIDE DEF a, b, c, d
  <2> QED
    BY <1>3, <2>1, <2>2, <2>3, <2>4
<1>6. HasClause(b, Not(AnyLogCall(o))) /\ HasClause(b, Not(Named(o.excludes)))
  <2>1. PICK l : l = CallLits(o)
    OBVIOUS
  <2>2. /\ 1 \in DOMAIN l /\ l[1] = Not(AnyLogCall(o))
        /\ 5 \in DOMAIN l /\ l[5] = Not(Named(o.excludes))
    BY <2>1 DEF CallLits
  <2> QED
    BY <2>1, <2>2, ClauseOfAll
<1> HIDE DEF a, b, c, d
<1>7. ASSUME NEW lit, HasClause(b, lit) PROVE HasClause(longCallConds(o), lit)
  <2>1. PICK x : x = a \o b
    OBVIOUS
  <2>2. HasClause(x, lit) /\ x \in Seq(S)
    BY <1>5, <1>7, <2>1, ClauseOfBoth
  <2>3. PICK y : y = x \o c
    OBVIOUS
  <2>4. HasClause(y, lit) /\ y \in Seq(S)
    BY <1>5, <2>2, <2>3, ClauseOfBoth
  <2>5. PICK z : z = y \o d
    OBVIOUS
  <2>6. HasClause(z, lit)
    BY <1>5, <2>4, <2>5, ClauseOfBoth
  <2> QED
    BY <1>1, <2>1, <2>3, <2>5, <2>6
<1> QED
  BY <1>6, <1>7

LEMMA CallRules ==
  ASSUME NEW T, NEW n, n # None, NEW c, c.names = {}, c.prefixes = {},
         NEW i \in DOMAIN dslRulesForMultiLineCalls(c), Applies(T, n, dslRulesForMultiLineCalls(c)[i])
  PROVE  /\ Type(T, n) = "CallExpr"
         /\ ~IsCallFuncContainsAny(T, n, c.excludes)
         /\ IsMethodChain(T, n, 2) \/ ~IsLogOrPrintfCall(T, n, AnyLog)
<1>1. CASE StyleOf(c) \in CallLayouts
  <2>1. PICK o : o = WithLayout(CallOptions(c), CallLayout(StyleOf(c)))
    OBVIOUS
  <2>2. o.excludes = c.excludes /\ o.names = {} /\ o.prefixes = {}
    BY <2>1 DEF WithLayout, CallOptions, PlainCalls
  <2> DEFINE chains == IF o.argsStyle # "layout" \/ o.chainStyle # ""
                       THEN <<long_method_chain(o)>> ELSE <<>>
             actions == IF o.argsStyle = "layout"
                        THEN <<"BreakCallArgsLayout", "PackedMultiLineCall">>
                        ELSE <<"PackedMultiLineCall">>
             call == Rule("long_call_expr", Node("CallExpr"), longCallConds(o), 50, actions)
  <2>3. dslRulesForMultiLineCalls(c) = chains \o <<call>>
    BY <1>1, <2>1 DEF dslRulesForMultiLineCalls, MultiLineCallRulesWithOptions
  <2>4. call.when = longCallConds(o) /\ call.pattern = Node("CallExpr")
    BY DEF Rule
  <2>5. chains \in {<<>>, <<long_method_chain(o)>>}
    OBVIOUS
  <2> HIDE DEF chains, call
  <2>6. (chains \o <<call>>)[i] \in {long_method_chain(o), call} /\ i \in DOMAIN (chains \o <<call>>)
    BY <2>3, <2>5
  <2>7. CASE Applies(T, n, long_method_chain(o))
    <3>1. matchType(T, n, "CallExpr")
      <4>1. long_method_chain(o).pattern = Node("CallExpr")
        BY DEF long_method_chain, Rule
      <4> QED
        BY <2>7, <4>1 DEF Applies, Matches, Node
    <3> QED
      BY <2>2, <2>7, <3>1, ChainRule DEF matchType
  <2>8. CASE Applies(T, n, call)
    <3>1. matchType(T, n, "CallExpr")
      BY <2>4, <2>8 DEF Applies, Matches, Node
    <3>2. PICK p : p = call.pattern
      OBVIOUS
    <3>3. Eval(T, Captures(T, n, p), Not(AnyLogCall(o))) /\ Eval(T, Captures(T, n, p), Not(Named(o.excludes)))
      BY <2>4, <2>8, <3>2, LongCallClauses, ClauseHolds
    <3>4. ~IsCallFuncContainsAny(T, n, o.excludes)
      BY <3>3, NodeNotNamed
    <3>5. ~IsLogOrPrintfCall(T, n, AnyLog)
      BY <2>2, <3>3, NodeNotLog DEF AnyLog
    <3> QED
      BY <2>2, <3>1, <3>4, <3>5 DEF matchType
  <2> QED
    BY <2>3, <2>6, <2>7, <2>8
<1>2. CASE StyleOf(c) \notin CallLayouts
  <2>1. PICK o : o = CallOptions(c)
    OBVIOUS
  <2>2. o.excludes = c.excludes /\ o.names = {} /\ o.prefixes = {}
    BY <2>1 DEF CallOptions, PlainCalls
  <2>3. PICK l : l = <<Not(AnyLogCall(o)), Not(Is("IsMethodChain")), Not(Named(o.excludes)),
                       Not(Is("HasAnyComment"))>>
    OBVIOUS
  <2>4. PICK w, t, a : w = <<TooWide(o)>> /\ t = All(l) /\ a = w \o t
    OBVIOUS
  <2> DEFINE call == Rule("long_call_expr_packed", Node("CallExpr"), a, 50, <<"PackedMultiLineCall">>)
  <2>5. dslRulesForMultiLineCalls(c) = <<call>>
    BY <1>2, <2>1, <2>3, <2>4 DEF dslRulesForMultiLineCalls, PackedMultiLineOnlyRulesWithOptions
  <2>6. call.when = a /\ call.pattern = Node("CallExpr")
    BY DEF Rule
  <2> HIDE DEF call
  <2>7. Applies(T, n, call)
    BY <2>5
  <2>8. matchType(T, n, "CallExpr")
    BY <2>6, <2>7 DEF Applies, Matches, Node
  <2>9. HasClause(a, Not(AnyLogCall(o))) /\ HasClause(a, Not(Named(o.excludes)))
    <3>1. PICK S : S = {w[k] : k \in DOMAIN w} \cup {t[k] : k \in DOMAIN t}
      OBVIOUS
    <3>2. w \in Seq(S) /\ t \in Seq(S)
      <4>1. w \in Seq({w[k] : k \in DOMAIN w})
        BY <2>4
      <4>2. t \in Seq({t[k] : k \in DOMAIN t})
        BY <2>3, <2>4 DEF All
      <4> QED
        BY <3>1, <4>1, <4>2
    <3>3. /\ 1 \in DOMAIN l /\ l[1] = Not(AnyLogCall(o))
          /\ 3 \in DOMAIN l /\ l[3] = Not(Named(o.excludes))
      BY <2>3
    <3>4. HasClause(t, Not(AnyLogCall(o))) /\ HasClause(t, Not(Named(o.excludes)))
      BY <2>4, <3>3, ClauseOfAll
    <3> QED
      BY <2>4, <3>2, <3>4, ClauseOfBoth
  <2>10. PICK p : p = call.pattern
    OBVIOUS
  <2>11. Eval(T, Captures(T, n, p), Not(AnyLogCall(o))) /\ Eval(T, Captures(T, n, p), Not(Named(o.excludes)))
    BY <2>6, <2>7, <2>9, <2>10, ClauseHolds
  <2>12. ~IsCallFuncContainsAny(T, n, o.excludes)
    BY <2>11, NodeNotNamed
  <2>13. ~IsLogOrPrintfCall(T, n, AnyLog)
    BY <2>2, <2>11, NodeNotLog DEF AnyLog
  <2> QED
    BY <2>2, <2>8, <2>12, <2>13 DEF matchType
<1> QED
  BY <1>1, <1>2

(***************************************************************************)
(* The calls left alone by default are log calls, and none is a chain.     *)
(***************************************************************************)
LEMMA DefaultsAreLogs ==
  ASSUME NEW T, IsTree(T), NEW call \in NodesOf(T), Type(T, call) = "CallExpr",
         ~IsGeneric(T, Fun(T, call)), callExprFuncName(T, call) \in DefaultMultilineExcludes
  PROVE  ~IsMethodChain(T, call, 2) /\ IsLogOrPrintfCall(T, call, AnyLog)
<1>1. PICK fun, name : fun = Fun(T, call) /\ name = selectorPrefix(T, fun)
  OBVIOUS
<1>2. name \in DefaultMultilineExcludes
  BY <1>1 DEF callExprFuncName
<1>3. PICK pkg, m : name = <<pkg, m>> /\ isLogPrintfName(m, {})
  BY <1>2 DEF DefaultMultilineExcludes, isLogPrintfName
<1>4. PICK V : \A x \in 0..Len(T.nodes) :
           /\ selectorPrefix(T, x) \in Seq(V)
           /\ selectorPrefix(T, x) = DottedName(T, x, selectorPrefix(T, Child(T, x, "x")))
  BY SelectorPrefixFacts
<1>5. fun \in 0..Len(T.nodes)
  BY <1>1, ChildFacts DEF Fun, IsTree, None
<1>6. PICK y, front : y = Child(T, fun, "x") /\ front = selectorPrefix(T, y)
  OBVIOUS
<1>7. y \in 0..Len(T.nodes)
  BY <1>6, ChildFacts DEF IsTree, None
<1>8. name = DottedName(T, fun, front) /\ front \in Seq(V) /\ front = DottedName(T, y, selectorPrefix(T, Child(T, y, "x")))
  BY <1>1, <1>4, <1>5, <1>6, <1>7
<1>9. Type(T, fun) = "SelectorExpr" /\ <<pkg, m>> = front \o <<Val(T, fun)>>
  <2>1. PICK v : v = Val(T, fun)
    OBVIOUS
  <2>2. name # <<v>> /\ name # <<>>
    BY <1>3
  <2>3. Type(T, fun) = "SelectorExpr" /\ name = front \o <<Val(T, fun)>>
    BY <1>8, <2>1, <2>2 DEF DottedName
  <2> QED
    BY <1>3, <2>3
<1>10. Val(T, fun) = m /\ front # <<>>
  <2>1. PICK v : v = Val(T, fun)
    OBVIOUS
  <2>2. Len(front \o <<v>>) = Len(front) + 1 /\ (front \o <<v>>)[Len(front) + 1] = v
    BY <1>8
  <2> QED
    BY <1>8, <1>9, <2>1, <2>2
<1>11. Type(T, y) # "CallExpr"
  BY <1>8, <1>10 DEF DottedName
<1>12. ~IsMethodChain(T, call, 2)
  <2>1. ~(countMethodChainCalls(T, call) >= 2)
    BY <1>1, <1>6, <1>11, ChainFacts
  <2> QED
    BY <2>1 DEF IsMethodChain
<1>13. isLogPrintfCallWithAnyPrefix(T, call, {})
  BY <1>1, <1>3, <1>9, <1>10 DEF isLogPrintfCallWithAnyPrefix, LastName
<1>14. IsLogOrPrintfCall(T, call, AnyLog)
  BY <1>13 DEF IsLogOrPrintfCall, AnyLog
<1> QED
  BY <1>12, <1>14

-----------------------------------------------------------------------------
(***************************************************************************)
(* What the expression stage breaks among the arguments of a call, it may. *)
(***************************************************************************)
PolicyOf(c) == IF c.allow THEN "force" ELSE IF c.auto THEN "auto" ELSE "off"

AllowlistOf(c) == c.excludes \cup (IF c.auto THEN DefaultMultilineExcludes ELSE {})

MayBreak(o, r) ==
  r \in {long_string_concat(o), safe_logical_chain(o), safe_arithmetic_expr(o), safe_return_binary}

OnlyMayBreak(o, rules) == \E S : rules \in Seq(S) /\ \A r \in S : r.name \in BreakingRules => MayBreak(o, r)

LEMMA OnlyMayBreakIn ==
  ASSUME NEW o, NEW rules, rules \in Seq({rules[i] : i \in DOMAIN rules}),
         \A i \in DOMAIN rules : rules[i].name \in BreakingRules => MayBreak(o, rules[i])
  PROVE  OnlyMayBreak(o, rules)
<1>1. PICK S : S = {rules[i] : i \in DOMAIN rules}
  OBVIOUS
<1>2. rules \in Seq(S) /\ \A r \in S : r.name \in BreakingRules => MayBreak(o, r)
  BY <1>1
<1> QED
  BY <1>2 DEF OnlyMayBreak

LEMMA OnlyMayBreakInBoth ==
  ASSUME NEW o, NEW s, NEW t, OnlyMayBreak(o, s), OnlyMayBreak(o, t)
  PROVE  OnlyMayBreak(o, s \o t)
<1>1. PICK S : s \in Seq(S) /\ \A r \in S : r.name \in BreakingRules => MayBreak(o, r)
  BY DEF OnlyMayBreak
<1>2. PICK U : t \in Seq(U) /\ \A r \in U : r.name \in BreakingRules => MayBreak(o, r)
  BY DEF OnlyMayBreak
<1>3. PICK V : V = S \cup U
  OBVIOUS
<1>4. s \o t \in Seq(V) /\ \A r \in V : r.name \in BreakingRules => MayBreak(o, r)
  BY <1>1, <1>2, <1>3
<1> QED
  BY <1>4 DEF OnlyMayBreak

ExprOptions(c) ==
  [policy |-> PolicyOf(c), allowlist |-> AllowlistOf(c),
   logical |-> c.logical, arithmetic |-> c.arithmetic, caseClause |-> c.caseClause,
   selector |-> IF c.selector = "" THEN "layout" ELSE c.selector]

LEMMA ExpressionRulesMayBreak ==
  ASSUME NEW c
  PROVE  OnlyMayBreak(ExprOptions(c), dslRulesForExpr(c))
<1>1. PICK o : o = ExprOptions(c)
  OBVIOUS
<1>2. PICK a, f, k, l : /\ a = LongExprRulesWithOptions(o) /\ f = ExpandFuncLitBodyRules
                        /\ k = ExpandCompositeLitRules /\ l = SplitLongStringLiteralRules
  OBVIOUS
<1>3. dslRulesForExpr(c) = ((a \o f) \o k) \o l
  BY <1>1, <1>2 DEF dslRulesForExpr, ExprOptions, PolicyOf, AllowlistOf
<1>4. OnlyMayBreak(o, f) /\ OnlyMayBreak(o, k) /\ OnlyMayBreak(o, l)
  <2>1. OnlyMayBreak(o, f)
    <3>1. f \in Seq({f[i] : i \in DOMAIN f}) /\ \A i \in DOMAIN f : f[i].name \notin BreakingRules
      BY <1>2 DEF ExpandFuncLitBodyRules, BreakingRules, Rule
    <3> QED
      BY <3>1, OnlyMayBreakIn
  <2>2. OnlyMayBreak(o, k)
    <3>1. k \in Seq({k[i] : i \in DOMAIN k}) /\ \A i \in DOMAIN k : k[i].name \notin BreakingRules
      BY <1>2 DEF ExpandCompositeLitRules, BreakingRules, Rule
    <3> QED
      BY <3>1, OnlyMayBreakIn
  <2>3. OnlyMayBreak(o, l)
    <3>1. l \in Seq({l[i] : i \in DOMAIN l}) /\ \A i \in DOMAIN l : l[i].name \notin BreakingRules
      BY <1>2 DEF SplitLongStringLiteralRules, BreakingRules, Rule
    <3> QED
      BY <3>1, OnlyMayBreakIn
  <2> QED
    BY <2>1, <2>2, <2>3
<1>5. OnlyMayBreak(o, a)
  <2>1. /\ keep_simple_comparison.name \notin BreakingRules
        /\ long_selector_chain(o).name \notin BreakingRules
        /\ safe_for_cond.name \notin BreakingRules
        /\ safe_case_clause(o).name \notin BreakingRules
        /\ safe_assign_binary.name \notin BreakingRules
        /\ assign_type_assert.name \notin BreakingRules
        /\ generic_conversion.name \notin BreakingRules
    BY DEF BreakingRules, Rule, keep_simple_comparison, long_selector_chain, safe_for_cond,
       safe_case_clause, safe_assign_binary, assign_type_assert, generic_conversion
  <2>2. DOMAIN a = 1..11 /\ a \in Seq({a[i] : i \in DOMAIN a})
    BY <1>2 DEF LongExprRulesWithOptions
  <2>3. /\ a[1] = keep_simple_comparison /\ a[2] = long_string_concat(o)
        /\ a[3] = long_selector_chain(o) /\ a[4] = safe_logical_chain(o)
        /\ a[5] = safe_arithmetic_expr(o) /\ a[6] = safe_for_cond
        /\ a[7] = safe_return_binary /\ a[8] = safe_case_clause(o)
        /\ a[9] = safe_assign_binary /\ a[10] = assign_type_assert /\ a[11] = generic_conversion
    BY <1>2 DEF LongExprRulesWithOptions
  <2>4. MayBreak(o, a[2]) /\ MayBreak(o, a[4]) /\ MayBreak(o, a[5]) /\ MayBreak(o, a[7])
    BY <2>3 DEF MayBreak
  <2>5. ASSUME NEW i \in 1..11, a[i].name \in BreakingRules PROVE MayBreak(o, a[i])
    <3>1. i \notin {1, 3, 6, 8, 9, 10, 11}
      BY <2>1, <2>3, <2>5
    <3>2. i \in {2, 4, 5, 7}
      BY <3>1
    <3> QED
      BY <2>4, <3>2
  <2> QED
    BY <2>2, <2>5, OnlyMayBreakIn
<1>6. PICK x, y : x = a \o f /\ y = x \o k
  OBVIOUS
<1>7. OnlyMayBreak(o, x)
  BY <1>4, <1>5, <1>6, OnlyMayBreakInBoth
<1>8. OnlyMayBreak(o, y)
  BY <1>4, <1>6, <1>7, OnlyMayBreakInBoth
<1>9. OnlyMayBreak(o, y \o l)
  BY <1>4, <1>8, OnlyMayBreakInBoth
<1> QED
  BY <1>1, <1>3, <1>6, <1>9

LEMMA StringRule ==
  ASSUME NEW T, NEW n, n # None, NEW o, Applies(T, n, long_string_concat(o))
  PROVE  ~IsInCallArgs(T, n)
<1>1. PICK r, l : /\ r = long_string_concat(o)
                  /\ l = <<Is("LineWidth"), Is("IsStringConcat"), Not(Is("IsInCallArgs")),
                           EditSafe("node", o.policy, o.allowlist)>>
  OBVIOUS
<1>2. r.when = All(l)
  BY <1>1 DEF long_string_concat, Rule
<1>3. 3 \in DOMAIN l /\ l[3] = Not(Is("IsInCallArgs"))
  BY <1>1
<1>4. Eval(T, Captures(T, n, r.pattern), l[3])
  <2>1. HasClause(r.when, l[3])
    BY <1>2, <1>3, ClauseOfAll
  <2> QED
    BY <1>1, <2>1, ClauseHolds
<1> QED
  BY <1>3, <1>4, NodeNotInArgs

LEMMA LogicalRule ==
  ASSUME NEW T, NEW n, NEW o, Applies(T, n, safe_logical_chain(o))
  PROVE  ExprEditSafe(T, n, o.policy, o.allowlist)
<1>1. PICK r, l : /\ r = safe_logical_chain(o)
                  /\ l = <<Is("MaxLineWidthInSpan"), EditSafe("node", o.policy, o.allowlist)>>
  OBVIOUS
<1>2. r.when = All(l)
  BY <1>1 DEF safe_logical_chain, Rule
<1>3. 2 \in DOMAIN l /\ l[2] = EditSafe("node", o.policy, o.allowlist)
  BY <1>1
<1>4. Eval(T, Captures(T, n, r.pattern), l[2])
  <2>1. HasClause(r.when, l[2])
    BY <1>2, <1>3, ClauseOfAll
  <2> QED
    BY <1>1, <2>1, ClauseHolds
<1> QED
  BY <1>3, <1>4, NodeIsSafe

LEMMA ArithmeticRule ==
  ASSUME NEW T, NEW n, NEW o, Applies(T, n, safe_arithmetic_expr(o))
  PROVE  ~IsInCallArgs(T, n)
<1>1. PICK r, l : /\ r = safe_arithmetic_expr(o)
                  /\ l = <<Is("LineWidth"), Not(Is("IsStringConcat")), Safe("node")>>
  OBVIOUS
<1>2. r.when = All(l)
  BY <1>1 DEF safe_arithmetic_expr, Rule
<1>3. 3 \in DOMAIN l /\ l[3] = EditSafe("node", "off", {})
  BY <1>1 DEF Safe
<1>4. Eval(T, Captures(T, n, r.pattern), l[3])
  <2>1. HasClause(r.when, l[3])
    BY <1>2, <1>3, ClauseOfAll
  <2> QED
    BY <1>1, <2>1, ClauseHolds
<1>5. ExprEditSafe(T, n, "off", {})
  BY <1>3, <1>4, NodeIsSafe
<1> QED
  BY <1>5 DEF ExprEditSafe

(***************************************************************************)
(* The rule for a result asks of the result; it is among the arguments of  *)
(* a call if the statement is.                                             *)
(***************************************************************************)
LEMMA ReturnRule ==
  ASSUME NEW T, IsTree(T), NEW n \in NodesOf(T), Applies(T, n, safe_return_binary)
  PROVE  ~IsInCallArgs(T, n)
<1>1. PICK r, f, l, lit :
        /\ r = safe_return_binary
        /\ f = Holding("results", "expr", "BinaryExpr")
        /\ lit = Safe("expr")
        /\ l = <<Is("LineWidth"), Not(IsOf("IsStringConcat", "expr")), lit>>
  OBVIOUS
<1>2. r.when = All(l) /\ r.pattern = [type |-> "ReturnStmt", fields |-> <<f>>]
  BY <1>1 DEF safe_return_binary, Rule, BinaryIn, NodeWith
<1>3. lit.of = "expr" /\ lit.want = TRUE /\ lit.cond = "ExprEditSafe"
      /\ lit.o.policy = "off" /\ lit.o.names = {}
  BY <1>1 DEF Safe, EditSafe, IsOf, Is, NoOptions
<1>4. f.name = "results" /\ f.capture = "expr" /\ f.oneOf = {}
  BY <1>1 DEF Holding
<1>5. PICK p, caps : p = r.pattern /\ caps = Captures(T, n, p)
  OBVIOUS
<1>6. Eval(T, caps, lit)
  <2>1. 3 \in DOMAIN l /\ l[3] = lit
    BY <1>1
  <2>2. HasClause(r.when, lit)
    BY <1>2, <2>1, ClauseOfAll
  <2> QED
    BY <1>1, <1>5, <2>2, ClauseHolds
<1>7. ToSet(p.fields) = {f} /\ p.type = "ReturnStmt"
  BY <1>2, <1>5 DEF ToSet
<1>8. "expr" \in DOMAIN caps /\ caps["expr"] = getField(T, n, "results")
  <2>1. "expr" \in {"node"} \cup {g.capture : g \in ToSet(p.fields)}
    BY <1>4, <1>7
  <2>2. (CHOOSE g \in ToSet(p.fields) : g.capture = "expr").name = "results"
    BY <1>4, <1>7
  <2> QED
    BY <1>5, <2>1, <2>2 DEF Captures
<1>9. PICK x : x = getField(T, n, "results")
  OBVIOUS
<1>10. x # None /\ ExprEditSafe(T, x, "off", {})
  <2>1. resolveTarget(caps, lit.of) = x
    BY <1>3, <1>8, <1>9 DEF resolveTarget
  <2>2. x # None /\ Truth(T, x, lit)
    BY <1>3, <1>6, <2>1 DEF Eval
  <2> QED
    BY <1>3, <2>2 DEF Truth
<1>11. x \in NodesOf(T) /\ T.nodes[x].up = n
  BY <1>9, <1>10, ChildFacts DEF getField
<1>12. UpFrom(T, x) = {x} \cup UpFrom(T, n)
  BY <1>11, UpFromFacts
<1>13. ~IsInCallArgs(T, x)
  BY <1>10 DEF ExprEditSafe
<1> QED
  BY <1>12, <1>13 DEF IsInCallArgs

LEMMA BrokenArgIsAllowed ==
  ASSUME NEW T, IsTree(T), NEW n \in NodesOf(T), IsInCallArgs(T, n), NEW c,
         NEW i \in DOMAIN dslRulesForExpr(c), Applies(T, n, dslRulesForExpr(c)[i]),
         dslRulesForExpr(c)[i].name \in BreakingRules
  PROVE  \/ c.allow
         \/ callExprFuncName(T, enclosingCallForArg(T, n)) \in c.excludes \cup DefaultMultilineExcludes
<1>1. PICK o, rules : o = ExprOptions(c) /\ rules = dslRulesForExpr(c)
  OBVIOUS
<1>2. PICK r : r = rules[i]
  OBVIOUS
<1>3. MayBreak(o, r)
  <2>1. OnlyMayBreak(o, rules)
    BY <1>1, ExpressionRulesMayBreak
  <2>2. PICK S : rules \in Seq(S) /\ \A s \in S : s.name \in BreakingRules => MayBreak(o, s)
    BY <2>1 DEF OnlyMayBreak
  <2>3. r \in S
    BY <1>1, <1>2, <2>2
  <2> QED
    BY <1>1, <1>2, <2>2, <2>3
<1>4. n # None
  BY DEF IsTree, None
<1>5. Applies(T, n, r)
  BY <1>1, <1>2
<1>6. r = safe_logical_chain(o)
  BY <1>3, <1>4, <1>5, StringRule, ArithmeticRule, ReturnRule DEF MayBreak
<1>7. ExprEditSafe(T, n, o.policy, o.allowlist)
  BY <1>5, <1>6, LogicalRule
<1>8. \/ o.policy = "force"
      \/ o.policy = "auto" /\ callExprFuncName(T, enclosingCallForArg(T, n)) \in o.allowlist
  BY <1>7 DEF ExprEditSafe
<1>9. o.policy = PolicyOf(c) /\ o.allowlist = AllowlistOf(c)
  BY <1>1 DEF ExprOptions
<1>10. CASE o.policy = "force"
  BY <1>9, <1>10 DEF PolicyOf
<1>11. CASE o.policy = "auto" /\ callExprFuncName(T, enclosingCallForArg(T, n)) \in o.allowlist
  BY <1>9, <1>11 DEF AllowlistOf
<1> QED
  BY <1>8, <1>10, <1>11

-----------------------------------------------------------------------------
(***************************************************************************)
(* What a stage has tried is a rule of its list that applied to a node.    *)
(***************************************************************************)
Tried(a) ==
  \E i \in DOMAIN RulesOfStage(cfg, a[1]) :
    /\ a[2] = RulesOfStage(cfg, a[1])[i].name
    /\ a[3] \in NodesOf(asked.tree)
    /\ Applies(asked.tree, a[3], RulesOfStage(cfg, a[1])[i])

TriedInv ==
  /\ asked \in Jobs
  /\ pc \in {"asked", "accepted", "rejected", "ready", "alone"}
  /\ pc \in {"asked", "accepted"} => cfg = asked.cfg
  /\ pc \in {"asked", "accepted", "rejected"} => attempts = {}
  /\ pc = "alone" => \E set : \A a \in attempts : a[1] = set
  /\ pc = "ready" => cfg = Adjusted(asked.cfg) /\ \A a \in attempts : Tried(a)

LEMMA TriedInit == Init => TriedInv
  BY DEF Init, TriedInv

LEMMA TriedStep ==
  ASSUME TriedInv, [Next]_vars
  PROVE  TriedInv'
<1>1. CASE UNCHANGED vars
  BY <1>1 DEF vars, TriedInv, Tried
<1>2. CASE ValidatePipelineConfig
  BY <1>2 DEF ValidatePipelineConfig, TriedInv
<1>3. ASSUME pc \in {"asked", "accepted"}, NewPipeline(cfg) PROVE TriedInv'
  BY <1>3 DEF NewPipeline, TriedInv
<1>4. CASE NewValidated
  BY <1>3, <1>4 DEF NewValidated
<1>5. CASE NewUnchecked
  BY <1>3, <1>5 DEF NewUnchecked
<1>6. CASE RunStage
  <2>1. pc = "ready" /\ UNCHANGED <<asked, pc, cfg>>
    BY <1>6 DEF RunStage
  <2>2. PICK s \in Stages :
          attempts' = attempts \cup
            IF engines[s].on
              THEN {<<s, a[1], a[2]>> : a \in Applied(RulesOfStage(cfg, s), asked.tree)}
              ELSE {}
    BY <1>6 DEF RunStage
  <2>3. ASSUME NEW a \in attempts' PROVE Tried(a)
    <3>1. CASE a \in attempts
      BY <2>1, <3>1 DEF TriedInv
    <3>2. CASE a \notin attempts
      <4>1. PICK r \in Applied(RulesOfStage(cfg, s), asked.tree) : a = <<s, r[1], r[2]>>
        BY <2>2, <3>2
      <4>2. PICK i \in DOMAIN RulesOfStage(cfg, s) :
              /\ r[1] = RulesOfStage(cfg, s)[i].name
              /\ r[2] \in NodesOf(asked.tree)
              /\ Applies(asked.tree, r[2], RulesOfStage(cfg, s)[i])
        BY <4>1 DEF Applied
      <4> QED
        BY <4>1, <4>2 DEF Tried
    <3> QED
      BY <3>1, <3>2
  <2>4. \A a \in attempts' : Tried(a)'
    BY <2>1, <2>3 DEF Tried
  <2> QED
    BY <2>1, <2>4 DEF TriedInv
<1>7. CASE RunAlone
  <2>1. pc' = "alone" /\ asked' = asked
    BY <1>7 DEF RunAlone
  <2>2. PICK set : attempts' = {<<set, a[1], a[2]>> : a \in Applied(RulesFor(set), asked.tree)}
    BY <1>7 DEF RunAlone
  <2>3. \A a \in attempts' : a[1] = set
    BY <2>2
  <2> QED
    BY <2>1, <2>3 DEF TriedInv
<1> QED
  BY <1>1, <1>2, <1>4, <1>5, <1>6, <1>7 DEF Next

(***************************************************************************)
(* Both stages at work on one call: the expression stage was let in by the *)
(* call's name, and the multi-line stage leaves calls of that name alone.  *)
(***************************************************************************)
LEMMA NoSecondEditor ==
  ASSUME NEW T, IsTree(T), NEW c, <<>> \notin c.excludes, c.names = {}, c.prefixes = {},
         NEW call \in NodesOf(T), ~IsGeneric(T, Fun(T, call)),
         callExprFuncName(T, call) \in c.excludes \cup DefaultMultilineExcludes,
         NEW i \in DOMAIN dslRulesForMultiLineCalls(c),
         Applies(T, call, dslRulesForMultiLineCalls(c)[i])
  PROVE  FALSE
<1>1. call # None
  BY DEF IsTree, None
<1>2. /\ Type(T, call) = "CallExpr"
      /\ ~IsCallFuncContainsAny(T, call, c.excludes)
      /\ IsMethodChain(T, call, 2) \/ ~IsLogOrPrintfCall(T, call, AnyLog)
  BY <1>1, CallRules
<1>3. CASE callExprFuncName(T, call) \in DefaultMultilineExcludes
  BY <1>2, <1>3, DefaultsAreLogs
<1>4. CASE callExprFuncName(T, call) \in c.excludes
  <2>1. PICK name : name = callExprFuncName(T, call)
    OBVIOUS
  <2>2. name = selectorPrefix(T, Fun(T, call))
    BY <2>1 DEF callExprFuncName
  <2>3. Fun(T, call) \in 0..Len(T.nodes)
    BY ChildFacts DEF Fun, IsTree, None
  <2>4. PICK V : name \in Seq(V)
    BY <2>2, <2>3, SelectorPrefixFacts
  <2>5. name # <<>>
    BY <1>4, <2>1
  <2>6. NameContains(name, name)
    <3>1. 0 \in 0..(Len(name) - Len(name)) /\ \A j \in DOMAIN name : name[0 + j] = name[j]
      BY <2>4
    <3> QED
      BY <2>5, <3>1 DEF NameContains
  <2>7. IsCallFuncContainsAny(T, call, c.excludes)
    BY <1>2, <1>4, <2>1, <2>6 DEF IsCallFuncContainsAny
  <2> QED
    BY <1>2, <2>7
<1> QED
  BY <1>3, <1>4

(***************************************************************************)
(* An expression among the arguments of a call is broken by the expression *)
(* stage only if the multi-line stage leaves that call alone (the policy   *)
(* of dslRulesForExpr and the conditions of dslRulesForMultiLineCalls), on *)
(* every tree and for every style, unless both were asked for.             *)
(***************************************************************************)
THEOREM OneEditorPerArgument ==
  ASSUME ConfigsAreComplete, TreesAreInPreorder, NoNameIsEmpty
  PROVE  Spec => []ArgumentsHaveOneEditor
<1>1. PlanInv /\ TriedInv => ArgumentsHaveOneEditor
  <2> SUFFICES ASSUME PlanInv, TriedInv, asked.cfg.override = NoPlan,
                      asked.cfg.names = {}, asked.cfg.prefixes = {}, ~AskedForBoth,
                      NEW a \in attempts, NEW b \in attempts,
                      a[1] = "expressions", a[2] \in BreakingRules, IsInCallArgs(asked.tree, a[3]),
                      b[1] = "multiline-calls", b[3] = enclosingCallForArg(asked.tree, a[3]),
                      ~IsGeneric(asked.tree, Fun(asked.tree, b[3]))
               PROVE  FALSE
    BY DEF ArgumentsHaveOneEditor, OnePerArgument, BrokenArgs, CallsReflowed
  <2>1. pc = "ready"
    BY DEF TriedInv
  <2>2. PICK c, T : c = cfg /\ T = asked.tree
    OBVIOUS
  <2>3. /\ Keeps(asked.cfg, c) /\ ~NoToggle(c)
        /\ c.allow => ~c.use["multiline-calls"] \/ ~OwnsArgs(c.multiStyle) \/ c.registry
    BY <2>1, <2>2, AdjustedKeeps DEF TriedInv, ConfigsAreComplete
  <2>4. c.override = NoPlan /\ c.names = {} /\ c.prefixes = {} /\ <<>> \notin c.excludes
    BY <2>3 DEF Keeps, TriedInv, NoNameIsEmpty
  <2>5. IsTree(T)
    BY <2>2 DEF TriedInv, TreesAreInPreorder
  <2>6. Tried(a) /\ Tried(b)
    BY <2>1 DEF TriedInv
  <2>7. c.use["multiline-calls"]
    <3>1. Plan["multiline-calls"] = "dsl"
      BY <2>1, BuiltAsPlanned DEF PlanInv
    <3>2. Plan = PlanOf(c.use)
      BY <2>2, <2>3, <2>4 DEF Plan, stagePlanFromPipelineConfig
    <3> QED
      BY <3>1, <3>2, StageSet DEF PlanOf
  <2>8. ~c.allow
    BY <2>2, <2>3, <2>7 DEF AskedForBoth, Keeps
  <2>9. callExprFuncName(T, b[3]) \in c.excludes \cup DefaultMultilineExcludes
    <3>1. RulesOfStage(c, "expressions") = dslRulesForExpr(c)
      BY DEF RulesOfStage
    <3>2. PICK i \in DOMAIN dslRulesForExpr(c) :
            /\ a[2] = dslRulesForExpr(c)[i].name
            /\ a[3] \in NodesOf(T)
            /\ Applies(T, a[3], dslRulesForExpr(c)[i])
      BY <2>2, <2>6, <3>1 DEF Tried
    <3>3. IsInCallArgs(T, a[3]) /\ dslRulesForExpr(c)[i].name \in BreakingRules
      BY <2>2, <3>2
    <3> QED
      BY <2>2, <2>5, <2>8, <3>2, <3>3, BrokenArgIsAllowed
  <2>10. RulesOfStage(c, "multiline-calls") = dslRulesForMultiLineCalls(c)
    BY DEF RulesOfStage
  <2>11. PICK i \in DOMAIN dslRulesForMultiLineCalls(c) :
           /\ b[3] \in NodesOf(T)
           /\ Applies(T, b[3], dslRulesForMultiLineCalls(c)[i])
    BY <2>2, <2>6, <2>10 DEF Tried
  <2>12. ~IsGeneric(T, Fun(T, b[3]))
    BY <2>2
  <2> QED
    BY <2>4, <2>5, <2>9, <2>11, <2>12, NoSecondEditor
<1> QED
  BY PlanInit, PlanStep, TriedInit, TriedStep, <1>1, PTL DEF Spec

-----------------------------------------------------------------------------
(***************************************************************************)
(* Sequences without repetition.                                           *)
(***************************************************************************)
LEMMA WithoutHead ==
  ASSUME NEW L, NEW s \in Seq(L), s # <<>>, IsInjective(s)
  PROVE  /\ Head(s) \in ToSet(s)
         /\ Tail(s) \in Seq(L)
         /\ IsInjective(Tail(s))
         /\ ToSet(Tail(s)) = ToSet(s) \ {Head(s)}
<1> DEFINE t == Tail(s)
<1>1. /\ t \in Seq(L)
      /\ Len(s) \in Nat \ {0}
      /\ DOMAIN t = 1..(Len(s) - 1)
      /\ DOMAIN s = 1..Len(s)
      /\ \A i \in 1..(Len(s) - 1) : t[i] = s[i + 1]
      /\ Head(s) = s[1]
  OBVIOUS
<1> HIDE DEF t
<1>2. IsInjective(t)
  <2> SUFFICES ASSUME NEW a \in 1..(Len(s) - 1), NEW b \in 1..(Len(s) - 1), t[a] = t[b]
               PROVE  a = b
    BY <1>1 DEF IsInjective
  <2>1. a + 1 \in 1..Len(s) /\ b + 1 \in 1..Len(s) /\ s[a + 1] = s[b + 1]
    BY <1>1
  <2>2. a + 1 = b + 1
    BY <1>1, <2>1 DEF IsInjective
  <2> QED
    BY <2>2
<1>3. ToSet(t) \subseteq ToSet(s) \ {Head(s)}
  <2> SUFFICES ASSUME NEW a \in 1..(Len(s) - 1)
               PROVE  t[a] \in ToSet(s) /\ t[a] # s[1]
    BY <1>1 DEF ToSet
  <2>1. a + 1 \in 1..Len(s) /\ 1 \in 1..Len(s) /\ a + 1 # 1 /\ t[a] = s[a + 1]
    BY <1>1
  <2> QED
    BY <1>1, <2>1 DEF IsInjective, ToSet
<1>4. ToSet(s) \ {Head(s)} \subseteq ToSet(t)
  <2> SUFFICES ASSUME NEW a \in 1..Len(s), a # 1
               PROVE  s[a] \in ToSet(t)
    BY <1>1 DEF ToSet
  <2>1. a - 1 \in 1..(Len(s) - 1) /\ t[a - 1] = s[(a - 1) + 1] /\ (a - 1) + 1 = a
    BY <1>1
  <2> QED
    BY <1>1, <2>1 DEF ToSet
<1>5. Head(s) \in ToSet(s)
  <2>1. 1 \in 1..Len(s)
    BY <1>1
  <2> QED
    BY <1>1, <2>1 DEF ToSet
<1> QED
  BY <1>1, <1>2, <1>3, <1>4, <1>5 DEF t

LEMMA Joined ==
  ASSUME NEW L, NEW s \in Seq(L), NEW t \in Seq(L), IsInjective(s), IsInjective(t),
         ToSet(s) \cap ToSet(t) = {}
  PROVE  /\ s \o t \in Seq(L)
         /\ IsInjective(s \o t)
         /\ ToSet(s \o t) = ToSet(s) \cup ToSet(t)
<1> DEFINE u == s \o t
<1>1. /\ u \in Seq(L)
      /\ Len(s) \in Nat /\ Len(t) \in Nat
      /\ DOMAIN u = 1..(Len(s) + Len(t))
      /\ DOMAIN s = 1..Len(s)
      /\ DOMAIN t = 1..Len(t)
      /\ \A i \in 1..(Len(s) + Len(t)) : u[i] = IF i <= Len(s) THEN s[i] ELSE t[i - Len(s)]
  OBVIOUS
<1> HIDE DEF u
<1>2. ASSUME NEW i \in DOMAIN u
      PROVE  \/ i \in DOMAIN s /\ u[i] = s[i]
             \/ i - Len(s) \in DOMAIN t /\ u[i] = t[i - Len(s)]
  BY <1>1
<1>3. ASSUME NEW i \in DOMAIN s PROVE i \in DOMAIN u /\ u[i] = s[i]
  BY <1>1
<1>4. ASSUME NEW i \in DOMAIN t PROVE Len(s) + i \in DOMAIN u /\ u[Len(s) + i] = t[i]
  <2>1. Len(s) + i \in 1..(Len(s) + Len(t)) /\ ~(Len(s) + i <= Len(s)) /\ (Len(s) + i) - Len(s) = i
    BY <1>1
  <2> QED
    BY <1>1, <2>1
<1>5. ToSet(u) = ToSet(s) \cup ToSet(t)
  <2>1. ToSet(u) \subseteq ToSet(s) \cup ToSet(t)
    BY <1>2 DEF ToSet
  <2>2. ToSet(s) \subseteq ToSet(u) /\ ToSet(t) \subseteq ToSet(u)
    BY <1>3, <1>4 DEF ToSet
  <2> QED
    BY <2>1, <2>2
<1>6. IsInjective(u)
  <2> SUFFICES ASSUME NEW a \in DOMAIN u, NEW b \in DOMAIN u, u[a] = u[b]
               PROVE  a = b
    BY DEF IsInjective
  <2>1. a \in Int /\ b \in Int
    BY <1>1
  <2>2. CASE a \in DOMAIN s /\ u[a] = s[a]
    <3>1. b \in DOMAIN s /\ u[b] = s[b]
      BY <1>2, <2>2 DEF ToSet
    <3> QED
      BY <2>2, <3>1 DEF IsInjective
  <2>3. CASE a - Len(s) \in DOMAIN t /\ u[a] = t[a - Len(s)]
    <3>1. b - Len(s) \in DOMAIN t /\ u[b] = t[b - Len(s)]
      BY <1>2, <2>3 DEF ToSet
    <3>2. a - Len(s) = b - Len(s)
      BY <2>3, <3>1 DEF IsInjective
    <3> QED
      BY <1>1, <2>1, <3>2
  <2> QED
    BY <1>2, <2>2, <2>3
<1> QED
  BY <1>1, <1>5, <1>6 DEF u
LEMMA SizeOfInterval ==
  ASSUME NEW k \in Nat
  PROVE  IsFiniteSet(1..k) /\ Cardinality(1..k) = k
<1>1. IsFiniteSet(1..k) /\ Cardinality(1..k) = IF 1 > k THEN 0 ELSE k - 1 + 1
  BY FS_Interval
<1> QED
  BY <1>1

LEMMA SizeOfImage ==
  ASSUME NEW L, NEW s \in Seq(L), IsInjective(s)
  PROVE  IsFiniteSet(ToSet(s)) /\ Cardinality(ToSet(s)) = Len(s)
<1>1. Len(s) \in Nat /\ DOMAIN s = 1..Len(s) /\ s = [i \in 1..Len(s) |-> s[i]]
  OBVIOUS
<1>2. s \in Bijection(1..Len(s), ToSet(s))
  BY <1>1 DEF Bijection, Injection, Surjection, IsInjective, ToSet
<1>3. ExistsBijection(1..Len(s), ToSet(s))
  BY <1>2 DEF ExistsBijection
<1>4. IsFiniteSet(1..Len(s)) /\ Cardinality(1..Len(s)) = Len(s)
  BY <1>1, SizeOfInterval
<1> QED
  BY <1>3, <1>4, FS_Bijection

-----------------------------------------------------------------------------
(***************************************************************************)
(* What a list of stages has the type of, and what follows for the tables  *)
(* made of it.                                                             *)
(***************************************************************************)
ListsOf(Labels) == Seq([name : Labels, requires : Seq(Labels)])

LEMMA Tables ==
  ASSUME NEW Labels, stages \in ListsOf(Labels)
  PROVE  /\ order \in Seq(Names) /\ Len(order) = Len(stages) /\ ToSet(order) = Names
         /\ \A n \in Names : \E s \in DOMAIN stages : stageMap[n] = stages[s]
         /\ \A n \in Names : /\ stageMap[n].requires \in Seq(Labels)
                             /\ Requires(n) = {} <=> stageMap[n].requires = <<>>
<1>1. /\ Len(stages) \in Nat
      /\ DOMAIN stages = 1..Len(stages)
      /\ \A s \in DOMAIN stages : stages[s].requires \in Seq(Labels)
  <2>1. PICK Stage : Stage = [name : Labels, requires : Seq(Labels)]
    OBVIOUS
  <2>2. stages \in Seq(Stage)
    BY <2>1 DEF ListsOf
  <2>3. /\ Len(stages) \in Nat
        /\ DOMAIN stages = 1..Len(stages)
        /\ \A s \in DOMAIN stages : stages[s] \in Stage
    BY <2>2
  <2> QED
    BY <2>1, <2>3
<1>2. order \in Seq(Names) /\ Len(order) = Len(stages)
  BY <1>1 DEF order, Names
<1>3. ToSet(order) = Names
  BY DEF order, Names, ToSet
<1>4. ASSUME NEW n \in Names PROVE \E s \in DOMAIN stages : stageMap[n] = stages[s]
  <2>1. stageMap[n] = CHOOSE st \in ToSet(stages) : st.name = n
    BY DEF stageMap
  <2>2. \E st \in ToSet(stages) : st.name = n
    BY DEF Names, NameAt, ToSet
  <2>3. stageMap[n] \in ToSet(stages)
    BY <2>1, <2>2
  <2> QED
    BY <2>3 DEF ToSet
<1>5. ASSUME NEW n \in Names
      PROVE  /\ stageMap[n].requires \in Seq(Labels)
             /\ Requires(n) = {} <=> stageMap[n].requires = <<>>
  <2>1. stageMap[n].requires \in Seq(Labels)
    BY <1>1, <1>4
  <2>2. ASSUME NEW t \in Seq(Labels) PROVE ToSet(t) = {} <=> t = <<>>
    <3>1. Len(t) \in Nat /\ DOMAIN t = 1..Len(t)
      OBVIOUS
    <3>2. CASE t = <<>>
      BY <3>2 DEF ToSet
    <3>3. CASE t # <<>>
      <4>1. 1 \in DOMAIN t
        BY <3>1, <3>3
      <4> QED
        BY <3>3, <4>1 DEF ToSet
    <3> QED
      BY <3>2, <3>3
  <2> QED
    BY <2>1, <2>2 DEF Requires
<1> QED
  BY <1>2, <1>3, <1>4, <1>5

-----------------------------------------------------------------------------
(***************************************************************************)
(* The invariant.  While stages are taken, the stages in out stand behind  *)
(* what they require, ready holds exactly the others that could stand      *)
(* next, and the counters say how many mentions are not met yet.           *)
(***************************************************************************)
Unmet(n) ==
  {j \in DOMAIN stageMap[n].requires : stageMap[n].requires[j] \notin ToSet(out)}

Checked == IsInjective(order) /\ \A n \in Names : Requires(n) \subseteq Names

OutIsSorted == out \in Seq(Names) /\ IsInjective(out) /\ InOrder(out)

CouldBeNext == {n \in Names \ ToSet(out) : Requires(n) \subseteq ToSet(out)}

ReadyIsNext == ready \in Seq(Names) /\ IsInjective(ready) /\ ToSet(ready) = CouldBeNext

DegreesCount == inDegree = [n \in Names |-> Cardinality(Unmet(n))]

Sorting == Checked /\ OutIsSorted /\ ReadyIsNext /\ DegreesCount

IInv ==
  /\ stages \in StageLists
  /\ sorting = "check" => out = <<>> /\ why = "none"
  /\ sorting = "sort" => why = "none"
  /\ sorting \in {"sort", "done"} \/ why = "cycle" => Sorting
  /\ sorting = "done" => ready = <<>> /\ Len(out) = Len(stages) /\ why = "none"
  /\ why = "cycle" => ready = <<>> /\ Len(out) # Len(stages)

LEMMA InitIInv == SortInit => IInv
  BY DEF SortInit, IInv

(***************************************************************************)
(* The mentions of a stage in a list of requirements.                      *)
(***************************************************************************)
LEMMA UnmetIsFinite ==
  ASSUME NEW Labels, stages \in ListsOf(Labels), NEW n \in Names
  PROVE  /\ IsFiniteSet(DOMAIN stageMap[n].requires)
         /\ Cardinality(DOMAIN stageMap[n].requires) = Len(stageMap[n].requires)
         /\ IsFiniteSet(Unmet(n))
<1>1. stageMap[n].requires \in Seq(Labels)
  BY Tables
<1>2. PICK t \in Seq(Labels) : t = stageMap[n].requires
  BY <1>1
<1>3. Len(t) \in Nat /\ DOMAIN t = 1..Len(t)
  OBVIOUS
<1>4. IsFiniteSet(DOMAIN t) /\ Cardinality(DOMAIN t) = Len(t)
  BY <1>3, SizeOfInterval
<1>5. Unmet(n) \in SUBSET DOMAIN t
  BY <1>2 DEF Unmet
<1> QED
  BY <1>2, <1>4, <1>5, FS_Subset

(***************************************************************************)
(* The tables are of the argument alone.                                   *)
(***************************************************************************)
LEMMA SameTables ==
  ASSUME stages' = stages
  PROVE  /\ Names' = Names /\ order' = order /\ stageMap' = stageMap
         /\ \A n : Requires(n)' = Requires(n)
         /\ Checked' <=> Checked
         /\ \A list : InOrder(list)' <=> InOrder(list)
<1>1. Names' = Names /\ order' = order /\ stageMap' = stageMap
  BY DEF Names, order, stageMap, NameAt
<1>2. \A n : Requires(n)' = Requires(n)
  BY <1>1 DEF Requires
<1> QED
  BY <1>1, <1>2 DEF Checked, InOrder

LEMMA NoNameTwice ==
  ASSUME NEW Labels, stages \in ListsOf(Labels), NamesOK
  PROVE  IsInjective(order)
<1>1. DOMAIN stages = 1..Len(stages) /\ Len(stages) \in Nat
  BY DEF ListsOf
<1> SUFFICES ASSUME NEW r \in DOMAIN stages, NEW s \in DOMAIN stages, NameAt(r) = NameAt(s)
             PROVE  r = s
  BY DEF IsInjective, order
<1>2. ~(r < s) /\ ~(s < r)
  BY <1>1 DEF NamesOK, Repeated
<1> QED
  BY <1>1, <1>2

LEMMA StartSorts ==
  ASSUME NEW Labels, stages \in ListsOf(Labels), IInv, Start
  PROVE  Sorting'
<1>1. stages' = stages /\ out = <<>> /\ out' = <<>>
  BY DEF IInv, Start
<1>2. Names' = Names /\ stageMap' = stageMap /\ \A n : Requires(n)' = Requires(n)
  BY <1>1, SameTables
<1>3. IsInjective(order)
  BY NoNameTwice DEF Start
<1>4. ASSUME NEW n \in Names PROVE Requires(n) \subseteq Names
  <2>1. PICK s \in DOMAIN stages : stageMap[n] = stages[s]
    BY Tables
  <2> QED
    BY <2>1 DEF Requires, Start
<1>5. Checked'
  BY <1>1, <1>3, <1>4, SameTables DEF Checked
<1>6. ToSet(<<>>) = {} /\ IsInjective(<<>>) /\ <<>> \in Seq(Names)
  BY DEF ToSet, IsInjective
<1>7. OutIsSorted'
  <2>1. InOrder(<<>>)
    BY DEF InOrder
  <2>2. InOrder(out)'
    BY <1>1, <2>1, SameTables
  <2> QED
    BY <1>1, <1>2, <1>6, <2>2 DEF OutIsSorted
<1>8. ReadyIsNext'
  <2>1. PICK S : S = {n \in Names : stageMap[n].requires = <<>>}
    OBVIOUS
  <2>2. ready' = Selected(order, S)
    BY <2>1 DEF Start
  <2>3. ready' \in Seq(Names) /\ IsInjective(ready') /\ ToSet(ready') = Names \cap S
    BY <1>3, <2>2, Tables, SelectedFacts
  <2>4. \A n \in Names : n \in S <=> Requires(n) = {}
    BY <2>1, Tables
  <2>5. CouldBeNext' = {n \in Names \ ToSet(<<>>) : Requires(n) \subseteq ToSet(<<>>)}
    BY <1>1, <1>2 DEF CouldBeNext
  <2>6. CouldBeNext' = Names \cap S
    BY <1>6, <2>1, <2>4, <2>5
  <2> QED
    BY <1>2, <2>3, <2>6 DEF ReadyIsNext
<1>9. DegreesCount'
  <2>1. ASSUME NEW n \in Names
        PROVE  Unmet(n)' = DOMAIN stageMap[n].requires
    BY <1>1, <1>2, <1>6 DEF Unmet
  <2>2. ASSUME NEW n \in Names
        PROVE  Cardinality(Unmet(n)') = Len(stageMap[n].requires)
    BY <2>1, UnmetIsFinite
  <2>3. inDegree' = [n \in Names |-> Len(stageMap[n].requires)]
    BY DEF Start
  <2> QED
    BY <1>2, <2>2, <2>3 DEF DegreesCount
<1> QED
  BY <1>5, <1>7, <1>8, <1>9 DEF Sorting

(***************************************************************************)
(* One turn.  The stage taken requires nothing that is not out, so it can  *)
(* stand last.                                                             *)
(***************************************************************************)
LEMMA TakenIsNext ==
  ASSUME Sorting, ready # <<>>
  PROVE  /\ Head(ready) \in Names \ ToSet(out)
         /\ Requires(Head(ready)) \subseteq ToSet(out)
         /\ Tail(ready) \in Seq(Names)
         /\ IsInjective(Tail(ready))
         /\ ToSet(Tail(ready)) = CouldBeNext \ {Head(ready)}
<1>1. ready \in Seq(Names) /\ IsInjective(ready) /\ ToSet(ready) = CouldBeNext
  BY DEF Sorting, ReadyIsNext
<1>2. /\ Head(ready) \in CouldBeNext
      /\ Tail(ready) \in Seq(Names)
      /\ IsInjective(Tail(ready))
      /\ ToSet(Tail(ready)) = CouldBeNext \ {Head(ready)}
  BY <1>1, WithoutHead
<1> QED
  BY <1>2 DEF CouldBeNext

LEMMA PopKeepsOrder ==
  ASSUME Sorting, Pop
  PROVE  OutIsSorted' /\ ToSet(out') = ToSet(out) \cup {Head(ready)}
<1>1. out \in Seq(Names) /\ IsInjective(out) /\ InOrder(out)
  BY DEF Sorting, OutIsSorted
<1>2. PICK name : name = Head(ready)
  OBVIOUS
<1>3. name \in Names /\ name \notin ToSet(out) /\ Requires(name) \subseteq ToSet(out)
  BY <1>2, TakenIsNext DEF Pop
<1>4. out' = Append(out, name) /\ stages' = stages
  BY <1>2 DEF Pop
<1>5. out' \in Seq(Names) /\ IsInjective(out') /\ ToSet(out') = ToSet(out) \cup {name}
  BY <1>1, <1>3, <1>4, AppendNew
<1>6. /\ Len(out) \in Nat
      /\ DOMAIN out = 1..Len(out)
      /\ DOMAIN out' = 1..(Len(out) + 1)
      /\ \A x \in 1..Len(out) : out'[x] = out[x]
      /\ out'[Len(out) + 1] = name
  BY <1>1, <1>3, <1>4
<1>7. InOrder(out')
  <2> SUFFICES ASSUME NEW x \in 1..(Len(out) + 1)
               PROVE  Requires(out'[x]) \subseteq {out'[y] : y \in 1..(x - 1)}
    BY <1>6 DEF InOrder
  <2>1. {out'[y] : y \in 1..(x - 1)} = {out[y] : y \in 1..(x - 1)}
    <3>1. \A y \in 1..(x - 1) : y \in 1..Len(out)
      BY <1>6
    <3> QED
      BY <1>6, <3>1
  <2>2. CASE x = Len(out) + 1
    <3>1. 1..(x - 1) = DOMAIN out /\ out'[x] = name
      BY <1>6, <2>2
    <3> QED
      BY <1>3, <2>1, <3>1 DEF ToSet
  <2>3. CASE x # Len(out) + 1
    <3>1. x \in DOMAIN out /\ out'[x] = out[x]
      BY <1>6, <2>3
    <3> QED
      BY <1>1, <2>1, <3>1 DEF InOrder
  <2> QED
    BY <2>2, <2>3
<1>8. InOrder(out)'
  BY <1>4, <1>7, SameTables
<1> QED
  BY <1>2, <1>4, <1>5, <1>8, SameTables DEF OutIsSorted

(***************************************************************************)
(* The mentions of the stage taken are the ones that become met.           *)
(***************************************************************************)
MentionsOf(n, req) ==
  {j \in DOMAIN stageMap[n].requires : stageMap[n].requires[j] = req}

LEMMA PopMeetsMentions ==
  ASSUME NEW Labels, stages \in ListsOf(Labels), Sorting, Pop, NEW n \in Names
  PROVE  /\ Unmet(n)' = Unmet(n) \ MentionsOf(n, Head(ready))
         /\ Cardinality(Unmet(n)') = inDegree[n] - Mentions(n, Head(ready))
         /\ Mentions(n, Head(ready)) > 0 <=> Head(ready) \in Requires(n)
         /\ inDegree[n] = Mentions(n, Head(ready)) <=> Unmet(n)' = {}
<1>1. PICK name : name = Head(ready)
  OBVIOUS
<1>2. PICK M : M = MentionsOf(n, name)
  OBVIOUS
<1>3. PICK U : U = Unmet(n)
  OBVIOUS
<1>4. name \notin ToSet(out) /\ ToSet(out') = ToSet(out) \cup {name} /\ stages' = stages
  BY <1>1, TakenIsNext, PopKeepsOrder DEF Pop
<1>5. M \subseteq U
  BY <1>2, <1>3, <1>4 DEF MentionsOf, Unmet
<1>6. Unmet(n)' = U \ M
  <2>1. stageMap' = stageMap
    BY <1>4, SameTables
  <2> QED
    BY <1>2, <1>3, <1>4, <2>1 DEF MentionsOf, Unmet
<1>7. IsFiniteSet(U) /\ IsFiniteSet(M)
  <2>1. IsFiniteSet(U)
    BY <1>3, UnmetIsFinite
  <2> QED
    BY <1>5, <2>1, FS_Subset
<1>8. Mentions(n, name) = Cardinality(M)
  BY <1>2 DEF Mentions, MentionsOf
<1>9. inDegree[n] = Cardinality(U)
  BY <1>3 DEF Sorting, DegreesCount
<1>10. Cardinality(U \ M) = Cardinality(U) - Cardinality(M) /\ IsFiniteSet(U \ M)
  <2>1. U \cap M = M
    BY <1>5
  <2> QED
    BY <1>7, <2>1, FS_Difference
<1>11. /\ Cardinality(U) \in Nat /\ Cardinality(M) \in Nat
       /\ Cardinality(M) = 0 <=> M = {}
       /\ Cardinality(U \ M) = 0 <=> U \ M = {}
  BY <1>7, <1>10, FS_CardinalityType, FS_EmptySet
<1>12. M # {} <=> name \in Requires(n)
  BY <1>2 DEF MentionsOf, Requires, ToSet
<1> QED
  BY <1>1, <1>2, <1>3, <1>6, <1>8, <1>9, <1>10, <1>11, <1>12

LEMMA PopKeepsReady ==
  ASSUME NEW Labels, stages \in ListsOf(Labels), Sorting, Pop
  PROVE  ReadyIsNext'
<1>1. PICK name : name = Head(ready)
  OBVIOUS
<1>2. PICK met : met = {n \in Names : /\ Mentions(n, name) > 0
                                      /\ inDegree[n] = Mentions(n, name)}
  OBVIOUS
<1>3. /\ ready' = Tail(ready) \o Selected(order, met)
      /\ stages' = stages
      /\ Names' = Names /\ \A n : Requires(n)' = Requires(n)
  BY <1>1, <1>2, SameTables DEF Pop
<1>4. /\ name \in Names \ ToSet(out)
      /\ Requires(name) \subseteq ToSet(out)
      /\ Tail(ready) \in Seq(Names)
      /\ IsInjective(Tail(ready))
      /\ ToSet(Tail(ready)) = CouldBeNext \ {name}
  BY <1>1, TakenIsNext DEF Pop
<1>5. ToSet(out') = ToSet(out) \cup {name}
  BY <1>1, PopKeepsOrder
<1>6. ASSUME NEW n \in Names
      PROVE  n \in met <=> name \in Requires(n) /\ Requires(n) \subseteq ToSet(out')
  <2>1. Unmet(n)' = {} <=> Requires(n) \subseteq ToSet(out')
    <3>1. stageMap' = stageMap
      BY <1>3, SameTables
    <3> QED
      BY <3>1 DEF Unmet, Requires, ToSet
  <2>2. /\ Mentions(n, name) > 0 <=> name \in Requires(n)
        /\ inDegree[n] = Mentions(n, name) <=> Unmet(n)' = {}
    BY <1>1, PopMeetsMentions
  <2> QED
    BY <1>2, <2>1, <2>2
<1>7. ASSUME NEW n \in Names, name \in Requires(n) PROVE n \notin ToSet(out) /\ n # name
  <2>1. ASSUME n \in ToSet(out) PROVE Requires(n) \subseteq ToSet(out)
    BY <2>1 DEF Sorting, OutIsSorted, InOrder, ToSet
  <2> QED
    BY <1>4, <1>7, <2>1
<1>8. /\ Selected(order, met) \in Seq(Names)
      /\ IsInjective(Selected(order, met))
      /\ ToSet(Selected(order, met)) = met
  <2>1. order \in Seq(Names) /\ ToSet(order) = Names /\ IsInjective(order)
    BY Tables DEF Sorting, Checked
  <2>2. Names \cap met = met
    BY <1>2
  <2> QED
    BY <2>1, <2>2, SelectedFacts
<1>9. ToSet(Tail(ready)) \cap met = {}
  BY <1>2, <1>4, <1>6 DEF CouldBeNext
<1>10. /\ ready' \in Seq(Names) /\ IsInjective(ready')
       /\ ToSet(ready') = (CouldBeNext \ {name}) \cup met
  <2>1. PICK s, t : s = Tail(ready) /\ t = Selected(order, met)
    OBVIOUS
  <2>2. PICK L : L = Names
    OBVIOUS
  <2>3. /\ s \in Seq(L) /\ t \in Seq(L) /\ IsInjective(s) /\ IsInjective(t)
        /\ ToSet(s) \cap ToSet(t) = {}
    BY <1>4, <1>8, <1>9, <2>1, <2>2
  <2>4. s \o t \in Seq(L) /\ IsInjective(s \o t) /\ ToSet(s \o t) = ToSet(s) \cup ToSet(t)
    BY <2>3, Joined
  <2> QED
    BY <1>3, <1>4, <1>8, <2>1, <2>2, <2>4
<1>11. CouldBeNext' = {n \in Names \ ToSet(out') : Requires(n) \subseteq ToSet(out')}
  BY <1>3 DEF CouldBeNext
<1>12. ASSUME NEW n \in Names
       PROVE  n \in CouldBeNext' <=> n \in (CouldBeNext \ {name}) \cup met
  <2>1. CASE name \in Requires(n)
    BY <1>4, <1>5, <1>6, <1>7, <1>11, <2>1 DEF CouldBeNext
  <2>2. CASE name \notin Requires(n)
    BY <1>5, <1>6, <1>11, <2>2 DEF CouldBeNext
  <2> QED
    BY <2>1, <2>2
<1>13. CouldBeNext' = (CouldBeNext \ {name}) \cup met
  <2>1. CouldBeNext' \subseteq Names /\ CouldBeNext \subseteq Names /\ met \subseteq Names
    BY <1>2, <1>11 DEF CouldBeNext
  <2> QED
    BY <1>12, <2>1
<1> QED
  BY <1>3, <1>10, <1>13 DEF ReadyIsNext

LEMMA PopKeepsSorting ==
  ASSUME NEW Labels, stages \in ListsOf(Labels), Sorting, Pop
  PROVE  Sorting'
<1>1. Checked'
  BY SameTables DEF Sorting, Pop
<1>2. DegreesCount'
  <2>1. inDegree' = [n \in Names |-> inDegree[n] - Mentions(n, Head(ready))]
    BY DEF Pop
  <2>2. Names' = Names
    BY SameTables DEF Pop
  <2>3. \A n \in Names : Cardinality(Unmet(n)') = inDegree[n] - Mentions(n, Head(ready))
    BY PopMeetsMentions
  <2> QED
    BY <2>1, <2>2, <2>3 DEF DegreesCount
<1> QED
  BY <1>1, <1>2, PopKeepsOrder, PopKeepsReady DEF Sorting

LEMMA StepIInv ==
  ASSUME NEW Labels, StageLists \subseteq ListsOf(Labels), IInv, [SortNext]_sortVars
  PROVE  IInv'
<1>1. stages \in ListsOf(Labels)
  BY DEF IInv
<1>2. CASE BadName
  BY <1>2 DEF IInv, BadName, Fail
<1>3. CASE MissingRequirement
  BY <1>3 DEF IInv, MissingRequirement, Fail
<1>4. CASE Start
  <2>1. Sorting'
    BY <1>1, <1>4, StartSorts
  <2> QED
    BY <1>4, <2>1 DEF IInv, Start
<1>5. CASE Pop
  <2>1. Sorting'
    BY <1>1, <1>5, PopKeepsSorting DEF IInv, Pop
  <2> QED
    BY <1>5, <2>1 DEF IInv, Pop
<1>6. ASSUME UNCHANGED <<stages, inDegree, ready, out>> PROVE Sorting' <=> Sorting
  <2>1. stages' = stages /\ inDegree' = inDegree /\ ready' = ready /\ out' = out
    BY <1>6
  <2>2. /\ Names' = Names /\ order' = order /\ stageMap' = stageMap
        /\ \A n : Requires(n)' = Requires(n)
        /\ Checked' <=> Checked
        /\ InOrder(out)' <=> InOrder(out)
    BY <2>1, SameTables
  <2>3. \A n : Unmet(n)' = Unmet(n)
    BY <2>1, <2>2 DEF Unmet
  <2>4. CouldBeNext' = CouldBeNext
    BY <2>1, <2>2 DEF CouldBeNext
  <2> QED
    BY <2>1, <2>2, <2>3, <2>4 DEF Sorting, OutIsSorted, ReadyIsNext, DegreesCount
<1>7. CASE Return
  BY <1>6, <1>7 DEF IInv, Return
<1>8. CASE CycleFound
  BY <1>6, <1>8 DEF IInv, CycleFound, Fail
<1>9. CASE UNCHANGED sortVars
  BY <1>6, <1>9 DEF IInv, sortVars
<1> QED
  BY <1>2, <1>3, <1>4, <1>5, <1>7, <1>8, <1>9 DEF SortNext, Returned

-----------------------------------------------------------------------------
(***************************************************************************)
(* What the invariant says at the end.  The stages are as many as their    *)
(* names, so an order as long as the list leaves none out.                 *)
(***************************************************************************)
LEMMA AllOut ==
  ASSUME NEW Labels, stages \in ListsOf(Labels), Sorting
  PROVE  /\ IsFiniteSet(Names) /\ Cardinality(Names) = Len(stages)
         /\ Len(out) = Len(stages) <=> ToSet(out) = Names
<1>1. PICK L : L = Names
  OBVIOUS
<1>2. PICK k, o : k = order /\ o = out
  OBVIOUS
<1>3. /\ k \in Seq(L) /\ IsInjective(k) /\ ToSet(k) = L /\ Len(k) = Len(stages)
      /\ o \in Seq(L) /\ IsInjective(o)
  BY <1>1, <1>2, Tables DEF Sorting, Checked, OutIsSorted
<1>4. IsFiniteSet(L) /\ Cardinality(L) = Len(stages)
  BY <1>3, SizeOfImage
<1>5. Cardinality(ToSet(o)) = Len(o)
  BY <1>3, SizeOfImage
<1>6. ToSet(o) \in SUBSET L
  BY <1>3 DEF ToSet
<1>7. Cardinality(L) = Cardinality(ToSet(o)) => L = ToSet(o)
  BY <1>4, <1>6, FS_Subset
<1> QED
  BY <1>1, <1>2, <1>4, <1>5, <1>7

LEMMA TopologicalByIInv ==
  ASSUME NEW Labels, StageLists \subseteq ListsOf(Labels), IInv
  PROVE  OrderIsTopological
<1> SUFFICES ASSUME sorting = "done"
             PROVE  ToSet(out) = Names /\ IsInjective(out) /\ InOrder(out)
  BY DEF OrderIsTopological
<1>1. stages \in ListsOf(Labels) /\ Sorting /\ Len(out) = Len(stages)
  BY DEF IInv
<1> QED
  BY <1>1, AllOut DEF Sorting, OutIsSorted

(***************************************************************************)
(* If an order f respects what the stages require, the first stage of f    *)
(* that is not out requires only stages that are, so it would be ready.    *)
(***************************************************************************)
LEMMA CycleByIInv ==
  ASSUME NEW Labels, StageLists \subseteq ListsOf(Labels), IInv
  PROVE  CycleIsReal
<1> SUFFICES ASSUME why = "cycle", NEW f \in Orders, InOrder(f)
             PROVE  FALSE
  BY DEF CycleIsReal
<1>1. /\ stages \in ListsOf(Labels) /\ Sorting
      /\ ready = <<>> /\ Len(out) # Len(stages)
  BY DEF IInv
<1>2. /\ IsFiniteSet(Names) /\ Cardinality(Names) = Len(stages) /\ ToSet(out) # Names
      /\ Len(stages) \in Nat
  BY <1>1, AllOut, FS_CardinalityType
<1>3. PICK N, m : N = Names /\ m = Len(stages)
  OBVIOUS
<1>4. f \in Surjection(1..m, N)
  <2>1. f \in Injection(1..m, N) /\ m \in Nat
    BY <1>2, <1>3 DEF Orders, Injection
  <2>2. IsFiniteSet(N) /\ Cardinality(N) = m
    BY <1>2, <1>3
  <2>3. Cardinality(1..m) = m
    BY <2>1, SizeOfInterval
  <2> QED
    BY <2>1, <2>2, <2>3, FS_Injection
<1>5. DOMAIN f = 1..m /\ m \in Nat /\ \A x \in 1..m : f[x] \in Names
  BY <1>2, <1>3 DEF Orders
<1>6. PICK T : T = {x \in 1..m : f[x] \notin ToSet(out)}
  OBVIOUS
<1>7. T # {}
  <2>1. PICK n \in Names : n \notin ToSet(out)
    <3>1. ToSet(out) \subseteq Names
      BY <1>1 DEF Sorting, OutIsSorted, ToSet
    <3> QED
      BY <1>2, <3>1
  <2>2. \E x \in 1..m : f[x] = n
    BY <1>3, <1>4, <2>1 DEF Surjection
  <2> QED
    BY <1>6, <2>1, <2>2
<1>8. PICK x \in T : \A y \in T : x <= y
  <2>1. T \subseteq Nat
    BY <1>5, <1>6
  <2> QED
    BY <1>7, <2>1, LeastNat
<1>9. ASSUME NEW y \in 1..(x - 1) PROVE f[y] \in ToSet(out)
  BY <1>5, <1>6, <1>8
<1>10. Requires(f[x]) \subseteq ToSet(out)
  <2>1. Requires(f[x]) \subseteq {f[y] : y \in 1..(x - 1)}
    BY <1>5, <1>6, <1>8 DEF InOrder
  <2> QED
    BY <1>9, <2>1
<1>11. f[x] \in ToSet(ready)
  BY <1>1, <1>5, <1>6, <1>8, <1>10 DEF Sorting, ReadyIsNext, CouldBeNext
<1> QED
  BY <1>1, <1>11 DEF ToSet

-----------------------------------------------------------------------------
(***************************************************************************)
(* StageOrder of formatter/stage.go sorts every list of stages that can be *)
(* sorted: an order it returns has every stage once, each behind all it    *)
(* requires, and it reports a cycle only where no order would do, whatever *)
(* the number of stages, the names and the requirements named twice.       *)
(***************************************************************************)
THEOREM SortsUnlessCyclic ==
  ASSUME NEW Labels, StageLists \subseteq ListsOf(Labels)
  PROVE  SortSpec => []SortedUnlessCyclic
<1>1. SortInit => IInv
  BY InitIInv
<1>2. IInv /\ [SortNext]_sortVars => IInv'
  BY StepIInv
<1>3. IInv => SortedUnlessCyclic
  BY TopologicalByIInv, CycleByIInv DEF SortedUnlessCyclic
<1> QED
  BY <1>1, <1>2, <1>3, PTL DEF SortSpec

-----------------------------------------------------------------------------
(***************************************************************************)
(* Hypotheses.  Nodes are numbered and have the fields the stage looks at; *)
(* what is in the file begins on one of its lines; and there is a number   *)
(* of empty lines above every line.                                        *)
(***************************************************************************)
HasLines(t, g) ==
  /\ Len(t.ends) \in Nat
  /\ DOMAIN t.ends = 1..Len(t.ends)
  /\ DOMAIN t.nodes \subseteq Nat \ {0}
  /\ \A n \in DOMAIN t.nodes : "type" \in DOMAIN t.nodes[n] /\ t.nodes[n].first \in DOMAIN t.ends
  /\ g \in [DOMAIN t.ends -> Nat]

TextsHaveLines == \A t \in Texts : \A g \in Gaps(t) : HasLines(t, g)

(***************************************************************************)
(* Going up over comments ends below a line that is none, or is not next.  *)
(***************************************************************************)
GoesOn(g, k) == k > 1 /\ g[k] = 0 /\ k - 1 \in text.comments

IsStart(g, f) == f = [k \in Lines |-> IF GoesOn(g, k) THEN f[k - 1] ELSE k]

LEMMA StartExists ==
  ASSUME NEW g, HasLines(text, g)
  PROVE  \E f : IsStart(g, f)
<1>1. PICK N \in Nat : Lines = 1..N
  BY DEF HasLines, Lines
<1> DEFINE Top(k, s) == s \in 1..k /\ ~GoesOn(g, s) /\ \A j \in (s + 1)..k : GoesOn(g, j)
           S == {k \in 0..N : k = 0 \/ \E s : Top(k, s)}
<1>2. 0 \in S
  OBVIOUS
<1>3. ASSUME NEW k \in 0..N, k \in S, k < N PROVE k + 1 \in S
  <2>1. CASE GoesOn(g, k + 1)
    <3>1. k # 0
      BY <2>1 DEF GoesOn
    <3>2. PICK s : Top(k, s)
      BY <1>3, <3>1
    <3> HIDE DEF GoesOn
    <3>3. Top(k + 1, s)
      BY <2>1, <3>2
    <3> QED
      BY <1>3, <3>3
  <2>2. CASE ~GoesOn(g, k + 1)
    <3>1. Top(k + 1, k + 1)
      BY <2>2
    <3> QED
      BY <1>3, <3>1
  <2> QED
    BY <2>1, <2>2
<1>4. \A k \in 0..N : k \in S
  <2> HIDE DEF S
  <2> QED
    BY <1>2, <1>3, InductionUpTo
<1>5. PICK f : f = [k \in 1..N |-> CHOOSE s : Top(k, s)]
  OBVIOUS
<1> HIDE DEF GoesOn
<1>6. ASSUME NEW k \in 1..N PROVE Top(k, f[k])
  <2>1. \E s : Top(k, s)
    BY <1>4
  <2>2. f[k] = CHOOSE s : Top(k, s)
    BY <1>5
  <2> HIDE DEF Top
  <2> QED
    BY <2>1, <2>2
<1>7. ASSUME NEW k \in 1..N PROVE f[k] = IF GoesOn(g, k) THEN f[k - 1] ELSE k
  <2>1. CASE ~GoesOn(g, k)
    BY <1>6, <2>1
  <2>2. CASE GoesOn(g, k)
    <3>1. k - 1 \in 1..N
      BY <2>2 DEF GoesOn
    <3>2. Top(k, f[k]) /\ Top(k - 1, f[k - 1])
      BY <1>6, <3>1
    <3> QED
      BY <2>2, <3>1, <3>2
  <2> QED
    BY <2>1, <2>2
<1>8. f = [k \in 1..N |-> f[k]]
  BY <1>5
<1>9. IsStart(g, f)
  BY <1>1, <1>7, <1>8 DEF IsStart
<1> QED
  BY <1>9

LEMMA StartIsBelowNoComment ==
  ASSUME NEW g, HasLines(text, g), NEW l \in Lines
  PROVE  ~GoesOn(g, leadingCommentBlockLineStart(g, l))
<1>1. PICK N \in Nat : Lines = 1..N
  BY DEF HasLines, Lines
<1>2. PICK f : f = CHOOSE h : IsStart(g, h)
  OBVIOUS
<1>3. IsStart(g, f)
  BY <1>2, StartExists
<1>4. leadingCommentBlockLineStart(g, l) = f[l]
  BY <1>2 DEF leadingCommentBlockLineStart, IsStart, GoesOn
<1> DEFINE S == {k \in 0..N : k = 0 \/ ~GoesOn(g, f[k])}
<1>5. 0 \in S
  OBVIOUS
<1>6. ASSUME NEW k \in 0..N, k \in S, k < N PROVE k + 1 \in S
  <2>1. f[k + 1] = IF GoesOn(g, k + 1) THEN f[k] ELSE k + 1
    BY <1>1, <1>3, <1>6 DEF IsStart
  <2>2. k = 0 => ~GoesOn(g, k + 1)
    BY DEF GoesOn
  <2> HIDE DEF GoesOn
  <2> QED
    BY <1>6, <2>1, <2>2
<1>7. \A k \in 0..N : k \in S
  <2> HIDE DEF S
  <2> QED
    BY <1>5, <1>6, InductionUpTo
<1> QED
  BY <1>1, <1>4, <1>7

(***************************************************************************)
(* What one insertion and one removal do to the empty lines above a line.  *)
(***************************************************************************)
LEMMA InsertFacts ==
  ASSUME NEW g, HasLines(text, g), NEW p
  PROVE  /\ HasLines(text, Insert(g, p))
         /\ \A l \in Lines : Insert(g, p)[l] > g[l] => l = p /\ l # 1 /\ g[l] = 0
<1>1. CASE p \in Lines
  BY <1>1 DEF HasLines, Insert, hasBlankLineBeforeLineStart, Lines
<1>2. CASE p \notin Lines
  <2>1. Insert(g, p) = g
    BY <1>2 DEF HasLines, Insert, Lines
  <2> QED
    BY <2>1 DEF HasLines, Lines
<1> QED
  BY <1>1, <1>2

LEMMA RemoveFacts ==
  ASSUME NEW g, HasLines(text, g), NEW p
  PROVE  /\ HasLines(text, removeBlankBeforeLineStart(g, p))
         /\ \A l \in Lines : removeBlankBeforeLineStart(g, p)[l] <= g[l]
<1>1. CASE p \in Lines
  BY <1>1 DEF HasLines, removeBlankBeforeLineStart, Lines
<1>2. CASE p \notin Lines
  <2>1. removeBlankBeforeLineStart(g, p) = g
    BY <1>2 DEF HasLines, removeBlankBeforeLineStart, Lines
  <2> QED
    BY <2>1 DEF HasLines, Lines
<1> QED
  BY <1>1, <1>2

(***************************************************************************)
(* Where a node gets its empty line, no comment is cut off: the place is   *)
(* above the comments that touch the node, or the node is a clause behind  *)
(* an empty one.                                                           *)
(***************************************************************************)
StaysClear(g, l) ==
  ~GoesOn(g, l) \/ \E n \in DOMAIN text.nodes : LineOf(n) = l /\ AfterEmptyClause(TreeAt(g), n)

LEMMA CommentsAreAbove ==
  ASSUME NEW g, HasLines(text, g), NEW n \in DOMAIN text.nodes
  PROVE  StaysClear(g, leadingCommentBlockLineStart(g, LineOf(n)))
<1>1. LineOf(n) \in Lines
  BY DEF HasLines, LineOf, Lines
<1> QED
  BY <1>1, StartIsBelowNoComment DEF StaysClear

LEMMA ClauseIsClear ==
  ASSUME NEW g, HasLines(text, g), NEW n \in DOMAIN text.nodes
  PROVE  StaysClear(g, ClauseLine(TreeAt(g), g, n))
<1>1. CASE AfterEmptyClause(TreeAt(g), n)
  BY <1>1 DEF ClauseLine, StaysClear
<1>2. CASE ~AfterEmptyClause(TreeAt(g), n)
  BY <1>2, CommentsAreAbove DEF ClauseLine
<1> QED
  BY <1>1, <1>2

LEMMA PlaceIsClear ==
  ASSUME NEW g, HasLines(text, g), NEW n \in DOMAIN text.nodes
  PROVE  StaysClear(g, PlaceFor(TreeAt(g), g, n))
  BY CommentsAreAbove, ClauseIsClear DEF PlaceFor

(***************************************************************************)
(* A rewrite of a rule: it leaves a number of empty lines above every      *)
(* line, and a line that gets more is clear.                               *)
(***************************************************************************)
Careful(g, h) ==
  /\ HasLines(text, h)
  /\ \A l \in Lines : h[l] > g[l] => l # 1 /\ g[l] = 0 /\ StaysClear(g, l)

LEMMA BatchIsCareful ==
  ASSUME NEW g, HasLines(text, g)
  PROVE  Careful(g, BlankLinesBatch(g))
<1>1. PICK T, removed, inserted : T = TreeAt(g) /\ removed = Removed(T, g) /\ inserted = Inserted(T, g)
  OBVIOUS
<1>2. PICK h : h = BlankLinesBatch(g)
  OBVIOUS
<1>3. h = [l \in Lines |-> IF l \in removed /\ g[l] > 0 THEN removeBlankBeforeLineStart(g, l)[l]
                           ELSE IF l \in inserted THEN Insert(g, l)[l] ELSE g[l]]
  BY <1>1, <1>2 DEF BlankLinesBatch
<1>4. ASSUME NEW l \in Lines PROVE h[l] \in Nat /\ (h[l] > g[l] => l # 1 /\ g[l] = 0 /\ StaysClear(g, l))
  <2>1. CASE l \in removed /\ g[l] > 0
    <3>1. h[l] = removeBlankBeforeLineStart(g, l)[l]
      BY <1>3, <2>1
    <3> QED
      BY <3>1, RemoveFacts DEF HasLines, Lines
  <2>2. CASE ~(l \in removed /\ g[l] > 0) /\ l \in inserted
    <3>1. h[l] = Insert(g, l)[l]
      BY <1>3, <2>2
    <3>2. StaysClear(g, l)
      <4>1. PICK n \in NodesOf(T) : l = PlaceFor(T, g, n)
        BY <1>1, <2>2 DEF Inserted
      <4>2. n \in DOMAIN text.nodes
        BY <1>1 DEF NodesOf, TreeAt
      <4> QED
        BY <1>1, <4>1, <4>2, PlaceIsClear
    <3> QED
      BY <3>1, <3>2, InsertFacts DEF HasLines, Lines
  <2>3. CASE ~(l \in removed /\ g[l] > 0) /\ l \notin inserted
    BY <1>3, <2>3 DEF HasLines, Lines
  <2> QED
    BY <2>1, <2>2, <2>3
<1>5. HasLines(text, h)
  BY <1>3, <1>4 DEF HasLines, Lines
<1> QED
  BY <1>2, <1>4, <1>5 DEF Careful

LEMMA NothingIsCareful ==
  ASSUME NEW g, HasLines(text, g)
  PROVE  Careful(g, g)
  BY DEF Careful, HasLines, Lines

LEMMA InsertIsCareful ==
  ASSUME NEW g, HasLines(text, g), NEW p, p \in Lines => StaysClear(g, p)
  PROVE  Careful(g, Insert(g, p))
  BY InsertFacts DEF Careful

(***************************************************************************)
(* The rules for single nodes, what they do, and the first that works.     *)
(***************************************************************************)
Actions == {"InsertBlankBefore", "InsertBlankBeforeClause", "InsertBlankBeforeFirstStmtInBlock"}

Listed == 2..Len(BlankLineRulesWithOptions(ExtraIfErr))

LEMMA Sixth ==
  ASSUME NEW a, NEW b, NEW c, NEW d, NEW e, NEW f
  PROVE  /\ Len(<<a, b, c, d, e>> \o <<f>>) = 6
         /\ <<a, b, c, d, e>> \o <<f>> = <<a, b, c, d, e, f>>
         /\ <<a, b, c, d, e>> \o <<>> = <<a, b, c, d, e>>
<1>1. PICK S : S = {a, b, c, d, e, f}
  OBVIOUS
<1>2. <<a, b, c, d, e>> \in Seq(S) /\ <<f>> \in Seq(S)
  BY <1>1
<1>3. PICK s, t : s = <<a, b, c, d, e>> \o <<f>> /\ t = <<a, b, c, d, e, f>>
  OBVIOUS
<1>4. s \in Seq(S) /\ t \in Seq(S) /\ Len(s) = 6 /\ Len(t) = 6
  BY <1>1, <1>2, <1>3
<1>5. /\ s[1] = a /\ s[2] = b /\ s[3] = c /\ s[4] = d /\ s[5] = e /\ s[6] = f
      /\ t[1] = a /\ t[2] = b /\ t[3] = c /\ t[4] = d /\ t[5] = e /\ t[6] = f
  BY <1>2, <1>3
<1>6. \A i \in 1..6 : s[i] = t[i]
  BY <1>5
<1>7. s = t
  BY <1>4, <1>6
<1>8. <<a, b, c, d, e>> \o <<>> = <<a, b, c, d, e>>
  BY <1>2
<1> QED
  BY <1>3, <1>4, <1>7, <1>8

LEMMA InFront ==
  ASSUME NEW S, NEW s \in Seq(S), NEW V, NEW t \in Seq(V)
  PROVE  /\ DOMAIN (s \o t) = 1..(Len(s) + Len(t)) /\ Len(s \o t) = Len(s) + Len(t)
         /\ \A i \in 1..Len(s) : (s \o t)[i] = s[i]
         /\ \A i \in (Len(s) + 1)..(Len(s) + Len(t)) : (s \o t)[i] = t[i - Len(s)]
<1>1. PICK U : U = S \cup V
  OBVIOUS
<1>2. s \in Seq(U) /\ t \in Seq(U)
  BY <1>1
<1> QED
  BY <1>2

LEMMA ListedRules ==
  /\ BlankLineRulesWithOptions(ExtraIfErr) =
       IF ExtraIfErr
         THEN <<blank_lines_batch, blank_before_case, blank_before_comm_clause, blank_before_return,
                blank_between_interface_methods, blank_before_if_err_return>>
         ELSE <<blank_lines_batch, blank_before_case, blank_before_comm_clause, blank_before_return,
                blank_between_interface_methods>>
  BY Sixth DEF BlankLineRulesWithOptions, BlankLineRules

LEMMA ListedAreFirst ==
  /\ Len(StageRules) \in Nat
  /\ Listed \subseteq 2..Len(StageRules)
  /\ \A i \in Listed : StageRules[i] = BlankLineRulesWithOptions(ExtraIfErr)[i]
  /\ \A i \in 2..Len(StageRules) : i \in Listed \/ \E j \in 1..3 : StageRules[i] = AfterHeaderRules[j]
<1>1. PICK s, S : s = BlankLineRulesWithOptions(ExtraIfErr) /\ s \in Seq(S)
  <2>1. PICK S : S = {blank_lines_batch, blank_before_case, blank_before_comm_clause,
                      blank_before_return, blank_between_interface_methods, blank_before_if_err_return}
    OBVIOUS
  <2>2. /\ blank_lines_batch \in S /\ blank_before_case \in S /\ blank_before_comm_clause \in S
        /\ blank_before_return \in S /\ blank_between_interface_methods \in S
        /\ blank_before_if_err_return \in S
    BY <2>1
  <2>3. BlankLineRulesWithOptions(ExtraIfErr) \in Seq(S)
    <3>1. CASE ExtraIfErr
      <4>1. <<blank_lines_batch, blank_before_case, blank_before_comm_clause, blank_before_return,
              blank_between_interface_methods, blank_before_if_err_return>> \in Seq(S)
        BY <2>2
      <4> QED
        BY <3>1, <4>1, ListedRules, Zenon
    <3>2. CASE ~ExtraIfErr
      BY <2>2, <3>2, ListedRules
    <3> QED
      BY <3>1, <3>2
  <2> QED
    BY <2>3
<1>2. PICK t, V : t = AfterHeaderRules /\ t \in Seq(V) /\ Len(t) = 3
  <2>1. AfterHeaderRules \in Seq({AfterHeaderRules[i] : i \in 1..3}) /\ Len(AfterHeaderRules) = 3
    BY DEF AfterHeaderRules
  <2> QED
    BY <2>1
<1>3. StageRules = s \o t
  BY <1>1, <1>2 DEF StageRules
<1>4. Len(s) \in Nat /\ Listed = 2..Len(s)
  BY <1>1 DEF Listed
<1>5. /\ DOMAIN (s \o t) = 1..(Len(s) + Len(t)) /\ Len(s \o t) = Len(s) + Len(t)
      /\ \A i \in 1..Len(s) : (s \o t)[i] = s[i]
      /\ \A i \in (Len(s) + 1)..(Len(s) + Len(t)) : (s \o t)[i] = t[i - Len(s)]
  <2>1. s \in Seq(S) /\ t \in Seq(V)
    BY <1>1, <1>2
  <2> QED
    BY <2>1, InFront, Zenon
<1>6. ASSUME NEW i \in 2..Len(StageRules), i \notin Listed PROVE \E j \in 1..3 : StageRules[i] = t[j]
  <2>1. i \in (Len(s) + 1)..(Len(s) + Len(t)) /\ i - Len(s) \in 1..3
    BY <1>2, <1>3, <1>4, <1>5, <1>6
  <2> QED
    BY <1>3, <1>5, <2>1
<1> QED
  BY <1>1, <1>2, <1>3, <1>4, <1>5, <1>6

LEMMA RuleActs ==
  ASSUME NEW i \in 2..Len(StageRules)
  PROVE  StageRules[i].actions[1] \in Actions
<1>1. CASE i \in Listed
  <2>1. PICK r : r = StageRules[i]
    OBVIOUS
  <2>2. r \in {blank_before_case, blank_before_comm_clause, blank_before_return,
               blank_between_interface_methods, blank_before_if_err_return}
    BY <1>1, <2>1, ListedAreFirst, ListedRules DEF Listed
  <2>3. r.actions \in {<<"InsertBlankBefore">>, <<"InsertBlankBeforeClause">>}
    BY <2>2 DEF blank_before_case, blank_before_comm_clause, blank_before_return,
                blank_between_interface_methods, blank_before_if_err_return, Rule
  <2> QED
    BY <2>1, <2>3 DEF Actions
<1>2. CASE i \notin Listed
  <2>1. PICK j \in 1..3 : StageRules[i] = AfterHeaderRules[j]
    BY <1>2, ListedAreFirst
  <2>2. AfterHeaderRules[j].actions = <<"InsertBlankBeforeFirstStmtInBlock">>
    BY DEF AfterHeaderRules, AfterHeader, Rule
  <2> QED
    BY <2>1, <2>2 DEF Actions
<1> QED
  BY <1>1, <1>2

LEMMA NodeRuleIsARule ==
  ASSUME NEW g, NEW n
  PROVE  \/ /\ NodeRule(g, n) = g
            /\ \A i \in 2..Len(StageRules) : ByRule(TreeAt(g), g, n, StageRules[i]) = g
         \/ /\ NodeRule(g, n) # g
            /\ \E i \in 2..Len(StageRules) : NodeRule(g, n) = ByRule(TreeAt(g), g, n, StageRules[i])
<1>1. PICK T, working : T = TreeAt(g) /\ working = Working(T, g, n)
  OBVIOUS
<1>2. NodeRule(g, n) = IF working = {} THEN g ELSE ByRule(T, g, n, StageRules[Min(working)])
  BY <1>1 DEF NodeRule
<1>3. working = {i \in 2..Len(StageRules) : ByRule(T, g, n, StageRules[i]) # g}
  BY <1>1 DEF Working
<1>4. CASE working = {}
  BY <1>1, <1>2, <1>3, <1>4
<1>5. CASE working # {}
  <2>1. working \subseteq Nat
    BY <1>3, ListedAreFirst
  <2>2. \E x \in working : \A y \in working : x <= y
    BY <1>5, <2>1, LeastNat
  <2>3. Min(working) \in working
    BY <2>2 DEF Min
  <2> QED
    BY <1>1, <1>2, <1>3, <1>5, <2>3
<1> QED
  BY <1>4, <1>5

LEMMA ActionIsCareful ==
  ASSUME NEW g, HasLines(text, g), NEW n \in DOMAIN text.nodes, NEW action \in Actions
  PROVE  Careful(g, Execute(TreeAt(g), g, n, action))
<1>1. PICK T : T = TreeAt(g)
  OBVIOUS
<1>2. CASE action = "InsertBlankBefore"
  BY <1>2, CommentsAreAbove, InsertIsCareful DEF Execute
<1>3. CASE action = "InsertBlankBeforeClause"
  <2>1. Careful(g, Insert(g, ClauseLine(T, g, n)))
    BY <1>1, ClauseIsClear, InsertIsCareful
  <2> QED
    BY <1>1, <1>3, <2>1, NothingIsCareful DEF Execute
<1>4. CASE action = "InsertBlankBeforeFirstStmtInBlock"
  <2>1. PICK p : p = leadingCommentBlockLineStart(g, LineOf(FirstStmt(T, n)))
    OBVIOUS
  <2>2. ASSUME FirstStmt(T, n) # None PROVE StaysClear(g, p)
    <3>1. NodesOf(T) \subseteq Nat /\ NodesOf(T) = DOMAIN text.nodes
      BY <1>1 DEF NodesOf, TreeAt, HasLines
    <3>2. FirstStmt(T, n) \in DOMAIN text.nodes
      BY <2>2, <3>1, ChildIsNode DEF FirstStmt
    <3> QED
      BY <2>1, <3>2, CommentsAreAbove
  <2>3. FirstStmt(T, n) # None => Careful(g, Insert(g, p))
    BY <2>2, InsertIsCareful
  <2>4. Careful(g, removeBlankBeforeLineStart(g, p))
    <3>1. \A l \in Lines : ~(removeBlankBeforeLineStart(g, p)[l] > g[l])
      BY RemoveFacts DEF HasLines, Lines
    <3> QED
      BY <3>1, RemoveFacts DEF Careful
  <2>5. InsertBlankBeforeFirstStmtInBlock(T, g, n) \in
          {g, removeBlankBeforeLineStart(g, p)} \cup
            IF FirstStmt(T, n) # None THEN {Insert(g, p)} ELSE {}
    BY <2>1 DEF InsertBlankBeforeFirstStmtInBlock
  <2> QED
    BY <1>1, <1>4, <2>3, <2>4, <2>5, NothingIsCareful DEF Execute
<1> QED
  BY <1>2, <1>3, <1>4 DEF Actions

LEMMA NodeRuleIsCareful ==
  ASSUME NEW g, HasLines(text, g), NEW n \in DOMAIN text.nodes
  PROVE  Careful(g, NodeRule(g, n))
<1>1. CASE NodeRule(g, n) = g
  BY <1>1, NothingIsCareful
<1>2. CASE NodeRule(g, n) # g
  <2>1. PICK i \in 2..Len(StageRules) : NodeRule(g, n) = ByRule(TreeAt(g), g, n, StageRules[i])
    BY <1>2, NodeRuleIsARule
  <2> QED
    BY <2>1, RuleActs, ActionIsCareful, NothingIsCareful DEF ByRule
<1> QED
  BY <1>1, <1>2

LEMMA SqueezedIsCareful ==
  ASSUME NEW g, HasLines(text, g)
  PROVE  Careful(g, Squeezed(g))
  BY DEF Careful, Squeezed, HasLines, Lines

-----------------------------------------------------------------------------
GapInv == HasLines(text, gap)

LEMMA GapInit == TextsHaveLines /\ BlanksInit => GapInv
  BY DEF TextsHaveLines, BlanksInit, GapInv

LEMMA GapStep ==
  ASSUME GapInv, BlanksNext
  PROVE  text' = text /\ Careful(gap, gap')
<1>1. CASE Batch
  BY <1>1, BatchIsCareful DEF Batch, Rewrite, GapInv
<1>2. CASE OneNode
  BY <1>2, NodeRuleIsCareful DEF OneNode, Rewrite, GapInv
<1>3. CASE EndPass
  BY <1>3, SqueezedIsCareful DEF EndPass, GapInv
<1> QED
  BY <1>1, <1>2, <1>3 DEF BlanksNext

(***************************************************************************)
(* A rule never puts an empty line between a comment and the statement it  *)
(* touches, but above a clause behind an empty one (BlankLinesBatchAction, *)
(* InsertBlankBeforeAction and the action for multi-line headers), in      *)
(* every file.                                                             *)
(***************************************************************************)
THEOREM NoCommentIsCutOff ==
  ASSUME TextsHaveLines
  PROVE  BlanksSpec => CommentsStayAttached
<1>1. GapInv /\ [BlanksNext]_blanksVars => GapInv'
  <2>1. ASSUME GapInv, BlanksNext PROVE GapInv'
    BY <2>1, GapStep DEF GapInv, Careful
  <2>2. GapInv /\ UNCHANGED blanksVars => GapInv'
    BY DEF GapInv, blanksVars
  <2> QED
    BY <2>1, <2>2
<1>2. GapInv /\ [BlanksNext]_blanksVars => [\A l \in Lines : ~CutsComment(l)]_blanksVars
  <2>1. ASSUME GapInv, BlanksNext, NEW l \in Lines, CutsComment(l) PROVE FALSE
    <3>1. StaysClear(gap, l)
      BY <2>1, GapStep DEF Careful, CutsComment
    <3>2. l \in Nat /\ l > 1 /\ gap[l] = 0
      <4>1. l # 1 /\ gap[l] = 0
        BY <2>1, GapStep DEF Careful, CutsComment
      <4> QED
        BY <2>1, <4>1 DEF GapInv, HasLines, Lines
    <3>3. GoesOn(gap, l)
      BY <2>1, <3>2 DEF CutsComment, GoesOn
    <3> QED
      BY <2>1, <3>1, <3>3 DEF StaysClear, CutsComment
  <2> QED
    BY <2>1
<1> QED
  BY GapInit, <1>1, <1>2, PTL DEF BlanksSpec, CommentsStayAttached

(***************************************************************************)
(* What the rules that insert ask of a node, read off their tables.        *)
(***************************************************************************)
LEMMA AskedOfNode ==
  ASSUME NEW T, NEW n, n # None, NEW p, NEW cond
  PROVE  Eval(T, Captures(T, n, p), Is(cond)) <=> Truth(T, n, Is(cond))
<1>1. PICK caps : caps = Captures(T, n, p)
  OBVIOUS
<1>2. "node" \in DOMAIN caps /\ caps["node"] = n
  BY <1>1, Zenon DEF Captures
<1>3. PICK lit : lit = Is(cond)
  OBVIOUS
<1>4. lit.of = "node" /\ lit.want = TRUE
  BY <1>3 DEF Is
<1>5. resolveTarget(caps, lit.of) = n
  BY <1>2, <1>4 DEF resolveTarget
<1> QED
  BY <1>1, <1>3, <1>4, <1>5 DEF Eval

LEMMA ConditionOf ==
  ASSUME NEW T, NEW n, NEW lit
  PROVE  /\ lit.cond = "HasPrecedingSibling" => (Truth(T, n, lit) <=> HasPrecedingSibling(T, n))
         /\ lit.cond = "IsReturnNeedingBlank" => (Truth(T, n, lit) <=> IsReturnNeedingBlank(T, n))
         /\ lit.cond = "IsInterfaceMethod" => (Truth(T, n, lit) <=> IsInterfaceMethod(T, n))
         /\ lit.cond = "HasPrecedingInterfaceField"
              => (Truth(T, n, lit) <=> HasPrecedingInterfaceField(T, n))
         /\ lit.cond = "IsIfErrReturnNeedingBlank"
              => (Truth(T, n, lit) <=> IsIfErrReturnNeedingBlank(T, n))
<1>1. lit.cond = "HasPrecedingSibling" => (Truth(T, n, lit) <=> HasPrecedingSibling(T, n))
  BY DEF Truth
<1>2. lit.cond = "IsReturnNeedingBlank" => (Truth(T, n, lit) <=> IsReturnNeedingBlank(T, n))
  BY DEF Truth
<1>3. lit.cond = "IsInterfaceMethod" => (Truth(T, n, lit) <=> IsInterfaceMethod(T, n))
  BY DEF Truth
<1>4. lit.cond = "HasPrecedingInterfaceField"
        => (Truth(T, n, lit) <=> HasPrecedingInterfaceField(T, n))
  BY DEF Truth
<1>5. lit.cond = "IsIfErrReturnNeedingBlank"
        => (Truth(T, n, lit) <=> IsIfErrReturnNeedingBlank(T, n))
  BY DEF Truth
<1> QED
  BY <1>1, <1>2, <1>3, <1>4, <1>5

LEMMA AppliesIf ==
  ASSUME NEW T, NEW n, n # None, NEW name, NEW type, NEW cond, NEW priority, NEW actions
  PROVE  Applies(T, n, Rule(name, Node(type), All(<<Is(cond)>>), priority, actions))
           <=> matchType(T, n, type) /\ Truth(T, n, Is(cond))
<1>1. PICK r : r = Rule(name, Node(type), All(<<Is(cond)>>), priority, actions)
  OBVIOUS
<1>2. r.pattern.type = type /\ r.pattern.fields = <<>> /\ r.when = <<<<Is(cond)>>>>
  BY <1>1 DEF Rule, Node, All
<1>3. Matches(T, n, r.pattern) <=> matchType(T, n, type)
  BY <1>2 DEF Matches, ToSet
<1>4. Eval(T, Captures(T, n, r.pattern), Is(cond)) <=> Truth(T, n, Is(cond))
  BY AskedOfNode
<1> QED
  BY <1>1, <1>2, <1>3, <1>4 DEF Applies

LEMMA AppliesIfBoth ==
  ASSUME NEW T, NEW n, n # None, NEW name, NEW type, NEW cond, NEW other, NEW priority, NEW actions
  PROVE  Applies(T, n, Rule(name, Node(type), All(<<Is(cond), Is(other)>>), priority, actions))
           <=> matchType(T, n, type) /\ Truth(T, n, Is(cond)) /\ Truth(T, n, Is(other))
<1>1. PICK r : r = Rule(name, Node(type), All(<<Is(cond), Is(other)>>), priority, actions)
  OBVIOUS
<1>2. r.pattern.type = type /\ r.pattern.fields = <<>> /\ r.when = <<<<Is(cond)>>, <<Is(other)>>>>
  BY <1>1 DEF Rule, Node, All
<1>3. Matches(T, n, r.pattern) <=> matchType(T, n, type)
  BY <1>2 DEF Matches, ToSet
<1>4. \A c \in {cond, other} : Eval(T, Captures(T, n, r.pattern), Is(c)) <=> Truth(T, n, Is(c))
  BY AskedOfNode
<1> QED
  BY <1>1, <1>2, <1>3, <1>4 DEF Applies

LEMMA WhenRulesApply ==
  ASSUME NEW T, NEW n, n # None
  PROVE  /\ Applies(T, n, blank_before_case)
              <=> Type(T, n) = "CaseClause" /\ HasPrecedingSibling(T, n)
         /\ ~Applies(T, n, blank_before_comm_clause)
         /\ Applies(T, n, blank_before_return)
              <=> Type(T, n) = "ReturnStmt" /\ IsReturnNeedingBlank(T, n)
         /\ Applies(T, n, blank_between_interface_methods)
              <=> Type(T, n) = "Field" /\ IsInterfaceMethod(T, n) /\ HasPrecedingInterfaceField(T, n)
         /\ Applies(T, n, blank_before_if_err_return)
              <=> Type(T, n) = "IfStmt" /\ IsIfErrReturnNeedingBlank(T, n)
<1>1. /\ Truth(T, n, Is("HasPrecedingSibling")) <=> HasPrecedingSibling(T, n)
      /\ Truth(T, n, Is("IsReturnNeedingBlank")) <=> IsReturnNeedingBlank(T, n)
      /\ Truth(T, n, Is("IsInterfaceMethod")) <=> IsInterfaceMethod(T, n)
      /\ Truth(T, n, Is("HasPrecedingInterfaceField")) <=> HasPrecedingInterfaceField(T, n)
      /\ Truth(T, n, Is("IsIfErrReturnNeedingBlank")) <=> IsIfErrReturnNeedingBlank(T, n)
  <2>1. \A cond : Is(cond).cond = cond
    BY DEF Is
  <2> QED
    BY <2>1, ConditionOf
<1>2. /\ \A type \in {"CaseClause", "ReturnStmt", "Field", "IfStmt"} :
           matchType(T, n, type) <=> Type(T, n) = type
      /\ ~matchType(T, n, "CommClause")
  BY DEF matchType, KnownTypes
<1> QED
  BY <1>1, <1>2, AppliesIf, AppliesIfBoth
     DEF blank_before_case, blank_before_comm_clause, blank_before_return,
         blank_between_interface_methods, blank_before_if_err_return

(***************************************************************************)
(* A rule that inserts works where the batch asks for a line, and at the   *)
(* same place; and but for the clauses of a select, some rule works        *)
(* wherever the batch asks.                                                *)
(***************************************************************************)
LEMMA RuleAsks ==
  ASSUME NEW T, NEW g, NEW n, n # None, NEW i \in Listed
  PROVE  \/ ByRule(T, g, n, StageRules[i]) = g
         \/ AsksForBlank(T, n) /\ ByRule(T, g, n, StageRules[i]) = Insert(g, PlaceFor(T, g, n))
<1>1. PICK r : r = StageRules[i]
  OBVIOUS
<1>2. \/ r \in {blank_before_case, blank_before_comm_clause, blank_before_return,
                blank_between_interface_methods}
      \/ ExtraIfErr /\ r = blank_before_if_err_return
  BY <1>1, ListedAreFirst, ListedRules DEF Listed
<1>3. CASE ~Applies(T, n, r)
  BY <1>1, <1>3 DEF ByRule
<1>4. CASE Applies(T, n, r) /\ r = blank_before_case
  <2>1. r.actions[1] = "InsertBlankBeforeClause"
    BY <1>4 DEF blank_before_case, Rule
  <2>2. IsClause(T, n) /\ HasPrecedingSibling(T, n)
    BY <1>4, WhenRulesApply DEF IsClause
  <2> QED
    BY <1>1, <1>4, <2>1, <2>2 DEF ByRule, Execute, AsksForBlank, PlaceFor
<1>5. CASE Applies(T, n, r) /\ r # blank_before_case
  <2>1. r \in {blank_before_return, blank_between_interface_methods, blank_before_if_err_return}
    BY <1>2, <1>5, WhenRulesApply
  <2>2. r.actions[1] = "InsertBlankBefore"
    BY <2>1 DEF blank_before_return, blank_between_interface_methods, blank_before_if_err_return, Rule
  <2>3. Type(T, n) \in {"ReturnStmt", "Field", "IfStmt"} /\ AsksForBlank(T, n)
    BY <1>2, <1>5, <2>1, WhenRulesApply DEF AsksForBlank, IsReturnNeedingBlank
  <2> QED
    BY <1>1, <1>5, <2>2, <2>3 DEF ByRule, Execute, PlaceFor, IsClause
<1> QED
  BY <1>3, <1>4, <1>5

LEMMA RuleWorks ==
  ASSUME NEW T, NEW g, NEW n, n # None, AsksForBlank(T, n), Type(T, n) # "CommClause"
  PROVE  \E i \in Listed : ByRule(T, g, n, StageRules[i]) = Insert(g, PlaceFor(T, g, n))
<1>1. \E i \in Listed : Applies(T, n, StageRules[i])
  <2>1. /\ {2, 3, 4, 5} \subseteq Listed
        /\ StageRules[2] = blank_before_case /\ StageRules[4] = blank_before_return
        /\ StageRules[5] = blank_between_interface_methods
    BY ListedAreFirst, ListedRules DEF Listed
  <2>2. ExtraIfErr => 6 \in Listed /\ StageRules[6] = blank_before_if_err_return
    BY ListedAreFirst, ListedRules DEF Listed
  <2> QED
    BY <2>1, <2>2, WhenRulesApply DEF AsksForBlank, IsClause
<1>2. PICK i \in Listed : Applies(T, n, StageRules[i])
  BY <1>1
<1>3. PICK r : r = StageRules[i] /\ Applies(T, n, r)
  BY <1>2
<1>4. r \in {blank_before_case, blank_before_return, blank_between_interface_methods,
             blank_before_if_err_return}
  BY <1>3, ListedAreFirst, ListedRules, WhenRulesApply DEF Listed
<1>5. CASE r = blank_before_case
  <2>1. r.actions[1] = "InsertBlankBeforeClause"
    BY <1>5 DEF blank_before_case, Rule
  <2>2. Type(T, n) = "CaseClause"
    BY <1>3, <1>5, WhenRulesApply
  <2>3. SeparatesClause(T, n)
    BY <2>2 DEF AsksForBlank
  <2> QED
    BY <1>3, <2>1, <2>2, <2>3 DEF ByRule, Execute, PlaceFor, IsClause
<1>6. CASE r # blank_before_case
  <2>1. r.actions[1] = "InsertBlankBefore"
    BY <1>4, <1>6
       DEF blank_before_return, blank_between_interface_methods, blank_before_if_err_return, Rule
  <2>2. Type(T, n) \in {"ReturnStmt", "Field", "IfStmt"}
    BY <1>3, <1>4, <1>6, WhenRulesApply
  <2> QED
    BY <1>3, <2>1, <2>2 DEF ByRule, Execute, PlaceFor, IsClause
<1> QED
  BY <1>5, <1>6

(***************************************************************************)
(* The conditions and places written into the batch and those of the rule  *)
(* tables (BlankLinesBatchAction, BlankLineRulesWithOptions) name the same *)
(* lines of every file, but for the clauses of a select, which only the    *)
(* batch separates.                                                        *)
(***************************************************************************)
THEOREM BatchAndRulesAgree ==
  ASSUME TextsHaveLines
  PROVE  BlanksSpec => []BatchMatchesRules
<1>1. ASSUME GapInv PROVE BatchMatchesRules
  <2>1. PICK T, b : T = TreeAt(gap) /\ b = BlankLinesBatch(gap)
    OBVIOUS
  <2>2. \A l \in Lines : b[l] = IF l \in Removed(T, gap) /\ gap[l] > 0
                                  THEN removeBlankBeforeLineStart(gap, l)[l]
                                ELSE IF l \in Inserted(T, gap) THEN Insert(gap, l)[l] ELSE gap[l]
    BY <2>1 DEF BlankLinesBatch
  <2>3. HasLines(text, gap) /\ DOMAIN T.nodes = DOMAIN text.nodes
    BY <1>1, <2>1 DEF GapInv, TreeAt
  <2>4. \A n \in DOMAIN text.nodes : n # None
    BY <2>3 DEF HasLines, None
  <2>5. Filled(b) = {l \in Lines : l \in Inserted(T, gap) /\ Insert(gap, l)[l] > gap[l]}
    <3>1. ASSUME NEW l \in Lines
          PROVE  b[l] > gap[l] <=> l \in Inserted(T, gap) /\ Insert(gap, l)[l] > gap[l]
      <4>1. gap[l] \in Nat /\ removeBlankBeforeLineStart(gap, l)[l] \in Nat
        BY <2>3, RemoveFacts DEF HasLines, Lines
      <4>2. removeBlankBeforeLineStart(gap, l)[l] <= gap[l]
        BY <2>3, RemoveFacts
      <4>3. Insert(gap, l)[l] > gap[l] => gap[l] = 0
        BY <2>3, InsertFacts
      <4> QED
        BY <2>2, <4>1, <4>2, <4>3
    <3> QED
      BY <3>1 DEF Filled
  <2>6. ASSUME NEW n \in DOMAIN text.nodes, NEW i \in Listed
        PROVE  Filled(ByRule(T, gap, n, StageRules[i])) \subseteq Filled(b)
    <3>1. PICK p : p = PlaceFor(T, gap, n)
      OBVIOUS
    <3>2. CASE ByRule(T, gap, n, StageRules[i]) = gap
      BY <2>3, <3>2 DEF Filled, HasLines, Lines
    <3>3. CASE AsksForBlank(T, n) /\ ByRule(T, gap, n, StageRules[i]) = Insert(gap, p)
      <4>1. p \in Inserted(T, gap)
        BY <2>3, <3>1, <3>3 DEF Inserted, NodesOf
      <4>2. ASSUME NEW l \in Filled(Insert(gap, p)) PROVE l = p /\ l \in Lines /\ Insert(gap, l)[l] > gap[l]
        BY <2>3, InsertFacts DEF Filled
      <4> QED
        BY <2>5, <3>3, <4>1, <4>2
    <3> QED
      BY <2>4, <3>1, <3>2, <3>3, RuleAsks
  <2>7. ASSUME NEW l \in Filled(b) PROVE l \in FilledByRules \cup SelectLines
    <3>1. PICK n \in DOMAIN text.nodes : AsksForBlank(T, n) /\ l = PlaceFor(T, gap, n)
      BY <2>3, <2>5 DEF Inserted, NodesOf
    <3>2. CASE text.nodes[n].type = "CommClause"
      BY <2>1, <3>1, <3>2 DEF SelectLines
    <3>3. CASE text.nodes[n].type # "CommClause"
      <4>1. Type(T, n) # "CommClause"
        BY <2>1, <2>3, <2>4, <3>3 DEF Type, TreeAt, HasLines
      <4>2. PICK i \in Listed : ByRule(T, gap, n, StageRules[i]) = Insert(gap, l)
        BY <2>4, <3>1, <4>1, RuleWorks
      <4>3. l \in Filled(Insert(gap, l))
        BY <2>5 DEF Filled
      <4> QED
        BY <2>1, <4>2, <4>3 DEF FilledByRules, Listed
    <3> QED
      BY <3>2, <3>3
  <2> QED
    BY <2>1, <2>6, <2>7 DEF BatchMatchesRules, FilledByRules, Listed
<1>2. GapInv /\ [BlanksNext]_blanksVars => GapInv'
  <2>1. ASSUME GapInv, BlanksNext PROVE GapInv'
    BY <2>1, GapStep DEF GapInv, Careful
  <2>2. GapInv /\ UNCHANGED blanksVars => GapInv'
    BY DEF GapInv, blanksVars
  <2> QED
    BY <2>1, <2>2
<1> QED
  BY GapInit, <1>1, <1>2, PTL DEF BlanksSpec

-----------------------------------------------------------------------------
(***************************************************************************)
(* What the stage makes of a line depends on whether it has an empty line  *)
(* above it, not on how many, so gofmt's squeezing wakes no rule.          *)
(***************************************************************************)
LEMMA StartIsUnique ==
  ASSUME NEW g, HasLines(text, g), NEW f, IsStart(g, f), NEW h, IsStart(g, h)
  PROVE  f = h
<1>1. PICK N \in Nat : Lines = 1..N
  BY DEF HasLines, Lines
<1> DEFINE S == {k \in 0..N : k = 0 \/ f[k] = h[k]}
<1>2. 0 \in S
  OBVIOUS
<1>3. ASSUME NEW k \in 0..N, k \in S, k < N PROVE k + 1 \in S
  <2>1. k + 1 \in 1..N /\ (k + 1) - 1 = k
    BY <1>3
  <2>2. f[k + 1] = IF GoesOn(g, k + 1) THEN f[k] ELSE k + 1
    BY <1>1, <2>1 DEF IsStart
  <2>3. h[k + 1] = IF GoesOn(g, k + 1) THEN h[k] ELSE k + 1
    BY <1>1, <2>1 DEF IsStart
  <2>4. k = 0 => ~GoesOn(g, k + 1)
    BY DEF GoesOn
  <2> QED
    BY <1>3, <2>2, <2>3, <2>4
<1>4. \A k \in 0..N : k \in S
  <2> HIDE DEF S
  <2> QED
    BY <1>2, <1>3, InductionUpTo
<1>5. /\ f = [k \in Lines |-> IF GoesOn(g, k) THEN f[k - 1] ELSE k]
      /\ h = [k \in Lines |-> IF GoesOn(g, k) THEN h[k - 1] ELSE k]
  BY DEF IsStart
<1>6. f = [k \in Lines |-> f[k]] /\ h = [k \in Lines |-> h[k]]
  <2> HIDE DEF GoesOn
  <2> QED
    BY <1>5
<1>7. \A k \in Lines : f[k] = h[k]
  BY <1>1, <1>4
<1> QED
  BY <1>6, <1>7

LEMMA SqueezedFacts ==
  ASSUME NEW g, HasLines(text, g)
  PROVE  /\ HasLines(text, Squeezed(g)) /\ Squeezed(Squeezed(g)) = Squeezed(g)
         /\ \A l \in Lines : Squeezed(g)[l] > 0 <=> g[l] > 0
         /\ \A l \in Lines : Squeezed(g)[l] = 0 <=> g[l] = 0
  BY DEF HasLines, Squeezed, Lines

LEMMA SqueezedStart ==
  ASSUME NEW g, HasLines(text, g), NEW l
  PROVE  leadingCommentBlockLineStart(Squeezed(g), l) = leadingCommentBlockLineStart(g, l)
<1>1. PICK h : h = Squeezed(g)
  OBVIOUS
<1>2. HasLines(text, h) /\ \A k \in Lines : GoesOn(h, k) <=> GoesOn(g, k)
  BY <1>1, SqueezedFacts DEF GoesOn
<1>3. PICK a, b : a = (CHOOSE f : IsStart(g, f)) /\ b = (CHOOSE f : IsStart(h, f))
  OBVIOUS
<1>4. IsStart(g, a) /\ IsStart(h, b)
  BY <1>2, <1>3, StartExists
<1>5. IsStart(g, b)
  <2> HIDE DEF GoesOn
  <2> QED
    BY <1>2, <1>4 DEF IsStart
<1>6. a = b
  BY <1>4, <1>5, StartIsUnique
<1>7. leadingCommentBlockLineStart(g, l) = a[l]
  BY <1>3 DEF leadingCommentBlockLineStart, IsStart, GoesOn
<1>8. leadingCommentBlockLineStart(h, l) = b[l]
  BY <1>3 DEF leadingCommentBlockLineStart, IsStart, GoesOn
<1> QED
  BY <1>1, <1>6, <1>7, <1>8

LEMMA SqueezedTree ==
  ASSUME NEW g, HasLines(text, g)
  PROVE  TreeAt(Squeezed(g)) = TreeAt(g)
<1>1. PICK h : h = Squeezed(g)
  OBVIOUS
<1>2. \A n \in DOMAIN text.nodes : Above(h, LineOf(n)) = Above(g, LineOf(n))
  <2>1. ASSUME NEW l \in Lines PROVE Above(h, l) = Above(g, l)
    <3>1. l \in Nat /\ (h[l] > 0 <=> g[l] > 0) /\ (h[l] = 0 <=> g[l] = 0)
      BY <1>1, SqueezedFacts DEF HasLines, Lines
    <3> QED
      BY <3>1 DEF Above
  <2>2. \A n \in DOMAIN text.nodes : LineOf(n) \in Lines
    BY DEF HasLines, LineOf, Lines
  <2> QED
    BY <2>1, <2>2
<1>3. [n \in DOMAIN text.nodes |-> [text.nodes[n] EXCEPT !.above = Above(h, LineOf(n))]]
      = [n \in DOMAIN text.nodes |-> [text.nodes[n] EXCEPT !.above = Above(g, LineOf(n))]]
  BY <1>2
<1> QED
  BY <1>1, <1>3 DEF TreeAt

(***************************************************************************)
(* An insertion or a removal that changes nothing changes nothing behind   *)
(* gofmt.                                                                  *)
(***************************************************************************)
LEMMA InsertAgain ==
  ASSUME NEW g, HasLines(text, g), NEW p, p \in Lines => Insert(g, p)[p] = g[p]
  PROVE  Insert(Squeezed(g), p) = Squeezed(g)
<1>1. PICK h : h = Squeezed(g)
  OBVIOUS
<1>2. HasLines(text, h)
  BY <1>1, SqueezedFacts
<1>3. CASE p \in Lines
  <2>1. p = 1 \/ g[p] > 0
    BY <1>3 DEF HasLines, Insert, hasBlankLineBeforeLineStart, Lines
  <2>2. p = 1 \/ h[p] > 0
    BY <1>1, <1>3, <2>1, SqueezedFacts
  <2> QED
    BY <1>1, <2>2 DEF Insert, hasBlankLineBeforeLineStart
<1>4. CASE p \notin Lines
  BY <1>1, <1>2, <1>4 DEF HasLines, Insert, Lines
<1> QED
  BY <1>3, <1>4

LEMMA RemoveAgain ==
  ASSUME NEW g, HasLines(text, g), NEW p, p \in Lines => removeBlankBeforeLineStart(g, p)[p] = g[p]
  PROVE  removeBlankBeforeLineStart(Squeezed(g), p) = Squeezed(g)
<1>1. PICK h : h = Squeezed(g)
  OBVIOUS
<1>2. HasLines(text, h)
  BY <1>1, SqueezedFacts
<1>3. CASE p \in Lines
  <2>1. ~(p > 1 /\ g[p] > 0)
    BY <1>3 DEF HasLines, removeBlankBeforeLineStart, Lines
  <2>2. ~(p > 1 /\ h[p] > 0)
    BY <1>1, <1>3, <2>1, SqueezedFacts
  <2> QED
    BY <1>1, <2>2 DEF removeBlankBeforeLineStart
<1>4. CASE p \notin Lines
  BY <1>1, <1>2, <1>4 DEF HasLines, removeBlankBeforeLineStart, Lines
<1> QED
  BY <1>3, <1>4

LEMMA SqueezedPlaces ==
  ASSUME NEW g, HasLines(text, g), NEW T
  PROVE  /\ \A n : PlaceFor(T, Squeezed(g), n) = PlaceFor(T, g, n)
         /\ Inserted(T, Squeezed(g)) = Inserted(T, g)
         /\ Removed(T, Squeezed(g)) = Removed(T, g)
<1>1. \A n : PlaceFor(T, Squeezed(g), n) = PlaceFor(T, g, n)
  BY SqueezedStart DEF PlaceFor, ClauseLine
<1>2. Inserted(T, Squeezed(g)) = Inserted(T, g)
  BY <1>1 DEF Inserted
<1>3. Removed(T, Squeezed(g)) = Removed(T, g)
  BY SqueezedStart DEF Removed, BelowHeaders
<1> QED
  BY <1>1, <1>2, <1>3

LEMMA BatchStaysQuiet ==
  ASSUME NEW g, HasLines(text, g), BlankLinesBatch(g) = g
  PROVE  BlankLinesBatch(Squeezed(g)) = Squeezed(g)
<1>1. PICK T, removed, inserted, h :
        T = TreeAt(g) /\ removed = Removed(T, g) /\ inserted = Inserted(T, g) /\ h = Squeezed(g)
  OBVIOUS
<1>2. \A l \in Lines : g[l] = IF l \in removed /\ g[l] > 0 THEN removeBlankBeforeLineStart(g, l)[l]
                              ELSE IF l \in inserted THEN Insert(g, l)[l] ELSE g[l]
  <2>1. PICK b : b = BlankLinesBatch(g)
    OBVIOUS
  <2>2. b = [l \in Lines |-> IF l \in removed /\ g[l] > 0 THEN removeBlankBeforeLineStart(g, l)[l]
                             ELSE IF l \in inserted THEN Insert(g, l)[l] ELSE g[l]]
    BY <1>1, <2>1 DEF BlankLinesBatch
  <2>3. \A l \in Lines : b[l] = IF l \in removed /\ g[l] > 0 THEN removeBlankBeforeLineStart(g, l)[l]
                                ELSE IF l \in inserted THEN Insert(g, l)[l] ELSE g[l]
    BY <2>2
  <2> QED
    BY <2>1, <2>3
<1>3. BlankLinesBatch(h) = [l \in Lines |-> IF l \in removed /\ h[l] > 0 THEN removeBlankBeforeLineStart(h, l)[l]
                                            ELSE IF l \in inserted THEN Insert(h, l)[l] ELSE h[l]]
  BY <1>1, SqueezedTree, SqueezedPlaces DEF BlankLinesBatch
<1>4. ASSUME NEW l \in Lines
      PROVE  h[l] = IF l \in removed /\ h[l] > 0 THEN removeBlankBeforeLineStart(h, l)[l]
                    ELSE IF l \in inserted THEN Insert(h, l)[l] ELSE h[l]
  <2>1. h[l] > 0 <=> g[l] > 0
    BY <1>1, SqueezedFacts
  <2>2. CASE l \in removed /\ h[l] > 0
    <3>1. removeBlankBeforeLineStart(g, l)[l] = g[l]
      BY <1>2, <2>1, <2>2
    <3> QED
      BY <1>1, <2>2, <3>1, RemoveAgain
  <2>3. CASE ~(l \in removed /\ h[l] > 0) /\ l \in inserted
    <3>1. Insert(g, l)[l] = g[l]
      BY <1>2, <2>1, <2>3
    <3> QED
      BY <1>1, <2>3, <3>1, InsertAgain
  <2>4. CASE ~(l \in removed /\ h[l] > 0) /\ l \notin inserted
    BY <2>4
  <2> QED
    BY <2>2, <2>3, <2>4
<1>5. h = [l \in Lines |-> h[l]]
  BY <1>1 DEF Squeezed
<1> QED
  BY <1>1, <1>3, <1>4, <1>5

LEMMA ActionStaysQuiet ==
  ASSUME NEW g, HasLines(text, g), NEW T, NEW n, NEW action \in Actions, Execute(T, g, n, action) = g
  PROVE  Execute(T, Squeezed(g), n, action) = Squeezed(g)
<1>1. PICK h : h = Squeezed(g)
  OBVIOUS
<1>2. \A p : (Insert(g, p) = g => Insert(h, p) = h)
             /\ (removeBlankBeforeLineStart(g, p) = g => removeBlankBeforeLineStart(h, p) = h)
  BY <1>1, InsertAgain, RemoveAgain
<1>3. \A l : leadingCommentBlockLineStart(h, l) = leadingCommentBlockLineStart(g, l)
  BY <1>1, SqueezedStart
<1>4. CASE action = "InsertBlankBefore"
  BY <1>1, <1>2, <1>3, <1>4 DEF Execute
<1>5. CASE action = "InsertBlankBeforeClause"
  <2>1. ClauseLine(T, h, n) = ClauseLine(T, g, n)
    BY <1>3 DEF ClauseLine
  <2> QED
    BY <1>1, <1>2, <1>5, <2>1 DEF Execute
<1>6. CASE action = "InsertBlankBeforeFirstStmtInBlock"
  <2>1. PICK l : /\ l = leadingCommentBlockLineStart(g, LineOf(FirstStmt(T, n)))
                 /\ l = leadingCommentBlockLineStart(h, LineOf(FirstStmt(T, n)))
    BY <1>3
  <2>2. \A x : leadingCommentBlockLineStart(x, LineOf(FirstStmt(T, n))) = l =>
          Execute(T, x, n, action) =
            IF FirstStmt(T, n) = None THEN x
            ELSE IF OnlyReturn(T, n) THEN removeBlankBeforeLineStart(x, l) ELSE Insert(x, l)
    BY <1>6 DEF Execute, InsertBlankBeforeFirstStmtInBlock
  <2> QED
    BY <1>1, <1>2, <2>1, <2>2
<1> QED
  BY <1>4, <1>5, <1>6 DEF Actions

LEMMA RuleStaysQuiet ==
  ASSUME NEW g, HasLines(text, g), NEW n, NodeRule(g, n) = g
  PROVE  NodeRule(Squeezed(g), n) = Squeezed(g)
<1>1. PICK T, h : T = TreeAt(g) /\ h = Squeezed(g) /\ T = TreeAt(h)
  BY SqueezedTree
<1>2. ASSUME NEW i \in 2..Len(StageRules) PROVE ByRule(T, h, n, StageRules[i]) = h
  <2>1. PICK r : r = StageRules[i] /\ r.actions[1] \in Actions
    BY RuleActs
  <2>2. ByRule(T, g, n, r) = g
    BY <1>1, <2>1, NodeRuleIsARule
  <2>3. CASE Applies(T, n, r)
    BY <1>1, <2>1, <2>2, <2>3, ActionStaysQuiet DEF ByRule
  <2>4. CASE ~Applies(T, n, r)
    BY <2>1, <2>4 DEF ByRule
  <2> QED
    BY <2>3, <2>4
<1> QED
  BY <1>1, <1>2, NodeRuleIsARule

LEMMA QuietIsFixed ==
  ASSUME GapInv, Quiet
  PROVE  FixedPoint(Squeezed(gap))
<1>1. HasLines(text, gap) /\ BlankLinesBatch(gap) = gap /\ \A n \in DOMAIN text.nodes : NodeRule(gap, n) = gap
  BY DEF GapInv, Quiet, Changes
<1> QED
  BY <1>1, BatchStaysQuiet, RuleStaysQuiet, SqueezedFacts DEF FixedPoint

(***************************************************************************)
(* The rules look at the lines and the tree of the file, which stay.       *)
(***************************************************************************)
LEMMA SameLines ==
  ASSUME text' = text
  PROVE  Lines' = Lines /\ \A n : LineOf(n)' = LineOf(n)
  BY DEF Lines, LineOf

LEMMA SameTree ==
  ASSUME text' = text
  PROVE  \A g : TreeAt(g)' = TreeAt(g)
<1>1. \A g, l : Above(g, l)' = Above(g, l)
  BY DEF Above
<1>2. \A n : LeadComment(n)' = LeadComment(n)
  BY SMT DEF LeadComment, CommentBetween, LineOf
<1> QED
  BY <1>1, <1>2, SameLines DEF TreeAt

LEMMA SamePlaces ==
  ASSUME text' = text
  PROVE  /\ \A g, l : leadingCommentBlockLineStart(g, l)' = leadingCommentBlockLineStart(g, l)
         /\ \A T, n : SeparatesClause(T, n)' = SeparatesClause(T, n)
         /\ \A T, n : AsksForBlank(T, n)' = AsksForBlank(T, n)
         /\ \A T, g, n : ClauseLine(T, g, n)' = ClauseLine(T, g, n)
         /\ \A T, g, n : PlaceFor(T, g, n)' = PlaceFor(T, g, n)
<1>1. ASSUME NEW g, NEW l
      PROVE  leadingCommentBlockLineStart(g, l)' = leadingCommentBlockLineStart(g, l)
  BY DEF leadingCommentBlockLineStart, Lines
<1>2. \A a, b : CommentBetween(a, b)' = CommentBetween(a, b)
  BY DEF CommentBetween
<1>3. \A T, n : SeparatesClause(T, n)' = SeparatesClause(T, n)
  BY <1>2, SameLines DEF SeparatesClause
<1>4. \A T, n : AsksForBlank(T, n)' = AsksForBlank(T, n)
  BY <1>3 DEF AsksForBlank
<1>5. \A T, g, n : ClauseLine(T, g, n)' = ClauseLine(T, g, n)
  BY <1>1, SameLines DEF ClauseLine
<1>6. \A T, g, n : PlaceFor(T, g, n)' = PlaceFor(T, g, n)
  BY <1>1, <1>5, SameLines DEF PlaceFor
<1> QED
  BY <1>1, <1>3, <1>4, <1>5, <1>6

LEMMA SameBatch ==
  ASSUME text' = text
  PROVE  \A g : BlankLinesBatch(g)' = BlankLinesBatch(g)
<1>1. \A n : OnOneLine(n)' = OnOneLine(n)
  BY SameLines DEF OnOneLine
<1>2. \A T : BelowClauses(T)' = BelowClauses(T)
  BY <1>1, SameLines DEF BelowClauses
<1>3. \A T, g : BelowHeaders(T, g)' = BelowHeaders(T, g)
  BY <1>1, SameLines, SamePlaces DEF BelowHeaders
<1>4. \A T : LoneReturns(T)' = LoneReturns(T)
  BY SameLines DEF LoneReturns
<1>5. \A T, g : Removed(T, g)' = Removed(T, g)
  BY <1>2, <1>3, <1>4 DEF Removed
<1>6. \A T, g : Inserted(T, g)' = Inserted(T, g)
  BY SamePlaces DEF Inserted
<1> QED
  BY <1>5, <1>6, SameTree, SameLines DEF BlankLinesBatch

LEMMA SameRules ==
  ASSUME text' = text
  PROVE  \A g, n : NodeRule(g, n)' = NodeRule(g, n)
<1>1. \A T, g, n : InsertBlankBeforeFirstStmtInBlock(T, g, n)' = InsertBlankBeforeFirstStmtInBlock(T, g, n)
  BY SameLines, SamePlaces DEF InsertBlankBeforeFirstStmtInBlock
<1>2. \A T, g, n, action : Execute(T, g, n, action)' = Execute(T, g, n, action)
  BY <1>1, SameLines, SamePlaces DEF Execute
<1>3. \A T, g, n, r : ByRule(T, g, n, r)' = ByRule(T, g, n, r)
  BY <1>2 DEF ByRule
<1>4. \A T, g, n : Working(T, g, n)' = Working(T, g, n)
  BY <1>3 DEF Working
<1> QED
  BY <1>3, <1>4, SameTree DEF NodeRule

LEMMA FixedPointNext ==
  ASSUME text' = text, FixedPoint(gap')
  PROVE  FixedPoint(gap)'
<1>1. BlankLinesBatch(gap)' = gap'
  BY SameBatch DEF FixedPoint
<1>2. \A n \in DOMAIN text.nodes' : NodeRule(gap, n)' = gap'
  BY SameRules DEF FixedPoint
<1>3. Squeezed(gap)' = gap'
  BY SameLines DEF FixedPoint, Squeezed
<1> QED
  BY <1>1, <1>2, <1>3 DEF FixedPoint

(***************************************************************************)
(* A pass that ends before its iterations are used up leaves what the      *)
(* batch, every rule and gofmt leave alone, in every file: no later pass   *)
(* has anything to do (Engine.Format behind BlankLineRulesWithOptions).    *)
(***************************************************************************)
THEOREM QuietPassIsLast ==
  ASSUME TextsHaveLines
  PROVE  BlanksSpec => []QuietPassSettles
<1>1. BlanksInit => QuietPassSettles
  BY DEF BlanksInit, QuietPassSettles
<1>2. ASSUME GapInv, QuietPassSettles, [BlanksNext]_blanksVars
      PROVE  GapInv' /\ QuietPassSettles'
  <2>1. CASE Batch \/ OneNode
    <3>1. progress = "run" /\ progress' = progress
      BY <2>1 DEF Batch, OneNode, Rewrite
    <3> QED
      BY <1>2, <2>1, <3>1, GapStep DEF BlanksNext, GapInv, Careful, QuietPassSettles
  <2>2. CASE EndPass
    <3>1. GapInv' /\ text' = text /\ gap' = Squeezed(gap)
      BY <1>2, <2>2, GapStep DEF BlanksNext, GapInv, Careful, EndPass
    <3>2. ASSUME progress' = "done", ~Exhausted' PROVE FixedPoint(gap)'
      <4>1. ~Exhausted /\ Quiet
        BY <2>2, <3>2 DEF EndPass, Exhausted
      <4> QED
        BY <1>2, <3>1, <4>1, QuietIsFixed, FixedPointNext
    <3> QED
      BY <3>1, <3>2 DEF QuietPassSettles
  <2>3. CASE UNCHANGED blanksVars
    <3>1. text' = text /\ gap' = gap /\ iter' = iter /\ progress' = progress
      BY <2>3 DEF blanksVars
    <3>2. FixedPoint(gap) => FixedPoint(gap)'
      BY <3>1, FixedPointNext
    <3> QED
      BY <1>2, <3>1, <3>2 DEF QuietPassSettles, Exhausted, GapInv
  <2> QED
    BY <1>2, <2>1, <2>2, <2>3 DEF BlanksNext
<1> QED
  BY GapInit, <1>1, <1>2, PTL DEF BlanksSpec
=============================================================================
