----------------------------- MODULE StageConfig -----------------------------
(***************************************************************************)
(* From a PipelineConfig to the rules each stage tries on a tree:          *)
(* ValidatePipelineConfig, NewPipeline with its defaults and adjustments,  *)
(* the stage plan, the bundle of rules per stage, the builders, and the    *)
(* calls the two call stages declare they own (formatter/pipeline.go,      *)
(* stage_plan.go, config_validation.go, dsl_bundle.go,                     *)
(* dsl_bundles_next.go, stage_builders.go).                                *)
(*                                                                         *)
(* How an engine applies the rules it is given is Engine's subject; here   *)
(* every stage is asked which rules it would try on the tree as it was     *)
(* given, so as to compare what two stages take for theirs.                *)
(***************************************************************************)
EXTENDS RuleTables

CONSTANTS
  Jobs,         \* what may be asked: [cfg, tree]
  RuleSets      \* the names with which an engine may be built on its own

VARIABLES
  asked,      \* the configuration and the tree
  pc,         \* "asked", "accepted", "rejected", "ready" or "alone"
  cfg,        \* the configuration of the pipeline
  engines,    \* per stage its engine, or a NoopFormatter
  visited,    \* the stages that have looked at the tree
  attempts,   \* <<stage, rule, node>>: the rules that were tried
  owned       \* <<stage, node>>: the calls a stage claims

vars == <<asked, pc, cfg, engines, visited, attempts, owned>>

StageNames == <<"comments", "compact-calls", "expressions", "multiline-calls",
                "signatures", "blank-lines">>

Stages == ToSet(StageNames)

NoPlan == [s \in Stages |-> "unset"]

PlanOf(use) == [s \in Stages |-> IF use[s] THEN "dsl" ELSE "off"]

EveryStage == [s \in Stages |-> TRUE]

NoToggle(c) == \A s \in Stages : ~c.use[s]

-----------------------------------------------------------------------------
(***************************************************************************)
(* ValidatePipelineConfig: the fields it complains about.                  *)
(***************************************************************************)
allowedDSLMultiLineStyles ==
  {"packed", "packed-chain", "packed-chain-layout", "layout-chain", "layout-args",
   "layout-args-groups-pairs", "layout-all", "layout-all-groups-pairs"}

allowedDSLSigsStyles == {"legacy", "dsl"}

allowedDSLExprStyles == {"legacy", "layout"}

Unknown(value, allowed) == value # "" /\ value \notin allowed

Issues(c) ==
  {f \in {"logical", "arithmetic", "caseClause", "selector"} : Unknown(c[f], allowedDSLExprStyles)}
    \cup (IF Unknown(c.commentMode, {"prose", "overflow", "off"}) THEN {"commentMode"} ELSE {})
    \cup (IF Unknown(c.multiStyle, allowedDSLMultiLineStyles) THEN {"multiStyle"} ELSE {})
    \cup (IF Unknown(c.sigStyle, allowedDSLSigsStyles) THEN {"sigStyle"} ELSE {})
    \cup {s \in Stages : c.override # NoPlan /\ c.override[s] \notin {"off", "dsl"}}
    \cup (IF c.allow /\ c.auto THEN {"allow and auto"} ELSE {})

-----------------------------------------------------------------------------
(***************************************************************************)
(* NewPipeline, one adjustment after the other.                            *)
(***************************************************************************)
OwnsArgs(style) ==
  style \in {"layout-args", "layout-all", "layout-args-groups-pairs", "layout-all-groups-pairs"}

LaysOutArgs(c) == c.use["multiline-calls"] /\ OwnsArgs(c.multiStyle)

If(cond, c, d) == IF cond THEN c ELSE d

CommentDefault(c) == If(c.commentMode = "", [c EXCEPT !.commentMode = "prose"], c)

AllByDefault(c) == If(NoToggle(c), [c EXCEPT !.use = EveryStage], c)

SignatureDefaults(c) ==
  If(c.use["signatures"],
     [c EXCEPT !.sigsNative = TRUE, !.sigStyle = If(@ = "", "legacy", @)], c)

BlankLineDefaults(c) == If(c.use["blank-lines"], [c EXCEPT !.blanksNative = TRUE], c)

CallArgsDefault(c) ==
  If(c.use["expressions"] /\ ~c.allow /\ ~c.auto, [c EXCEPT !.auto = TRUE], c)

MultiLineDefault(c) ==
  If(c.use["multiline-calls"] /\ c.multiStyle = "",
     [c EXCEPT !.multiStyle = "packed-chain-layout"], c)

ExpressionsForArgs(c) == If(LaysOutArgs(c), [c EXCEPT !.use["expressions"] = TRUE], c)

\* Mutant: call arguments stay open to the expression stage.
KeepCallArgs(c) == c

ArgsLeftToCalls(c) == If(LaysOutArgs(c) /\ ~c.registry, [c EXCEPT !.allow = FALSE], c)

Adjusted(c) ==
  ArgsLeftToCalls(ExpressionsForArgs(MultiLineDefault(CallArgsDefault(
    BlankLineDefaults(SignatureDefaults(AllByDefault(CommentDefault(c))))))))

(***************************************************************************)
(* stagePlanFromPipelineConfig: an explicit plan replaces every toggle.    *)
(***************************************************************************)
stagePlanFromPipelineConfig(c) ==
  IF c.override # NoPlan THEN c.override
  ELSE PlanOf(IF NoToggle(c) THEN EveryStage ELSE c.use)

-----------------------------------------------------------------------------
(***************************************************************************)
(* The rules of each stage.                                                *)
(***************************************************************************)
DefaultMultilineExcludes ==
  {<<"log", m>> : m \in {"Infof", "Debugf", "Tracef", "Errorf", "Warnf", "Fatalf"}}
    \cup {<<"fmt", m>> : m \in {"Printf", "Sprintf", "Errorf"}}

LogSelection(c) == [any |-> TRUE, names |-> c.names, prefixes |-> c.prefixes, nonF |-> TRUE]

(***************************************************************************)
(* dslRulesForExpr: allow beats auto; only selector chains are laid out    *)
(* when nothing is asked for.                                              *)
(***************************************************************************)
dslRulesForExpr(c) ==
  LongExprRulesWithOptions(
    [policy     |-> IF c.allow THEN "force" ELSE IF c.auto THEN "auto" ELSE "off",
     allowlist  |-> c.excludes \cup (IF c.auto THEN DefaultMultilineExcludes ELSE {}),
     logical    |-> c.logical, arithmetic |-> c.arithmetic, caseClause |-> c.caseClause,
     selector   |-> IF c.selector = "" THEN "layout" ELSE c.selector])
  \o ExpandFuncLitBodyRules \o ExpandCompositeLitRules \o SplitLongStringLiteralRules

CallOptions(c) ==
  [PlainCalls EXCEPT !.excludes = c.excludes, !.names = c.names, !.prefixes = c.prefixes,
                     !.spanWidth = TRUE]

(***************************************************************************)
(* The names the switch of dslRulesForMultiLineCalls knows, besides        *)
(* packed.                                                                 *)
(***************************************************************************)
LaysOutChains(style) ==
  style \in {"layout-chain", "packed-chain-layout", "layout-all", "layout-all-groups-pairs"}

CallLayout(style) ==
  [chain    |-> IF LaysOutChains(style) THEN "layout" ELSE "",
   args     |-> IF OwnsArgs(style) THEN "layout" ELSE "",
   grouping |-> IF style \in {"layout-args-groups-pairs", "layout-all-groups-pairs"} THEN "pairs" ELSE ""]

\* Mutant: the switch forgets one of the two names of the chain layout.
WithoutLayoutChain ==
  {"packed-chain", "packed-chain-layout", "layout-args", "layout-args-groups-pairs",
   "layout-all", "layout-all-groups-pairs"}

CallLayouts ==
  {"packed-chain", "packed-chain-layout", "layout-chain", "layout-args",
   "layout-args-groups-pairs", "layout-all", "layout-all-groups-pairs"}

(***************************************************************************)
(* A name the switch does not know gets the packed rules too.              *)
(***************************************************************************)
StyleOf(c) == IF c.multiStyle = "" THEN "packed-chain-layout" ELSE c.multiStyle

WithLayout(o, layout) ==
  [o EXCEPT !.chainStyle = layout.chain, !.argsStyle = layout.args, !.grouping = layout.grouping]

dslRulesForMultiLineCalls(c) ==
  IF StyleOf(c) \in CallLayouts
    THEN MultiLineCallRulesWithOptions(WithLayout(CallOptions(c), CallLayout(StyleOf(c))))
    ELSE PackedMultiLineOnlyRulesWithOptions(CallOptions(c))

(***************************************************************************)
(* dslRulesForSignatures: with the legacy style also what is already on    *)
(* several lines, and function literals.                                   *)
(***************************************************************************)
ReflowSignatureRules ==
  << Rule("multiline_func_decl", Node("FuncDecl"), All(<<Is("HasMultilineFuncSignature")>>), 89,
          <<"BreakFuncSignature">>),
     Rule("blank_after_func_header", Node("FuncDecl"), All(<<Is("HasBlankAfterFuncHeader")>>), 89,
          <<"BreakFuncSignature">>),
     Rule("multiline_interface_method", Node("Field"),
          All(<<Is("IsInterfaceMethod"), Is("HasMultilineInterfaceMethod")>>), 89,
          <<"BreakInterfaceMethod">>),
     Rule("func_lit_signature", Node("FuncLit"),
          << <<Is("AnyLineWidthFuncLitSignature"), Is("HasMultilineFuncLitSignature"),
               Is("HasBlankAfterFuncHeader")>> >>, 89, <<"BreakFuncLitSignature">>) >>

dslRulesForSignatures(c) ==
  IF ~c.sigsNative THEN LegacyFuncSigRules
  ELSE SignatureRules
       \o (IF c.sigStyle \in {"", "legacy"} THEN ReflowSignatureRules ELSE <<>>)
       \o LegacyFuncSigFallbackRules

dslRulesForBlankLines(c) == BlankLineRulesWithOptions(c.ifErr) \o AfterHeaderRules

(***************************************************************************)
(* dslBundleForOptions: the rules of a stage, and how its engine is set    *)
(* up.  A limit of 0 is derived from the tree; an engine that is given     *)
(* none keeps its own, 100.                                                *)
(***************************************************************************)
RulesOfStage(c, s) ==
  CASE s = "comments"        -> LegacyCommentRules
    [] s = "compact-calls"   -> LogPrintfRulesWithOptions(LogSelection(c))
    [] s = "expressions"     -> dslRulesForExpr(c)
    [] s = "multiline-calls" -> dslRulesForMultiLineCalls(c)
    [] s = "signatures"      -> dslRulesForSignatures(c)
    [] s = "blank-lines"     -> dslRulesForBlankLines(c)

Set(order, limit, cycles) == [on |-> TRUE, order |-> order, limit |-> limit, cycles |-> cycles]

Noop == [on |-> FALSE, order |-> "none", limit |-> 0, cycles |-> FALSE]

EngineOf(c, s) ==
  CASE s = "comments"                    -> Set("preorder", 1, FALSE)
    [] s \in {"compact-calls", "expressions"} -> Set("preorder", 100, FALSE)
    [] s = "multiline-calls" ->
         Set(IF OwnsArgs(c.multiStyle) THEN "deepest" ELSE "preorder", 0, TRUE)
    [] s = "signatures"  -> Set("preorder", IF c.sigsNative THEN 0 ELSE 1, c.sigsNative)
    [] s = "blank-lines" -> Set("preorder", IF c.blanksNative THEN 20 ELSE 1, FALSE)

Build(c, plan) ==
  [s \in Stages |-> IF plan[s] = "dsl" THEN EngineOf(c, s) ELSE Noop]

-----------------------------------------------------------------------------
(***************************************************************************)
(* The calls the call stages declare they own, when ownership is asked     *)
(* for.  callNameForExcludes knows no type arguments.                      *)
(***************************************************************************)
callNameForExcludes(T, call) ==
  IF IsGeneric(T, Fun(T, call)) THEN <<>> ELSE selectorPrefix(T, Fun(T, call))

excludedByName(T, call, excludes) ==
  \E entry \in excludes : NameContains(callNameForExcludes(T, call), entry)

\* Mutant: the multi-line stage overlooks log.Error and the like.
OverlooksPlainLogs(c, T, call) ==
  /\ ~IsLogOrPrintfCall(T, call, [LogSelection(c) EXCEPT !.nonF = FALSE])
  /\ ~IsNonFLogCall(T, call)
  /\ ~IsStructuredLogCall(T, call)
  /\ ~excludedByName(T, call, c.excludes)

shouldOwnMultilineCall(c, T, call) ==
  /\ ~IsLogOrPrintfCall(T, call, LogSelection(c))
  /\ ~IsNonFLogCall(T, call)
  /\ ~IsStructuredLogCall(T, call)
  /\ ~excludedByName(T, call, c.excludes)

\* Mutant: structured log calls are formatted but not owned.
OwnsPrintfOnly(c, T, call) == IsLogOrPrintfCall(T, call, LogSelection(c))

ShouldOwnLogCall(c, T, call) ==
  IsLogOrPrintfCall(T, call, LogSelection(c)) \/ IsStructuredLogCall(T, call)

ownedSpansForCalls(c, s, T) ==
  {n \in NodesOf(T) :
     /\ T.parses
     /\ Type(T, n) = "CallExpr"
     /\ \/ s = "compact-calls" /\ ShouldOwnLogCall(c, T, n)
        \/ s = "multiline-calls" /\ shouldOwnMultilineCall(c, T, n)}

-----------------------------------------------------------------------------
Init ==
  /\ asked \in Jobs
  /\ pc = "asked"
  /\ cfg = asked.cfg
  /\ engines = [s \in Stages |-> Noop]
  /\ visited = {}
  /\ attempts = {}
  /\ owned = {}

(***************************************************************************)
(* The command line validates; a caller of the library may not.            *)
(***************************************************************************)
ValidatePipelineConfig ==
  /\ pc = "asked"
  /\ pc' = IF Issues(asked.cfg) = {} THEN "accepted" ELSE "rejected"
  /\ UNCHANGED <<asked, cfg, engines, visited, attempts, owned>>

\* Mutant: the plan is taken before the adjustments.
PlanTooEarly(c) ==
  /\ pc' = "ready"
  /\ cfg' = Adjusted(c)
  /\ engines' = Build(Adjusted(c), stagePlanFromPipelineConfig(c))
  /\ UNCHANGED <<asked, visited, attempts, owned>>

NewPipeline(c) ==
  /\ pc' = "ready"
  /\ cfg' = Adjusted(c)
  /\ engines' = Build(Adjusted(c), stagePlanFromPipelineConfig(Adjusted(c)))
  /\ UNCHANGED <<asked, visited, attempts, owned>>

NewValidated == pc = "accepted" /\ NewPipeline(cfg)

NewUnchecked == pc = "asked" /\ NewPipeline(cfg)

(***************************************************************************)
(* The next stage looks at every node: which rules apply, and which calls  *)
(* it claims.                                                              *)
(***************************************************************************)
Applied(rules, T) ==
  UNION {{<<rules[i].name, n>> : n \in {m \in NodesOf(T) : Applies(T, m, rules[i])}} :
           i \in DOMAIN rules}

IsNext(s) == SelectSeq(StageNames, LAMBDA t : t \notin visited)[1] = s

RunStage ==
  /\ pc = "ready"
  /\ visited # Stages
  /\ \E s \in Stages \ visited :
       /\ IsNext(s)
       /\ visited' = visited \cup {s}
       /\ attempts' = attempts \cup
            IF engines[s].on
              THEN {<<s, a[1], a[2]>> : a \in Applied(RulesOfStage(cfg, s), asked.tree)}
              ELSE {}
       /\ owned' = owned \cup
            IF engines[s].on /\ cfg.registry
              THEN {<<s, n>> : n \in ownedSpansForCalls(cfg, s, asked.tree)}
              ELSE {}
  /\ UNCHANGED <<asked, pc, cfg, engines>>

(***************************************************************************)
(* NewDSLExprFormatter without rules, and RulesFor: an engine on its own.  *)
(***************************************************************************)
RunAlone ==
  /\ pc = "asked"
  /\ NoToggle(asked.cfg)
  /\ \E set \in RuleSets :
       attempts' = {<<set, a[1], a[2]>> : a \in Applied(RulesFor(set), asked.tree)}
  /\ pc' = "alone"
  /\ UNCHANGED <<asked, cfg, engines, visited, owned>>

Next == ValidatePipelineConfig \/ NewValidated \/ NewUnchecked \/ RunStage \/ RunAlone

Spec == Init /\ [][Next]_vars

-----------------------------------------------------------------------------
(***************************************************************************)
(* Plan, what --print-plan shows: the modes derived again from the         *)
(* resolved configuration.                                                 *)
(***************************************************************************)
Plan == stagePlanFromPipelineConfig(cfg)

(***************************************************************************)
(* The plan a pipeline reports is the one it was built with, although it   *)
(* derives it a second time, from the configuration it has adjusted; and   *)
(* a stage that is off in it has not touched the text.                     *)
(***************************************************************************)
PlanSaysWhatRuns ==
  pc = "ready" =>
    /\ \A s \in Stages : engines[s].on <=> Plan[s] = "dsl"
    /\ \A a \in attempts : Plan[a[1]] = "dsl"

(***************************************************************************)
(* A configuration that passed the validation means what it says: the      *)
(* rules for calls fall back to the packed ones only when that style was   *)
(* asked for, and every mode of an explicit plan is one the builders know. *)
(***************************************************************************)
AcceptedMeansUnderstood ==
  pc = "ready" /\ Issues(asked.cfg) = {} =>
    /\ \A a \in attempts : a[2] = "long_call_expr_packed" => asked.cfg.multiStyle = "packed"
    /\ \A s \in Stages : ~engines[s].on => Plan[s] = "off"

(***************************************************************************)
(* The lists by which the compact-calls stage claims calls and by which it *)
(* formats them are written down twice; what it formats it has claimed,    *)
(* and the other call stage, which would format it again, has not.         *)
(***************************************************************************)
LogStageOwnsWhatItFormats ==
  cfg.registry =>
    \A a \in attempts :
      a[1] = "compact-calls" => {o[1] : o \in {p \in owned : p[2] = a[3]}} = {"compact-calls"}

(***************************************************************************)
(* An expression among the arguments of a call is broken by the expression *)
(* stage only if the multi-line stage leaves that call alone, unless the   *)
(* caller allowed both, gave a plan of its own, or chose which log calls   *)
(* count.  For the styles that lay out arguments the permission is taken   *)
(* back, without a registry to keep the stages apart.  A call with type    *)
(* arguments is left out: the two stages read its name differently.        *)
(***************************************************************************)
BreakingRules ==
  {"long_string_concat", "long_logical_chain", "long_arithmetic_expr", "return_with_long_binary"}

CallsReflowed == {a[3] : a \in {b \in attempts : b[1] = "multiline-calls"}}

BrokenArgs ==
  {a[3] : a \in {b \in attempts :
     b[1] = "expressions" /\ b[2] \in BreakingRules /\ IsInCallArgs(asked.tree, b[3])}}

OnePerArgument ==
  \A n \in BrokenArgs :
    LET call == enclosingCallForArg(asked.tree, n)
    IN  IsGeneric(asked.tree, Fun(asked.tree, call)) \/ call \notin CallsReflowed

AskedForBoth == asked.cfg.allow /\ (cfg.registry \/ ~OwnsArgs(cfg.multiStyle))

ArgumentsHaveOneEditor ==
  /\ asked.cfg.override = NoPlan
  /\ asked.cfg.names = {} /\ asked.cfg.prefixes = {}
  /\ ~AskedForBoth
  => OnePerArgument
=============================================================================
