----------------------------- MODULE RuleTables -----------------------------
(***************************************************************************)
(* The rules of dsl/rules.go and its companions, as tables: the nodes a    *)
(* rule selects, the condition it asks for, its priority, and the actions  *)
(* it tries, one after the other, until one makes a change.                *)
(*                                                                         *)
(* The code builds a condition from AndCond, OrCond and NotCond; here it   *)
(* is a sequence of clauses that must all hold, a clause a sequence of     *)
(* literals of which one must.                                             *)
(***************************************************************************)
EXTENDS SyntaxTrees

NoOptions == [policy |-> "off", names |-> {}, log |-> [any |-> FALSE, names |-> {}, prefixes |-> {}, nonF |-> FALSE]]

Is(cond)         == [cond |-> cond, of |-> "node", want |-> TRUE, o |-> NoOptions]
IsOf(cond, of)   == [Is(cond) EXCEPT !.of = of]
Not(literal)     == [literal EXCEPT !.want = FALSE]
All(literals)    == [i \in DOMAIN literals |-> <<literals[i]>>]

LogCall(of, log) == [IsOf("IsLogOrPrintfCall", of) EXCEPT !.o.log = log]
Named(names)     == [Is("IsCallFuncContainsAny") EXCEPT !.o.names = names]
EditSafe(of, policy, names) ==
  [IsOf("ExprEditSafe", of) EXCEPT !.o.policy = policy, !.o.names = names]

(***************************************************************************)
(* Eval of the conditions; on a target that was not captured, FALSE.       *)
(***************************************************************************)
Truth(T, n, c) ==
  CASE c.cond = "True"                     -> TRUE
    [] c.cond = "IsParseable"              -> T.parses
    [] c.cond = "LineWidth"                -> LineWidth(T, n)
    [] c.cond = "MaxLineWidthInSpan"       -> MaxLineWidthInSpan(T, n)
    [] c.cond = "MaxSpanLineWidth"         -> MaxSpanLineWidth(T, n)
    [] c.cond = "AnyLineWidth"             -> AnyLineWidth(T, n)
    [] c.cond = "CollapsedWidth"           -> CollapsedWidth(T, n)
    [] c.cond = "HasAnyComment"            -> HasAnyComment(T, n)
    [] c.cond = "ExprEditSafe"             -> ExprEditSafe(T, n, c.o.policy, c.o.names)
    [] c.cond = "IsInCallArgs"             -> IsInCallArgs(T, n)
    [] c.cond = "IsCallArg"                -> IsCallArg(T, n)
    [] c.cond = "ParentIsSelector"         -> IsParentType(T, n, "SelectorExpr")
    [] c.cond = "AncestorIsCall"           -> IsAncestorType(T, n, "CallExpr")
    [] c.cond = "IsChainedCallReceiver"    -> IsChainedCallReceiver(T, n)
    [] c.cond = "IsMethodChain"            -> IsMethodChain(T, n, 2)
    [] c.cond = "IsSimpleLiteral"          -> IsSimpleLiteral(T, n)
    [] c.cond = "IsStringConcat"           -> IsStringConcat(T, n)
    [] c.cond = "HasCallExpr"              -> HasCallExpr(T, n)
    [] c.cond = "IsLogOrPrintfCall"        -> IsLogOrPrintfCall(T, n, c.o.log)
    [] c.cond = "IsNonFLogCall"            -> IsNonFLogCall(T, n)
    [] c.cond = "IsStructuredLogCall"      -> IsStructuredLogCall(T, n)
    [] c.cond = "IsCallFuncContainsAny"    -> IsCallFuncContainsAny(T, n, c.o.names)
    [] c.cond = "HasNestedMultilineType"   -> HasNestedMultilineType(T, n)
    [] c.cond = "HasMultilineFuncSignature"    -> HasMultilineHeader(T, n, "FuncDecl")
    [] c.cond = "HasMultilineFuncLitSignature" -> HasMultilineHeader(T, n, "FuncLit")
    [] c.cond = "AnyLineWidthFuncLitSignature" -> HeaderPast(T, n, "FuncLit")
    [] c.cond = "HasMultilineInterfaceMethod"  -> T.nodes[n].first # T.nodes[n].last
    [] c.cond = "HasMultilineIfHeader"     -> HasMultilineHeader(T, n, "IfStmt")
    [] c.cond = "HasMultilineForHeader"    -> HasMultilineHeader(T, n, "ForStmt")
    [] c.cond = "HasMultilineCaseHeader"   -> HasMultilineHeader(T, n, "CaseClause")
    [] c.cond = "HasBlankAfterFuncHeader"  -> HasBlankAfterFuncHeader(T, n)
    [] c.cond = "IsInterfaceMethod"        -> IsInterfaceMethod(T, n)
    [] c.cond = "HasPrecedingInterfaceField" -> HasPrecedingInterfaceField(T, n)
    [] c.cond = "HasPrecedingSibling"      -> HasPrecedingSibling(T, n)
    [] c.cond = "IsReturnNeedingBlank"     -> IsReturnNeedingBlank(T, n)
    [] c.cond = "IsIfErrReturnNeedingBlank" -> IsIfErrReturnNeedingBlank(T, n)

Eval(T, caps, c) ==
  LET n == resolveTarget(caps, c.of) IN (n # None /\ Truth(T, n, c)) = c.want

Applies(T, n, rule) ==
  /\ Matches(T, n, rule.pattern)
  /\ LET caps == Captures(T, n, rule.pattern)
     IN  \A i \in DOMAIN rule.when :
           \E j \in DOMAIN rule.when[i] : Eval(T, caps, rule.when[i][j])

-----------------------------------------------------------------------------
Node(type)                  == [type |-> type, fields |-> <<>>]
Where(name, oneOf)          == [name |-> name, capture |-> "", oneOf |-> oneOf, sub |-> ""]
Capturing(name, capture)    == [name |-> name, capture |-> capture, oneOf |-> {}, sub |-> ""]
Holding(name, capture, sub) == [name |-> name, capture |-> capture, oneOf |-> {}, sub |-> sub]
NodeWith(type, field)       == [type |-> type, fields |-> <<field>>]

Rule(name, pattern, when, priority, actions) ==
  [name |-> name, pattern |-> pattern, when |-> when, priority |-> priority, actions |-> actions]

ComparisonOps == {"==", "!=", "<", ">", "<=", ">="}
LogicalOps    == {"&&", "||"}
ArithmeticOps == {"+", "-", "*", "/", "%"}

Binary(ops) == NodeWith("BinaryExpr", Where("op", ops))
BinaryIn(type, field, capture) == NodeWith(type, Holding(field, capture, "BinaryExpr"))
CallIn(type, field, capture)   == NodeWith(type, Holding(field, capture, "CallExpr"))

(***************************************************************************)
(* The rules that stand, alike, in several of the lists.                   *)
(***************************************************************************)
keep_simple_comparison ==
  Rule("keep_simple_comparison",
       [type |-> "BinaryExpr", fields |-> <<Where("op", ComparisonOps), Capturing("right", "r")>>],
       All(<<IsOf("IsSimpleLiteral", "r")>>), 100, <<"KeepTogether">>)

LayoutOrAtOp == <<"BreakBinaryExprLayout", "BreakAtOp">>

LogicalChains ==
  << Rule("logical_chain_with_call", Binary(LogicalOps),
          All(<<Is("MaxLineWidthInSpan"), Is("HasCallExpr")>>), 40,
          <<"ReflowNestedCalls", "BreakLogicalChainPacked">>),
     Rule("long_logical_chain", Binary(LogicalOps),
          All(<<Is("MaxLineWidthInSpan"), Not(Is("HasCallExpr"))>>), 30,
          <<"BreakLogicalChainPacked">>) >>

long_arithmetic_expr ==
  Rule("long_arithmetic_expr", Binary(ArithmeticOps),
       All(<<Is("LineWidth"), Not(Is("IsStringConcat")), Not(Is("IsCallArg"))>>), 20,
       <<"BreakAtOp">>)

for_with_long_cond ==
  Rule("for_with_long_cond", BinaryIn("ForStmt", "cond", "cond"),
       All(<<Is("LineWidth")>>), 45, LayoutOrAtOp)

return_with_long_binary ==
  Rule("return_with_long_binary", BinaryIn("ReturnStmt", "results", "expr"),
       All(<<Is("LineWidth"), Not(IsOf("IsStringConcat", "expr"))>>), 35, LayoutOrAtOp)

long_case_clause ==
  Rule("long_case_clause", Node("CaseClause"), All(<<Is("LineWidth")>>), 35, <<"BreakCaseClause">>)

assignment_with_long_binary(actions) ==
  Rule("assignment_with_long_binary", BinaryIn("AssignStmt", "rhs", "expr"),
       All(<<Is("LineWidth"), Not(IsOf("HasCallExpr", "expr"))>>), 32, actions)

expressionOnlyRules ==
  <<keep_simple_comparison>> \o LogicalChains \o
  << long_arithmetic_expr, for_with_long_cond, return_with_long_binary, long_case_clause,
     assignment_with_long_binary(<<"BreakAtOp">>) >>

-----------------------------------------------------------------------------
(***************************************************************************)
(* Blank lines.  The batch rule works on the whole file first.             *)
(***************************************************************************)
blank_lines_batch ==
  Rule("blank_lines_batch", Node("File"), All(<<Is("IsParseable")>>), 20, <<"BlankLinesBatch">>)

blank_before_case ==
  Rule("blank_before_case", Node("CaseClause"),
       All(<<Is("HasPrecedingSibling")>>), 10, <<"InsertBlankBeforeClause">>)

blank_before_comm_clause ==
  Rule("blank_before_comm_clause", Node("CommClause"),
       All(<<Is("HasPrecedingSibling")>>), 10, <<"InsertBlankBeforeClause">>)

blank_before_return ==
  Rule("blank_before_return", Node("ReturnStmt"),
       All(<<Is("IsReturnNeedingBlank")>>), 10, <<"InsertBlankBefore">>)

blank_between_interface_methods ==
  Rule("blank_between_interface_methods", Node("Field"),
       All(<<Is("IsInterfaceMethod"), Is("HasPrecedingInterfaceField")>>), 10,
       <<"InsertBlankBefore">>)

blank_before_if_err_return ==
  Rule("blank_before_if_err_return", Node("IfStmt"),
       All(<<Is("IsIfErrReturnNeedingBlank")>>), 9, <<"InsertBlankBefore">>)

BlankLineRules ==
  << blank_lines_batch, blank_before_case, blank_before_comm_clause, blank_before_return,
     blank_between_interface_methods >>

BlankLineRulesWithOptions(extraIfErrReturn) ==
  BlankLineRules \o IF extraIfErrReturn THEN <<blank_before_if_err_return>> ELSE <<>>

(***************************************************************************)
(* What the bundle of the formatter adds: an empty line under a header on  *)
(* several lines.                                                          *)
(***************************************************************************)
AfterHeader(name, type, cond) ==
  Rule(name, Node(type), All(<<Is(cond)>>), 9, <<"InsertBlankBeforeFirstStmtInBlock">>)

AfterHeaderRules ==
  << AfterHeader("blank_after_multiline_if_header", "IfStmt", "HasMultilineIfHeader"),
     AfterHeader("blank_after_multiline_for_header", "ForStmt", "HasMultilineForHeader"),
     AfterHeader("blank_after_multiline_case_header", "CaseClause", "HasMultilineCaseHeader") >>

-----------------------------------------------------------------------------
(***************************************************************************)
(* Log and printf calls.                                                   *)
(***************************************************************************)
LogPrintfRulesWithOptions(log) ==
  << Rule("structured_log_call", Node("CallExpr"),
          All(<<Is("IsStructuredLogCall"), Not(Is("HasAnyComment"))>>), 80, <<"StructuredLogCall">>),
     Rule("log_printf_call", Node("CallExpr"), All(<<LogCall("node", log)>>), 75,
          <<"LeftFlowCall">>) >>

(***************************************************************************)
(* Other calls.  o is [excludes, names, prefixes, chainStyle, argsStyle,   *)
(* grouping, spanWidth].  TooWide: the first line, the call written on one *)
(* line, or with spanWidth any of its lines, is too wide.                  *)
(***************************************************************************)
TooWide(o) ==
  <<Is("LineWidth"), Is("CollapsedWidth")>> \o
  IF o.spanWidth THEN <<Is("MaxSpanLineWidth")>> ELSE <<>>

AnyLogCall(o) ==
  LogCall("node", [any |-> TRUE, names |-> o.names, prefixes |-> o.prefixes, nonF |-> FALSE])

longCallConds(o) ==
  << TooWide(o) >>
  \o All(<<Not(AnyLogCall(o)), Not(Is("IsNonFLogCall")), Not(Is("IsStructuredLogCall")),
           Not(Is("IsMethodChain")), Not(Named(o.excludes)), Not(Is("HasAnyComment"))>>)
  \o (IF "layout" \in {o.argsStyle, o.chainStyle}
        THEN All(<<Not(Is("IsChainedCallReceiver"))>>) ELSE <<>>)
  \o (IF o.argsStyle = "layout" THEN All(<<Not(Is("IsCallArg"))>>) ELSE <<>>)

long_method_chain(o) ==
  Rule("long_method_chain", Node("CallExpr"),
       All(<<Is("LineWidth"), Is("IsMethodChain"), Not(Named(o.excludes)), Not(Is("HasAnyComment"))>>),
       60,
       IF o.chainStyle = "layout" THEN <<"BreakSelectorCallArgs", "BreakMethodChainLayout">>
                                  ELSE <<"BreakMethodChain">>)

(***************************************************************************)
(* Chains have a rule of their own, except where the layout of arguments   *)
(* takes them in.                                                          *)
(***************************************************************************)
MultiLineCallRulesWithOptions(o) ==
  (IF o.argsStyle # "layout" \/ o.chainStyle # "" THEN <<long_method_chain(o)>> ELSE <<>>)
  \o << Rule("long_call_expr", Node("CallExpr"), longCallConds(o), 50,
             IF o.argsStyle = "layout" THEN <<"BreakCallArgsLayout", "PackedMultiLineCall">>
                                       ELSE <<"PackedMultiLineCall">>) >>

PackedMultiLineOnlyRulesWithOptions(o) ==
  << Rule("long_call_expr_packed", Node("CallExpr"),
          << TooWide(o) >> \o All(<<Not(AnyLogCall(o)), Not(Is("IsMethodChain")),
                                    Not(Named(o.excludes)), Not(Is("HasAnyComment"))>>),
          50, <<"PackedMultiLineCall">>) >>

-----------------------------------------------------------------------------
(***************************************************************************)
(* Comments and signatures.  The legacy rules hand over the whole file.    *)
(***************************************************************************)
LegacyCommentRules ==
  << Rule("legacy_comment_format", Node("File"), All(<<Is("True")>>), 90, <<"LegacyCommentFormat">>) >>

LegacyFuncSigRules ==
  << Rule("legacy_func_sig_format", Node("File"), All(<<Is("True")>>), 60, <<"LegacyFuncSigFormat">>) >>

LegacyFuncSigFallbackRules ==
  << Rule("legacy_func_sig_fallback", Node("File"), All(<<Not(Is("IsParseable"))>>), -100,
          <<"LegacyFuncSigFormat">>) >>

SignatureRules ==
  << Rule("long_func_decl", Node("FuncDecl"),
          << <<Is("AnyLineWidth"), Is("HasNestedMultilineType")>> >>, 90, <<"BreakFuncSignature">>),
     Rule("long_interface_method", Node("Field"),
          All(<<Is("IsInterfaceMethod"), Is("AnyLineWidth")>>), 90, <<"BreakInterfaceMethod">>) >>

-----------------------------------------------------------------------------
(***************************************************************************)
(* The expression stage.  o is [policy, allowlist, logical, arithmetic,    *)
(* caseClause, selector], each style "legacy" or "layout".                 *)
(***************************************************************************)
Styled(style, layout, legacy) == IF style = "layout" THEN <<layout, legacy>> ELSE <<legacy>>

Safe(of) == EditSafe(of, "off", {})

long_string_concat(o) ==
  Rule("long_string_concat", Binary({"+"}),
       All(<<Is("LineWidth"), Is("IsStringConcat"), Not(Is("IsInCallArgs")),
             EditSafe("node", o.policy, o.allowlist)>>), 25, <<"ReflowStringConcat">>)

long_selector_chain(o) ==
  Rule("long_selector_chain", Node("SelectorExpr"),
       All(<<Is("LineWidth"), Safe("node"), Not(Is("ParentIsSelector")), Not(Is("AncestorIsCall"))>>),
       24, IF o.selector = "layout" THEN <<"BreakSelectorChainLayout">> ELSE <<"NoOp">>)

safe_logical_chain(o) ==
  Rule("long_logical_chain", Binary(LogicalOps),
       All(<<Is("MaxLineWidthInSpan"), EditSafe("node", o.policy, o.allowlist)>>), 40,
       Styled(o.logical, "BreakLogicalChainLayout", "BreakLogicalChainPacked"))

safe_arithmetic_expr(o) ==
  Rule("long_arithmetic_expr", Binary(ArithmeticOps),
       All(<<Is("LineWidth"), Not(Is("IsStringConcat")), Safe("node")>>), 20,
       Styled(o.arithmetic, "BreakArithmeticChainLayout", "BreakAtOp"))

safe_for_cond ==
  Rule("for_with_long_cond", BinaryIn("ForStmt", "cond", "cond"),
       All(<<Is("LineWidth"), Safe("cond")>>), 45, LayoutOrAtOp)

safe_return_binary ==
  Rule("return_with_long_binary", BinaryIn("ReturnStmt", "results", "expr"),
       All(<<Is("LineWidth"), Not(IsOf("IsStringConcat", "expr")), Safe("expr")>>), 35, LayoutOrAtOp)

safe_case_clause(o) ==
  Rule("long_case_clause", Node("CaseClause"), All(<<Is("LineWidth"), Safe("node")>>), 35,
       Styled(o.caseClause, "BreakCaseClauseLayout", "BreakCaseClause"))

safe_assign_binary ==
  Rule("assignment_with_long_binary", BinaryIn("AssignStmt", "rhs", "expr"),
       All(<<Is("LineWidth"), Not(IsOf("HasCallExpr", "expr")), Safe("expr")>>), 32, LayoutOrAtOp)

assign_type_assert ==
  Rule("assignment_with_long_type_assert_rhs",
       NodeWith("AssignStmt", Holding("rhs", "expr", "TypeAssertExpr")),
       All(<<Is("LineWidth"), Safe("expr")>>), 31, <<"BreakAssignRHS">>)

generic_conversion ==
  Rule("value_spec_with_long_generic_conversion", Node("ValueSpec"),
       All(<<Is("LineWidth")>>), 30, <<"BreakValueSpecGenericConversion">>)

LongExprRulesWithOptions(o) ==
  << keep_simple_comparison, long_string_concat(o), long_selector_chain(o), safe_logical_chain(o),
     safe_arithmetic_expr(o), safe_for_cond, safe_return_binary, safe_case_clause(o),
     safe_assign_binary, assign_type_assert, generic_conversion >>

(***************************************************************************)
(* The literals the expression stage also lays out.                        *)
(***************************************************************************)
ExpandFuncLitBodyRules ==
  << Rule("expand_func_lit_body", Node("FuncLit"), All(<<Is("True")>>), 24, <<"ExpandFuncLitBody">>) >>

ExpandCompositeLitRules ==
  << Rule("break_composite_key_value", Node("KeyValueExpr"), All(<<Is("True")>>), 26,
          <<"BreakCompositeKeyValue">>),
     Rule("move_composite_trailing_comment", Node("CompositeLit"), All(<<Is("True")>>), 27,
          <<"MoveCompositeTrailingComment">>),
     Rule("expand_composite_lit", Node("CompositeLit"), All(<<Is("True")>>), 25,
          <<"ExpandCompositeLit">>) >>

SplitLongStringLiteralRules ==
  << Rule("split_long_string_literal_in_call_args", Node("BasicLit"), All(<<Is("IsCallArg")>>), 20,
          <<"SplitLongStringLiteral">>) >>

-----------------------------------------------------------------------------
(***************************************************************************)
(* The rule sets of an engine that runs alone (RulesFor).                  *)
(***************************************************************************)
PlainLog == [any |-> FALSE, names |-> {}, prefixes |-> {}, nonF |-> FALSE]

PlainCalls == [excludes |-> {}, names |-> {}, prefixes |-> {}, chainStyle |-> "", argsStyle |-> "",
               grouping |-> "", spanWidth |-> FALSE]

DefaultRulesWithOptions ==
  SignatureRules \o LogPrintfRulesWithOptions(PlainLog) \o
  MultiLineCallRulesWithOptions(PlainCalls) \o expressionOnlyRules \o
  BlankLineRulesWithOptions(FALSE)

NotChainOrLog(of) == <<Not(LogCall(of, PlainLog)), Not(IsOf("IsMethodChain", of))>>

long_method_chain_assign ==
  Rule("long_method_chain_assign", CallIn("AssignStmt", "rhs", "call"),
       All(<<Is("LineWidth"), IsOf("IsMethodChain", "call")>>), 80, <<"BreakMethodChain">>)

assignment_with_long_call ==
  Rule("assignment_with_long_call",
       [type |-> "AssignStmt", fields |-> <<Capturing("lhs", "var"), Holding("rhs", "rhs", "CallExpr")>>],
       All(<<Is("LineWidth")>> \o NotChainOrLog("rhs")), 50, <<"ReflowCall">>)

one_per_line_call ==
  Rule("long_call_expr", Node("CallExpr"),
       All(<<Is("CollapsedWidth")>> \o NotChainOrLog("node")), 50, <<"OnePerLineMultiLineCall">>)

ExpressionRules ==
  << SignatureRules[1], long_method_chain_assign, assignment_with_long_call, for_with_long_cond,
     one_per_line_call, keep_simple_comparison, LogicalChains[1], return_with_long_binary,
     long_case_clause, LogicalChains[2], assignment_with_long_binary(LayoutOrAtOp),
     long_arithmetic_expr >>
  \o BlankLineRulesWithOptions(FALSE)

RulesFor(set) ==
  CASE set = "expression-only"   -> expressionOnlyRules
    [] set = "expression-compat" -> ExpressionRules
    [] OTHER                     -> DefaultRulesWithOptions
=============================================================================
