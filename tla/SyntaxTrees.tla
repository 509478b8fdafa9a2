---------------------------- MODULE SyntaxTrees ----------------------------
(***************************************************************************)
(* What the rules of the engine can ask of a syntax tree (dsl/pattern.go   *)
(* and dsl/condition.go): the patterns that select nodes, and the          *)
(* conditions under which a selected node is handed to an action.          *)
(*                                                                         *)
(* A tree T is a record of                                                 *)
(*   nodes     its nodes in preorder, a parent before its children, each   *)
(*             [type, up, role, val, first, last, head, above]: the parent *)
(*             and the field of the parent it stands in; its name, literal *)
(*             kind or operator; its first and last line; the line on      *)
(*             which the header of a declaration or statement ends; and    *)
(*             what the line above it is: "top" (there is none), "blank",  *)
(*             "opens" (it ends in a brace or a colon), "code"             *)
(*   long      the lines wider than the column limit                       *)
(*   past      the nodes whose own text reaches past the limit on a line   *)
(*   flat      the nodes that would, written on one line                   *)
(*   comments  the nodes with a comment among their own tokens             *)
(*   airy      the functions with an empty line after the opening brace    *)
(*   parses    whether the text has no syntax error                        *)
(* Names are sequences of identifiers, log.Infof being <<"log","Infof">>.  *)
(***************************************************************************)
EXTENDS Integers, Sequences, SequencesExt, FiniteSets

None == 0

NodesOf(T) == DOMAIN T.nodes

Type(T, n) == IF n = None THEN "none" ELSE T.nodes[n].type

Val(T, n) == T.nodes[n].val

(***************************************************************************)
(* The parent map of the context, and the nodes from n up to the root.     *)
(***************************************************************************)
Parent(T, n) == IF n = None THEN None ELSE T.nodes[n].up

UpFrom(T, n) ==
  LET up[m \in 0..Len(T.nodes)] == IF m = None THEN {} ELSE {m} \cup up[T.nodes[m].up]
  IN  up[n]

Under(T, n) == {m \in NodesOf(T) : n \in UpFrom(T, m)}

ChildrenAt(T, n, role) == SelectSeq([m \in NodesOf(T) |-> m],
                                    LAMBDA m : T.nodes[m].up = n /\ T.nodes[m].role = role)

Child(T, n, role) ==
  LET found == {m \in NodesOf(T) : T.nodes[m].up = n /\ T.nodes[m].role = role}
  IN  IF found = {} THEN None ELSE Min(found)

-----------------------------------------------------------------------------
(***************************************************************************)
(* Patterns: [type, fields], a field being [name, capture, oneOf, sub]     *)
(* with "" and {} for what it leaves open.                                 *)
(***************************************************************************)
KnownTypes ==
  {"File", "CallExpr", "BinaryExpr", "UnaryExpr", "AssignStmt", "IfStmt", "ForStmt",
   "ReturnStmt", "CaseClause", "SwitchStmt", "TypeSwitchStmt", "FuncDecl", "FuncLit",
   "BasicLit", "Ident", "SelectorExpr", "IndexExpr", "SliceExpr", "TypeAssertExpr",
   "CompositeLit", "KeyValueExpr", "ParenExpr", "StarExpr", "Ellipsis", "ValueSpec",
   "FuncType", "FieldList", "Field", "InterfaceType"}

matchType(T, n, type) == type \in KnownTypes /\ Type(T, n) = type

(***************************************************************************)
(* getField: the fields a pattern can name, by the type of the node; of a  *)
(* field that holds a list, the first element.                             *)
(***************************************************************************)
FieldsOf(type) ==
  CASE type = "CallExpr"                -> {"fun"}
    [] type = "BinaryExpr"              -> {"left", "right"}
    [] type \in {"UnaryExpr", "ParenExpr", "StarExpr"} -> {"x"}
    [] type = "AssignStmt"              -> {"lhs", "rhs"}
    [] type \in {"IfStmt", "ForStmt"}   -> {"init", "cond", "post", "body", "else"}
    [] type = "ReturnStmt"              -> {"results"}
    [] type \in {"CaseClause", "FieldList"} -> {"list"}
    [] type = "SelectorExpr"            -> {"x", "sel"}
    [] type = "CompositeLit"            -> {"type"}
    [] type = "FuncDecl"                -> {"type", "name", "recv", "body"}
    [] type = "FuncType"                -> {"params", "results"}
    [] OTHER                            -> {}

getField(T, n, role) == IF role \in FieldsOf(Type(T, n)) THEN Child(T, n, role) ELSE None

(***************************************************************************)
(* matchLiteral: an operator field has no child; a name or a literal has.  *)
(***************************************************************************)
matchLiteral(T, n, child, lit) ==
  \/ child = None /\ Type(T, n) \in {"BinaryExpr", "UnaryExpr"} /\ Val(T, n) = lit
  \/ Type(T, child) \in {"Ident", "BasicLit"} /\ Val(T, child) = lit

matchField(T, n, field) ==
  LET child == getField(T, n, field.name)
  IN  /\ field.oneOf # {} => \E lit \in field.oneOf : matchLiteral(T, n, child, lit)
      /\ field.sub # "" => child # None /\ matchType(T, child, field.sub)

Matches(T, n, pattern) ==
  /\ matchType(T, n, pattern.type)
  /\ \A f \in ToSet(pattern.fields) : matchField(T, n, f)

(***************************************************************************)
(* What the pattern captured, and the node itself under the name "node".   *)
(***************************************************************************)
Captures(T, n, pattern) ==
  [target \in {"node"} \cup {f.capture : f \in ToSet(pattern.fields)} |->
     IF target = "node" THEN n
     ELSE getField(T, n, (CHOOSE f \in ToSet(pattern.fields) : f.capture = target).name)]

resolveTarget(caps, target) == IF target \in DOMAIN caps THEN caps[target] ELSE None

-----------------------------------------------------------------------------
(***************************************************************************)
(* Calls: their names, their arguments, and the calls around a node.       *)
(***************************************************************************)
Fun(T, call) == Child(T, call, "fun")

Args(T, call) == ChildrenAt(T, call, "args")

isCallArg(T, call, n) == n \in ToSet(Args(T, call))

(***************************************************************************)
(* The dotted name of a function: what follows the last part that is not a *)
(* name.  callExprFuncName also reads it behind type arguments, f[T](x).   *)
(***************************************************************************)
selectorPrefix(T, x) ==
  LET name[m \in 0..Len(T.nodes)] ==
        IF Type(T, m) = "Ident" THEN <<Val(T, m)>>
        ELSE IF Type(T, m) = "SelectorExpr" THEN name[Child(T, m, "x")] \o <<Val(T, m)>>
        ELSE <<>>
  IN  name[x]

IsGeneric(T, fun) == Type(T, fun) \in {"IndexExpr", "IndexListExpr"}

callExprFuncName(T, call) ==
  selectorPrefix(T, IF IsGeneric(T, Fun(T, call)) THEN Child(T, Fun(T, call), "x")
                                                  ELSE Fun(T, call))

(***************************************************************************)
(* getFuncName: only a name, or a name after one other name.               *)
(***************************************************************************)
getFuncName(T, call) ==
  LET fun == Fun(T, call)
  IN  IF \/ Type(T, fun) = "Ident"
         \/ Type(T, fun) = "SelectorExpr" /\ Type(T, Child(T, fun, "x")) = "Ident"
        THEN selectorPrefix(T, fun)
        ELSE <<>>

(***************************************************************************)
(* structuredLogCallName and its like: the last identifier.                *)
(***************************************************************************)
LastName(T, call) ==
  IF Type(T, Fun(T, call)) \in {"Ident", "SelectorExpr"} THEN Val(T, Fun(T, call)) ELSE ""

(***************************************************************************)
(* strings.Contains on names, an entry being whole identifiers.            *)
(***************************************************************************)
NameContains(name, entry) ==
  entry # <<>> /\ \E i \in 0..(Len(name) - Len(entry)) :
                    \A j \in DOMAIN entry : name[i + j] = entry[j]

IsCallFuncContainsAny(T, n, names) ==
  /\ Type(T, n) = "CallExpr"
  /\ \E entry \in names : NameContains(callExprFuncName(T, n), entry)

(***************************************************************************)
(* IsCallArgCond, IsInCallArgsCond, enclosingCallForArg: a direct          *)
(* argument, anything inside one, and the nearest call it is inside of.    *)
(***************************************************************************)
IsCallArg(T, n) == Type(T, Parent(T, n)) = "CallExpr" /\ isCallArg(T, Parent(T, n), n)

IsInCallArgs(T, n) == \E m \in UpFrom(T, n) : IsCallArg(T, m)

enclosingCallForArg(T, n) ==
  LET inside == {m \in UpFrom(T, n) : IsCallArg(T, m)}
  IN  Parent(T, CHOOSE m \in inside : \A k \in inside : k <= m)

IsAncestorType(T, n, type) == \E m \in UpFrom(T, n) : matchType(T, m, type)

IsParentType(T, n, type) == Parent(T, n) # None /\ matchType(T, Parent(T, n), type)

IsChainedCallReceiver(T, n) ==
  /\ Type(T, n) = "CallExpr"
  /\ Type(T, Parent(T, n)) = "SelectorExpr"
  /\ Type(T, Parent(T, Parent(T, n))) = "CallExpr"

HasCallExpr(T, n) == \E m \in Under(T, n) : Type(T, m) = "CallExpr"

(***************************************************************************)
(* countMethodChainCalls: calls joined as a().b().c().                     *)
(***************************************************************************)
countMethodChainCalls(T, call) ==
  LET count[m \in 0..Len(T.nodes)] ==
        IF Type(T, m) # "CallExpr" THEN 0
        ELSE 1 + (IF Type(T, Fun(T, m)) = "SelectorExpr"
                    THEN count[Child(T, Fun(T, m), "x")] ELSE 0)
  IN  count[call]

IsMethodChain(T, n, minCalls) ==
  LET call == IF Type(T, n) = "AssignStmt" THEN Child(T, n, "rhs") ELSE n
  IN  Type(T, call) = "CallExpr" /\ countMethodChainCalls(T, call) >= minCalls

-----------------------------------------------------------------------------
(***************************************************************************)
(* Literals.                                                               *)
(***************************************************************************)
IsSimpleLiteral(T, n) ==
  \/ Type(T, n) = "BasicLit"
  \/ Type(T, n) = "Ident" /\ Val(T, n) \in {"true", "false", "nil"}
  \/ Type(T, n) = "UnaryExpr" /\ Type(T, Child(T, n, "x")) = "BasicLit"

isStringLit(T, n) ==
  LET lit[m \in 0..Len(T.nodes)] ==
        \/ Type(T, m) = "BasicLit" /\ Val(T, m) = "STRING"
        \/ /\ Type(T, m) = "BinaryExpr" /\ Val(T, m) = "+"
           /\ lit[Child(T, m, "left")] \/ lit[Child(T, m, "right")]
  IN  lit[n]

isStringConcatBinary(T, n) ==
  /\ Type(T, n) = "BinaryExpr" /\ Val(T, n) = "+"
  /\ isStringLit(T, Child(T, n, "left")) \/ isStringLit(T, Child(T, n, "right"))

IsStringConcat(T, n) == \E m \in Under(T, n) : isStringConcatBinary(T, m)

-----------------------------------------------------------------------------
(***************************************************************************)
(* Log and printf calls.  o is [any, names, prefixes, nonF]: whether any   *)
(* receiver counts, the method names that count (none: the built-in ones), *)
(* the receivers that count (none: all), and whether Info, Error and the   *)
(* like count when their first argument is a string.                       *)
(***************************************************************************)
logPrintfPatterns ==
  {<<"log", m>> : m \in {"Infof", "Debugf", "Tracef", "Errorf", "Warnf"}}
    \cup {<<"fmt", m>> : m \in {"Printf", "Sprintf", "Errorf"}}
    \cup {<<"errors", "New">>}

isLogPrintfName(name, names) ==
  name \in IF names # {} THEN names
           ELSE {"Infof", "Debugf", "Tracef", "Errorf", "Warnf", "Fatalf", "Printf", "Sprintf"}

(***************************************************************************)
(* renderExprString, for the receivers a prefix can name; calls on the way *)
(* are rendered without their arguments.                                   *)
(***************************************************************************)
renderExprString(T, x) ==
  LET shown[m \in 0..Len(T.nodes)] ==
        CASE Type(T, m) = "Ident" -> <<Val(T, m)>>
          [] Type(T, m) = "SelectorExpr" -> shown[Child(T, m, "x")] \o <<Val(T, m)>>
          [] Type(T, m) = "CallExpr" -> shown[Fun(T, m)] \o <<"()">>
          [] OTHER -> <<"?">>
  IN  shown[x]

isLogPrintfCallWithAnyPrefix(T, call, names) == isLogPrintfName(LastName(T, call), names)

isLogPrintfCallWithAllowedPrefixes(T, call, prefixes, names) ==
  LET fun == Fun(T, call)
  IN  /\ isLogPrintfName(LastName(T, call), names)
      /\ \/ Type(T, fun) = "Ident"
         \/ \E p \in prefixes : IsPrefix(p, renderExprString(T, Child(T, fun, "x")))

isNonFStringLogCall(T, call) ==
  /\ Args(T, call) # <<>> /\ isStringLit(T, Args(T, call)[1])
  /\ LastName(T, call) \in {"Info", "Debug", "Trace", "Warn", "Error"}

(***************************************************************************)
(* With a list of receivers and any = TRUE, only that list decides beyond  *)
(* the canonical names: nonF is not looked at.                             *)
(***************************************************************************)
IsLogOrPrintfCall(T, n, o) ==
  /\ Type(T, n) = "CallExpr"
  /\ LET listed == isLogPrintfCallWithAllowedPrefixes(T, n, o.prefixes, o.names)
     IN  \/ getFuncName(T, n) \in logPrintfPatterns
         \/ o.prefixes # {} /\ listed
         \/ /\ ~(o.prefixes # {} /\ o.any)
            /\ \/ o.nonF /\ isNonFStringLogCall(T, n)
               \/ o.any /\ isLogPrintfCallWithAnyPrefix(T, n, o.names)

(***************************************************************************)
(* InfoS("msg", key, value ...), with or without a context first; ErrorS   *)
(* takes an error before the message.                                      *)
(***************************************************************************)
structuredLogPairStart(T, call) ==
  LET args == Args(T, call)
      MessageAt(i) == Len(args) > i /\ isStringLit(T, args[i])
  IN  CASE LastName(T, call) \in {"InfoS", "DebugS", "WarnS"} ->
             IF MessageAt(1) THEN 1 ELSE IF MessageAt(2) THEN 2 ELSE 0
        [] LastName(T, call) = "ErrorS" ->
             IF MessageAt(2) THEN 2 ELSE IF MessageAt(3) THEN 3 ELSE 0
        [] OTHER -> 0

IsStructuredLogCall(T, n) == Type(T, n) = "CallExpr" /\ structuredLogPairStart(T, n) > 0

IsNonFLogCall(T, n) ==
  /\ Type(T, n) = "CallExpr" /\ Type(T, Fun(T, n)) = "SelectorExpr"
  /\ Val(T, Fun(T, n)) \in {"Info", "Debug", "Trace", "Error", "Warn", "Fatal", "Panic"}
  /\ LET x == Child(T, Fun(T, n), "x") IN Type(T, x) = "Ident" /\ Val(T, x) = "log"

-----------------------------------------------------------------------------
(***************************************************************************)
(* Widths.  LineWidthCond reads the whole line on which a node starts;     *)
(* MaxLineWidthInSpanCond the whole of every line it touches;              *)
(* MaxSpanLineWidthCond and AnyLineWidthCond those lines up to its end.    *)
(***************************************************************************)
LinesOf(T, n) == T.nodes[n].first .. T.nodes[n].last

LineWidth(T, n) == T.nodes[n].first \in T.long

MaxLineWidthInSpan(T, n) == LinesOf(T, n) \cap T.long # {}

MaxSpanLineWidth(T, n) == n \in T.past

AnyLineWidth(T, n) == n \in T.past

CollapsedWidth(T, n) == n \in T.flat

HasAnyComment(T, n) == Under(T, n) \cap T.comments # {}

(***************************************************************************)
(* ExprEditSafeCond: outside the arguments of a call, or of one the policy *)
(* lets through; outside composite and function literals; no comment.      *)
(***************************************************************************)
ExprEditSafe(T, n, policy, allowlist) ==
  /\ IsInCallArgs(T, n) =>
       \/ policy = "force"
       \/ policy = "auto" /\ callExprFuncName(T, enclosingCallForArg(T, n)) \in allowlist
  /\ ~IsAncestorType(T, n, "CompositeLit")
  /\ ~IsAncestorType(T, n, "FuncLit")
  /\ ~HasAnyComment(T, n)

(***************************************************************************)
(* Headers: from the first line of a node to its brace or colon.           *)
(***************************************************************************)
HasMultilineHeader(T, n, type) ==
  Type(T, n) = type /\ T.nodes[n].first # T.nodes[n].head

HeaderPast(T, n, type) ==
  /\ Type(T, n) = type
  /\ n \in T.past
  /\ (T.nodes[n].first .. T.nodes[n].head) \cap T.long # {}

HasBlankAfterFuncHeader(T, n) == Type(T, n) \in {"FuncDecl", "FuncLit"} /\ n \in T.airy

HasNestedMultilineType(T, n) ==
  /\ Type(T, n) = "FuncDecl"
  /\ \E p \in ToSet(ChildrenAt(T, n, "params")) :
       /\ Type(T, p) = "FuncType"
       /\ \E m \in Under(T, p) : Type(T, m) = "StructType"
       /\ T.nodes[p].first # T.nodes[p].last

-----------------------------------------------------------------------------
(***************************************************************************)
(* Statements and the blank lines between them.                            *)
(***************************************************************************)
IsFirstIn(T, n, role) == ChildrenAt(T, Parent(T, n), role)[1] = n

IsOnlyIn(T, n, role) == ChildrenAt(T, Parent(T, n), role) = <<n>>

HasPrecedingSibling(T, n) ==
  /\ Type(T, n) \in {"CaseClause", "CommClause"}
  /\ Type(T, Parent(T, n)) = "BlockStmt"
  /\ ~IsFirstIn(T, n, "stmts")

IsInterfaceMethod(T, n) ==
  /\ Type(T, n) = "Field"
  /\ Type(T, Child(T, n, "type")) = "FuncType"
  /\ Type(T, Parent(T, n)) = "FieldList"
  /\ Type(T, Parent(T, Parent(T, n))) = "InterfaceType"

HasPrecedingInterfaceField(T, n) ==
  Type(T, n) = "Field" /\ Type(T, Parent(T, n)) = "FieldList" /\ ~IsFirstIn(T, n, "list")

onlyStmtInClause(T, n) ==
  Type(T, Parent(T, n)) \in {"CaseClause", "CommClause"} /\ IsOnlyIn(T, n, "body")

onlyStmtInBlockWithoutLeadingComment(T, n) ==
  LET block == Parent(T, n)
  IN  /\ Type(T, block) = "BlockStmt"
      /\ IsOnlyIn(T, n, "stmts")
      /\ Type(T, Parent(T, block)) \in {"IfStmt", "ForStmt", "RangeStmt"}
      /\ block \notin T.comments

(***************************************************************************)
(* A return on the line of the opening brace has nothing above it to be    *)
(* separated from; nor has one under a blank line, a brace or a colon.     *)
(***************************************************************************)
IsReturnNeedingBlank(T, n) ==
  /\ Type(T, n) = "ReturnStmt"
  /\ ~onlyStmtInClause(T, n)
  /\ ~onlyStmtInBlockWithoutLeadingComment(T, n)
  /\ Type(T, Parent(T, n)) = "BlockStmt" => T.nodes[n].first # T.nodes[Parent(T, n)].first
  /\ T.nodes[n].above = "code"

isErrNotNilCond(T, n) ==
  /\ Type(T, n) = "BinaryExpr" /\ Val(T, n) = "!="
  /\ LET sides == <<Child(T, n, "left"), Child(T, n, "right")>>
     IN  /\ \A i \in 1..2 : Type(T, sides[i]) = "Ident"
         /\ {Val(T, sides[1]), Val(T, sides[2])} = {"err", "nil"}

IsIfErrReturnNeedingBlank(T, n) ==
  /\ Type(T, n) = "IfStmt"
  /\ Child(T, n, "else") = None
  /\ isErrNotNilCond(T, Child(T, n, "cond"))
  /\ LET body == ChildrenAt(T, Child(T, n, "body"), "stmts")
     IN  Len(body) = 1 /\ Type(T, body[1]) = "ReturnStmt"
  /\ Type(T, Parent(T, n)) = "BlockStmt" /\ ~IsFirstIn(T, n, "stmts")
  /\ T.nodes[n].above = "code"
=============================================================================
