---------------------------- MODULE MCStageConfig ----------------------------
(***************************************************************************)
(* What a pipeline is built from, looked at in two parts, one at a time.   *)
(*                                                                         *)
(* "rules": every style with every kind of toggle, permission and explicit *)
(* plan on one file that has a node for every rule, and a handful of       *)
(* configurations on every call of a few names, receivers and arguments.   *)
(*                                                                         *)
(* "order": all lists of two stages, named or not, of three stages, and of *)
(* four, of which each requires any two (for four any one) stages: one     *)
(* before it, one behind it, itself, one that is missing, or one twice.    *)
(***************************************************************************)
EXTENDS StageConfig, StageOrder

VARIABLE part     \* "rules" or "order": the other part rests

N(type, up, role, val) ==
  [type |-> type, up |-> up, role |-> role, val |-> val, first |-> 1, last |-> 1, head |-> 1, above |-> "code"]

(***************************************************************************)
(* A call in a file, on one line that is too wide.                         *)
(***************************************************************************)
FunNodes(recv, method) ==
  CASE recv = "none"    -> <<N("Ident", 2, "fun", method)>>
    [] recv = "chain"   -> <<N("SelectorExpr", 2, "fun", method), N("CallExpr", 3, "x", ""),
                             N("SelectorExpr", 4, "fun", "L"), N("Ident", 5, "x", "zap")>>
    [] recv = "generic" -> <<N("IndexExpr", 2, "fun", ""), N("SelectorExpr", 3, "x", method),
                             N("Ident", 4, "x", "log")>>
    [] OTHER            -> <<N("SelectorExpr", 2, "fun", method), N("Ident", 3, "x", recv)>>

Pair(i, up, op, type, val) ==
  <<N("BinaryExpr", up, "args", op), N(type, i, "left", val), N(type, i, "right", val)>>

ArgNodes(i, arg) ==
  CASE arg = "string" -> <<N("BasicLit", 2, "args", "STRING")>>
    [] arg = "name"   -> <<N("Ident", 2, "args", "a")>>
    [] arg = "and"    -> Pair(i, 2, "&&", "Ident", "a")
    [] arg = "concat" -> Pair(i, 2, "+", "BasicLit", "STRING")
    [] arg = "call"   -> <<N("CallExpr", 2, "args", ""), N("Ident", i, "fun", "g")>>
                           \o Pair(i + 2, i, "&&", "Ident", "a")

OnOneLine(nodes, comments) ==
  [nodes |-> nodes, long |-> {1}, past |-> DOMAIN nodes, flat |-> DOMAIN nodes,
   comments |-> comments, airy |-> {}, parses |-> TRUE]

CallTree(recv, method, args, comments) ==
  OnOneLine(FoldLeft(LAMBDA nodes, arg : nodes \o ArgNodes(Len(nodes) + 1, arg),
                     <<N("File", 0, "", ""), N("CallExpr", 1, "stmts", "")>> \o FunNodes(recv, method),
                     args), comments)

CallTrees ==
  {CallTree(recv, method, args, comments) :
     recv \in {"none", "log", "logger", "chain", "generic"},
     method \in {"Infof", "Fatalf", "Error", "InfoS", "ErrorS", "f"},
     args \in {<<"and">>, <<"string", "and">>, <<"concat", "call">>,
               <<"name", "string", "name">>, <<"string", "name", "and">>},
     comments \in {{}}}
  \cup {CallTree(recv, "ErrorS", <<"string", "and">>, {2}) : recv \in {"log", "chain"}}

(***************************************************************************)
(* A file with something for every stage: L gives a node its lines.        *)
(***************************************************************************)
L(n, first, last, head) == [n EXCEPT !.first = first, !.last = last, !.head = head]

FileTree ==
  [nodes |-> <<
     N("File", 0, "", ""),
     L(N("FuncDecl", 1, "decls", ""), 1, 20, 2),
     N("FieldList", 2, "type", ""),
     N("FuncType", 3, "params", ""),
     L(N("BlockStmt", 2, "body", ""), 2, 20, 2),
     L(N("IfStmt", 5, "stmts", ""), 3, 5, 4),
     L(N("BinaryExpr", 6, "cond", "!="), 3, 4, 4),
     L(N("Ident", 7, "left", "err"), 3, 3, 3),
     L(N("Ident", 7, "right", "nil"), 3, 3, 3),
     L(N("BlockStmt", 6, "body", ""), 4, 5, 4),
     L(N("ReturnStmt", 10, "stmts", ""), 5, 5, 5),
     L(N("ForStmt", 5, "stmts", ""), 6, 8, 7),
     L(N("BinaryExpr", 12, "cond", "<"), 6, 6, 6),
     L(N("AssignStmt", 5, "stmts", "="), 9, 9, 9),
     L(N("BinaryExpr", 14, "rhs", "+"), 9, 9, 9),
     L(N("BasicLit", 15, "left", "STRING"), 9, 9, 9),
     L(N("Ident", 15, "right", "a"), 9, 9, 9),
     L(N("CaseClause", 5, "stmts", ""), 10, 12, 11),
     L(N("CaseClause", 5, "stmts", ""), 12, 12, 12),
     L(N("CallExpr", 5, "stmts", ""), 13, 13, 13),
     L(N("Ident", 20, "fun", "f"), 13, 13, 13),
     L(N("BinaryExpr", 20, "args", "&&"), 13, 13, 13),
     L(N("FuncLit", 20, "args", ""), 13, 14, 14),
     L(N("CompositeLit", 20, "args", ""), 14, 14, 14),
     L(N("KeyValueExpr", 24, "elts", ""), 14, 14, 14),
     L(N("InterfaceType", 5, "stmts", ""), 15, 17, 15),
     L(N("FieldList", 26, "methods", ""), 15, 17, 15),
     L(N("Field", 27, "list", "m"), 16, 16, 16),
     L(N("FuncType", 28, "type", ""), 16, 16, 16),
     L(N("Field", 27, "list", "n"), 17, 18, 18),
     L(N("FuncType", 30, "type", ""), 17, 18, 18),
     L(N("SelectorExpr", 5, "stmts", "y"), 19, 19, 19),
     L(N("Ident", 32, "x", "z"), 19, 19, 19),
     L(N("ReturnStmt", 5, "stmts", ""), 20, 20, 20) >>,
   long |-> {1, 3, 6, 9, 10, 13, 16, 19}, past |-> 1..34, flat |-> {20}, comments |-> {}, airy |-> {2},
   parses |-> TRUE]

BrokenFile == [FileTree EXCEPT !.parses = FALSE]

-----------------------------------------------------------------------------
Use(on) == [s \in Stages |-> s \in on]

Blank ==
  [use |-> Use({}), override |-> NoPlan, commentMode |-> "", multiStyle |-> "", sigStyle |-> "",
   logical |-> "", arithmetic |-> "", caseClause |-> "", selector |-> "",
   excludes |-> {}, names |-> {}, prefixes |-> {}, ifErr |-> FALSE, registry |-> FALSE,
   sigsNative |-> FALSE, blanksNative |-> FALSE, allow |-> FALSE, auto |-> FALSE]

Toggles == {{}, {"multiline-calls"}, {"multiline-calls", "expressions"}, {"signatures", "blank-lines"}, Stages}

Overrides ==
  {NoPlan, PlanOf(EveryStage), PlanOf(Use({"signatures", "multiline-calls"})),
   [PlanOf(EveryStage) EXCEPT !["blank-lines"] = "on"]}

CallConfigs ==
  {[Blank EXCEPT !.use = Use(on), !.override = o, !.multiStyle = style, !.allow = allow,
                 !.auto = auto, !.registry = registry] :
     on \in Toggles, o \in Overrides, style \in allowedDSLMultiLineStyles \cup {"", "odd"},
     allow \in BOOLEAN, auto \in BOOLEAN, registry \in BOOLEAN}

StyleConfigs ==
  {[Blank EXCEPT ![f] = style] :
     f \in {"logical", "arithmetic", "caseClause", "selector", "sigStyle", "commentMode"},
     style \in {"legacy", "layout", "dsl", "off", "odd"}}

Lists ==
  {[Blank EXCEPT !.excludes = {<<"f">>}], [Blank EXCEPT !.names = {"f"}],
   [Blank EXCEPT !.prefixes = {<<"logger">>}], Blank}

ListConfigs ==
  {[c EXCEPT !.registry = registry, !.allow = a[1], !.multiStyle = a[2]] :
     c \in Lists, registry \in BOOLEAN,
     a \in {<<FALSE, "">>, <<TRUE, "layout-args">>, <<FALSE, "layout-all">>}}

MCJobs ==
  {[cfg |-> c, tree |-> FileTree] : c \in CallConfigs \cup StyleConfigs}
    \cup {[cfg |-> [Blank EXCEPT !.ifErr = e], tree |-> BrokenFile] : e \in BOOLEAN}
    \cup {[cfg |-> c, tree |-> t] : c \in ListConfigs, t \in CallTrees}

-----------------------------------------------------------------------------
Requirements(names, n) == UNION {[1..m -> names] : m \in 0..n}

Stage(n, reqs) == [name |-> n, requires |-> reqs]

ListsToSort ==
  {[s \in 1..2 |-> Stage(f[s], g[s])] :
     f \in [1..2 -> {"a", "b", NoName}], g \in [1..2 -> Requirements({"a", "b", "d"}, 2)]}
    \cup {[s \in 1..3 |-> Stage(<<"a", "b", "c">>[s], g[s])] :
            g \in [1..3 -> Requirements({"a", "b", "c"}, 2)]}
    \cup {[s \in 1..4 |-> Stage(<<"a", "b", "c", "d">>[s], g[s])] :
            g \in [1..4 -> Requirements({"a", "b", "c", "d"}, 1)]}

MCStageLists == ListsToSort   \* a name of its own: TLC evaluates it once

AnyList == <<Stage("a", <<>>), Stage("b", <<>>)>>

PartsInit ==
  /\ part \in {"rules", "order"}
  /\ \/ part = "rules" /\ stages = AnyList
     \/ part = "order" /\ asked = CHOOSE j \in Jobs : TRUE
  /\ Init
  /\ SortInit

PartsNext ==
  \/ part = "rules" /\ Next /\ UNCHANGED <<part, sortVars>>
  \/ part = "order" /\ SortNext /\ UNCHANGED <<part, vars>>

PartsSpec == PartsInit /\ [][PartsNext]_<<part, vars, sortVars>>
=============================================================================
