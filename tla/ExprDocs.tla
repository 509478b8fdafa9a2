------------------------------ MODULE ExprDocs ------------------------------
(***************************************************************************)
(* The documents the layout actions build from expressions                 *)
(* (dsl/expr_doc.go).                                                      *)
(*                                                                         *)
(* An expression is a record [k, ...]: "ident", "lit", "func" and "map"    *)
(* with the token they are, a function literal running over several lines  *)
(* or not; the other kinds with their operands.  The source has each       *)
(* expression on one line, but for the function literals in it.            *)
(***************************************************************************)
EXTENDS LayoutDocs

P(s) == Token(s, Len(s))

(***************************************************************************)
(* The expressions, in the names of go/ast.                                *)
(***************************************************************************)
Operands(e) ==
  CASE e.k \in {"ident", "lit", "func", "map"}      -> <<>>
    [] e.k \in {"selector", "paren", "unary"}       -> <<e.x>>
    [] e.k \in {"binary", "index", "typeassert"}    -> <<e.x, e.y>>
    [] e.k = "keyvalue"                             -> <<e.key, e.value>>
    [] e.k = "indexlist"                            -> <<e.x>> \o e.args
    [] e.k = "slice"                                -> <<e.x>> \o e.low \o e.high \o e.max
    [] e.k = "call"                                 -> <<e.fun>> \o e.args
    [] e.k = "composite"                            -> e.type \o e.elts

RECURSIVE Multiline(_)
Multiline(e) ==
  \/ e.k = "func" /\ e.lines > 1
  \/ \E i \in DOMAIN Operands(e) : Multiline(Operands(e)[i])

Joined(texts, sep) ==
  FoldLeft(LAMBDA s, i : (IF i = 1 THEN s ELSE s \o sep) \o texts[i], <<>>, [i \in DOMAIN texts |-> i])

SliceParts(e) == <<e.low, e.high>> \o (IF e.max = <<>> THEN <<>> ELSE <<e.max>>)

(***************************************************************************)
(* An expression as go/printer writes it.                                  *)
(***************************************************************************)
RECURSIVE renderNode(_)

All(es) == [i \in DOMAIN es |-> renderNode(es[i])]

Commas(es) == Joined(All(es), <<P(","), Space>>)

Colons(parts) == Joined([i \in DOMAIN parts |-> Joined(All(parts[i]), <<>>)], <<P(":")>>)

renderNode(e) ==
  CASE e.k \in {"ident", "lit", "func", "map"} -> <<e.token>>
       [] e.k = "selector"   -> renderNode(e.x) \o <<P("."), e.sel>>
       [] e.k = "paren"      -> <<P("(")>> \o renderNode(e.x) \o <<P(")")>>
       [] e.k = "unary"      -> <<P(e.op)>> \o renderNode(e.x)
       [] e.k = "binary"     -> renderNode(e.x) \o <<Space, P(e.op), Space>> \o renderNode(e.y)
       [] e.k = "index"      -> renderNode(e.x) \o <<P("[")>> \o renderNode(e.y) \o <<P("]")>>
       [] e.k = "typeassert" -> renderNode(e.x) \o <<P("."), P("(")>> \o renderNode(e.y) \o <<P(")")>>
       [] e.k = "keyvalue"   -> renderNode(e.key) \o <<P(":"), Space>> \o renderNode(e.value)
       [] e.k = "indexlist"  -> renderNode(e.x) \o <<P("[")>> \o Commas(e.args) \o <<P("]")>>
       [] e.k = "slice"      ->
            renderNode(e.x) \o <<P("[")>> \o Colons(SliceParts(e)) \o <<P("]")>>
       [] e.k = "call"       ->
            renderNode(e.fun) \o <<P("(")>> \o Commas(e.args)
              \o (IF e.ellipsis THEN <<P("...")>> ELSE <<>>) \o <<P(")")>>
       [] e.k = "composite"  ->
            Joined(All(e.type), <<>>) \o <<P("{")>> \o Commas(e.elts) \o <<P("}")>>

-----------------------------------------------------------------------------
(***************************************************************************)
(* What exprDocWithKind returns: a document, and whether the caller has to *)
(* indent it; or nothing, and the caller uses the printed text.            *)
(***************************************************************************)
Unsupported == [ok |-> FALSE, doc |-> FB, cont |-> FALSE]

Info(doc, cont) == [ok |-> TRUE, doc |-> doc, cont |-> cont]

indentExprDocIfNeeded(info) == IF info.cont THEN N(info.doc) ELSE info.doc

Printed(e) == T(renderNode(e))

Literally(s) == T(<<P(s)>>)

CommaLine(docs) == Joined([i \in DOMAIN docs |-> <<docs[i]>>], <<Literally(","), L>>)

TrailingComma == IB(Literally(","), T(<<>>))

WithEllipsis(docs, there) ==
  IF there THEN [docs EXCEPT ![Len(docs)] = C(<<@, Literally("...")>>)] ELSE docs

comparisonOps == {"==", "!=", "<", ">", "<=", ">="}
logicalOps    == {"&&", "||"}
arithmeticOps == {"+", "-", "*", "/", "%"}

isStructLikeCompositeLit(e) ==
  /\ e.elts # <<>>
  /\ \A i \in DOMAIN e.type : e.type[i].k # "map"
  /\ \A i \in DOMAIN e.elts : e.elts[i].k = "keyvalue" /\ e.elts[i].key.k = "ident"

OpensUp(e) == e.k = "composite" /\ isStructLikeCompositeLit(e) /\ Len(e.elts) >= 2

(***************************************************************************)
(* The names of a selector, the calls of a method chain, the terms of a    *)
(* chain of one operator: left to right.                                   *)
(***************************************************************************)
RECURSIVE Selectors(_)
Selectors(e) ==
  IF e.k # "selector" THEN [base |-> e, names |-> <<>>]
  ELSE [Selectors(e.x) EXCEPT !.names = Append(@, e.sel)]

RECURSIVE Calls(_)
Calls(e) ==
  LET seg == [name |-> e.fun.sel, args |-> e.args, ellipsis |-> e.ellipsis]
  IN  IF e.fun.k # "selector" THEN [base |-> <<>>, segs |-> <<>>]
      ELSE IF e.fun.x.k # "call" THEN [base |-> <<e.fun.x>>, segs |-> <<seg>>]
      ELSE [Calls(e.fun.x) EXCEPT !.segs = Append(@, seg)]

RECURSIVE flattenSameOpBinaryChain(_, _)
flattenSameOpBinaryChain(e, op) ==
  IF e.k = "binary" /\ e.op = op
    THEN flattenSameOpBinaryChain(e.x, op) \o flattenSameOpBinaryChain(e.y, op)
    ELSE <<e>>

-----------------------------------------------------------------------------
RECURSIVE exprDocWithKind(_, _)

AsArgument(e) == exprDocWithKind(e, "callArg")

DocOr(info, e) == IF info.ok THEN info.doc ELSE Printed(e)

IndentedOr(info, e) == IF info.ok THEN indentExprDocIfNeeded(info) ELSE Printed(e)

DocOrPrinted(e) == DocOr(AsArgument(e), e)

OperandDoc(e) == IndentedOr(AsArgument(e), e)

OperandDocs(es) == [i \in DOMAIN es |-> OperandDoc(es[i])]

(***************************************************************************)
(* A document for each argument, or none if one runs over several lines    *)
(* and has no document of its own.                                         *)
(***************************************************************************)
DocsFrom(args, infos) ==
  IF \E i \in DOMAIN args : ~infos[i].ok /\ Multiline(args[i]) THEN <<>>
  ELSE [i \in DOMAIN args |-> IndentedOr(infos[i], args[i])]

ArgDocs(args) == DocsFrom(args, [i \in DOMAIN args |-> AsArgument(args[i])])

Chained(base, links) == G(C(<<base>> \o FlattenSeq([i \in DOMAIN links |-> <<Literally("."), SL, links[i]>>])))

SelectorChain(base, names) ==
  IF Len(names) < 2 THEN Unsupported
  ELSE Info(Chained(Printed(base), [i \in DOMAIN names |-> T(<<names[i]>>)]), TRUE)

selectorExprDoc(e) == SelectorChain(Selectors(e).base, Selectors(e).names)

\* Mutant: no comma behind the last argument.
ArgPerLineNoComma(docs) == C(<<N(C(<<L, C(CommaLine(docs))>>)), L>>)

ArgPerLine(docs) == C(<<N(C(<<L, C(CommaLine(docs)), Literally(",")>>)), L>>)

OneLine(docs) == C(Joined([i \in DOMAIN docs |-> <<docs[i]>>], <<T(<<P(","), Space>>)>>))

EitherWay(docs) == IB(ArgPerLine(docs), OneLine(docs))

(***************************************************************************)
(* name(args), apart from the chain: on one line, or an argument a line    *)
(* with a comma behind the last.                                           *)
(***************************************************************************)
SegmentArgs(seg, docs) ==
  G(C((IF \E i \in DOMAIN seg.args : OpensUp(seg.args[i]) THEN <<FB>> ELSE <<>>)
        \o <<EitherWay(WithEllipsis(docs, seg.ellipsis))>>))

methodChainSegmentDoc(seg, docs) ==
  G(C(<<T(<<seg.name>>), Literally("(")>>
        \o (IF seg.args = <<>> THEN <<>> ELSE <<SegmentArgs(seg, docs)>>)
        \o <<Literally(")")>>))

CallChain(base, segs, docs) ==
  IF \/ base = <<>> \/ Len(segs) < 2
     \/ \E i \in DOMAIN docs : docs[i] = <<>> /\ segs[i].args # <<>>
    THEN Unsupported
    ELSE Info(Chained(Printed(base[1]), [i \in DOMAIN docs |-> methodChainSegmentDoc(segs[i], docs[i])]), TRUE)

ChainOf(calls) ==
  CallChain(calls.base, calls.segs, [i \in DOMAIN calls.segs |-> ArgDocs(calls.segs[i].args)])

methodChainDoc(e) == ChainOf(Calls(e))

ArgsGroup(docs) == G(C(<<SL, C(CommaLine(docs)), TrailingComma>>))

Called(fun, group) == G(C(<<fun, Literally("("), N(group), SL, Literally(")")>>))

GenericCall(e, docs) ==
  IF docs = <<>> THEN Unsupported
  ELSE Info(Called(DocOrPrinted(e.fun), ArgsGroup(WithEllipsis(docs, e.ellipsis))), FALSE)

genericCallDoc(e) == GenericCall(e, ArgDocs(e.args))

ChainOrCall(chain, e, kind) == IF chain.ok \/ kind # "callArg" THEN chain ELSE genericCallDoc(e)

callExprDoc(e, kind) == ChainOrCall(methodChainDoc(e), e, kind)

(***************************************************************************)
(* Operators stay at the end of their line.                                *)
(***************************************************************************)
logicalBinaryExprDoc(e) ==
  Info(G(C(<<OperandDoc(e.x), T(<<Space>>), Literally(e.op), L, OperandDoc(e.y)>>)), TRUE)

comparisonBinaryExprDoc(e) ==
  IF Multiline(e) THEN Unsupported
  ELSE Info(G(C(<<OperandDoc(e.x), T(<<Space>>), Literally(e.op), SL, OperandDoc(e.y)>>)), TRUE)

TermDocs(terms, kind) ==
  [i \in DOMAIN terms |-> <<IF kind = "callArg" THEN OperandDoc(terms[i]) ELSE Printed(terms[i])>>]

sameOpBinaryChainDoc(e, kind) ==
  IF e.op \notin logicalOps \cup arithmeticOps THEN Unsupported
  ELSE Info(G(C(Joined(TermDocs(flattenSameOpBinaryChain(e, e.op), kind),
                       <<T(<<Space>>), Literally(e.op), L>>))), TRUE)

binaryExprDoc(e, kind) ==
  CASE kind = "callArg" /\ e.op \in logicalOps    -> logicalBinaryExprDoc(e)
    [] kind = "callArg" /\ e.op \in comparisonOps -> comparisonBinaryExprDoc(e)
    [] OTHER                                      -> sameOpBinaryChainDoc(e, kind)

(***************************************************************************)
(* Brackets around something that may move to the next line, the closing   *)
(* one never alone on its line.                                            *)
(***************************************************************************)
Bracketed(before, open, inner, close) ==
  G(C(<<before, T(open), N(G(C(<<SL, inner>>))), T(close)>>))

InParens(inner) ==
  IF ~inner.ok THEN Unsupported
  ELSE Info(Bracketed(T(<<>>), <<P("(")>>, indentExprDocIfNeeded(inner), <<P(")")>>), FALSE)

parenExprDoc(e) == InParens(AsArgument(e.x))

typeAssertExprDoc(e) ==
  IF Multiline(e) THEN Unsupported
  ELSE Info(Bracketed(OperandDoc(e.x), <<P("."), P("(")>>, OperandDoc(e.y), <<P(")")>>), FALSE)

indexExprDoc(e) ==
  IF Multiline(e) THEN Unsupported
  ELSE Info(Bracketed(OperandDoc(e.x), <<P("[")>>, OperandDoc(e.y), <<P("]")>>), FALSE)

indexListExprDoc(e) ==
  IF Multiline(e) THEN Unsupported
  ELSE Info(Bracketed(OperandDoc(e.x), <<P("[")>>,
                      C(CommaLine(OperandDocs(e.args))), <<P("]")>>), FALSE)

PartDocs(parts) == [i \in DOMAIN parts |-> OperandDocs(parts[i])]

sliceExprDoc(e) ==
  IF Multiline(e) THEN Unsupported
  ELSE Info(Bracketed(OperandDoc(e.x), <<P("[")>>,
                      C(Joined(PartDocs(SliceParts(e)), <<Literally(":")>>)), <<P("]")>>), FALSE)

(***************************************************************************)
(* A literal with two named fields or more always gets a line for each.    *)
(***************************************************************************)
Literal(open, type, docs) ==
  G(C(open \o <<type, Literally("{"), N(G(C(open \o <<SL, C(CommaLine(docs))>>))),
                TrailingComma, SL, Literally("}")>>))

compositeLitDoc(e) ==
  IF Multiline(e) THEN Unsupported
  ELSE Info(Literal(IF OpensUp(e) THEN <<FB>> ELSE <<>>,
                    IF e.type = <<>> THEN T(<<>>) ELSE DocOrPrinted(e.type[1]),
                    OperandDocs(e.elts)), FALSE)

keyValueExprDoc(e) ==
  IF Multiline(e) THEN Unsupported
  ELSE Info(G(C(<<Printed(e.key), T(<<P(":"), Space>>), N(DocOrPrinted(e.value))>>)), FALSE)

(***************************************************************************)
(* -x, &x, *x: only if the operand has a document, which it stays with.    *)
(***************************************************************************)
Signed(op, operand) ==
  IF ~operand.ok THEN Unsupported
  ELSE Info(G(C(<<Literally(op), operand.doc>>)), operand.cont)

unaryExprDoc(e) == IF Multiline(e.x) THEN Unsupported ELSE Signed(e.op, AsArgument(e.x))

exprDocWithKind(e, kind) ==
  CASE e.k = "selector"                                  -> selectorExprDoc(e)
    [] e.k = "call"                                      -> callExprDoc(e, kind)
    [] e.k = "binary"                                    -> binaryExprDoc(e, kind)
    [] e.k = "paren" /\ (kind # "callArg" \/ e.x.k # "call") -> parenExprDoc(e)
    [] e.k \in {"ident", "lit"}                          -> Info(Printed(e), FALSE)
    [] kind = "callArg" /\ e.k = "keyvalue"              -> keyValueExprDoc(e)
    [] kind = "callArg" /\ e.k = "composite"             -> compositeLitDoc(e)
    [] kind = "callArg" /\ e.k = "unary"                 -> unaryExprDoc(e)
    [] kind = "callArg" /\ e.k = "typeassert"            -> typeAssertExprDoc(e)
    [] kind = "callArg" /\ e.k = "index"                 -> indexExprDoc(e)
    [] kind = "callArg" /\ e.k = "indexlist"             -> indexListExprDoc(e)
    [] kind = "callArg" /\ e.k = "slice"                 -> sliceExprDoc(e)
    [] OTHER                                             -> Unsupported
=============================================================================
