--------------------------- MODULE LayoutActions ---------------------------
(***************************************************************************)
(* The actions that lay out an expression anew (dsl/action.go,             *)
(* dsl/composite_lit_expand_action.go): what each of them asks for, the    *)
(* document it builds, and the text it puts in place of the old one.       *)
(***************************************************************************)
EXTENDS ExprDocs, FiniteSetsExt

CONSTANT Jobs   \* [action, es, tabs, before, after, limit, pairs, commented]: the expressions
                \* (several in a case clause only), the indentation of their line, and the
                \* columns before and after them

VARIABLES
  job,
  text,   \* what stands in the place of the expressions
  pc      \* "asked", "kept" or "rewritten"

vars == <<job, text, pc>>

Expr(j) == j.es[1]

StartCol(j) == j.tabs * TabStop + j.before

Original(j) == Joined([i \in DOMAIN j.es |-> renderNode(j.es[i])], <<P(","), Space>>)

LineWidth(j) == StartCol(j) + Width(Original(j)) + j.after

-----------------------------------------------------------------------------
Bare(tokens) == SelectSeq(tokens, LAMBDA token : token # Joint)

Rendered(j, doc, indent) == RenderAt(doc, j.limit, indent, StartCol(j))

(***************************************************************************)
(* What an action puts in place of the original; <<>> if it gives up.      *)
(***************************************************************************)
RenderedIfAny(j, info) == IF info.ok THEN Rendered(j, indentExprDocIfNeeded(info), j.tabs) ELSE <<>>

Chain(j) == RenderedIfAny(j, exprDocWithKind(Expr(j), "topLevel"))

BreakLogicalChainLayout(j)    == IF Expr(j).op \in logicalOps THEN Chain(j) ELSE <<>>
BreakArithmeticChainLayout(j) == IF Expr(j).op \in arithmeticOps THEN Chain(j) ELSE <<>>

isCallToMake(e) == e.fun.k = "ident" /\ e.fun.token.s = "make"

Pairs(docs) ==
  [i \in 1..((Len(docs) + 1) \div 2) |->
     IF 2 * i > Len(docs) THEN docs[2 * i - 1]
     ELSE G(C(<<docs[2 * i - 1], Literally(","), L, docs[2 * i]>>))]

(***************************************************************************)
(* Always over several lines; of make the first argument stays behind the  *)
(* parenthesis.                                                            *)
(***************************************************************************)
CallArgsGroup(docs, isMake) ==
  G(C((IF isMake /\ Len(docs) > 1
         THEN <<docs[1], FB, Literally(","), L>> \o CommaLine(Tail(docs))
         ELSE <<FB, SL>> \o CommaLine(docs))
      \o <<TrailingComma>>))

CallGroup(e, docs) == CallArgsGroup(WithEllipsis(docs, e.ellipsis), isCallToMake(e))

BreakCallArgs(j, e, docs) ==
  IF e.args = <<>> \/ \E i \in DOMAIN e.args : Multiline(e.args[i]) THEN <<>>
  ELSE Rendered(j, Called(DocOrPrinted(e.fun), CallGroup(e, IF j.pairs THEN Pairs(docs) ELSE docs)), j.tabs)

BreakCallArgsLayout(j) == BreakCallArgs(j, Expr(j), ArgDocs(Expr(j).args))

BreakCaseClauseLayout(j) ==
  Rendered(j, G(C(CommaLine([i \in DOMAIN j.es |-> Printed(j.es[i])]))), j.tabs + 1)

RECURSIVE exprContainsCompositeLit(_)
exprContainsCompositeLit(e) ==
  e.k = "composite" \/ \E i \in DOMAIN Operands(e) : exprContainsCompositeLit(Operands(e)[i])

IfBroken(out) == IF \E i \in DOMAIN out : IsNewLine(out[i]) THEN out ELSE <<>>

BreakKeyValue(j, e, info) ==
  IF e.key.k # "ident" \/ exprContainsCompositeLit(e.value) \/ Multiline(e) \/ ~info.ok THEN <<>>
  ELSE IfBroken(Rendered(j, G(C(<<Printed(e.key), T(<<P(":"), Space>>), N(indentExprDocIfNeeded(info))>>)),
                         j.tabs))

BreakCompositeKeyValue(j) == BreakKeyValue(j, Expr(j), AsArgument(Expr(j).value))

-----------------------------------------------------------------------------
(***************************************************************************)
(* The columns of a text, and the breaks behind which Go would end the     *)
(* statement.                                                              *)
(***************************************************************************)
ColumnsFrom(col, tokens) ==
  LET end[i \in 0..Len(tokens)] ==
        IF i = 0 THEN col
        ELSE IF IsNewLine(tokens[i]) THEN tokens[i].w ELSE end[i - 1] + tokens[i].w
  IN  end

IsOperand(token) ==
  token.s \notin {"", " ", "\n", "(", "[", "{", ")", "]", "}", ",", ".", ":", "...", "!"}
                   \cup comparisonOps \cup logicalOps \cup arithmeticOps

EndsBehind(said) == said # <<>> /\ (IsOperand(Last(said)) \/ Last(said).s \in {")", "]", "}"})

EndsStatement(tokens, i) ==
  IsNewLine(tokens[i]) /\ EndsBehind(SelectSeq(SubSeq(tokens, 1, i - 1), LAMBDA t : t.w > 0))

(***************************************************************************)
(* The right side of an assignment is moved to a line of its own, if every *)
(* line then fits and the file parses.                                     *)
(***************************************************************************)
IfAccepted(out, col, limit) ==
  IF \E i \in DOMAIN out : col[i] > limit \/ EndsStatement(out, i) THEN <<>> ELSE out

OnNextLine(doc, limit, indent) == <<NewLine(indent)>> \o RenderAt(doc, limit, indent, indent * TabStop)

Moved(out, limit) == IfAccepted(out, ColumnsFrom(0, out), limit)

BreakRHS(j, info) ==
  IF Multiline(Expr(j)) \/ ~info.ok \/ StartCol(j) - 1 > j.limit THEN <<>>
  ELSE Moved(OnNextLine(indentExprDocIfNeeded(info), j.limit, j.tabs + 1), j.limit)

BreakAssignRHS(j) == BreakRHS(j, AsArgument(Expr(j)))

-----------------------------------------------------------------------------
Formatted(j) ==
  CASE j.commented \/ LineWidth(j) <= j.limit -> <<>>
    [] OTHER ->
         CASE j.action = "logical"       -> BreakLogicalChainLayout(j)
           [] j.action = "arithmetic"    -> BreakArithmeticChainLayout(j)
           [] j.action = "selectorChain" -> Chain(j)
           [] j.action = "methodChain"   -> Chain(j)
           [] j.action = "callArgs"      -> BreakCallArgsLayout(j)
           [] j.action = "assign"        -> BreakAssignRHS(j)
           [] j.action = "keyValue"      -> BreakCompositeKeyValue(j)
           [] j.action = "caseClause"    -> BreakCaseClauseLayout(j)

Init ==
  /\ job \in Jobs
  /\ text = Original(job)
  /\ pc = "asked"

Changed(out) == out # <<>> /\ Bare(out) # Original(job)

Keep(out) ==
  /\ pc = "asked" /\ ~Changed(out)
  /\ pc' = "kept"
  /\ UNCHANGED <<job, text>>

Rewrite(out) ==
  /\ pc = "asked" /\ Changed(out)
  /\ text' = out
  /\ pc' = "rewritten"
  /\ UNCHANGED job

Next == \E out \in {Formatted(job)} : Keep(out) \/ Rewrite(out)

Spec == Init /\ [][Next]_vars

-----------------------------------------------------------------------------
(***************************************************************************)
(* The lines of the new text.                                              *)
(***************************************************************************)
Columns == ColumnsFrom(StartCol(job), text)

LineStart(i) == Max({1} \cup {k \in 1..i : IsNewLine(text[k])})

HowMany(s, i) == Cardinality({k \in LineStart(i)..i : text[k].s = s})

(***************************************************************************)
(* What is rewritten says the same: its tokens are those of the original,  *)
(* in their order, but for a comma at the end of a line before a closing   *)
(* bracket; and Go ends no statement at a line break in it.  The exception *)
(* is a nested call whose arguments are left on one line and whose closing *)
(* parenthesis is not: the line is full to the last column, or the name of *)
(* the function has been broken.  The engine drops such a text.            *)
(***************************************************************************)
Said(tokens) == SelectSeq(tokens, LAMBDA t : t.s \notin {"", " ", "\n"})

Trails(tokens, i) ==
  /\ tokens[i].s = "," /\ i + 2 <= Len(tokens)
  /\ IsNewLine(tokens[i + 1]) /\ tokens[i + 2].s \in {")", "}"}

Commaless(tokens) ==
  FlattenSeq([i \in DOMAIN tokens |-> IF Trails(tokens, i) THEN <<>> ELSE <<tokens[i]>>])

CalleeBroken(i) ==
  \/ LineStart(i) > 1 /\ text[LineStart(i) - 1].s = "."
  \/ HowMany("]", i) > HowMany("[", i)

Misplaced(i) ==
  /\ text[i + 1].s = ")"
  /\ Columns[i - 1] = job.limit \/ CalleeBroken(i - 1)

SameProgram ==
  pc = "rewritten" =>
    /\ Said(Commaless(Bare(text))) = Said(Original(job))
    /\ \A i \in DOMAIN text : EndsStatement(text, i) => Misplaced(i)

(***************************************************************************)
(* A name or literal beyond the limit has no place before it on its line   *)
(* where the line could have been broken and was not.  The exception is    *)
(* behind the colon of a slice, where no break is offered.                 *)
(***************************************************************************)
BehindColon(k, i) == \E m \in k..(i - 1) : text[m].s = ":" /\ text[m + 1] # Space

OnlyPunctuationOverflows ==
  pc = "rewritten" =>
    LET columns == Columns
    IN  \A i \in {n \in DOMAIN text : IsOperand(text[n]) /\ columns[n] > job.limit} :
          \A k \in LineStart(i)..i : text[k] = Joint => BehindColon(k, i)
=============================================================================
