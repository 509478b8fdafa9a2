----------------------------- MODULE MCActions -----------------------------
(***************************************************************************)
(* The actions for empty lines and those that lay out an expression, one   *)
(* kind at a time while the other rests.                                   *)
(*                                                                         *)
(* Function bodies of two or three statements: conditions, loops, switches *)
(* and interfaces, with headers on one line or two, with and without       *)
(* comments, and with empty lines nowhere, everywhere, or at every second  *)
(* line.                                                                   *)
(***************************************************************************)
EXTENDS BlankLines

Add(t, type, up, role, h) ==
  [t EXCEPT !.nodes = Append(@, [type |-> type, up |-> up, role |-> role, val |-> "",
                                 first |-> Len(t.ends) + 1, last |-> 0,
                                 head |-> Len(t.ends) + h, above |-> ""])]

Line(t, end) == [t EXCEPT !.ends = Append(@, end)]

Comment(t, there) ==
  IF there THEN [Line(t, "code") EXCEPT !.comments = @ \cup {Len(t.ends) + 1}] ELSE t

Header(t, h, end) == FoldLeft(Line, t, [i \in 1..h |-> IF i = h THEN end ELSE "code"])

Body(t, up, role, stmts) ==
  FoldLeft(LAMBDA s, kind : Line(Add(s, kind, up, role, 1), "code"), t, stmts)

(***************************************************************************)
(* The block of a node stands on the last line of its header.              *)
(***************************************************************************)
OnBrace(t) ==
  [t EXCEPT !.nodes[Len(t.nodes)].first = Len(t.ends), !.nodes[Len(t.nodes)].head = Len(t.ends)]

WithBlock(t, up, role, type, h, c, stmts) ==
  LET n    == Len(t.nodes) + 1
      open == OnBrace(Add(Header(Add(t, type, up, role, h), h, "brace"), "BlockStmt", n, "body", 0))
  IN  Line(Body(Comment(open, c), n + 1, "stmts", stmts), "code")

Clause(t, up, type, h, c, stmts) ==
  LET n == Len(t.nodes) + 1
  IN  Body(Comment(Header(Add(t, type, up, "stmts", h), h, "colon"), c), n, "body", stmts)

Switch(t, up, type, one, c, two, h) ==
  LET n    == Len(t.nodes) + 1
      open == OnBrace(Add(Header(Add(t, "SwitchStmt", up, "stmts", 1), 1, "brace"), "BlockStmt", n, "body", 0))
  IN  Line(Clause(Comment(Clause(open, n + 1, type, 1, FALSE, one), c), n + 1, type, h, c, two), "code")

Method(t, up) == LET n == Len(t.nodes) + 1 IN Line(Add(Add(t, "Field", up, "list", 1), "FuncType", n, "type", 1), "code")

Interface(t, up, c) ==
  LET n    == Len(t.nodes) + 1
      open == Header(Add(Add(t, "InterfaceType", up, "stmts", 1), "FieldList", n, "methods", 1), 1, "brace")
  IN  Line(Method(Comment(Method(open, n + 1), c), n + 1), "code")

(***************************************************************************)
(* if err != nil { return }                                                *)
(***************************************************************************)
IfErr(t, up) ==
  LET n == Len(t.nodes) + 1
      c == Add(Add(t, "IfStmt", up, "stmts", 1), "BinaryExpr", n, "cond", 1)
      s == Add(Add(c, "Ident", n + 1, "left", 1), "Ident", n + 1, "right", 1)
      v == [s EXCEPT !.nodes[n + 1].val = "!=", !.nodes[n + 2].val = "err", !.nodes[n + 3].val = "nil"]
      b == OnBrace(Add(Header(v, 1, "brace"), "BlockStmt", n, "body", 0))
  IN  Line(Body(b, n + 4, "stmts", <<"ReturnStmt">>), "code")

(***************************************************************************)
(* One statement of the function, whose block is node 2.                   *)
(***************************************************************************)
Item(t, i) ==
  CASE i.kind = "plain"     -> Body(Comment(t, i.c), 2, "stmts", i.body)
    [] i.kind = "iferr"     -> IfErr(Comment(t, i.c), 2)
    [] i.kind = "interface" -> Interface(t, 2, i.c)
    [] i.kind \in {"CaseClause", "CommClause"} -> Switch(t, 2, i.kind, i.body, i.c, i.body2, i.h)
    [] OTHER                -> WithBlock(t, 2, "stmts", i.kind, i.h, i.c, i.body)

I(kind, h, c, body, body2) == [kind |-> kind, h |-> h, c |-> c, body |-> body, body2 |-> body2]

Stmt == "ExprStmt"
Ret  == "ReturnStmt"

Items ==
  {I("plain", 1, c, b, <<>>) : c \in BOOLEAN, b \in {<<Stmt>>, <<Ret>>}}
    \cup {I("iferr", 1, c, <<>>, <<>>) : c \in BOOLEAN}
    \cup {I("interface", 1, c, <<>>, <<>>) : c \in BOOLEAN}
    \cup {I(k, h, c, b, <<>>) : k \in {"IfStmt", "ForStmt"}, h \in 1..2, c \in BOOLEAN,
                                b \in {<<>>, <<Ret>>, <<Stmt>>, <<Stmt, Ret>>}}
    \cup {I("RangeStmt", 1, c, b, <<>>) : c \in BOOLEAN, b \in {<<Ret>>, <<Stmt, Ret>>}}
    \cup {I(k, h, c, b, d) : k \in {"CaseClause", "CommClause"}, h \in 1..2, c \in BOOLEAN,
                             b \in {<<>>, <<Ret>>}, d \in {<<Ret, Stmt>>, <<Stmt, Ret>>}}

Empty ==
  [nodes |-> <<[type |-> "FuncDecl", up |-> 0, role |-> "", val |-> "", first |-> 1, last |-> 0, head |-> 1, above |-> ""],
               [type |-> "BlockStmt", up |-> 1, role |-> "body", val |-> "", first |-> 1, last |-> 0, head |-> 1, above |-> ""]>>,
   ends |-> <<"brace">>, comments |-> {}]

TextOf(items) == Line(FoldLeft(Item, Empty, items), "code")

(***************************************************************************)
(* What every item is put before and behind.                               *)
(***************************************************************************)
Companions ==
  {I("plain", 1, TRUE, <<Ret>>, <<>>), I("ForStmt", 2, FALSE, <<Stmt>>, <<>>),
   I("IfStmt", 2, TRUE, <<Ret>>, <<>>)}

MCTexts ==
  {TextOf(<<a, b>>) : a \in Items, b \in Companions}
    \cup {TextOf(<<b, a>>) : a \in Items, b \in Companions}

MCGaps(t) ==
  LET n == Len(t.ends)
  IN  {[l \in 1..n |-> 0], [l \in 1..n |-> IF l = 1 THEN 0 ELSE 1],
       [l \in 1..n |-> IF l > 1 /\ l % 2 = 0 THEN 2 ELSE 0], [l \in 1..n |-> IF l > 1 THEN l % 2 ELSE 0]}

-----------------------------------------------------------------------------
(***************************************************************************)
(* Expressions of two levels, laid out at several limits: every kind of    *)
(* operand beside every other, in call arguments, chains, assignments,     *)
(* fields and case clauses.                                                *)
(***************************************************************************)
Name(s, w) == [k |-> "ident", token |-> [s |-> s, w |-> w]]

Aa   == Name("a", 2)
Bbbb == Name("b", 4)
Ccc  == Name("c", 3)
Ttt  == Name("T", 3)
Uu   == Name("U", 2)

Func(lines) == [k |-> "func", token |-> [s |-> "func", w |-> 5], lines |-> lines]
MapType     == [k |-> "map", token |-> [s |-> "map", w |-> 6]]

Sel(x, s)          == [k |-> "selector", x |-> x, sel |-> [s |-> s, w |-> 2]]
Bin(x, op, y)      == [k |-> "binary", op |-> op, x |-> x, y |-> y]
Paren(x)           == [k |-> "paren", x |-> x]
Un(op, x)          == [k |-> "unary", op |-> op, x |-> x]
Index(x, y)        == [k |-> "index", x |-> x, y |-> y]
IndexList(x, ts)   == [k |-> "indexlist", x |-> x, args |-> ts]
As(x, y)           == [k |-> "typeassert", x |-> x, y |-> y]
KeyValue(x, y)     == [k |-> "keyvalue", key |-> x, value |-> y]
Slice(x, lo, hi, max) == [k |-> "slice", x |-> x, low |-> lo, high |-> hi, max |-> max]
Call(f, args)      == [k |-> "call", fun |-> f, args |-> args, ellipsis |-> FALSE]
Spread(f, args)    == [k |-> "call", fun |-> f, args |-> args, ellipsis |-> TRUE]
Lit(type, elts)    == [k |-> "composite", type |-> type, elts |-> elts]

Abc      == Sel(Sel(Aa, "s"), "t")
Chain2(x, args, more) == Call(Sel(Call(Sel(x, "m"), args), "n"), more)

Simple ==
  {Aa, Func(1), Func(3), Sel(Aa, "s"), Abc, Call(Bbbb, <<>>), Call(Bbbb, <<Aa>>),
   Spread(Bbbb, <<Aa, Ccc>>), Call(Abc, <<Bbbb>>), Call(IndexList(Aa, <<Ttt, Uu>>), <<Ccc>>),
   Chain2(Aa, <<Bbbb>>, <<Ccc>>), Bin(Aa, "&&", Bbbb), Bin(Aa, "==", Bbbb),
   Bin(Bin(Aa, "+", Bbbb), "+", Ccc), Paren(Bin(Aa, "<", Ccc)), Paren(Call(Bbbb, <<Aa>>)),
   Un("!", Abc), Un("-", Call(Bbbb, <<Ccc>>)), Index(Aa, Bbbb), As(Aa, Ttt),
   Slice(Aa, <<Bbbb>>, <<Ccc>>, <<>>), Slice(Aa, <<>>, <<Bbbb>>, <<Ccc>>),
   Lit(<<Ttt>>, <<Aa, Bbbb>>), Lit(<<Ttt>>, <<KeyValue(Aa, Bbbb), KeyValue(Ccc, Bbbb)>>),
   Lit(<<MapType>>, <<KeyValue(Aa, Bbbb), KeyValue(Ccc, Bbbb)>>)}

Beside == {Aa, Abc, Call(Bbbb, <<Aa>>), Bin(Aa, "==", Bbbb)}

Nested ==
  UNION {{Bin(x, "&&", y), Bin(Bin(Ccc, "+", x), "+", y), Bin(x, "!=", y), Call(Bbbb, <<x, y>>),
          Spread(Bbbb, <<y, x>>), Chain2(x, <<y>>, <<Ccc>>), Chain2(Ccc, <<>>, <<x, y>>), Index(x, y),
          Slice(x, <<y>>, <<x>>, <<>>), Lit(<<Ttt>>, <<x, y>>),
          Lit(<<Ttt>>, <<KeyValue(Aa, x), KeyValue(Ccc, y)>>)} : x \in Simple, y \in Beside}
    \cup {Paren(x) : x \in Simple} \cup {Un("!", x) : x \in Simple}
    \cup {As(x, IndexList(Ttt, <<Uu, Ccc>>)) : x \in Simple}

At(action, es, left, right, limit) ==
  [action |-> action, es |-> es, tabs |-> 1, before |-> left, after |-> right, limit |-> limit,
   pairs |-> FALSE, commented |-> FALSE]

LayoutJobs ==
  {At("callArgs", <<Call(Bbbb, <<Ccc, e>>)>>, 0, 0, l) : e \in Nested, l \in {12, 13, 17}}
    \cup {[At("callArgs", <<Spread(f, <<Aa, x, y>>)>>, 3, 1, 14) EXCEPT !.pairs = p] :
             f \in {Bbbb, Name("make", 4), Abc}, x \in Simple, y \in Beside, p \in BOOLEAN}
    \cup {At("assign", <<e>>, 5, 0, l) : e \in Nested, l \in {14, 20}}
    \cup {At("keyValue", <<KeyValue(Aa, e)>>, 0, 1, l) : e \in Nested, l \in {14, 20}}
    \cup {At("logical", <<Bin(Bin(x, "||", y), "||", Aa)>>, 3, 2, l) : x, y \in Simple, l \in {14, 24}}
    \cup {At("arithmetic", <<Bin(x, op, y)>>, 0, 0, 10) : x, y \in Simple, op \in {"*", "&&", "=="}}
    \cup {At("selectorChain", <<Sel(x, "u")>>, 2, 0, l) : x \in Simple, l \in {8, 12}}
    \cup {At("methodChain", <<Chain2(x, <<y>>, <<z>>)>>, 2, 0, l) : x, z \in Beside \cup {Func(3)}, y \in Simple, l \in {12, 16}}
    \cup {At("caseClause", <<x, y>>, 5, 1, 16) : x, y \in Simple}
    \cup {[At("methodChain", <<Chain2(Aa, <<y>>, <<Ccc>>)>>, 2, 0, 8) EXCEPT !.commented = TRUE] : y \in Simple}

AnyJob  == At("caseClause", <<Aa, Aa>>, 5, 1, 16)
AnyText == TextOf(<<I("plain", 1, TRUE, <<Ret>>, <<>>), I("plain", 1, TRUE, <<Ret>>, <<>>)>>)

VARIABLES part, job, laid, phase

E == INSTANCE LayoutActions WITH Jobs <- LayoutJobs, TabStop <- 2, text <- laid, pc <- phase

PartsInit ==
  /\ part \in {"lines", "layout"}
  /\ BlanksInit
  /\ part = "layout" => text = AnyText /\ gap = [l \in Lines |-> 0]
  /\ part = "lines" => job = AnyJob
  /\ E!Init

PartsNext ==
  \/ part = "lines" /\ BlanksNext /\ UNCHANGED <<part, job, laid, phase>>
  \/ part = "layout" /\ E!Next /\ UNCHANGED <<part, blanksVars>>

PartsSpec == PartsInit /\ [][PartsNext]_<<part, blanksVars, job, laid, phase>>

(***************************************************************************)
(* LayoutActions!SameProgram: a laid out expression has the tokens of the  *)
(* old one, and Go ends no statement in it but at the places named there.  *)
(***************************************************************************)
SameProgram == E!SameProgram

(***************************************************************************)
(* LayoutActions!OnlyPunctuationOverflows: no operand is beyond the limit  *)
(* behind a place where its line could have been broken.                   *)
(***************************************************************************)
OnlyPunctuationOverflows == E!OnlyPunctuationOverflows
=============================================================================
