----------------------------- MODULE LayoutDocs -----------------------------
(***************************************************************************)
(* The documents of dsl/layout and how they are rendered.                  *)
(*                                                                         *)
(* A text is a sequence of tokens [s, w]: what it says and how wide it is. *)
(* Indentations are counted in tabs.  A place where a line could have been *)
(* broken and was not leaves a Joint in the output, a token of no width.   *)
(* Align and IndentByCols are left out: no document is built with them.    *)
(***************************************************************************)
EXTENDS Integers, Sequences, SequencesExt

CONSTANT TabStop

Token(s, w) == [s |-> s, w |-> w]

Space == Token(" ", 1)
Joint == Token("", 0)

NewLine(indent) == Token("\n", indent * TabStop)

IsNewLine(token) == token.s = "\n"

Width(tokens) == FoldLeft(LAMBDA n, token : n + token.w, 0, tokens)

-----------------------------------------------------------------------------
T(tokens) == [d |-> "text", tokens |-> tokens]
L         == [d |-> "line"]
SL        == [d |-> "softline"]
FB        == [d |-> "forcebreak"]
C(docs)   == [d |-> "concat", docs |-> docs]
G(doc)    == [d |-> "group", doc |-> doc]
N(doc)    == [d |-> "nest", doc |-> doc]
IB(broken, flat) == [d |-> "ifbreak", broken |-> broken, flat |-> flat]

-----------------------------------------------------------------------------
(***************************************************************************)
(* A group is rendered on one line if what is in it fits into the rest of  *)
(* the line; what follows the group is not asked.                          *)
(***************************************************************************)
RECURSIVE FlatLeaves(_)
FlatLeaves(doc) ==
  CASE doc.d = "concat"            -> FlattenSeq([i \in DOMAIN doc.docs |-> FlatLeaves(doc.docs[i])])
    [] doc.d \in {"group", "nest"} -> FlatLeaves(doc.doc)
    [] doc.d = "ifbreak"           -> FlatLeaves(doc.flat)
    [] OTHER                       -> <<doc>>

LeafWidth(leaf) ==
  CASE leaf.d = "text" -> Width(leaf.tokens)
    [] leaf.d = "line" -> 1
    [] OTHER           -> 0

LeavesFit(leaves, remaining) ==
  /\ \A i \in DOMAIN leaves : leaves[i].d # "forcebreak"
  /\ FoldLeft(LAMBDA n, leaf : n + LeafWidth(leaf), 0, leaves) <= remaining

fitsAt(doc, remaining) == LeavesFit(FlatLeaves(doc), remaining)

Write(pen, tokens) == [col |-> pen.col + Width(tokens), out |-> pen.out \o tokens]

\* Mutant: the column after a line break forgets the indentation.
BreakAtMargin(pen, indent) ==
  [col |-> 0, out |-> Append(pen.out, NewLine(indent))]

Break(pen, indent) ==
  [col |-> indent * TabStop, out |-> Append(pen.out, NewLine(indent))]

(***************************************************************************)
(* pen is [col, out], the column and what has been written so far.         *)
(***************************************************************************)
RECURSIVE RenderDoc(_, _, _, _, _)
RenderDoc(doc, limit, indent, flat, pen) ==
  CASE doc.d = "text"       -> Write(pen, doc.tokens)
    [] doc.d = "line"       -> IF flat THEN Write(pen, <<Space, Joint>>) ELSE Break(pen, indent)
    [] doc.d = "softline"   -> IF flat THEN Write(pen, <<Joint>>) ELSE Break(pen, indent)
    [] doc.d = "forcebreak" -> pen
    [] doc.d = "concat"     -> FoldLeft(LAMBDA p, d : RenderDoc(d, limit, indent, flat, p), pen, doc.docs)
    [] doc.d = "nest"       -> RenderDoc(doc.doc, limit, indent + 1, flat, pen)
    [] doc.d = "ifbreak"    -> RenderDoc(IF flat THEN doc.flat ELSE doc.broken, limit, indent, flat, pen)
    [] doc.d = "group"      -> RenderDoc(doc.doc, limit, indent, fitsAt(doc.doc, limit - pen.col), pen)

RenderAt(doc, limit, indent, startCol) ==
  RenderDoc(doc, limit, indent, FALSE, [col |-> startCol, out |-> <<>>]).out
=============================================================================
