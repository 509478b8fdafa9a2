------------------------------ MODULE MCEngine ------------------------------
(***************************************************************************)
(* A small language for the rule engine: texts over the names x and y and  *)
(* parentheses, where ( ... ) with balanced contents is a call, with the   *)
(* name in front of it as its function if there is one.                    *)
(*                                                                         *)
(* A rule fires on nodes of one type whose bytes are exactly those it      *)
(* names (any, if it names none), and edits at offsets relative to the     *)
(* node.  The rules grow, shrink, oscillate, break the syntax, conflict    *)
(* with themselves and mark nodes as atomic.                               *)
(***************************************************************************)
EXTENDS Engine

Names == {"x", "y"}

Depth(t, n) == Len(SelectSeq(SubSeq(t, 1, n), LAMBDA c : c = "("))
                 - Len(SelectSeq(SubSeq(t, 1, n), LAMBDA c : c = ")"))

MCParses(t) ==
  /\ \A n \in 0..Len(t) : Depth(t, n) >= 0
  /\ Depth(t, Len(t)) = 0

(***************************************************************************)
(* Nodes of a text, also of one that does not parse: the file, then from   *)
(* left to right the calls (with the name in front) and the names.         *)
(***************************************************************************)
NodeAt(ty, s, e, k) == [type |-> ty, start |-> s, end |-> e, key |-> k]

CallsWithParenAt(t, i) ==
  SelectSeq([j \in 1..Len(t) |-> j],
            LAMBDA j : /\ i \in 1..Len(t) /\ t[i] = "("
                       /\ i < j /\ t[j] = ")"
                       /\ MCParses(SubSeq(t, i + 1, j - 1)))

CallsAt(t, i) ==
  LET named == t[i] \in Names
      paren == IF named THEN i + 1 ELSE i
      free  == i = 1 \/ t[i - 1] \notin Names
      ends  == CallsWithParenAt(t, paren)
  IN  IF named \/ free
        THEN [k \in DOMAIN ends |-> NodeAt("CallExpr", i - 1, ends[k], paren - 1)]
        ELSE <<>>

NamesAt(t, i) ==
  IF t[i] \in Names THEN <<NodeAt("Ident", i - 1, i, i - 1)>> ELSE <<>>

MCNodes(t) ==
  <<NodeAt("File", 0, Len(t), 0)>>
    \o FlattenSeq([i \in 1..Len(t) |-> CallsAt(t, i) \o NamesAt(t, i)])

AnyBytes == <<>>

MCMatches(r, n, t) ==
  /\ r.type = n.type
  /\ r.on = AnyBytes \/ Slice(t, n.start, n.end) = r.on

MCTarget(r, n, t) == n

Moved(r, n) ==
  [i \in DOMAIN r.edits |->
     Edit(r.edits[i].start + n.start, r.edits[i].end + n.start, r.edits[i].put)]

MCExecuteEdits(r, n, t) ==
  [changed |-> r.edits # <<>>, edits |-> Moved(r, n)]

MCExecute(r, n, t) ==
  LET applied == ApplyEdits(t, Moved(r, n))
  IN  [changed |-> applied.ok /\ applied.text # t, text |-> applied.text]

Rule(p, k, ty, on, es) ==
  [priority |-> p, kind |-> k, type |-> ty, on |-> on, edits |-> es]

Grow       == Rule(1, "edit", "Ident", <<"x">>, <<Edit(0, 1, <<"x", "x">>)>>)
XToY       == Rule(2, "edit", "Ident", <<"x">>, <<Edit(0, 1, <<"y">>)>>)
YToX       == Rule(2, "edit", "Ident", <<"y">>, <<Edit(0, 1, <<"x">>)>>)
WrapY      == Rule(3, "edit", "Ident", <<"y">>, <<Edit(1, 1, <<")">>), Edit(0, 0, <<"(">>)>>)
Unclose    == Rule(3, "edit", "CallExpr", AnyBytes, <<Edit(1, 2, <<>>)>>)
Unwrap     == Rule(2, "text", "CallExpr", <<"(", "x", ")">>,
                   <<Edit(0, 1, <<>>), Edit(2, 3, <<>>)>>)
Clashing   == Rule(4, "edit", "CallExpr", AnyBytes, <<Edit(0, 2, <<>>), Edit(1, 2, <<"x">>)>>)
Trim       == Rule(1, "text", "File", AnyBytes, <<Edit(0, 1, <<>>)>>)
KeepCall   == Rule(9, "keep", "CallExpr", <<"x", "(", "y", ")">>, <<>>)
KeepY      == Rule(1, "keep", "Ident", <<"y">>, <<>>)

Library == {Grow, XToY, YToX, WrapY, Unclose, Unwrap, Clashing, Trim, KeepCall, KeepY}

MCRuleLists ==
  {<<>>} \cup {<<r>> : r \in Library}
    \cup {s \in [1..2 -> Library] : s[1] # s[2]}
    \cup {<<Grow>> \o s : s \in [1..2 -> {YToX, WrapY, Unclose, Unwrap, KeepY}]}

MCInputs ==
  {<<"x", "(", "y", ")">>, <<"x", "y">>, <<"(", "x">>, <<"(", "x", ")">>,
   <<"y", "(", ")", "x">>}

Limits(n, a, d, o, g, ord) ==
  [maxIterations |-> n, auto |-> a, detectCycles |-> d,
   maxOutputBytes |-> o, maxBytesIncrease |-> g, nodeOrder |-> ord]

MCConfigs ==
  {Limits(3, FALSE, FALSE, 0, 0, "preorder"),
   Limits(0, FALSE, TRUE, 0, 0, "source"),
   Limits(3, FALSE, TRUE, 5, 0, "source"),
   Limits(0, TRUE, TRUE, 0, 2, "deepest")}

MCForbiddens ==
  {<<>>, <<OffsetSpan(0, 1)>>, <<OffsetSpan(1, 2)>>,
   NewOffsetSpanSet(<<OffsetSpan(0, 1), OffsetSpan(1, 2)>>)}

(***************************************************************************)
(* The instances that show what ownership and atomic nodes do not protect. *)
(***************************************************************************)
ParenX == Rule(1, "edit", "Ident", <<"x">>, <<Edit(0, 1, <<"(", "x", ")">>)>>)

OwnershipRuleLists == {<<ParenX, YToX>>}

OwnershipConfigs == {Limits(100, FALSE, FALSE, 8, 0, "source")}

OwnershipInputs == {<<"x", "y">>}

OwnershipForbiddens == {<<OffsetSpan(1, 2)>>}

AtomicRuleLists == {<<KeepCall, YToX>>}

AtomicInputs == {<<"x", "(", "y", ")">>}
=============================================================================
