----------------------------- MODULE MCReports -----------------------------
(* One file with every short text before and after; several files in one   *)
(* or two repositories, the two named alike or not, or with a letter that  *)
(* is not ASCII.                                                           *)
EXTENDS Reports

Glyph(c, g) == [class |-> c, glyph |-> g]

L(glyph, width, nolint, looks, node) ==
    [text |-> <<Glyph("lower", glyph), Glyph("other", "(")>>, width |-> width,
     nolint |-> nolint, looks |-> looks, node |-> node]

Short == L("s", 5, "none", {}, "Ident")
Long  == L("l", 12, "none", {}, "CallExpr")
Wide  == L("w", 20, "none", {"signature", "string"}, "FuncDecl")
Own   == L("o", 15, "own", {"comment"}, "")
Alone == L("n", 5, "alone", {"comment"}, "")
Accent == [L("x", 12, "none", {}, "CallExpr") EXCEPT !.text[2] = Glyph("letter", "e-acute")]
Huge  == L("h", 600, "none", {"string"}, "CallExpr")
Lines == {Short, Long, Wide, Alone}

Text(s) == [kind |-> "string", text |-> s]
Paren == [kind |-> "paren", x |-> 1]
Add(x, y) == [kind |-> "add", x |-> x, y |-> y]
Name == [kind |-> "ident"]
Trees == {<<<<Text(<<1, 2>>)>>, <<Text(<<1, 2>>)>>>>,
          <<<<Text(<<1, 2>>)>>, <<Text(<<1>>), Paren, Text(<<2>>), Add(2, 3)>>>>,
          <<<<Name, Text(<<1>>), Add(1, 2)>>, <<Text(<<1>>), Name, Add(1, 2)>>>>}

F(path, before, after) ==
    [path |-> path, dirs |-> <<>>, suffix |-> "", readable |-> TRUE, formats |-> TRUE,
     reproFormats |-> TRUE, parsesBefore |-> TRUE, parsesAfter |-> TRUE, idempotent |-> TRUE,
     before |-> before, after |-> after, tree |-> <<Name>>, treeAfter |-> <<Name>>,
     decls |-> SelectSeq(<<[kind |-> "comment", doc |-> 1, from |-> 1, to |-> 1],
                           [kind |-> "declaration", doc |-> 1, from |-> 2, to |-> 2],
                           [kind |-> "function", doc |-> 2, from |-> 3, to |-> Len(after)]>>,
                         LAMBDA d : d.from <= Len(after))]

Upto(S, n) == UNION {[1..k -> S] : k \in 0..n}

R(base, files) == [base |-> base, dir |-> TRUE, files |-> files]

Pairs == {<<R("a", <<F("p", b, c)>>)>> : b \in Upto(Lines, 2), c \in Upto(Lines, 3)}
         \cup {<<R("a", <<F("p", b, c)>>)>> :
                 b \in {<<Long, Short, Wide>>, <<Wide>>}, c \in Upto(Lines \cup {Own}, 4)}
         \cup {<<R("a", <<F("p", <<Long, Short, Huge>>, c)>>)>> : c \in Upto(Lines \cup {Huge}, 3)}

Base == F("p", <<Short, Wide>>, <<Long, Short, Wide>>)
Variants == {[Base EXCEPT !.readable = FALSE], [Base EXCEPT !.formats = FALSE],
             [Base EXCEPT !.parsesAfter = FALSE], [Base EXCEPT !.parsesBefore = FALSE],
             [Base EXCEPT !.idempotent = FALSE], [Base EXCEPT !.reproFormats = FALSE],
             [Base EXCEPT !.dirs = <<"gen">>], [Base EXCEPT !.dirs = <<"x", "vendor">>],
             [Base EXCEPT !.suffix = ".pb.go"]}
            \cup {[Base EXCEPT !.tree = t[1], !.treeAfter = t[2]] : t \in Trees}

Second == F("q", <<Short>>, <<Long>>)
Foreign == F("r", <<Short>>, <<Accent>>)
Trees2 == {<<R("a", <<v, Second>>)>> : v \in Variants}
          \cup {<<R(x, <<Base, Second>>), R(y, <<v>>)>> : x, y \in {"a", "b", "gen"}, v \in Variants}
          \cup {<<R("a", <<Base>>), R("a", <<Second>>)>>, <<R("a", <<Foreign>>), R("b", <<Foreign>>)>>}
          \cup {<<R("a", <<Base>>), [R("b", <<>>) EXCEPT !.dir = FALSE]>>}

MCCorpora == Pairs \cup Trees2

C(tool, cap, redact) ==
    [tool |-> tool, profile |-> "adoption", col |-> 10, cap |-> cap, redact |-> redact, perBug |-> FALSE, radius |-> 1,
     onlyChanged |-> TRUE, minExcess |-> 1, excludes |-> {}, suffixes |-> {}]

MCConfigs == {C("corpus", 1, FALSE), C("corpus", 2, TRUE),
              [C("corpus", 2, FALSE) EXCEPT !.profile = "all"],
              C("overflow", 2, FALSE), [C("overflow", 2, FALSE) EXCEPT !.perBug = TRUE],
              [C("overflow", 1, FALSE) EXCEPT !.radius = 0],
              [C("overflow", 2, FALSE) EXCEPT !.onlyChanged = FALSE, !.minExcess = 3,
                                              !.excludes = {"gen"}, !.suffixes = {".pb.go"}]}
=============================================================================
