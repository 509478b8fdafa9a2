------------------------------ MODULE Reports ------------------------------
(***************************************************************************)
(* The two reporting tools.  Both walk a tree, run llformat on every file  *)
(* and look at the lines of its output that are too wide.                  *)
(*                                                                         *)
(*   tools/corpus_check     classifies those lines for a list of           *)
(*                          repositories, hides their source, and groups   *)
(*                          what is left into clusters                     *)
(*   tools/overflow_report  reports them with the declaration around them, *)
(*                          and tries whether that alone overflows too     *)
(*                                                                         *)
(* The binary and the parser are outside: a file says what they make of    *)
(* it.  A line is its text, a sequence of [class, glyph], its width, the   *)
(* nolint comment it has, what its text looks like and the node it is in.  *)
(* The classes of glyphs are "lower", "upper" and "digit" (of ASCII),      *)
(* "letter" (any other letter) and "other".                                *)
(***************************************************************************)
EXTENDS Lists, SequencesExt, FiniteSetsExt

CONSTANTS
    Corpora,      \* lists of repositories: [base, dirs, files]
    Configs,      \* [tool, col, cap, redact, perBug, radius, onlyChanged, minExcess, excludes, suffixes]
    DefaultDirs, AdoptionDirs, AdoptionSuffixes,
    MaxExamples   \* examples kept per cluster

(* Paths are told apart within a repository; a declaration starts with     *)
(* what documents it.                                                      *)
IsFile(file) ==
    /\ file.before \in Seq(ToSet(file.before)) /\ file.after \in Seq(ToSet(file.after))
    /\ \A l \in ToSet(file.before) \cup ToSet(file.after) :
          /\ l.width \in Nat
          /\ \A g \in ToSet(l.text) : g = [class |-> g.class, glyph |-> g.glyph]
    /\ file.decls \in Seq(ToSet(file.decls))
    /\ \A d \in ToSet(file.decls) : {d.doc, d.from, d.to} \subseteq Nat /\ d.doc <= d.from

ASSUME ReportsAssumption ==
    /\ \A c \in Corpora :
          /\ c \in Seq(ToSet(c)) /\ c # <<>>
          /\ \A repo \in ToSet(c) :
                /\ repo.files \in Seq(ToSet(repo.files))
                /\ \A file \in ToSet(repo.files) : IsFile(file)
                /\ \A k, m \in DOMAIN repo.files :
                      repo.files[k].path = repo.files[m].path => k = m
    /\ \A c \in Configs : c.col \in Nat \ {0} /\ c.cap \in Nat \ {0} /\ c.radius \in Nat

VARIABLES
    corpus, cfg,
    repoAt, fileAt,   \* repository and file in hand
    sums,             \* one summary per finished repository
    cases,            \* the records reported so far, of either tool
    clusters,
    written,          \* which of the files of the report are this run's
    phase             \* "idle", "file", "write", "done", "failed"

reportsVars == <<corpus, cfg, repoAt, fileAt, sums, cases, clusters, written, phase>>

-----------------------------------------------------------------------------
(* Which files are looked at.                                              *)

ExcludeDirs(c) == DefaultDirs \cup c.excludes \cup (IF c.profile = "adoption" THEN AdoptionDirs ELSE {})

ExcludeSuffixes(c) == c.suffixes \cup (IF c.profile = "adoption" THEN AdoptionSuffixes ELSE {})

(* corpus_check asks the root too, and takes a name at any depth;          *)
(* overflow_report takes only paths from the root.                         *)
Skipped(c, repo, file) ==
    \/ c.tool = "corpus"
         /\ \/ repo.base \in ExcludeDirs(c)
            \/ ToSet(file.dirs) \cap ExcludeDirs(c) # {}
            \/ file.suffix \in ExcludeSuffixes(c)
    \/ c.tool = "overflow"
         /\ \/ file.dirs # <<>> /\ Head(file.dirs) \in c.excludes
            \/ file.suffix \in c.suffixes

GoFilesUnder(c, repo) ==
    Selected(repo.files, {file \in ToSet(repo.files) : ~Skipped(c, repo, file)})

-----------------------------------------------------------------------------
(* Lines that are too wide, and lines llformat changed.                    *)

HasNolint(l) == l.nolint # "none"

(* corpus_check leaves out a line with a nolint comment and the one below  *)
(* a nolint comment of its own.                                            *)
FindOverflows(lines, col) ==
    {k \in DOMAIN lines :
        /\ lines[k].width > col
        /\ ~HasNolint(lines[k])
        /\ k > 1 => lines[k - 1].nolint # "alone"}

FindOverflowsMinExcess(lines, col, minExcess) ==
    {k \in DOMAIN lines : lines[k].width > col + Max({1, minExcess}) - 1}

(* The pairs of lines difflib matches: of all pairs of equal lines the     *)
(* longest run, the first of them, and again among the pairs before and    *)
(* among those behind it.  (From 200 lines on difflib starts no run at a   *)
(* line that more than a hundredth of the output consists of: that is left *)
(* out.)                                                                   *)
EqualLines(before, after) ==
    {p \in (DOMAIN before) \X (DOMAIN after) : before[p[1]].text = after[p[2]].text}

FirstLongest(pairs) ==
    LET starts == {<<n, p[1], p[2]>> : n \in 1..Cardinality(pairs), p \in pairs}
        runs == {x \in starts : \A m \in 0..(x[1] - 1) : <<x[2] + m, x[3] + m>> \in pairs}
        First(x, y) == \/ x[1] > y[1]
                       \/ x[1] = y[1] /\ x[2] < y[2]
                       \/ x[1] = y[1] /\ x[2] = y[2] /\ x[3] <= y[3]
    IN  {x \in runs : \A y \in runs : First(x, y)}

RunPairs(x) == {<<x[2] + m, x[3] + m>> : m \in 0..(x[1] - 1)}

BothSides(pairs) ==
    UNION {{{p \in pairs : p[1] < x[2] /\ p[2] < x[3]},
            {p \in pairs : p[1] >= x[2] + x[1] /\ p[2] >= x[3] + x[1]}} : x \in FirstLongest(pairs)}

MatchedLines(before, after) ==
    LET equal == EqualLines(before, after)
        parts[n \in 0..Len(before)] ==
            IF n = 0 THEN {equal} ELSE UNION {BothSides(pairs) : pairs \in parts[n - 1]}
        runs == UNION {FirstLongest(pairs) : pairs \in UNION {parts[n] : n \in 0..Len(before)}}
    IN  {p \in equal : \E x \in runs : p \in RunPairs(x)}

(* A deletion has no line in the output: with a radius the line behind it  *)
(* counts.                                                                 *)
ChangedLines(before, after, radius) ==
    LET pairs   == MatchedLines(before, after)
        changed == DOMAIN after \ {p[2] : p \in pairs}
        bounds  == pairs \cup {<<0, 0>>, <<Len(before) + 1, Len(after) + 1>>}
        deleted == {p[2] + 1 : p \in {x \in bounds :
                        \E y \in bounds : y[2] = x[2] + 1 /\ y[1] > x[1] + 1}}
        near    == IF radius > 0 THEN changed \cup deleted ELSE changed
    IN  {k \in 1..(Len(after) + radius) : \E s \in near : s - radius <= k /\ k <= s + radius}

(* The function around a line, else the declaration, else the comment,     *)
(* else the whole file.                                                    *)
EnclosingRange(file, k) ==
    LET Of(kind) == {n \in DOMAIN file.decls :
                        /\ file.decls[n].kind = kind
                        /\ file.decls[n].from <= k /\ k <= file.decls[n].to}
        First(kind) == LET d == file.decls[Min(Of(kind))] IN
                       [kind |-> kind, from |-> d.doc, to |-> d.to]
    IN  IF Of("function") # {} THEN First("function")
        ELSE IF Of("declaration") # {} THEN First("declaration")
        ELSE IF Of("comment") # {} THEN First("comment")
        ELSE [kind |-> "file", from |-> 1, to |-> Len(file.after)]

-----------------------------------------------------------------------------
(* Expressions, as far as the comparison of the syntax trees goes: a tree  *)
(* lists its nodes, the operands of a node before it.                      *)

NotConst == <<"none">>

(* The constant each node stands for.                                      *)
FlattenStringConst(tree) ==
    LET text[n \in DOMAIN tree] ==
            LET e == tree[n] IN
            IF e.kind = "string" THEN <<"text", e.text>>
            ELSE IF e.kind = "paren" THEN text[e.x]
            ELSE IF e.kind = "add" /\ text[e.x] # NotConst /\ text[e.y] # NotConst
            THEN <<"text", text[e.x][2] \o text[e.y][2]>>
            ELSE NotConst
    IN  text

(* The tree with every constant folded.                                    *)
NormalizeExpr(tree) ==
    LET text == FlattenStringConst(tree)
        folded[n \in DOMAIN tree] ==
            LET e == tree[n] IN
            IF text[n] # NotConst THEN text[n]
            ELSE IF e.kind = "paren" THEN <<"paren", folded[e.x]>>
            ELSE IF e.kind = "add" THEN <<"add", folded[e.x], folded[e.y]>>
            ELSE <<e.kind>>
    IN  folded[Len(tree)]

ClassifyASTDiff(file) ==
    IF ~file.parsesBefore \/ ~file.parsesAfter THEN "structural"
    ELSE IF file.tree = file.treeAfter THEN "none"
    ELSE IF NormalizeExpr(file.tree) = NormalizeExpr(file.treeAfter) THEN "string_const_rewrite"
    ELSE "structural"

-----------------------------------------------------------------------------
(* corpus_check: the cases of a file.                                      *)

ClassifyCase(width, originalWidth, changed, col, existingText) ==
    CASE changed /\ originalWidth <= col -> "new_overflow"
      [] changed /\ originalWidth > col  -> "touched_overflow"
      [] ~changed /\ originalWidth <= col /\ width > col ->
            IF existingText THEN "moved_existing_overflow" ELSE "shifted_overflow"
      [] OTHER -> "unchanged_overflow"

(* What a line looks like decides before the node it is in.                *)
ClassifySyntax(l) ==
    LET looks == SelectSeq(<<"comment", "string", "method_chain", "signature",
                             "logical_expr", "composite_or_block">>,
                           LAMBDA s : s \in l.looks)
    IN  IF looks # <<>> THEN looks[1]
        ELSE CASE l.node = "CallExpr"     -> "call"
               [] l.node \in {"FuncDecl", "FuncLit", "FuncType"} -> "signature"
               [] l.node = "CompositeLit" -> "composite_lit"
               [] l.node = "BinaryExpr"   -> "binary_expr"
               [] OTHER                   -> "other"

ClusterKey(c) == <<c.kind, c.syntax, c.node>>

KindWeight(kind) ==
    CASE kind = "new_overflow"            -> 1000
      [] kind = "touched_overflow"        -> 500
      [] kind = "shifted_overflow"        -> 250
      [] kind = "moved_existing_overflow" -> 50
      [] OTHER                            -> 0

CaseRank(c, col) == c.width - col + KindWeight(c.kind) + (IF c.sound THEN 0 ELSE 2000)

CaseID(c) == <<c.repo, c.file, c.line, c.text>>

OriginalWidth(file, k) == IF k \in DOMAIN file.before THEN file.before[k].width ELSE 0

(* The text of a line that was too wide before, wherever it stood.         *)
MovedText(file, k, col) ==
    \E m \in FindOverflows(file.before, col) : file.before[m].text = file.after[k].text

Kind(file, k, col) ==
    ClassifyCase(file.after[k].width, OriginalWidth(file, k),
                 k \in ChangedLines(file.before, file.after, 0), col, MovedText(file, k, col))

Sound(file) == file.parsesAfter /\ ClassifyASTDiff(file) # "structural" /\ file.idempotent

Case(repo, file, k, col) ==
    LET l == file.after[k] IN
    [repo |-> repo.base, file |-> file.path, line |-> k, width |-> l.width, text |-> l.text,
     kind |-> Kind(file, k, col), syntax |-> ClassifySyntax(l), node |-> l.node, sound |-> Sound(file)]

CaseLines(file, col) ==
    {k \in FindOverflows(file.after, col) : Kind(file, k, col) # "unchanged_overflow"}

\* Mutant: the cases are cut off before they are ranked.
CapByLine(repo, file, c) ==
    LET lines == CaseLines(file, c.col)
    IN  {S \in SUBSET lines :
            /\ Cardinality(S) = Min({c.cap, Cardinality(lines)})
            /\ \A k \in S, m \in lines \ S : k < m}

(* The cap keeps cases of the highest rank; the sort is not stable, so     *)
(* which of those that rank equally is open.                               *)
CapByRank(repo, file, c) ==
    LET lines == CaseLines(file, c.col)
        rank  == [k \in lines |-> CaseRank(Case(repo, file, k, c.col), c.col)]
    IN  {S \in SUBSET lines :
            /\ Cardinality(S) = Min({c.cap, Cardinality(lines)})
            /\ \A k \in S, m \in lines \ S : rank[k] >= rank[m]}

(* The lines of S from the first to the last.                              *)
InOrder(file, S) == Selected([k \in DOMAIN file.after |-> k], S)

CasesForFile(repo, file, S, col) ==
    [m \in DOMAIN InOrder(file, S) |-> Case(repo, file, InOrder(file, S)[m], col)]

EmptySum == [files |-> 0, changed |-> 0, withCases |-> 0, parseBefore |-> 0, parseAfter |-> 0,
             ast |-> 0, structural |-> 0, unstable |-> 0, failures |-> 0,
             overBefore |-> 0, overAfter |-> 0, changedOver |-> 0, newOver |-> 0]

One(b) == IF b THEN 1 ELSE 0

(* A file llformat fails on counts as that and as nothing else.            *)
AccumulateSummary(s, file, kept, col) ==
    LET changed == ChangedLines(file.before, file.after, 0)
        over    == FindOverflows(file.after, col)
        kind    == ClassifyASTDiff(file)
    IN  IF ~file.readable \/ ~file.formats
        THEN [s EXCEPT !.files = @ + 1, !.failures = @ + 1]
        ELSE [s EXCEPT !.files = @ + 1,
                       !.withCases   = @ + One(kept # {}),
                       !.changed     = @ + One(file.before # file.after),
                       !.parseBefore = @ + One(~file.parsesBefore),
                       !.parseAfter  = @ + One(~file.parsesAfter),
                       !.ast         = @ + One(kind # "none"),
                       !.structural  = @ + One(kind = "structural"),
                       !.unstable    = @ + One(~file.idempotent),
                       !.overBefore  = @ + Cardinality(FindOverflows(file.before, col)),
                       !.overAfter   = @ + Cardinality(over),
                       !.changedOver = @ + Cardinality(over \cap changed),
                       !.newOver     = @ + Cardinality({k \in kept : Kind(file, k, col) = "new_overflow"})]

(* The rest is done with the report once all files are in.                 *)
RedactGlyph(g) ==
    CASE g.class = "lower" -> [g EXCEPT !.glyph = "a"]
      [] g.class = "upper" -> [g EXCEPT !.glyph = "A"]
      [] g.class = "digit" -> [g EXCEPT !.glyph = "0"]
      [] OTHER             -> g

RedactSourceShape(text) == [k \in DOMAIN text |-> RedactGlyph(text[k])]

(* Repositories are told apart by their last name: of two with the same    *)
(* name both get the number of the later one.                              *)
RepoAlias(base) == <<"repo", Max({k \in DOMAIN corpus : corpus[k].base = base})>>

\* Mutant: files are numbered without the repository they are in.
FileAliasByPath(all, k) == <<"file", Min({m \in DOMAIN all : all[m].file = all[k].file})>>

FileAlias(all, k) ==
    LET Same(m) == all[m].file = all[k].file /\ RepoAlias(all[m].repo) = RepoAlias(all[k].repo)
    IN  <<"file", Min({m \in DOMAIN all : Same(m)})>>

RedactReport(all) ==
    [k \in DOMAIN all |->
        [all[k] EXCEPT !.repo = RepoAlias(all[k].repo),
                       !.file = FileAlias(all, k),
                       !.text = RedactSourceShape(@)]]

BuildClusters(all) ==
    {LET own == SelectSeq(all, LAMBDA c : ClusterKey(c) = key)
     IN  [key |-> key, count |-> Len(own),
          maxWidth |-> Max({own[k].width : k \in DOMAIN own}),
          excess   |-> FoldLeft(LAMBDA n, c : n + c.width - cfg.col, 0, own),
          examples |-> SubSeq(own, 1, Min({MaxExamples, Len(own)}))] :
     key \in {ClusterKey(all[k]) : k \in DOMAIN all}}

-----------------------------------------------------------------------------
(* overflow_report: what it says of a file.                                *)

(* The declaration by itself, behind a package clause: it reproduces when  *)
(* llformat's output for it has any line that is too wide.                 *)
Snippet(file, k, col) ==
    LET d == EnclosingRange(file, k)
    IN  [from |-> d.from, to |-> d.to, kind |-> d.kind,
         reproduces |-> /\ file.reproFormats
                        /\ FindOverflowsMinExcess(SubSeq(file.after, d.from, d.to), col, 1) # {}]

Reported(file, c) ==
    LET over == FindOverflowsMinExcess(file.after, c.col, c.minExcess)
    IN  IF c.onlyChanged THEN over \cap ChangedLines(file.before, file.after, c.radius) ELSE over

\* Mutant: the snippets are cut out before the lines are sorted back.
SnippetsByWidth(file, kept, col) ==
    LET wide == SortSeq(kept, LAMBDA a, b : file.after[a].width > file.after[b].width)
    IN  [m \in DOMAIN kept |-> Snippet(file, wide[m], col)]

Snippets(file, kept, col) ==
    [m \in DOMAIN kept |-> IF file.parsesAfter THEN Snippet(file, kept[m], col)
                           ELSE [from |-> 0, to |-> 0, kind |-> "none", reproduces |-> FALSE]]

(* The widest lines up to the cap.                                         *)
CapByWidth(file, c) ==
    IF file.before = file.after THEN {{}}
    ELSE {S \in SUBSET Reported(file, c) :
            /\ Cardinality(S) = Min({c.cap, Cardinality(Reported(file, c))})
            /\ \A k \in S, m \in Reported(file, c) \ S : file.after[k].width >= file.after[m].width}

Entries(repo, file, S, col) ==
    LET kept  == InOrder(file, S)
        snips == Snippets(file, kept, col)
    IN  [m \in DOMAIN kept |->
            [repo |-> repo.base, file |-> file.path, line |-> kept[m],
             width |-> file.after[kept[m]].width, text |-> file.after[kept[m]].text,
             snippet |-> snips[m]]]

-----------------------------------------------------------------------------
(* The runs of the tools.                                                  *)

ReportsInit ==
    /\ corpus = <<>> /\ cfg = [tool |-> "none"]
    /\ repoAt = 1 /\ fileAt = 1
    /\ sums = <<>> /\ cases = <<>> /\ clusters = {}
    /\ written = {} /\ phase = "idle"

(* Flags that make no sense, no binary, or a directory for the report that *)
(* cannot be made: nothing is done.                                        *)
Refuse ==
    /\ phase = "idle" /\ phase' = "failed"
    /\ UNCHANGED <<corpus, cfg, repoAt, fileAt, sums, cases, clusters, written>>

StartReport ==
    /\ phase = "idle" /\ phase' = "file"
    /\ corpus' \in Corpora /\ cfg' \in Configs
    /\ cfg'.tool = "overflow" => Len(corpus') = 1
    /\ sums' = <<EmptySum>>
    /\ UNCHANGED <<repoAt, fileAt, cases, clusters, written>>

FilesInHand == GoFilesUnder(cfg, corpus[repoAt])

(* A repository that is not a directory, or cannot be walked.              *)
ScanFails ==
    /\ phase = "file" /\ fileAt = 1 /\ ~corpus[repoAt].dir
    /\ phase' = "failed"
    /\ UNCHANGED <<corpus, cfg, repoAt, fileAt, sums, cases, clusters, written>>

AnalyzeFile ==
    /\ phase = "file" /\ corpus[repoAt].dir /\ fileAt <= Len(FilesInHand)
    /\ cfg.tool = "corpus"
    /\ LET file == FilesInHand[fileAt] IN
       \E kept \in IF file.readable /\ file.formats THEN CapByRank(corpus[repoAt], file, cfg) ELSE {{}} :
          /\ cases' = cases \o CasesForFile(corpus[repoAt], file, kept, cfg.col)
          /\ sums' = [sums EXCEPT ![repoAt] = AccumulateSummary(@, file, kept, cfg.col)]
    /\ fileAt' = fileAt + 1
    /\ UNCHANGED <<corpus, cfg, repoAt, clusters, written, phase>>

(* With a file for each line that is too wide, one that cannot be written  *)
(* is left out of the index without a word.                                *)
ReportFile ==
    /\ phase = "file" /\ corpus[repoAt].dir /\ fileAt <= Len(FilesInHand)
    /\ cfg.tool = "overflow"
    /\ LET file == FilesInHand[fileAt] IN
       \E kept \in IF file.readable /\ file.formats THEN CapByWidth(file, cfg) ELSE {{}} :
          \E filed \in IF cfg.perBug THEN SUBSET kept ELSE {kept} :
             cases' = cases \o Entries(corpus[repoAt], file, filed, cfg.col)
    /\ fileAt' = fileAt + 1
    /\ UNCHANGED <<corpus, cfg, repoAt, sums, clusters, written, phase>>

NextRepo ==
    /\ phase = "file" /\ corpus[repoAt].dir /\ fileAt > Len(FilesInHand)
    /\ repoAt < Len(corpus)
    /\ repoAt' = repoAt + 1 /\ fileAt' = 1
    /\ sums' = Append(sums, EmptySum)
    /\ UNCHANGED <<corpus, cfg, cases, clusters, written, phase>>

BuildReport ==
    /\ phase = "file" /\ corpus[repoAt].dir /\ fileAt > Len(FilesInHand)
    /\ repoAt = Len(corpus)
    /\ phase' = "write"
    /\ cases' = IF cfg.tool = "corpus" /\ cfg.redact THEN RedactReport(cases) ELSE cases
    /\ clusters' = IF cfg.tool = "corpus" THEN BuildClusters(cases') ELSE {}
    /\ UNCHANGED <<corpus, cfg, repoAt, fileAt, sums, written>>

(* Up to three files, in this order; one that cannot be written ends it.   *)
WriteReport ==
    /\ phase = "write"
    /\ LET names == IF cfg.tool = "corpus" THEN <<"cases.json", "summary.md", "clusters.md">>
                    ELSE IF cfg.perBug THEN <<"index">> ELSE <<"report">>
       IN  \E n \in 0..Len(names) :
             /\ written' = {names[k] : k \in 1..n}
             /\ phase' = IF n = Len(names) THEN "done" ELSE "failed"
    /\ UNCHANGED <<corpus, cfg, repoAt, fileAt, sums, cases, clusters>>

ReportsNext == Refuse \/ StartReport \/ ScanFails \/ AnalyzeFile \/ ReportFile \/ NextRepo \/ BuildReport \/ WriteReport

ReportsSpec == ReportsInit /\ [][ReportsNext]_reportsVars

-----------------------------------------------------------------------------
(* The files a finished run has taken up.                                  *)
Taken == UNION {{<<k, m>> : m \in DOMAIN GoFilesUnder(cfg, corpus[k])} : k \in DOMAIN corpus}

FileOf(x) == GoFilesUnder(cfg, corpus[x[1]])[x[2]]

(* A report names a file by the last name of its repository and its path   *)
(* there.                                                                  *)
NamedAs(c, x) == c.repo = corpus[x[1]].base /\ c.file = FileOf(x).path

NamedApart ==
    \A x, y \in Taken :
        corpus[x[1]].base = corpus[y[1]].base /\ FileOf(x).path = FileOf(y).path => x = y

CasesOf(x) == {m \in DOMAIN cases : NamedAs(cases[m], x)}

(* A line too wide that the file did not have anywhere before is reported  *)
(* under its repository and file, or the report of the file is full of     *)
(* lines that were changed as well or are wider by 250 columns, what the   *)
(* rank of a changed line is worth at least (difflib's matching,           *)
(* classifyCase with the width of whatever line had the number before, and *)
(* the cap and the two sorts in casesForFile).                             *)
NoNewOverflowMissed ==
    phase \in {"write", "done"} /\ cfg.tool = "corpus" /\ ~cfg.redact /\ NamedApart =>
        \A x \in Taken :
            LET file == FileOf(x) IN
            file.readable /\ file.formats =>
                \A k \in FindOverflows(file.after, cfg.col) :
                    (\A m \in DOMAIN file.before : file.before[m].text # file.after[k].text) =>
                        \/ \E m \in CasesOf(x) : cases[m].line = k
                        \/ /\ Cardinality(CasesOf(x)) = cfg.cap
                           /\ \A m \in CasesOf(x) :
                                \/ cases[m].kind \in {"new_overflow", "touched_overflow"}
                                \/ cases[m].width >= file.after[k].width + 250

(* What redactSourceShape masks: ASCII; other letters it writes as they    *)
(* are.                                                                    *)
Masked == {"lower", "upper", "digit"}

(* A redacted report names a repository by its number and a file by an     *)
(* alias that belongs to one such number, shows no ASCII letter or digit   *)
(* of the source, and keeps the IDs of different lines apart unless two    *)
(* files had one name before (redactReport, with the names, the file       *)
(* numbers and the shape of the text; the IDs are made anew from those).   *)
RedactedButDistinct ==
    phase \in {"write", "done"} /\ cfg.tool = "corpus" /\ cfg.redact =>
        /\ \A k \in DOMAIN cases :
              /\ cases[k].repo \in {<<"repo", n>> : n \in DOMAIN corpus} /\ cases[k].file[1] = "file"
              /\ \A g \in ToSet(cases[k].text) : g.class \in Masked => g.glyph \in {"a", "A", "0"}
        /\ \A k, m \in DOMAIN cases : cases[k].file = cases[m].file => cases[k].repo = cases[m].repo
        /\ NamedApart => \A k, m \in DOMAIN cases : CaseID(cases[k]) = CaseID(cases[m]) => k = m

(* A redacted report that counts cases for a repository has one under its  *)
(* number.  It fails: of two repositories with one last name the later     *)
(* number takes the cases of both (the map from names in redactReport).    *)
CasesNameTheirRepository ==
    phase \in {"write", "done"} /\ cfg.tool = "corpus" /\ cfg.redact =>
        \A n \in DOMAIN sums :
            sums[n].withCases > 0 => \E k \in DOMAIN cases : cases[k].repo = <<"repo", n>>

(* Every line of an overflow report comes with the declaration it is in,   *)
(* and the lines of a file are in their order, but for an index, which is  *)
(* sorted by name (they are sorted twice before extractSnippets walks      *)
(* them).                                                                  *)
SnippetsBelong ==
    phase \in {"write", "done"} /\ cfg.tool = "overflow" =>
        \A k \in DOMAIN cases :
            LET e == cases[k] IN
            /\ e.snippet.kind # "none" => e.snippet.from <= e.line /\ e.line <= e.snippet.to
            /\ k > 1 /\ cases[k - 1].file = e.file /\ ~cfg.perBug => cases[k - 1].line < e.line
=============================================================================
