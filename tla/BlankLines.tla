----------------------------- MODULE BlankLines -----------------------------
(***************************************************************************)
(* The blank-lines stage at work (dsl/action.go, formatter/dsl_bundle.go): *)
(* iteration by iteration, the batch rewrite of the whole file if it       *)
(* changes anything, else the first node a rule of its own changes.        *)
(*                                                                         *)
(* The stage only adds and takes away empty lines, so a text is its other  *)
(* lines, which stay, and how many empty lines stand above each.  Lines    *)
(* are numbered without the empty ones.  Comments are line comments, each  *)
(* on a line of its own.                                                   *)
(***************************************************************************)
EXTENDS RuleTables, FiniteSetsExt

CONSTANTS
  Texts,        \* [nodes, ends, comments]: the tree, how each line ends, the comment lines
  Gaps(_),      \* Gaps(text): the empty lines it may be given with
  ExtraIfErr,   \* the option ExtraIfErrReturn
  Limit,        \* MaxIterations of the stage
  Passes        \* how often the pipeline runs

VARIABLES
  text,     \* the lines and the tree
  gap,      \* line to the empty lines above it
  iter,     \* iterations of this pass
  pass,     \* passes begun
  before,   \* the gaps with which the pass began
  progress        \* "run" or "done"

blanksVars == <<text, gap, iter, pass, before, progress>>

Lines == DOMAIN text.ends

LineOf(n) == text.nodes[n].first

-----------------------------------------------------------------------------
(***************************************************************************)
(* The tree as the conditions see it: what is above a node depends on the  *)
(* empty lines, and a block counts as commented when a comment stands      *)
(* between its brace and its first statement.                              *)
(***************************************************************************)
Above(g, l) ==
  CASE l = 1                                  -> "top"
    [] l > 1 /\ g[l] > 0                      -> "blank"
    [] l > 1 /\ g[l] = 0 /\ text.ends[l - 1] # "code" -> "opens"
    [] OTHER                                  -> "code"

CommentBetween(from, to) == \E l \in text.comments : from < l /\ l < to

LeadComment(n) ==
  \E m \in DOMAIN text.nodes :
    /\ text.nodes[m].up = n /\ text.nodes[m].role = "stmts"
    /\ CommentBetween(text.nodes[n].head, LineOf(m))
    /\ \A k \in DOMAIN text.nodes :
         text.nodes[k].up = n /\ text.nodes[k].role = "stmts" => m <= k

TreeAt(g) ==
  [nodes |-> [n \in DOMAIN text.nodes |-> [text.nodes[n] EXCEPT !.above = Above(g, LineOf(n))]],
   comments |-> {n \in DOMAIN text.nodes : text.nodes[n].type = "BlockStmt" /\ LeadComment(n)}]

hasBlankLineBeforeLineStart(g, l) == l = 1 \/ g[l] > 0

(***************************************************************************)
(* leadingCommentBlockLineStart: up over the comments that touch a line.   *)
(***************************************************************************)
leadingCommentBlockLineStart(g, l) ==
  LET start[k \in Lines] ==
        IF k > 1 /\ g[k] = 0 /\ k - 1 \in text.comments THEN start[k - 1] ELSE k
  IN  start[l]

-----------------------------------------------------------------------------
(***************************************************************************)
(* clauseSeparatorBehavior: a comment under an empty clause stays with     *)
(* that clause.                                                            *)
(***************************************************************************)
IsClause(T, n) == Type(T, n) \in {"CaseClause", "CommClause"}

PreviousClause(T, n) ==
  LET all == ChildrenAt(T, Parent(T, n), "stmts")
  IN  all[(CHOOSE i \in DOMAIN all : all[i] = n) - 1]

AfterEmptyClause(T, n) ==
  HasPrecedingSibling(T, n) /\ Child(T, PreviousClause(T, n), "body") = None

SeparatesClause(T, n) ==
  AfterEmptyClause(T, n) => CommentBetween(T.nodes[PreviousClause(T, n)].head, LineOf(n))

ClauseLine(T, g, n) ==
  IF AfterEmptyClause(T, n) THEN LineOf(n) ELSE leadingCommentBlockLineStart(g, LineOf(n))

Insert(g, l) == IF hasBlankLineBeforeLineStart(g, l) THEN g ELSE [g EXCEPT ![l] = 1]

removeBlankBeforeLineStart(g, l) == IF l > 1 /\ g[l] > 0 THEN [g EXCEPT ![l] = @ - 1] ELSE g

-----------------------------------------------------------------------------
(***************************************************************************)
(* BlankLinesBatchAction: all insertions and removals in one rewrite, with *)
(* conditions of its own for each type of node.                            *)
(***************************************************************************)
AsksForBlank(T, n) ==
  \/ IsClause(T, n) /\ HasPrecedingSibling(T, n) /\ SeparatesClause(T, n)
  \/ /\ Type(T, n) = "ReturnStmt"
     /\ ~onlyStmtInBlockWithoutLeadingComment(T, n)
     /\ IsReturnNeedingBlank(T, n)
  \/ Type(T, n) = "Field" /\ IsInterfaceMethod(T, n) /\ HasPrecedingInterfaceField(T, n)
  \/ Type(T, n) = "IfStmt" /\ ExtraIfErr /\ IsIfErrReturnNeedingBlank(T, n)

\* Mutant: the comments above a statement are not taken along.
PlaceAtNode(T, g, n) == LineOf(n)

PlaceFor(T, g, n) ==
  IF IsClause(T, n) THEN ClauseLine(T, g, n) ELSE leadingCommentBlockLineStart(g, LineOf(n))

FirstStmt(T, n) ==
  IF IsClause(T, n) THEN Child(T, n, "body") ELSE Child(T, Child(T, n, "body"), "stmts")

OnOneLine(n) == LineOf(n) = text.nodes[n].head

(***************************************************************************)
(* maybeRemoveBlankAfterHeaderLine, for clauses: the empty line right      *)
(* below, whatever follows it.                                             *)
(***************************************************************************)
BelowClauses(T) ==
  {text.nodes[n].head + 1 : n \in {m \in NodesOf(T) : IsClause(T, m) /\ OnOneLine(m)}} \cap Lines

(***************************************************************************)
(* maybeRemoveBlankAfterSingleLineBlockHeader, for the other statements:   *)
(* the empty line above the first statement, unless a comment leads it.    *)
(***************************************************************************)
BelowHeaders(T, g) ==
  {LineOf(f) : f \in {FirstStmt(T, n) : n \in {m \in NodesOf(T) :
     /\ Type(T, m) \in {"IfStmt", "ForStmt", "RangeStmt"}
     /\ FirstStmt(T, m) # None
     /\ OnOneLine(m)
     /\ LET f == FirstStmt(T, m)
        IN  /\ ~(Type(T, f) = "ReturnStmt" /\ onlyStmtInBlockWithoutLeadingComment(T, f))
            /\ leadingCommentBlockLineStart(g, LineOf(f)) = LineOf(f)}}}

LoneReturns(T) ==
  {LineOf(n) : n \in {m \in NodesOf(T) :
     Type(T, m) = "ReturnStmt" /\ onlyStmtInBlockWithoutLeadingComment(T, m)}}

Removed(T, g) == BelowClauses(T) \cup BelowHeaders(T, g) \cup LoneReturns(T)

\* Mutant: the batch leaves out the methods of interfaces.
InsertedButMethods(T, g) ==
  {PlaceFor(T, g, n) : n \in {m \in NodesOf(T) : AsksForBlank(T, m) /\ ~IsInterfaceMethod(T, m)}}

Inserted(T, g) == {PlaceFor(T, g, n) : n \in {m \in NodesOf(T) : AsksForBlank(T, m)}}

BlankLinesBatch(g) ==
  LET T        == TreeAt(g)
      removed  == Removed(T, g)
      inserted == Inserted(T, g)
  IN  [l \in Lines |-> IF l \in removed /\ g[l] > 0 THEN removeBlankBeforeLineStart(g, l)[l]
                       ELSE IF l \in inserted THEN Insert(g, l)[l] ELSE g[l]]

-----------------------------------------------------------------------------
(***************************************************************************)
(* The rules of the stage, the batch before all others, and what the       *)
(* action of a rule for single nodes does.  The last one works under a     *)
(* header on several lines: over a return that is alone the empty line is  *)
(* taken away.                                                             *)
(***************************************************************************)
StageRules == BlankLineRulesWithOptions(ExtraIfErr) \o AfterHeaderRules

OnlyReturn(T, n) ==
  LET f == FirstStmt(T, n)
  IN  Type(T, f) = "ReturnStmt" /\ IsOnlyIn(T, f, IF IsClause(T, n) THEN "body" ELSE "stmts")

InsertBlankBeforeFirstStmtInBlock(T, g, n) ==
  LET l == leadingCommentBlockLineStart(g, LineOf(FirstStmt(T, n)))
  IN  CASE FirstStmt(T, n) = None -> g
        [] FirstStmt(T, n) # None /\ OnlyReturn(T, n) -> removeBlankBeforeLineStart(g, l)
        [] OTHER -> Insert(g, l)

Execute(T, g, n, action) ==
  CASE action = "InsertBlankBefore" -> Insert(g, leadingCommentBlockLineStart(g, LineOf(n)))
    [] action = "InsertBlankBeforeClause" ->
         IF SeparatesClause(T, n) THEN Insert(g, ClauseLine(T, g, n)) ELSE g
    [] action = "InsertBlankBeforeFirstStmtInBlock" -> InsertBlankBeforeFirstStmtInBlock(T, g, n)

ByRule(T, g, n, rule) == IF Applies(T, n, rule) THEN Execute(T, g, n, rule.actions[1]) ELSE g

Working(T, g, n) == {i \in 2..Len(StageRules) : ByRule(T, g, n, StageRules[i]) # g}

NodeRule(g, n) ==
  LET T       == TreeAt(g)
      working == Working(T, g, n)
  IN  IF working = {} THEN g ELSE ByRule(T, g, n, StageRules[Min(working)])

Changes(g, n) == NodeRule(g, n) # g

-----------------------------------------------------------------------------
BlanksInit ==
  /\ text \in Texts
  /\ gap \in Gaps(text)
  /\ iter = 0
  /\ pass = 1
  /\ before = gap
  /\ progress = "run"

\* Mutant: one iteration less.
OneLess == iter = Limit - 1

Exhausted == iter = Limit

\* Mutant: the rules for single nodes are not waited for.
QuietForBatch == BlankLinesBatch(gap) = gap

Quiet == BlankLinesBatch(gap) = gap /\ \A n \in DOMAIN text.nodes : ~Changes(gap, n)

Rewrite(g) ==
  /\ progress = "run" /\ ~Exhausted
  /\ gap' = g
  /\ iter' = iter + 1
  /\ UNCHANGED <<text, pass, before, progress>>

Batch == BlankLinesBatch(gap) # gap /\ Rewrite(BlankLinesBatch(gap))

OneNode ==
  /\ BlankLinesBatch(gap) = gap
  /\ \E n \in DOMAIN text.nodes :
       /\ Changes(gap, n)
       /\ \A m \in 1..(n - 1) : ~Changes(gap, m)
       /\ Rewrite(NodeRule(gap, n))

(***************************************************************************)
(* gofmt keeps at most one empty line in a row.                            *)
(***************************************************************************)
Squeezed(g) == [l \in Lines |-> IF g[l] > 1 THEN 1 ELSE g[l]]

EndPass ==
  /\ progress = "run"
  /\ Quiet \/ Exhausted
  /\ gap' = Squeezed(gap)
  /\ IF pass < Passes
       THEN /\ pass' = pass + 1 /\ iter' = 0 /\ before' = Squeezed(gap)
            /\ UNCHANGED progress
       ELSE progress' = "done" /\ UNCHANGED <<pass, iter, before>>
  /\ UNCHANGED text

BlanksNext == Batch \/ OneNode \/ EndPass

BlanksSpec == BlanksInit /\ [][BlanksNext]_blanksVars

-----------------------------------------------------------------------------
(***************************************************************************)
(* The batch repeats, in its own words, the rules that insert an empty     *)
(* line at one node, so that a file does not take an iteration per         *)
(* statement: in every text it fills the lines that one of those rules     *)
(* would fill, and no others but above the clauses of a select, which no   *)
(* pattern selects.                                                        *)
(***************************************************************************)
Filled(g) == {l \in Lines : g[l] > gap[l]}

FilledByRules ==
  LET T == TreeAt(gap)
  IN  UNION {Filled(ByRule(T, gap, n, StageRules[i])) :
               n \in DOMAIN text.nodes, i \in 2..Len(BlankLineRulesWithOptions(ExtraIfErr))}

SelectLines ==
  {PlaceFor(TreeAt(gap), gap, n) : n \in {m \in DOMAIN text.nodes : text.nodes[m].type = "CommClause"}}

BatchMatchesRules ==
  /\ FilledByRules \subseteq Filled(BlankLinesBatch(gap))
  /\ Filled(BlankLinesBatch(gap)) \subseteq FilledByRules \cup SelectLines

(***************************************************************************)
(* An empty line is never put between a comment and the statement it       *)
(* touches; only a clause is cut off from the comment of an empty clause   *)
(* above it.                                                               *)
(***************************************************************************)
CutsComment(l) ==
  /\ gap'[l] > gap[l] /\ l - 1 \in text.comments
  /\ \A n \in DOMAIN text.nodes :
       LineOf(n) = l => ~AfterEmptyClause(TreeAt(gap), n)

CommentsStayAttached == [][\A l \in Lines : ~CutsComment(l)]_blanksVars

(***************************************************************************)
(* What a pass leaves, the next one leaves alone, even where two rules     *)
(* undo each other until the iterations are used up: their number is even. *)
(* This is of texts that ask for fewer rewrites than there are iterations. *)
(***************************************************************************)
SecondPassChangesNothing == progress = "done" => gap = before

(***************************************************************************)
(* What the batch, the rules for single nodes and gofmt leave alone.       *)
(***************************************************************************)
FixedPoint(g) ==
  /\ BlankLinesBatch(g) = g
  /\ \A n \in DOMAIN text.nodes : NodeRule(g, n) = g
  /\ Squeezed(g) = g

(***************************************************************************)
(* A pass that ends because nothing applies any more, before its           *)
(* iterations are used up, leaves a text that no later pass changes: what  *)
(* gofmt takes away behind the stage wakes none of its rules.              *)
(***************************************************************************)
QuietPassSettles == progress = "done" /\ ~Exhausted => FixedPoint(gap)
=============================================================================
