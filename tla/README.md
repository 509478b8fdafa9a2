# llformat in TLA+

llformat is a Go source formatter that keeps lines below a column limit.  A
pipeline runs six stages over a file (comments, log calls, expressions,
multi-line calls, signatures, blank lines), then `gofmt`, and may repeat the
whole pass until the text settles.  Most stages are a rule engine over the
syntax tree: rules with a pattern, a condition and an action, one rewrite at a
time until nothing applies.

This directory holds TLA+ modules for the parts whose correctness is more than
the correctness of a line: the rewriting loops and their bounds, the order of
stages, rules and edits, the ownership of source regions, the configuration that
decides which rule a stage tries on which node, the comment and blank-line
stages, the layout of expressions, the processes that write source files, and
the tools that start them and report on what they do.  TLC checks them on small
instances (`MC*.tla`, `*.cfg`); TLAPS proves the theorems in `*Proofs.tla` for
every instance.

## 1. Inventory

| Component | Source | State it keeps | Operations |
|---|---|---|---|
| Owned spans | `ast/offset_span_set.go` | a sorted list of half-open byte spans | `NewOffsetSpanSet`, `Overlaps`, `Contains`, `Union` |
| Ownership registry | `formatter/ownership_registry.go`, `ownership_policy.go` | spans by stage, all spans | build over the stages; `AllOwnedExcept`, `AllOwnedAfter`, `ForbiddenSpans` |
| Edits | `dsl/edit.go`, `edit_builder.go`, `replace.go`, `edit_helpers.go` | the collected edits | `Replace`, `Insert`, `Delete`, `Apply`; `ApplyEdits`, `changedSpan` |
| Rule engine | `dsl/engine.go` | rules, limits, forbidden spans; per call: text, iteration, texts seen, tree, atomic nodes | `Format` |
| Rules | `dsl/rules.go`, `condition.go`, `pattern.go`, `*_rules.go` | none between calls | match a node, test it, try actions |
| Layout | `dsl/layout/*`, `dsl/expr_doc.go`, the layout actions of `dsl/action.go` | none | expression to document, document to text within a width |
| Packing actions | `dsl/action.go` | none | pack calls, signatures, literals, strings |
| Blank lines | `dsl/action.go`, `formatter/dsl_bundle.go` | per pass: text, iteration | a batch for the file, actions for single nodes |
| Configuration | `formatter/pipeline.go`, `stage_plan.go`, `config_validation.go`, `dsl_bundles_next.go`, `stage_builders.go` | a resolved configuration, an engine per stage | validate, resolve, plan, build stages, declare owned calls |
| Stage list | `formatter/stage.go` | none | `StageOrder` |
| Pipeline | `formatter/pipeline.go` | stages; per call: text, states met, pass | `Format`, `applyStages` |
| Call packers | `formatter/compact_call_formatter*.go`, `expression_formatter.go` | package variables for limits, targets and options behind one mutex | `FormatFile`, `FormatCallGreedy*`, `FormatCallPacked*` |
| Signatures | `formatter/func_sig_formatter.go` | none | pack parameters and results |
| Comments | `internal/compat/comment_formatter.go` | a configuration; per call: the line in hand, the raw string it is in | find blocks, reflow, hoist inline comments |
| Scanners | `scanner`, `text`, `width` | none | strings, comments, brackets; visual width |
| Command line | `cmd/llformat/main.go` | the files it is given | parse flags, read, format, write |
| `fmt_repo` | `tools/fmt_repo` | the repository's files | walk, choose, run a process per file, compare |
| Reporting tools | `tools/corpus_check`, `tools/overflow_report` | the cases found so far | walk, run a process per file, compare lines, classify, cluster, redact, write |

How they interact.  The command line reads a file and calls `Pipeline.Format`.
A pass calls each stage's `FormatFile` on the text the stage before has left.
Before that, an ownership aware stage is given a registry built from the
`OwnedSpans` of all stages over the same text; the stage turns it into the spans
it must not edit and stores them in its engine.  The engine calls the parser,
the rules' conditions and actions, and `changedSpan` to find what an action
changed.  Log-call actions call back into the call packers of `formatter`, which
pass limits through package variables guarded by a mutex.  Which rules a stage
has, which styles it uses and which calls it claims is decided once, by
`NewPipeline`, from a configuration that several defaults have gone over.  The
tools know the formatter only as a binary they start.

What is hard in this code:

* *Search loops with caps.*  The engine and the pipeline both iterate to a
  fixpoint, both have a cap, a cycle detection and several ways to stop, and the
  result depends on which one was taken.
* *Stale offsets.*  Spans are byte offsets of one text; the text changes under
  them.  Reports read the width of a line under a number it no longer has.
* *Order.*  Rule priority, node order, the order of edits at one offset, the
  order of stages, and the order of the defaults of a configuration all show in
  the output.
* *The same list twice.*  Which calls count as log calls, where an empty line
  belongs, and what the plan of a pipeline is are each derived in two places
  that must agree.
* *State that outlives a call.*  A stage keeps its last registry, the packers
  keep their package variables.
* *Line breaks mean something.*  Go ends a statement at a line break behind an
  operand, so a layout can change the program; a comment belongs to the line
  below it; a raw string keeps its lines.
* *Failure in the middle.*  A rewrite may not parse, may exceed the budget, may
  hit a forbidden span; a write may be cut off; a file of a tree may not format.

What makes each component correct:

* span sets: queries answer as if each byte were asked for by itself; a set is
  sorted and has no two spans that touch;
* registry: a stage is refused exactly what later stages own, and everything if
  nobody knows it;
* edits: refused exactly if two of them conflict, else applied as if the text
  had not moved under them;
* engine: parseability, budget and iteration cap kept on every path; a
  deterministic choice of the rewrite; a normal form when it says it is stable;
* layout: the same program, as narrow as the breaks on offer allow;
* blank lines: the batch and the rule tables name the same lines, no comment is
  cut off, and a second pass changes nothing;
* configuration: what is planned is what runs, what is accepted is understood,
  and no call has two owners and no argument two editors unless asked for;
* stage order: an order that respects the requirements, or a cycle that is real;
* pipeline: formatting again what has settled changes nothing; all members of a
  cycle get one result; a pass depends on nothing but the text;
* packers: every call works with its own settings and leaves the others' alone;
* comments: code and raw strings come through, no word is lost, and a second
  call changes nothing;
* command line and `fmt_repo`: a source file is never lost without a word, and a
  check says what a write would do;
* reporting tools: no new overlong line is missed, redaction masks names and text
  and keeps lines apart, a line is shown with the declaration it is in.

## 2. Modules

| Module | Stands for | Kind |
|---|---|---|
| `OffsetSpans` | `ast/offset_span_set.go` | operators |
| `SourceEdits` | `dsl/edit.go` and the edit helpers, `changedSpan` | operators |
| `Ownership` | the registry and its construction, stage by stage | state machine |
| `EditBuilder` | one builder that collects edits and applies them | state machine |
| `RewriteContract` | what a call of the engine promises | abstract specification |
| `Engine` | `Engine.Format`, one action per decision of its loop | state machine, implements `RewriteContract` |
| `PipelineContract` | the closed form of `Pipeline.Format`: its answer as a function of the input | abstract specification |
| `Pipeline` | `Pipeline.Format` and `applyStages`, called repeatedly on one list of stages | state machine, implements `PipelineContract` |
| `StageOrder` | `StageOrder` of `formatter/stage.go`: Kahn's algorithm with its queue | state machine |
| `SyntaxTrees` | patterns and conditions over a tree | operators |
| `RuleTables` | the tables of rules, with their options | operators |
| `StageConfig` | from a configuration to the rules each stage tries and the calls it claims | state machine over `RuleTables` |
| `BlankLines` | the blank-lines stage at work, with the iterations of its engine | state machine over `SyntaxTrees` |
| `LayoutDocs` | `dsl/layout`: documents and their rendering | operators |
| `ExprDocs` | `dsl/expr_doc.go`: the document of every kind of expression | operators |
| `LayoutActions` | the eight actions that lay out an expression anew | state machine over `ExprDocs` |
| `Comments` | `CommentFormatter.FormatFile`, called twice | state machine |
| `SerialCalls` | calls that take place one at a time | abstract specification |
| `FormatGlobals` | the package variables of the call packers, their mutex, and goroutines that call the entry points | state machine, implements `SerialCalls` |
| `Processes` | a process as its files see it, and what it owes them | state and promises shared by the next two |
| `CommandLine` | processes of `cmd/llformat` on a disk that outlives them | state machine |
| `FmtRepo` | `tools/fmt_repo`, which starts one such process per file; an instance of `CommandLine` | composition |
| `Reports` | `tools/corpus_check` and `tools/overflow_report` | state machine |
| `Lists` | the loop that picks some members of a list, and `sort.SliceStable` | operators |
| `Lemmas` | induction over the naturals, stated for sets, and what the operators of `Lists`, `OffsetSpans` and `SourceEdits` return | lemmas |
| `EngineProofs`, `PipelineProofs`, `FmtRepoProofs` | theorems about the module they are named for | proofs |
| `FormatterProofs` | theorems about `FormatGlobals` and `Comments` | proofs |
| `CommandProofs` | theorems about `CommandLine` and `Reports` | proofs |
| `StageProofs` | theorems about `StageConfig`, `StageOrder` and `BlankLines` | proofs |
| `OwnedEditsProofs` | theorems about `Ownership` and `EditBuilder` | proofs |
| `MC*` | instances for TLC | |

`Engine` extends `OffsetSpans` and `SourceEdits`, so the guard against forbidden
spans and the application of edits are those of the code and not an
abstraction.  `Pipeline` takes stages and registries as parameters.

Four MC modules hold machines that do not meet in the program: `MCTexts`
(`Ownership`, `EditBuilder`, `Comments` with the files of `MCComments`), `MCStageConfig` (`StageConfig`, `StageOrder`),
`MCActions` (`BlankLines`, `LayoutActions`) and `MCFmtRepo` (`CommandLine` from a
shell, `FmtRepo`).  A variable `part` (or `shell`) says in the initial state which
of them moves; the others rest, so the states add up and are not multiplied.

### Ownership

`add` normalises (through `NewOffsetSpanSet`, a fold of `MergeSpan` over the
stable sort) and `AddStage` is one turn of the loop of `BuildOwnershipRegistry`;
`SkipStage` is its `continue`.  Queries are operators on the registry.

### Edits

A text is a sequence of bytes.  `EditBefore` is the comparison function of the
sort and `ApplyEdits` applies the sorted edits front of the list first, which
is the back of the text first.  `changedSpan` is the two loops of the engine.

### Engine

The parser, the tree and the rule library are constants: `Parses`, `Nodes`,
`Matches`, `Target`, `ExecuteEdits`, `Execute`.  A rule's kind is `edit` (an
edit action), `text` (any other action) or `keep` (`KeepTogetherAction`).

| Action | Code |
|---|---|
| `ParseAndMark` | the head of the loop: parse, collect and sort the nodes, mark atomic ones |
| `NextNode`, `SkipRule`, `ApplyRule` | the nested loops of `applyOneRule` and `applyRulesForNode` |
| `NoRuleApplies` | `break` for a stable text |
| `RefuseOverBudget` | `break` for a text beyond the budget |
| `CommitNew`, `CommitRepeated` | the assignment of the result, with cycle detection |
| `OutOfIterations` | the loop's condition fails |
| `Returned` | the call is over |

### Rules, configuration and stage order

`SyntaxTrees` has a tree as a sequence of nodes with parents, roles and lines, and
one operator per pattern and per condition.  What a condition measures of the
text is part of the tree: the lines that are too wide, the nodes that end past
the limit, those that would if written on one line.  `RuleTables` has the rules
as records, a condition as a sequence of clauses.

| Action of `StageConfig` | Code |
|---|---|
| `ValidatePipelineConfig` | `config_validation.go`: every complaint about a configuration |
| `NewValidated`, `NewUnchecked` | `NewPipeline` behind a validation or without one: defaults, the plan, the permissions given and taken back, the engine of every stage |
| `RunStage` | a stage is asked which rules it would try on the tree, and which calls it claims |
| `RunAlone` | an engine built from the name of a rule set |

The engine's own loop is left to `Engine`: here every stage looks at the same
tree, so what two stages take for theirs can be compared.  In `StageOrder`,
`BadName` and `MissingRequirement` are the errors of `buildStageMap` and
`buildDependencies`, `Start` fills the queue, `Pop` is one turn of the loop, and
`Return` and `CycleFound` are its two ends.

### Blank lines and layout

The blank-lines stage adds and takes away empty lines and nothing else, so in
`BlankLines` a text is its other lines, which stay, and a function from each line
to the number of empty lines above it.  `Batch` is an iteration the batch
rewrite changes something in, `OneNode` one in which the first node that a rule
of its own changes is rewritten, and `EndPass` is everything behind: nothing
applies, or the iterations are used up, then the next pass, or the end.  The code
has two lists of where an empty line belongs, and so has the model: the batch asks
`AsksForBlank` of a node by its type, as `inspectFile` does, while `NodeRule` takes
the rules of `RuleTables` one by one (`StageRules`), each with its pattern, its
conditions and the action it names (`Execute`).
Comments are line comments on lines of their own, and `gofmt` leaves one empty
line in a row at most.

In `LayoutActions` one action is asked of one expression: `Keep` is every early
return, `Rewrite` the text it puts in its place.  A text is a sequence of tokens
with a width; a line break is a token with an indentation.  The source has each
expression on one line, except for function literals; `go/printer`'s spacing is
simplified to the spaces between tokens, and only the first application of an
action to an expression is modelled.  `Align` and `IndentByCols`, which no
document uses, are left out.

### Comments

A line is its indentation, the comment mark it starts with, the blanks behind
it, and its words; quotes and comment marks inside a line are words.  The words
are a constant, `Words`: TLC takes all strings, the proofs any set with the marks
in it.  `reflowWords`, the paragraphs, the stretches between blank lines and the
state behind a word are recursive functions of the number of words or lines read,
as the loops they model are.

| Action | Code |
|---|---|
| `Call`, `CallAgain` | `FormatFile` is entered (with the hoisting pass before the walk, if it is on), and entered again with its own output |
| `CopyRaw` | a line inside a raw string |
| `LineBlock` | a block of `//` lines: directives, fences, tables and the like preserved, paragraphs and list items reflowed |
| `BlockComment` | a standalone `/* */`, to the line that is nothing but the closing mark |
| `CopyLine` | any other line, which may open a raw string |
| `Finish` | the last line is done |

### Pipeline

| Action | Code |
|---|---|
| `Call` | a caller enters `Format` |
| `SkipStage`, `RunStage`, `StagesDone` | `applyStages` and gofmt |
| `SinglePassDone` | the path for at most one pass |
| `FixpointReached`, `CycleDetected`, `NextPass`, `OutOfPasses` | the four outcomes of a pass in the search |

`log` is an observer: the calls that have returned.

### FormatGlobals

| Action | Code |
|---|---|
| `Begin`, `Lock` | entering an exported function; `formatGlobalsMu.Lock()` and saving the variables to restore |
| `Assign`, `StartWork` | one assignment each, from a formatter's fields, the defaults or the arguments |
| `Read`, `EndWork` | helpers read the variables at any time of their work |
| `Panic` | a helper panics: what follows its call is skipped, the deferred unlock is not |
| `Restore`, `Unlock` | one assignment each; the deferred unlock and the return |

The exported function for composite literals has no `Lock` and reads only.  The
text being formatted is left out: what matters is which settings a call has seen.

### Processes, CommandLine and FmtRepo

The disk maps a path to its contents, and only it survives a process.  A write is
two steps, since `os.WriteFile` opens the file with `O_TRUNC` before it writes:
`Truncate`, then `WriteBytes` or `WriteFails`.  Every system call has a failing
twin, and `Kill` may come at any time.  The formatter is the constant `Format`.

`FmtRepo` walks a tree (`collectGoFiles`), and for each file reads it (in a
check), starts a process, waits for it, and looks at its exit code and its
output: `StartChild`, `Child`, `ChildFailed`, `ChildDone`, `Finish`.

### Reports

A file says what the binary and the parser make of it: its lines before and
after, whether it can be read, formats, parses, formats to itself, where its
declarations are, and its syntax trees as lists of nodes.  `MatchedLines` is what
`difflib` finds: the longest run of equal lines, and again on both sides of it.
From 200 lines on `difflib` starts no run at a line that more than a hundredth of
the output consists of; that is left out.  A glyph has a class: ASCII letters and
digits, which redaction masks, other letters, and the rest.

| Action | Code |
|---|---|
| `Refuse`, `StartReport` | flags and roots are checked, the walk begins |
| `ScanFails` | a repository cannot be walked |
| `AnalyzeFile` | `corpus_check`: overflows, changed lines, classes, the cap and the two sorts, the comparison of syntax trees |
| `ReportFile` | `overflow_report`: overflows, the cap and the two sorts, the snippets; with a directory as the output, a file for each line, of which any may fail to be written |
| `NextRepo`, `BuildReport`, `WriteReport` | the next repository; redaction and clusters; the files that are written, the index of a directory among them |

## 3. What the runs check

| Run | Instance | Question |
|---|---|---|
| `texts` | every registry of four stages over a text of four bytes; texts of up to three bytes and any three edits in any order; files of up to three lines, block comments of up to three, formatted twice | Do span sets and the registry answer as the bytes themselves would? Are edits refused exactly when they conflict, and else applied without slipping? Do code, raw strings and words come through the comment formatter, and does the text settle? |
| `engine` | five texts, ten rules in lists of up to three, four settings, four forbidden sets | Everything the engine promises whatever the rules do |
| `engine_stale_ownership` | one text, two rules | Does ownership hold for the whole call? It holds for the first rewrite only. |
| `engine_atomic` | one text, two rules | Are atomic nodes left whole? Their descendants are rewritten. |
| `pipeline` | all 64 functions of four texts (one of them not yet gofmt'ed) as a stage, two calls | Idempotence, one result per cycle, no registry left from pass to pass or call to call, the closed form |
| `format_globals` | two goroutines, three calls, six requests | Does each call work with its own settings, and are calls serial? |
| `configuration` | every style, toggle, permission and explicit plan on one file; the call stages on calls of many names, receivers and arguments; small lists of stages | Does the plan say what runs, is what was accepted understood, and do two stages ever take the same call by accident? Is a list put in order unless it cannot be? |
| `actions` | function bodies of two items; expressions of two levels | Do empty lines come out the same from every pass? Is an expression laid out anew the same program, and as narrow as it can be? |
| `comments_unclosed` | the files of `texts`, with block comments closed at the end of a text line | Does code come through? Not the code behind such a comment. |
| `reports` | a file of up to two lines that becomes one of up to three; trees of several files and repositories, some of one name, with every kind of failure | Is a new overflow ever missed, ASCII text shown through redaction, a line shown with the wrong declaration? |
| `reports_same_name` | the same | Does a redacted report have the cases it counts for a repository under its number? Not of two repositories with one name. |
| `fmt_repo` | a tree of five files, twelve configurations; command lines from a shell over two paths named up to three times; failures and kills anywhere | Is a file ever lost without a word? Does a check foretell a write, and is a write complete? |

`texts`, of spans and edits: `QueriesExact` compares what `Overlaps` and `Contains` answer of a
merged set with the set of declared bytes; `ForbidsExactlyLater` says which bytes
each stage is refused, a stage without a place in the order included.
`RefusesExactlyConflicts` gives the condition under which `Apply` fails without
looking at the sorted order; `AppliesAsIfOneByOne` describes the result by which
bytes of the source survive and what stands between them; `ChangedSpanExact` says
that the span `changedSpan` reports holds all that differs, and that no smaller
one does.

`engine`: `ParseSafe` holds for rules that break the syntax, grow without end and
oscillate.  `FirstByOrderAndPriority` and `StableIsNormalForm` say which rewrite
is made and what it means that none is.  `NoTextTwice` is what cycle detection is
for.  `OwnedSurviveFirstRewrite` is the ownership promise the code keeps.
`RankFalls` is termination: every step lowers a rank of four naturals.
`Implements` is the refinement of `RewriteContract`.

`pipeline`: `SettledIsIdempotent` is idempotence of a call that ended in a
fixpoint or a cycle; it needs the condition that the second call has at least as
many passes, and is not claimed for a call that ran out of them.
`SameCycleSameResult` is why the least member of the cycle is returned.
`Implements` compares every pass and every answer with functions of the text
alone, which fails if a registry is carried over.  `EveryCallReturns` is the
liveness property.

`format_globals`: `OwnSettings` is what the mutex is for: a guarded call reads of
the variables it assigns only its own values, and of the others only what it
found when it took the mutex.  `EveryCallReturns` fails if a panic keeps the
mutex.  `Implements` is the refinement of `SerialCalls`: a guarded call takes
place at one moment.

`configuration`: `PlanSaysWhatRuns` compares the plan a pipeline reports, derived
a second time from a configuration the constructor has adjusted, with the engines
it built.  `AcceptedMeansUnderstood`: a style that passed the validation is one
the rule tables know, which otherwise fall back to the packed rules silently.
`LogStageOwnsWhatItFormats` compares the two lists of log calls.
`ArgumentsHaveOneEditor`: an expression among the arguments of a call is broken
by one stage at most, unless the caller asked for both.  `SortedUnlessCyclic` compares Kahn's algorithm with all
orders of the stages, for lists that name a requirement twice, their own stage or
a missing one.

`actions`: `BatchMatchesRules` compares, in every text a run comes to, the lines
the batch fills with those that one of the rules for single nodes would fill: each
of these is among the others, but for the lines above the clauses of a select,
which no rule's pattern knows.  `SecondPassChangesNothing` is idempotence of the stage,
`QuietPassSettles` that a pass that ends before its iterations are used up leaves
nothing to do for the rules and for gofmt together, and
`CommentsStayAttached` that no empty line comes between a comment and the
statement below it.  `SameProgram` compares the tokens of an expression before and after,
and applies Go's rule of semicolons to every line break; the one exception it
names is described below.  `OnlyPunctuationOverflows` says that an operand beyond
the limit has no unused break before it on its line.

`texts`, of comments: `CodeKept` and `WordsKept` compare the output with the source lexed as
Go does, where a block comment and a raw string go on from line to line; the
formatter itself follows only raw strings.  `ClosedAlone` and `OnOwnLines` say
which files the theorems about the two are for; `TidyFiles` is an assumption TLC
evaluates, that every file of this run is one of them, and the files that
`comments_unclosed` adds are not.  `Settles` is that the second call changes
nothing.  It leaves out comments with a dash that is not the mark of their item,
or with nothing behind it: wrapped to the start of a line, such a dash is read as
an item by the next call.  A directive that is wrapped to one is left in.

`reports`: `NoNewOverflowMissed`: every overlong line the file did not have before
is reported, or the report of the file is full, of other changed lines or of
lines wider by 250 columns: a changed line gets 500 points and a shifted one 250,
and the excess of a line is added to its points, so a line that was only shifted
can push a new overflow out of a full report (the line `Huge` of the instance does).
It supposes that the files have names of their own: a record has the last name of
the repository and the path below it, and files of two repositories can share both.
`RedactedButDistinct`: a record of a redacted report has the number of a
repository and the alias of a file, no alias goes with two numbers, ASCII letters
and digits are masked, and the IDs, made anew from what is left, still differ.
Only the last needs that no two files had one name before (`NamedApart`); the
instance has repositories of one last name too, whose records get one number, as
`reports_same_name` shows.  `SnippetsBelong` is about indices that survive two
sorts and a cap; the order of the lines is not claimed of an index, which is
sorted by the names of its files.

`fmt_repo`: `FilesWhole` says what is on the disk at every moment of every
process: all files but the one being written are whole, formatted exactly as
often as their path was done, and without `-w` never.  `DamageIsTold` relates the
exit code and stderr to the disk.  The window between truncation and the last
byte is real: a kill inside it leaves a part of the file, which `FilesWhole`
admits for that one path only.  `CheckForetellsWrite` relates what a check says to
what a write would do, and has it write nothing; `WriteIsComplete` says what the
exit code 0 of a write promises and which files a failing run leaves alone.

### Disagreements between the code and its documentation

Four have a run that shows them:

* "Earlier stages consult the ownership registry and skip DSL edits that overlap
  owned spans" (`ARCHITECTURE.md:130`): the spans are not moved along with the
  text, so from the second rewrite on an owned region can be edited.
* `KeepTogetherAction` "won't be broken by other rules" (`action.go:28`): the
  nodes below an atomic node are still rewritten.
* "Only format pure comment lines: [...] or standalone block comments that begin
  with `/*` on their own line and end with `*/` on their own line"
  (`comment_formatter.go:37`): one that ends behind text on its line is taken to
  go on (`comment_formatter.go:1036`), and the code behind it is wrapped as prose.
* `-repo` is "repeatable" (`corpus_check/main.go:186`), and a test expects the
  cases of a repository under its number (`main_test.go:311`): the numbers are kept
  in a map from last names (`main.go:1342`), so of two repositories with one name
  the later number takes the cases of both.

The others are plain from the definitions:

* `InsertBlankBeforeClauseAction` "inserts a blank line before a switch/select
  clause label" (`action.go:5858`): the rule that asks it for the clauses of a
  select, `blank_before_comm_clause`, never applies, since `matchType` does not know
  their type (`pattern.go:238`).  The output does not suffer, because the batch
  separates them.
* `-redact` is to "redact repo names, paths, and source text in reports"
  (`corpus_check/main.go:179`): letters that are not ASCII are written as they are
  (`main.go:1393`).
* "FormatFile applies formatting with default config and default targets"
  (`compact_call_formatter.go:240`): the fallback options and `skipGofmt` are
  those of the last formatter that ran.
* The mutex guards the variables "so formatters can be used safely from parallel
  tests and concurrent callers" (`format_globals_lock.go:5`): the exported
  `FormatCompositeLiteralArg` reads them without it.
* The comment of `OwnershipPolicy` forbids "edits that overlap any spans owned by
  other stages" (`ownership_policy.go:9`), the code those of later stages only,
  which is what `ForbidsExactlyLater` states.
* `EditBuilder.Apply` returns "a boolean indicating whether any effective change
  was made" (`edit_builder.go:30`), but two edits that cancel out count as one.
* `fmt_repo` says "Don't ever touch golden fixtures or their inputs"
  (`tools/fmt_repo/main.go:128`), but skips only paths that start with
  `testdata/`, and a path starts with the root as it was given.
* The rules for long calls say to skip log and printf calls
  (`dsl/rules.go:1358`), yet take some that the log stage formats too, such as
  `logger.Error` with a string.  The names of calls with type arguments are read
  by one function and not by its twin.
* The doc of a comparison shows `left == right` when flat (`expr_doc.go`), which
  is rendered `left ==right` and left to `gofmt`.

And some behaviour worth knowing that no text of the repository denies:

* The batch of the blank-lines stage adds an empty line that the rule for long
  headers takes away again, until the 20 iterations are used up
  (`dsl_bundles_next.go:336`).  That the next pass changes nothing rests on their
  number being even, and a file with more such headers than iterations is not
  done in one pass.
* The comma behind the last argument of a nested call is in the group of its
  arguments, the line break before the closing parenthesis in the group around
  it (`expr_doc.go:648`).  If the first fits and the second does not, the text is
  `x`, a line break, `)`, which is no Go; the engine's parse check drops the
  rewrite and the line stays too long.
* Whether a group fits is asked without what follows it, so closing brackets may
  be beyond the limit, and a slice offers no break behind its colon.
* With a directory as the output, `overflow_report` leaves out of its index every
  file it could not write, without a word and with exit code 0
  (`overflow_report/main.go:284`).
* An explicit `StagePlanOverride` also skips the step that takes
  `AllowDSLCallArgs` back, and a resolved configuration resolved again may differ.
* Hoisting inline comments looks at lines only, and can move a line of a raw
  string (`comment_formatter.go:781`).

### Hazards without a property

`PROJECT.json` lists the hazards, at the line where each bites.  Seven have no
property: concurrent calls of `Format` on one pipeline, which nothing says is
allowed (`dsl_expr_formatter.go:88`); hoisting against raw strings; the helper
that reads the packers' variables without the mutex (`expression_formatter.go:105`)
and the options `FormatFile` inherits (`compact_call_formatter.go:343`), which are
modelled but have nothing true to be said of them; the width a line had before,
read under its new number (`corpus_check/main.go:410`), which is modelled and
contradicts nothing the repository says; the closing parenthesis behind a full line
(`expr_doc.go:648`), which `SameProgram` leaves out by name; and another program that writes a
file between llformat's read and its write (`cmd/llformat/main.go:158`).

### Bounds, and why they are enough

*Engine and edits.*  Texts have at most five bytes: enough for two nodes that
nest, two that are siblings, a byte before and one behind a span, and a rewrite
that moves another.  Three edits are needed for two that meet in one offset and a
third behind them.  Three rules are the smallest number with a priority between
two others.  `MinIters` and `IterCap` stand for the constants 20 and 5000 of the
source.

*Pipeline.*  The orbits over four texts have every shape of tail and cycle up to
three (with a limit of three passes, a longer cycle is the same as running out).
`MaxCalls` bounds the calls made on one list of stages; two are enough for any
property that relates a call to another.

*Packers.*  Two goroutines and three calls let a call be overtaken by another and
find what a third has left; the six requests are one per entry point, two for
formatters (with every option set, and with none).

*Configuration.*  The file has a node for every rule; styles and toggles are
complete where they interact, and one at a time where they do not.  Calls take
every combination of a name that is in one list, in the other or in none, of the
shapes of a receiver, and of the kinds of argument a rule breaks.  Four stages
are enough for a cycle beside a chain, a diamond and a stage required twice.

*Blank lines.*  Two statements of every kind, headers of one and of two lines,
comments at every place a batch looks for one, and empty lines nowhere, everywhere or at every
second line: enough for a rule to meet the one before it and the one inside it.
`Limit` is the 20 of the source, since its being even matters.  Two passes
are what idempotence needs.

*Layout.*  Every kind of expression occurs in every place of another that treats
it in a way of its own, in each of the eight actions, at two or three limits
chosen so that everything, a part, or nothing fits.

*Comments.*  Three lines are enough for a paragraph with a neighbour on each
side; the pool has a line for every class the code tells apart.  `ColumnLimit` 12
wraps two of the three words of a line.  Every raw string is closed: the input is Go.

*Reports.*  Two lines before and three after give every insertion and deletion
beside a changed line; caps of one and two are exceeded.  Two repositories share a
last name in one tree and a path in another.

*Processes.*  Two paths and up to three arguments include a path named twice;
`Format` moves a text twice before it settles, so a file formatted twice is told
from one formatted once.  The five files of the tree are one at the root, one in
a directory, a golden, one in a directory to exclude, and one that is no Go file.

### Fairness

`Engine`, `Ownership`, `EditBuilder`, `StageOrder`, `StageConfig`, `BlankLines`,
`LayoutActions`, `Comments`, `Reports` and `CommandLine` have none.  The engine's
rank falls in every step and it never blocks, so a call ends if it is run at all.
`Pipeline` has weak fairness of the work inside a call, and none for the caller:
a call is a loop in one goroutine without a wait, which the Go scheduler runs
until it returns.  `FormatGlobals` has weak fairness of each goroutine's work and
strong fairness of its `Lock`: a `sync.Mutex` turns to starvation mode and hands
itself to a waiter that has been overtaken for long; nobody has to begin a call,
or to panic.  `FmtRepo` and its processes have none: a run is a loop over a list
and may be killed anywhere, and nothing is claimed of when it ends.

## 4. What is proved

All theorems hold for every value of the constants.  Some take a hypothesis on
them, which is named in the theorem's ASSUME and explained here.

**`EngineProofs`** proves the invariants `TypeOK`, `IterationsBounded`,
`ParseSafe`, `BudgetKept`, `NoTextTwice`, `StableIsNormalForm`,
`FirstByOrderAndPriority`, `OwnedSurviveFirstRewrite`, the action properties
`ParseabilityKept` and `RankFalls`, and the refinement `Implements`, for all texts, rules, limits, node
lists and forbidden spans.  `TypeOK`, `IterationsBounded`, `BudgetKept` and
`ParseabilityKept` have a proof and no run.

The argument rests on an inductive invariant, `LoopInv`: a candidate under
examination has already passed the parse check, the text is the input or within
the budget, and the iteration is below the limit wherever a rewrite can still be
made.  `ParseSafe` alone is not inductive: it says nothing of a candidate that is
about to be committed.  `SeenInv` adds that the recorded texts are finite in
number and hold the current one, which `NoTextTwice` counts.  `ListInv` is the
typing of the rule list that scanning needs; `ScanInv` says that everything
before the scan's position has no acceptable rewrite, and `PositionInv` keeps
the position within the lists, which the rank needs to stay a natural number.

`NodesAreLists`: the nodes of every text form a finite sequence.  The module
assumes it of the inputs only, since the texts that rules produce are not bounded
by a set TLC could enumerate.

`NewEngine` sorts the rules stably by falling priority, and `FirstByOrderAndPriority`
rests on that.  `StableSort` gives an element the place behind all that precede
it; the places rise along a total order, so as many different places as there
are rules fill the list (`SortedByPermutation`), and `RulesAreSorted` follows,
as does `NodesAreSorted` for the four orders of the nodes.

`OwnedInv` carries `OwnedSurviveFirstRewrite`: until the first rewrite the text is
the input and the scan goes over nodes of the input, so that the spans a
candidate was tested against are spans of the text it changes.  A list of edits
leaves each forbidden span before or behind every edit (`EditsMove`); of a rule
that answers with a text, `changedSpan` is tested, and what is in front of it or
behind it is in the new text too (`RewriteMoves`).  After the second rewrite
nothing holds, which is what the run `engine_stale_ownership` shows.  The
theorem uses two assumptions of `Engine`: forbidden spans are a span set that lies
inside the input, as the registry builds it, and a rule that matches answers with
what its kind says, edits in or out of bounds or a text.

**`OwnedEditsProofs`** proves `QueriesExact` and `ForbidsExactlyLater` of
`Ownership`, and `RefusesExactlyConflicts`, `AppliesAsIfOneByOne` and
`ChangedSpanExact` of `EditBuilder`, for all texts, stages, spans and edits, of any
number.  `RegistryInv` says how far the loop over the stages has come: who has
been visited, that the merged set and the sets by stage cover exactly the bytes
declared so far, and that the stage list has the pipeline's order.  All of them
are `Apart`: sorted spans with a gap between any two, which `NewSpanSetFacts` and
`SpanSetUnionFacts` show of the merge loop.  A bisection of such a set finds the only span an edit can
meet (`SearchFacts`), which makes `Overlaps` and `Contains` exact.

The models sort edits stably; `sort.Slice` promises that for at most twelve, so for
a longer list with two insertions at one offset the theorems speak of one of the
orders the library may leave them in.
The builder's edits are valid for its text (`BuilderInv`).  If no two neighbours of
the sorted list conflict, no two edits do (`ConflictInOrder`), where an edit may
be a point and several may be at one place.  `ApplyEdits` emits the text up to an
edit and then what it puts; what is emitted up to any edit, followed by the text
with the edits behind it put in, is the same text for every edit
(`EmittedAndRest`).  At the last edit it is the single pass, at the first the
edits put in one by one.  `changedSpan` is the longest common front and the longest
common back of what remains: any patch between the texts leaves a front and a
back alike, so none is shorter (`PatchNotShorter`).

**`StageProofs`** proves, of `StageConfig`, `PlanSaysWhatRuns`, `AcceptedMeansUnderstood`,
`LogStageOwnsWhatItFormats` and `ArgumentsHaveOneEditor` for all configurations and trees.  The plan is read
off the adjusted configuration both times, so `PlanInv` only has to keep the
engines and the configuration together.  For `AcceptedMeansUnderstood` every list
of rules is shown not to have the packed rule in it, whatever the options
(`PackedIsOfCalls`), and every adjustment of `NewPipeline` to keep the explicit
plan and a style that was given (`AdjustedKeeps`).  For the log stage, each of
its two rules is unfolded to the predicate it asks of a node, and that predicate
found among those by which the stages claim calls (`FormattedIsClaimed`);
`OwnInv` then says that a stage's claims are made in the step in which it tries
its rules.

`ArgumentsHaveOneEditor` is about two tables of conditions and the recursive
reading of a tree.  `TriedInv` keeps, for every rule tried, that it is in its stage's list
and that its conditions hold of the node.  `BrokenArgIsAllowed`: of the rules
that break an expression, only the one for logical chains can be let into
arguments, either because breaking them was permitted or because the name of the
call is one to leave alone or one of the default names.  `CallRules` unfolds what
the multi-line stage asks of a call it lays out.  `NoSecondEditor` puts the two
together: a name to leave alone is in the conditions of the call rules as well;
a default name makes the call a log call, which the rule for arguments leaves alone, and
no chain, because it has one dot (`DefaultsAreLogs`).  A permission that was not
for both is taken back where the multi-line stage lays out arguments
(`AdjustedKeeps`).  What the names of calls are
(`selectorPrefix`) and which call an argument is in (`UpFrom`) is shown by unfolding
recursions that go up or down one list of nodes (`RecursionUpwards`).

The hypotheses: a configuration has the fields the theorems look at (`ConfigsAreComplete`); a
parent is before its children in the list of nodes (`TreesAreInPreorder`); no
name to be left alone is empty (`NoNameIsEmpty`: `parseCommaList`,
cmd/llformat/main.go:414, skips empty entries; a caller of the library who passes
one names the calls that have no name); no rule set is called `compact-calls`;
and, for the log stage only, the file parses: of a file with a
syntax error the parser still returns a tree, on which the engine goes on, but
`ownedSpansForCalls` claims nothing.

Of `StageOrder` it proves `SortedUnlessCyclic` for all lists of stages, of any
length.
While stages are taken, `Sorting` holds: the stages in `out` are in order, `ready`
holds exactly the other ones that could stand next, without repetition, and a
counter is the number of mentions not met (`PopMeetsMentions` is where a
requirement named twice matters).  If the queue is empty and a stage is left,
any order of all stages that respected the requirements would have a first stage
that is not in `out`; what it requires is in `out`, so it would be in the queue.

Of `BlankLines` it proves `CommentsStayAttached`, `BatchMatchesRules` and
`QuietPassSettles` for every file.  Every rewrite, the batch, a rule at one node and `gofmt`'s squeezing, is
`Careful`: a line that gets an empty line had none, is not the first, and
`StaysClear`.  That holds because the place is where going up over comments ends,
and there no comment touches the line (`StartIsBelowNoComment`, for the recursion
of `leadingCommentBlockLineStart`), or because the node is a clause behind an
empty one.  `QuietPassSettles` needs that `gofmt` wakes no rule when it takes the
second of two empty lines: conditions and places ask whether there is an empty
line above a line and not how many (`SqueezedTree`, `SqueezedStart`), and an
insertion or a removal that did nothing does nothing again.

For `BatchMatchesRules` (`BatchAndRulesAgree`) each rule of the table is unfolded to
what it asks of a node and where it puts the empty line, and the same is done for
each type of node the batch visits: what the one asks implies what the other asks, in
both directions but for the clauses of a select.  What the batch takes away it takes
where an empty line is, so no line is both.  The hypothesis
`TextsHaveLines`: every node begins on a line of the
file, and there is a number of empty lines above each.

**`PipelineProofs`** proves `SameCycleSameResult`, `SettledIsIdempotent` and
`Implements`, for all stages, registries, texts and numbers of passes, under
`BytesAreOrdered`: `bytes.Compare` is a total order.  `PassInv` says that the text
behind so many stages is the function `Through` of the text the pass began with,
and that a stage that is not ownership aware holds no registry: a pass is a function of the
text, although stages have state.  Then the states met form a chain of distinct
texts, each the pass of the one before, and a settled entry of the log closes its
chain to a cycle and has returned the least text of it.  Two closed chains with a
text in common have the same cycle, because a cycle is the smallest set that holds one of its
members and is closed under passes; so they have the same least text.  For
idempotence the second call starts from a member of the cycle and comes back to
it before its passes are used up.  The refinement is one lemma per way a call
ends: a single pass, exhaustion, and a closed cycle.

**`FormatterProofs`** proves `OwnSettings` and `Implements` for any number of
goroutines and calls, from who holds the mutex (`MutexInv`) and what the
variables are while he does (`SettingsInv`).

Of `Comments` it proves `WordsKept` (`NoWordLost`) and `CodeKept`
(`NoCodeTouched`) for all files of the kind below, all column limits, modes and
lists of words that mean something.  `WordsInv` says that what is written has the
words of the lines behind the walk (`Seen`), in their order, and that the lines
walked have those of the source, each as often.  A step adds a run of lines to
both sides, so what is to be shown is about one run: every line of a block adds
its words to a paragraph, every paragraph is emitted with its words whatever
`Place` does with the wide ones, and the stretches of overflow mode are such
blocks one behind the other.  A hoisted comment stands before the code that stood
before it, which is why hoisting compares tallies.  The hypothesis of
`NoWordLost`: on a line that begins with `*/` there is nothing else.  In the
middle of a block such a line is taken for a star and a slash, and the mark
becomes a word.

`CodeInv` says that what is written holds the code of `Seen` and that Go is
in the same state behind both, and that this is the state the walk takes itself
to be in (`StateHere`: code, or a raw string).  Without the second part it is not
inductive, since a line is code or comment by the state it starts in.  A reflowed comment
is made of lines that are `Silent`: they hold no code and leave Go where it was.
The hypothesis of `NoCodeTouched` is `OnOwnLines`: a line of code or the end of a raw
string leaves no comment open, and an open one ends with a line that is nothing
but `*/`.  This is what the doc comment of `CommentFormatter` says it
formats; for other block comments `comments_unclosed` shows that the property fails.  That
the output is such a file again is part of the invariant, for the second call.
Words that would close a comment or open a string cannot be made by
reflowing, because a word is moved and never cut.

**`CommandProofs`** proves `DamageIsTold` and `FilesWhole` for all file
systems, formatters and command lines whose paths are sequences over `Paths`
(`ArgvsNamePaths`, `DisksHoldPaths`).  `HandInv` says that what is torn is the
path in hand; `DataInv` that the text in hand is the one due for it, without
which nothing is known of the next write.

Of the reporting tools it proves `NoNewOverflowMissed`, `RedactedButDistinct` and
`SnippetsBelong` for all corpora, flags, files and matchings, whichever of several
equally ranked lines the unstable sort puts first.  `ReportsInv` is about the files seen so far:
every record is one of a seen file (`Known`), and every seen file has exactly
the records of the lines the cap kept of it, one for each (`Booked`).  A file put behind
others leaves their records alone because no two files have a name in common
(`BookOne`).  The rest is about one file: a line that was nowhere before is
matched with none, so it counts as changed (`NewLineChanged`); a changed line that was cut
off is outranked only by changed lines and by far wider ones (`OutrankedByWidth`),
and as many of these as the cap lets through were kept (`CapIsReached`).  Redaction maps
two files to one alias only if they had one path and one repository's number
(`Redacting`); if no two files had one name, that is one file, and its records
differ by their lines (`IDsDiffer`).  `ReportsAssumption` says that paths are told
apart within a repository, and that a declaration starts with its comment or after it.

**`FmtRepoProofs`** proves `CheckForetellsWrite` and `WriteIsComplete`, whatever
the processes do, for all trees, disks and configurations.  `RepoInv` splits into
what holds of the list, of a check and of a write, with the state of the child
process described beside that of the parent at every step.  `FilesAreListed`: the
tree is a list of files, no two with one path.  That the chosen files are such a
list again is `ChosenIsList`.

**`Lemmas`** derives induction over the naturals, in the forms the proofs
use, from the well-foundedness of their order.  The library's induction
theorem takes an operator as a parameter, which the installed provers cannot
instantiate; `WFMin` is stated for sets, and a set is what these lemmas take.
`StepsExist` is one: a function that goes step by step along a list exists, for
any set of steps; the recursive functions of the model (`Selected`, `Merged`, `Emitted`,
the bisection of `SearchEnd`) are each shown to exist and then described by an invariant
of their steps.

Only model-checked: of `Comments`, `Settles`; of `actions`, `SameProgram`,
`OnlyPunctuationOverflows` and `SecondPassChangesNothing`; and all liveness.
`Settles` needs that a paragraph broken into lines is read again as that
paragraph and broken at the same places, so a theorem has to follow the
classification of every word at the start of a line.
`SecondPassChangesNothing` is no theorem: a file with more headers over several
lines than the stage has iterations needs a second pass.  The instance has fewer.
`QuietPassIsLast` is what is proved of it: where the iterations are not used up
there is nothing left to do.  Liveness and ENABLED are beyond the provers, and so are modules with a RECURSIVE operator
(`LayoutDocs`, `ExprDocs`, `LayoutActions`), since documents and expressions are
recursive data.

## 5. Plan

What is left, in this order:

1. A proof of `Settles`: that the dashes `HoldsTurncoat` names are all the words
   that may not come to the start of a line.
2. String splitting and the packers of arguments and of parameters, composed
   with the settings of `FormatGlobals`.
3. Layout actions applied to their own output.
4. Concurrent calls of `Format` on one pipeline, once the repository says whether
   they are allowed.

## 6. Not modelled

* *Log and compact calls, function signatures, packing actions*: thousands of
  lines that scan and join the bytes of one call or one signature.  What they
  must keep is about those bytes, and a model of them would be the program again.
  `Engine` takes them as arbitrary rewrites of a node; `RuleTables` has the
  conditions under which they are asked; `FormatGlobals` has their settings.
* *Scanners, text and width*: pure functions on bytes.  What `Comments` needs of
  them is modelled there, on words.
* *`gen_next_goldens`*: a loop that keeps no state.
* *Presets and unused rule lists*: tables no production code reads.
* *The parser and printer of Go* are external: constants in `Engine`, a field of
  a file in `Reports`, the rule of semicolons in `LayoutActions`.
* *Byte spans of owned calls*: `StageConfig` has the calls a stage claims,
  `Ownership` takes arbitrary spans.
* *Hashes*: the engine recognises a text it has met by a 64-bit hash and the
  pipeline by a SHA-256 sum; the models compare the texts themselves, so a
  collision is left out.
* *Traces, diagnostics, caches of line tables, the wording of messages and
  reports* do not change what is written to a source file.
* *Other writers*: no one but the processes modelled writes the files of
  `CommandLine` and `FmtRepo`.
