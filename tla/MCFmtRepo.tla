----------------------------- MODULE MCFmtRepo -----------------------------
(***************************************************************************)
(* llformat started from a shell, and by fmt_repo.                         *)
(*                                                                         *)
(* fmt_repo has a tree of five files, one of them a golden and one no Go   *)
(* file; from the shell, command lines of any kind name up to three times  *)
(* two of them.  Texts are numbers: 1 is formatted to 2, which is settled, *)
(* and 4 to 5 and that to 6, so that a file formatted twice differs from   *)
(* one formatted once; 0 is an empty file, 9 a part of a text.             *)
(***************************************************************************)
EXTENDS FmtRepo

MCFormat(t) == IF t \in {1, 4, 5} THEN t + 1 ELSE t

MCPartsOf(t) == IF t \in 1..6 THEN {0, 9} ELSE {0}

Entry(p, dirs, go) == [path |-> p, dirs |-> dirs, go |-> go]

MCFiles ==
  <<Entry("a", <<"dsl">>, TRUE),
    Entry("doc", <<"dsl">>, FALSE),
    Entry("b", <<>>, TRUE),
    Entry("golden", <<"testdata", "chains">>, TRUE),
    Entry("v", <<"vendor">>, TRUE)>>

MCPaths == {"a", "doc", "b", "golden", "v"}

MCDisks ==
  {[p \in MCPaths |-> CASE p = "a" -> x [] p = "b" -> y [] p = "v" -> z [] OTHER -> 1] :
     x, y, z \in {1, 2}}

MCConfigs ==
  {[write |-> w, root |-> r, exclude |-> x] :
     w \in BOOLEAN, r \in {<<>>, <<"repo">>, <<"bin">>}, x \in {{}, {"vendor"}}}

-----------------------------------------------------------------------------
ShellPaths == {"a", "b"}

ShellDisks ==
  {[p \in MCPaths |-> CASE p = "a" -> x [] p = "b" -> y [] OTHER -> 1] :
     x, y \in {4, 5, Missing}}

Line(parses, info, iters, comments, write, paths) ==
  [parses |-> parses, info |-> info, fixpointIters |-> iters,
   commentMode |-> comments, write |-> write, paths |-> paths]

ShellArgvs ==
  {Line(TRUE, "none", 0, "overflow", TRUE, s) : s \in UNION {[1..n -> ShellPaths] : n \in 0..3}}
    \cup {Line(TRUE, "none", 0, "", FALSE, s) : s \in UNION {[1..n -> ShellPaths] : n \in 0..2}}
    \cup {Line(p, f, n, c, TRUE, <<q>>) :
            p \in BOOLEAN, f \in {"none", "version", "plan", "logcalls"},
            n \in {-1, 2}, c \in {"prose", "loud"}, q \in {"a"}}

C == INSTANCE CommandLine WITH Argvs <- ShellArgvs, Disks <- ShellDisks

VARIABLE shell       \* the processes are started from a shell, by hand

ToolsInit ==
  /\ shell \in BOOLEAN
  /\ IF shell THEN C!Init ELSE L!Init
  /\ OwnInit
  /\ shell => cfg = CHOOSE c \in Configs : TRUE

ByHand == shell /\ C!Next /\ UNCHANGED <<shell, step, cfg, list, k, orig, changed, exitCode, begin>>

ByRepo == ~shell /\ Next /\ UNCHANGED shell

ToolsSpec == ToolsInit /\ [][ByHand \/ ByRepo]_<<shell, vars>>
=============================================================================
