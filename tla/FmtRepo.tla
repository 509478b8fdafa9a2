------------------------------ MODULE FmtRepo ------------------------------
(***************************************************************************)
(* tools/fmt_repo: walk a tree, pick its Go files, and run one llformat    *)
(* process per file, to rewrite it or to report that it would be.  The     *)
(* processes are those of CommandLine and share its file system.           *)
(*                                                                         *)
(* A directory tree is the list of its files in the order of their paths,  *)
(* each with the names of the directories between it and the root.         *)
(***************************************************************************)
EXTENDS Processes, Lists, SequencesExt

CONSTANTS
  Files,       \* [path, dirs, go] in the order of sort.Strings
  Configs      \* [write, root, exclude]: root is the list of its components

VARIABLES
  step,        \* "none", "walk", "next", "child" or "done"
  cfg,
  list,        \* the files to format
  k,           \* index of the file in hand
  orig,        \* its contents as fmt_repo has read them
  changed,     \* the files that would be reformatted
  exitCode,
  begin        \* observer: the file system when fmt_repo was started

child == <<disk, argv, pc, i, data, stdout, code, told, start, torn>>
own == <<step, cfg, list, k, orig, changed, exitCode, begin>>
vars == <<child, own>>

(***************************************************************************)
(* The command line given to the process of a file.                        *)
(***************************************************************************)
buildArgs(c, p) ==
  [parses |-> TRUE, info |-> "none", fixpointIters |-> 0,
   commentMode |-> "overflow", write |-> c.write, paths |-> <<p>>]

L == INSTANCE CommandLine
       WITH Argvs <- {buildArgs(c, p) : c \in Configs, p \in Paths}

defaultExcludeDirs(given) ==
  IF given # {} THEN given
  ELSE {".git", "bin", "testdata", ".next_goldens", ".gocache", ".gomodcache"}

(***************************************************************************)
(* WalkDir asks for the root as well, under its own last name.             *)
(***************************************************************************)
Walked(c, f) ==
  /\ f.go
  /\ ToSet(f.dirs) \cap defaultExcludeDirs(c.exclude) = {}
  /\ c.root = <<>> \/ Last(c.root) \notin defaultExcludeDirs(c.exclude)

(***************************************************************************)
(* The path as fmt_repo has it starts with the root it was given.          *)
(***************************************************************************)
shouldSkipPath(c, f) ==
  LET above == c.root \o f.dirs
  IN  above # <<>> /\ Head(above) = "testdata"

Chosen(c) == Selected(Files, {f \in ToSet(Files) : Walked(c, f) /\ ~shouldSkipPath(c, f)})

OwnInit ==
  /\ step = "none"
  /\ cfg \in Configs
  /\ list = <<>>
  /\ k = 1
  /\ orig = Nothing
  /\ changed = {}
  /\ exitCode = 0
  /\ begin = disk

Init == L!Init /\ OwnInit

Run ==
  /\ step \in {"none", "done"}
  /\ cfg' \in Configs
  /\ step' = "walk"
  /\ list' = <<>>
  /\ k' = 1
  /\ orig' = Nothing
  /\ changed' = {}
  /\ exitCode' = 0
  /\ begin' = disk
  /\ UNCHANGED child

Done(c) ==
  /\ exitCode' = c
  /\ step' = "done"

(***************************************************************************)
(* There is no llformat binary, or the walk fails.                         *)
(***************************************************************************)
CannotStart ==
  /\ step = "walk"
  /\ Done(2)
  /\ UNCHANGED <<child, cfg, list, k, orig, changed, begin>>

collectGoFiles ==
  /\ step = "walk"
  /\ list' = Chosen(cfg)
  /\ step' = "next"
  /\ UNCHANGED <<child, cfg, k, orig, changed, exitCode, begin>>

File == list[k].path

ReadFails ==
  /\ step = "next"
  /\ k <= Len(list)
  /\ ~cfg.write
  /\ Done(1)
  /\ UNCHANGED <<child, cfg, list, k, orig, changed, begin>>

(***************************************************************************)
(* The process is started, after the file was read to compare with.        *)
(***************************************************************************)
StartChild ==
  /\ step = "next"
  /\ k <= Len(list)
  /\ ~cfg.write => disk[File] # Missing
  /\ orig' = IF cfg.write THEN orig ELSE disk[File]
  /\ L!Start(buildArgs(cfg, File))
  /\ step' = "child"
  /\ UNCHANGED <<cfg, list, k, changed, exitCode, begin>>

Child ==
  /\ step = "child"
  /\ L!Step
  /\ UNCHANGED own

KillChild ==
  /\ step = "child"
  /\ L!Kill
  /\ UNCHANGED own

ChildFailed ==
  /\ step = "child"
  /\ pc = "exit"
  /\ code # 0
  /\ Done(1)
  /\ UNCHANGED <<child, cfg, list, k, orig, changed, begin>>

\* Mutant: the exit code of the process is not looked at.
ChildExited ==
  /\ step = "child"
  /\ pc = "exit"
  /\ changed' = IF ~cfg.write /\ stdout # orig THEN changed \cup {File} ELSE changed
  /\ k' = k + 1
  /\ step' = "next"
  /\ UNCHANGED <<child, cfg, list, orig, exitCode, begin>>

\* Mutant: the output is compared with the file read for the first path.
ChildComparedWithFirst ==
  /\ step = "child"
  /\ pc = "exit"
  /\ code = 0
  /\ changed' = IF ~cfg.write /\ stdout # disk[list[1].path] THEN changed \cup {File}
                ELSE changed
  /\ k' = k + 1
  /\ step' = "next"
  /\ UNCHANGED <<child, cfg, list, orig, exitCode, begin>>

ChildDone ==
  /\ step = "child"
  /\ pc = "exit"
  /\ code = 0
  /\ changed' = IF ~cfg.write /\ stdout # orig THEN changed \cup {File} ELSE changed
  /\ k' = k + 1
  /\ step' = "next"
  /\ UNCHANGED <<child, cfg, list, orig, exitCode, begin>>

Finish ==
  /\ step = "next"
  /\ k > Len(list)
  /\ Done(IF ~cfg.write /\ changed # {} THEN 1 ELSE 0)
  /\ UNCHANGED <<child, cfg, list, k, orig, changed, begin>>

Work ==
  \/ CannotStart
  \/ collectGoFiles
  \/ ReadFails
  \/ StartChild
  \/ Child
  \/ ChildFailed
  \/ ChildDone
  \/ Finish

Next == Run \/ Work \/ KillChild

Spec == Init /\ [][Next]_vars

-----------------------------------------------------------------------------
Listed == {Chosen(cfg)[n].path : n \in DOMAIN Chosen(cfg)}

Over(c) == step = "done" /\ exitCode = c

(***************************************************************************)
(* A check tells what a write would do: exit code 0 if it would change     *)
(* nothing, and the files listed are those it would change; and it writes  *)
(* nothing itself, however it ends and whatever its processes do.          *)
(***************************************************************************)
CheckForetellsWrite ==
  ~cfg.write /\ step # "none" =>
    /\ disk = begin
    /\ Over(0) => \A p \in Listed : Format(disk[p]) = disk[p]
    /\ step = "done" /\ k > Len(list) /\ list # <<>> =>
         changed = {p \in Listed : Format(disk[p]) # disk[p]}

(***************************************************************************)
(* A write that exits with 0 has formatted every file it should have, and  *)
(* a write that fails leaves the files behind the failing one alone; files *)
(* it should not touch are as they were.                                   *)
(***************************************************************************)
WriteIsComplete ==
  cfg.write /\ step # "none" =>
    /\ Over(0) => \A p \in Listed : disk[p] = Format(begin[p])
    /\ \A n \in DOMAIN list : n > k => disk[list[n].path] = begin[list[n].path]
    /\ \A p \in Paths \ Listed : disk[p] = begin[p]
=============================================================================
