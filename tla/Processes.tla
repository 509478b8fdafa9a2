----------------------------- MODULE Processes -----------------------------
(***************************************************************************)
(* A process of llformat as the file system and whoever started it see it, *)
(* and what it owes the files it is given, whichever program starts it: a  *)
(* shell (CommandLine) or fmt_repo (FmtRepo).                              *)
(***************************************************************************)
EXTENDS Integers, Sequences

CONSTANTS
  Paths,
  Disks,           \* the file systems a process may start on, functions on Paths
  Format(_),       \* Pipeline.Format under the flags given
  PartsOf(_),      \* the contents a write of a text may be cut off at
  Empty,           \* the contents of a file just truncated
  Missing,         \* no such file
  Nothing          \* nothing written to stdout

VARIABLES
  disk,      \* path to contents
  argv,      \* the command line of the process
  pc,        \* "none", "flags", "files", "format", "open", "bytes", "stdout", "exit"
  i,         \* index of the path in hand
  data,      \* what was read, then what it is formatted to
  stdout,    \* what the process has written to stdout
  code,      \* the exit code; -1 is a process that was killed
  told,      \* something was written to stderr
  start,     \* observer: the file system when the process was started
  torn       \* observer: the paths whose write was broken off

Path == argv.paths[i]

-----------------------------------------------------------------------------
(***************************************************************************)
(* How often p is among the first n paths, and a text formatted n times: a *)
(* path that is named twice is formatted twice.                            *)
(***************************************************************************)
Times(paths, p, n) ==
  LET t[k \in 0..n] == IF k = 0 THEN 0 ELSE t[k - 1] + (IF paths[k] = p THEN 1 ELSE 0)
  IN  t[n]

Formatted(t, n) ==
  LET f[k \in 0..n] == IF k = 0 THEN t ELSE Format(f[k - 1])
  IN  f[n]

(***************************************************************************)
(* A source file is never lost but by a write broken off in its middle:    *)
(* every other file is formatted if it was written, and otherwise it is as *)
(* the process found it, whichever step failed or was the last.            *)
(***************************************************************************)
FilesWhole ==
  pc # "none" =>
    \A p \in Paths :
      \/ p \in torn
      \/ pc = "bytes" /\ p = Path
      \/ disk[p] = Formatted(start[p], Times(argv.paths, p, i - 1))

(***************************************************************************)
(* A process that damages a file says so: at most one file is torn, and    *)
(* the exit is not a success, with a message unless it was killed.         *)
(***************************************************************************)
DamageIsTold ==
  torn # {} =>
    /\ \E p \in Paths : torn = {p}
    /\ pc = "exit"
    /\ code = -1 \/ (code = 1 /\ told)
=============================================================================
