---------------------------- MODULE CommandLine ----------------------------
(***************************************************************************)
(* One process of llformat (cmd/llformat/main.go, func run) on a file      *)
(* system that outlives it: flags, configuration, then the paths one after *)
(* the other, read, formatted and written in place or to stdout.           *)
(*                                                                         *)
(* A write opens the file with O_TRUNC and then writes its bytes, each of  *)
(* which may fail, and the process may be killed at any point.  A file's   *)
(* contents are one value; a file that is there may still be unreadable.   *)
(***************************************************************************)
EXTENDS Processes

CONSTANT
  Argvs            \* the command lines; their paths are a sequence over Paths

Modes == {"overflow", "prose", "off", ""}

vars == <<disk, argv, pc, i, data, stdout, code, told, start, torn>>

Init ==
  /\ disk \in Disks
  /\ argv \in Argvs
  /\ pc = "none"
  /\ i = 1
  /\ data = Nothing
  /\ stdout = Nothing
  /\ code = 0
  /\ told = FALSE
  /\ start = disk
  /\ torn = {}

Running == pc \notin {"none", "exit"}

Start(a) ==
  /\ ~Running
  /\ argv' = a
  /\ pc' = "flags"
  /\ i' = 1
  /\ data' = Nothing
  /\ stdout' = Nothing
  /\ code' = 0
  /\ told' = FALSE
  /\ start' = disk
  /\ torn' = {}
  /\ UNCHANGED disk

Exit(c, message) ==
  /\ code' = c
  /\ told' = message
  /\ pc' = "exit"

-----------------------------------------------------------------------------
(***************************************************************************)
(* Flags that do not parse, and a configuration that is refused.           *)
(***************************************************************************)
ConfigOK(a) == a.fixpointIters >= 0 /\ a.commentMode \in Modes

RefuseFlags ==
  /\ pc = "flags"
  /\ \/ ~argv.parses
     \/ argv.parses /\ argv.info # "version" /\ ~ConfigOK(argv)
  /\ Exit(2, TRUE)
  /\ UNCHANGED <<disk, argv, i, data, stdout, start, torn>>

(***************************************************************************)
(* The version and the two print flags: only the plan notices that its     *)
(* output cannot be written.                                               *)
(***************************************************************************)
PrintInfo ==
  /\ pc = "flags"
  /\ argv.parses
  /\ argv.info # "none"
  /\ argv.info = "version" \/ ConfigOK(argv)
  /\ \/ /\ stdout' = argv.info
        /\ Exit(0, FALSE)
     \/ /\ stdout' = stdout
        /\ Exit(IF argv.info = "plan" THEN 1 ELSE 0, FALSE)
  /\ UNCHANGED <<disk, argv, i, data, start, torn>>

UsageOK(a) == IF a.write THEN a.paths # <<>> ELSE Len(a.paths) = 1

RefuseUsage ==
  /\ pc = "flags"
  /\ argv.parses /\ argv.info = "none" /\ ConfigOK(argv)
  /\ ~UsageOK(argv)
  /\ Exit(2, TRUE)
  /\ UNCHANGED <<disk, argv, i, data, stdout, start, torn>>

AcceptFlags ==
  /\ pc = "flags"
  /\ argv.parses /\ argv.info = "none" /\ ConfigOK(argv)
  /\ UsageOK(argv)
  /\ pc' = "files"
  /\ UNCHANGED <<disk, argv, i, data, stdout, code, told, start, torn>>

-----------------------------------------------------------------------------
ReadFails ==
  /\ pc = "files"
  /\ i <= Len(argv.paths)
  /\ Exit(1, TRUE)
  /\ UNCHANGED <<disk, argv, i, data, stdout, start, torn>>

ReadFile ==
  /\ pc = "files"
  /\ i <= Len(argv.paths)
  /\ disk[Path] # Missing
  /\ data' = disk[Path]
  /\ pc' = "format"
  /\ UNCHANGED <<disk, argv, i, stdout, code, told, start, torn>>

FormatData ==
  /\ pc = "format"
  /\ data' = Format(data)
  /\ pc' = IF argv.write THEN "open" ELSE "stdout"
  /\ UNCHANGED <<disk, argv, i, stdout, code, told, start, torn>>

OpenFails ==
  /\ pc = "open"
  /\ Exit(1, TRUE)
  /\ UNCHANGED <<disk, argv, i, data, stdout, start, torn>>

Truncate ==
  /\ pc = "open"
  /\ disk' = [disk EXCEPT ![Path] = Empty]
  /\ pc' = "bytes"
  /\ UNCHANGED <<argv, i, data, stdout, code, told, start, torn>>

\* Mutant: a write that stops short is taken for a full one.
WriteBytesShort ==
  /\ pc = "bytes"
  /\ \E part \in PartsOf(data) \cup {data} : disk' = [disk EXCEPT ![Path] = part]
  /\ i' = i + 1
  /\ pc' = "files"
  /\ UNCHANGED <<argv, data, stdout, code, told, start, torn>>

WriteBytes ==
  /\ pc = "bytes"
  /\ disk' = [disk EXCEPT ![Path] = data]
  /\ i' = i + 1
  /\ pc' = "files"
  /\ UNCHANGED <<argv, data, stdout, code, told, start, torn>>

\* Mutant: an error of the write is not looked at.
WriteFailsUnseen ==
  /\ pc = "bytes"
  /\ \E part \in PartsOf(data) : disk' = [disk EXCEPT ![Path] = part]
  /\ torn' = torn \cup {Path}
  /\ i' = i + 1
  /\ pc' = "files"
  /\ UNCHANGED <<argv, data, stdout, code, told, start>>

WriteFails ==
  /\ pc = "bytes"
  /\ \E part \in PartsOf(data) : disk' = [disk EXCEPT ![Path] = part]
  /\ torn' = torn \cup {Path}
  /\ Exit(1, TRUE)
  /\ UNCHANGED <<argv, i, data, stdout, start>>

(***************************************************************************)
(* Without -w there is one path, and the process exits behind it; a failed *)
(* write to stdout shows in the exit code only.                            *)
(***************************************************************************)
WriteStdout ==
  /\ pc = "stdout"
  /\ stdout' = data
  /\ Exit(0, told)
  /\ UNCHANGED <<disk, argv, i, data, start, torn>>

StdoutFails ==
  /\ pc = "stdout"
  /\ \E part \in PartsOf(data) : stdout' = part
  /\ Exit(1, told)
  /\ UNCHANGED <<disk, argv, i, data, start, torn>>

AllPathsDone ==
  /\ pc = "files"
  /\ i > Len(argv.paths)
  /\ Exit(0, told)
  /\ UNCHANGED <<disk, argv, i, data, stdout, start, torn>>

(***************************************************************************)
(* The process is killed, maybe inside a write.                            *)
(***************************************************************************)
Kill ==
  /\ Running
  /\ Exit(-1, told)
  /\ IF pc = "bytes"
       THEN /\ torn' = torn \cup {Path}
            /\ \E part \in PartsOf(data) \cup {Empty} :
                 disk' = [disk EXCEPT ![Path] = part]
       ELSE UNCHANGED <<disk, torn>>
  /\ UNCHANGED <<argv, i, data, stdout, start>>

Step ==
  \/ RefuseFlags
  \/ PrintInfo
  \/ RefuseUsage
  \/ AcceptFlags
  \/ ReadFails
  \/ ReadFile
  \/ FormatData
  \/ OpenFails
  \/ Truncate
  \/ WriteBytes
  \/ WriteFails
  \/ WriteStdout
  \/ StdoutFails
  \/ AllPathsDone

Next == (\E a \in Argvs : Start(a)) \/ Step \/ Kill

Spec == Init /\ [][Next]_vars
=============================================================================
