--------------------------- MODULE FmtRepoProofs ---------------------------
(***************************************************************************)
(* What a run of fmt_repo tells and leaves, for all file systems, trees,   *)
(* flags and formatters, and whatever fails or is killed on the way.       *)
(***************************************************************************)
EXTENDS FmtRepo, Lemmas

(***************************************************************************)
(* What the proofs ask of the constants: the tree is a list of files, no   *)
(* two with the same path, and a disk holds a file for every path.         *)
(***************************************************************************)
FilesAreListed ==
  /\ \E Entry : Files \in Seq(Entry) /\ \A f \in Entry : f.path \in Paths
  /\ \A m, n \in DOMAIN Files : Files[m].path = Files[n].path => m = n

IsDisk(d) == d = [p \in Paths |-> d[p]]

DisksHoldPaths == \A d \in Disks : IsDisk(d)

-----------------------------------------------------------------------------
(***************************************************************************)
(* The files chosen from the tree are such a list again.                   *)
(***************************************************************************)
IsChoice(l) ==
  /\ Len(l) \in Nat
  /\ DOMAIN l = 1..Len(l)
  /\ \A n \in 1..Len(l) : l[n].path \in Paths
  /\ \A m, n \in 1..Len(l) : l[m].path = l[n].path => m = n

ChoicesAreLists == \A c \in Configs : IsChoice(Chosen(c))

LEMMA ChosenIsList ==
  ASSUME FilesAreListed
  PROVE  ChoicesAreLists
<1> SUFFICES ASSUME NEW c \in Configs PROVE IsChoice(Chosen(c))
  BY DEF ChoicesAreLists
<1>1. PICK Entry : Files \in Seq(Entry) /\ \A f \in Entry : f.path \in Paths
  BY DEF FilesAreListed
<1>2. PICK S : S = {f \in ToSet(Files) : Walked(c, f) /\ ~shouldSkipPath(c, f)}
  OBVIOUS
<1>3. IsInjective(Files)
  BY DEF IsInjective, FilesAreListed
<1>4. PICK l : l = Chosen(c)
  OBVIOUS
<1>5. l \in Seq(Entry) /\ IsInjective(l) /\ ToSet(l) = ToSet(Files) \cap S
  <2>1. l = Selected(Files, S)
    BY <1>2, <1>4 DEF Chosen
  <2> QED
    BY <1>1, <1>3, <2>1, SelectedFacts
<1>6. Len(l) \in Nat /\ DOMAIN l = 1..Len(l) /\ \A n \in 1..Len(l) : l[n] \in Entry
  BY <1>5
<1>7. ASSUME NEW m \in 1..Len(l), NEW n \in 1..Len(l), l[m].path = l[n].path
      PROVE  m = n
  <2>1. l[m] \in ToSet(Files) /\ l[n] \in ToSet(Files)
    BY <1>5, <1>6 DEF ToSet
  <2>2. l[m] = l[n]
    BY <1>7, <2>1 DEF ToSet, FilesAreListed
  <2> QED
    BY <1>5, <1>6, <2>2 DEF IsInjective
<1> QED
  BY <1>1, <1>4, <1>6, <1>7 DEF IsChoice

-----------------------------------------------------------------------------
(***************************************************************************)
(* Where a run is in its list, and the command line of the process it      *)
(* waits for.                                                              *)
(***************************************************************************)
ListInv ==
  /\ cfg \in Configs
  /\ IsDisk(disk)
  /\ step \in {"none", "walk", "next", "child", "done"}
  /\ step = "walk" => list = <<>> /\ k = 1
  /\ step \in {"next", "child"} => list = Chosen(cfg) /\ k \in 1..(Len(list) + 1)
  /\ step = "child" => k <= Len(list) /\ argv = buildArgs(cfg, File)
  /\ step = "done" => \/ list = <<>> /\ exitCode # 0
                      \/ list = Chosen(cfg) /\ k \in 1..(Len(list) + 1)

(***************************************************************************)
(* A process that writes to stdout, for the file f.                        *)
(***************************************************************************)
StdoutChild(f) ==
  /\ pc \in {"flags", "files", "format", "stdout", "exit"}
  /\ i = 1
  /\ pc = "format" => data = disk[f]
  /\ pc = "stdout" => data = Format(disk[f])
  /\ pc = "exit" /\ code = 0 => stdout = Format(disk[f])

Differing(n) == {list[m].path : m \in {m \in 1..n : Format(disk[list[m].path]) # disk[list[m].path]}}

CheckInv ==
  ~cfg.write /\ step # "none" =>
    /\ disk = begin
    /\ step = "walk" => changed = {}
    /\ step \in {"next", "child"} => changed = Differing(k - 1)
    /\ step = "child" => orig = disk[File] /\ StdoutChild(File)
    /\ step = "done" /\ exitCode = 0 => k > Len(list) /\ changed = {}
    /\ step = "done" /\ list # <<>> /\ k > Len(list) => changed = Differing(Len(list))

(***************************************************************************)
(* A process that rewrites the file f.                                     *)
(***************************************************************************)
WritingChild(f) ==
  /\ pc \in {"flags", "files", "format", "open", "bytes", "exit"}
  /\ i \in {1, 2}
  /\ pc \in {"flags", "format", "open", "bytes"} => i = 1
  /\ pc \in {"flags", "format", "open"} => disk[f] = begin[f]
  /\ pc = "files" /\ i = 1 => disk[f] = begin[f]
  /\ pc = "format" => data = begin[f]
  /\ pc \in {"open", "bytes"} => data = Format(begin[f])
  /\ pc = "files" /\ i = 2 => disk[f] = Format(begin[f])
  /\ pc = "exit" /\ code = 0 => disk[f] = Format(begin[f])

Picked == {list[n].path : n \in 1..Len(list)}

WriteInv ==
  cfg.write /\ step # "none" =>
    /\ \A p \in Paths \ Picked : disk[p] = begin[p]
    /\ \A n \in 1..Len(list) : n > k => disk[list[n].path] = begin[list[n].path]
    /\ step \in {"next", "child"} =>
         \A n \in 1..Len(list) : n < k => disk[list[n].path] = Format(begin[list[n].path])
    /\ step = "next" /\ k <= Len(list) => disk[File] = begin[File]
    /\ step = "child" => WritingChild(File)
    /\ step = "done" /\ exitCode = 0 =>
         \A n \in 1..Len(list) : disk[list[n].path] = Format(begin[list[n].path])

RepoInv == ListInv /\ CheckInv /\ WriteInv

LEMMA ListIsChoice ==
  ASSUME ChoicesAreLists, ListInv, step \in {"next", "child"}
  PROVE  IsChoice(list)
  BY DEF ListInv, ChoicesAreLists

LEMMA InitRepo ==
  ASSUME DisksHoldPaths, Init
  PROVE  RepoInv
  BY DEF DisksHoldPaths, Init, L!Init, OwnInit, RepoInv, ListInv, CheckInv, WriteInv

-----------------------------------------------------------------------------
(***************************************************************************)
(* The steps of fmt_repo itself.                                           *)
(***************************************************************************)
LEMMA RunKeeps ==
  ASSUME RepoInv, Run
  PROVE  RepoInv'
<1>1. ListInv'
  BY DEF RepoInv, ListInv, Run, child
<1>2. disk' = begin' /\ step' = "walk" /\ changed' = {} /\ list' = <<>>
  BY DEF Run, child
<1>3. CheckInv'
  BY <1>2 DEF CheckInv
<1>4. WriteInv'
  BY <1>2 DEF WriteInv, Picked
<1> QED
  BY <1>1, <1>3, <1>4 DEF RepoInv

LEMMA CannotStartKeeps ==
  ASSUME RepoInv, CannotStart
  PROVE  RepoInv'
<1>1. ListInv'
  BY DEF RepoInv, ListInv, CannotStart, child, Done
<1>2. CheckInv'
  BY DEF RepoInv, ListInv, CheckInv, CannotStart, child, Done
<1>3. WriteInv'
  BY DEF RepoInv, ListInv, WriteInv, Picked, CannotStart, child, Done
<1> QED
  BY <1>1, <1>2, <1>3 DEF RepoInv

LEMMA collectGoFilesKeeps ==
  ASSUME ChoicesAreLists, RepoInv, collectGoFiles
  PROVE  RepoInv'
<1>1. list' = Chosen(cfg) /\ k' = 1 /\ step' = "next" /\ cfg' = cfg /\ cfg \in Configs
  BY DEF RepoInv, ListInv, collectGoFiles
<1>2. IsChoice(list')
  BY <1>1 DEF ChoicesAreLists
<1>3. disk' = disk /\ begin' = begin /\ changed' = changed /\ step = "walk" /\ list = <<>>
  BY DEF RepoInv, ListInv, collectGoFiles, child
<1>4. ListInv'
  BY <1>1, <1>2, <1>3 DEF RepoInv, ListInv, IsChoice
<1>5. CheckInv'
  BY <1>1, <1>3 DEF RepoInv, CheckInv, Differing
<1>6. cfg.write => \A p \in Paths : disk[p] = begin[p]
  BY <1>3 DEF RepoInv, WriteInv, Picked
<1>7. WriteInv'
  BY <1>1, <1>2, <1>3, <1>6 DEF WriteInv, IsChoice, File
<1> QED
  BY <1>4, <1>5, <1>7 DEF RepoInv

LEMMA EndKeeps ==
  ASSUME ChoicesAreLists, RepoInv, step \in {"next", "child"}, k <= Len(list),
         step' = "done", exitCode' = 1,
         UNCHANGED <<child, cfg, list, k, orig, changed, begin>>
  PROVE  RepoInv'
<1>1. IsChoice(list) /\ k \in 1..Len(list)
  BY ListIsChoice DEF RepoInv, ListInv, IsChoice
<1>2. ListInv'
  BY <1>1 DEF RepoInv, ListInv, child, IsChoice
<1>3. CheckInv'
  BY <1>1 DEF RepoInv, CheckInv, child, IsChoice
<1>4. WriteInv'
  BY <1>1 DEF RepoInv, WriteInv, child, Picked, IsChoice
<1> QED
  BY <1>2, <1>3, <1>4 DEF RepoInv

LEMMA FinishKeeps ==
  ASSUME ChoicesAreLists, RepoInv, Finish
  PROVE  RepoInv'
<1>1. IsChoice(list) /\ k = Len(list) + 1 /\ k - 1 = Len(list)
  BY ListIsChoice DEF RepoInv, ListInv, IsChoice, Finish
<1>2. /\ step' = "done" /\ UNCHANGED <<disk, cfg, list, k, changed, begin>>
      /\ exitCode' = 0 => cfg.write \/ changed = {}
  BY DEF Finish, Done, child
<1>3. ListInv'
  BY <1>1, <1>2 DEF RepoInv, ListInv, Finish, IsChoice
<1>4. CheckInv'
  BY <1>1, <1>2 DEF RepoInv, CheckInv, Finish, Differing, IsChoice
<1>5. WriteInv'
  BY <1>1, <1>2 DEF RepoInv, WriteInv, Finish, Picked, IsChoice
<1> QED
  BY <1>3, <1>4, <1>5 DEF RepoInv

LEMMA StartChildKeeps ==
  ASSUME ChoicesAreLists, RepoInv, StartChild
  PROVE  RepoInv'
<1>1. IsChoice(list) /\ k \in 1..Len(list)
  BY ListIsChoice DEF RepoInv, ListInv, IsChoice, StartChild
<1>2. /\ step = "next" /\ step' = "child"
      /\ UNCHANGED <<disk, cfg, list, k, changed, begin>>
      /\ ~cfg.write => orig' = disk[File]
      /\ argv' = buildArgs(cfg, File) /\ pc' = "flags" /\ i' = 1 /\ code' = 0
  BY DEF StartChild, L!Start
<1>3. File' = File
  BY <1>2 DEF File
<1>4. buildArgs(cfg, File)' = buildArgs(cfg, File)
  BY <1>2, <1>3 DEF buildArgs
<1>5. ListInv'
  BY <1>1, <1>2, <1>4 DEF RepoInv, ListInv, IsChoice
<1>6. CheckInv'
  BY <1>1, <1>2, <1>3 DEF RepoInv, CheckInv, Differing, StdoutChild
<1>7. WriteInv'
  BY <1>1, <1>2, <1>3 DEF RepoInv, WriteInv, Picked, WritingChild
<1> QED
  BY <1>5, <1>6, <1>7 DEF RepoInv

LEMMA ChildDoneKeeps ==
  ASSUME ChoicesAreLists, RepoInv, ChildDone
  PROVE  RepoInv'
<1>1. IsChoice(list) /\ k \in 1..Len(list)
  BY ListIsChoice DEF RepoInv, ListInv, IsChoice, ChildDone
<1>2. /\ step = "child" /\ step' = "next" /\ pc = "exit" /\ code = 0
      /\ UNCHANGED <<disk, cfg, list, begin>>
      /\ k' = k + 1 /\ k' - 1 = k
  BY <1>1 DEF ChildDone, child, IsChoice
<1>3. ListInv'
  BY <1>1, <1>2 DEF RepoInv, ListInv, IsChoice
<1>4. CheckInv'
  <2> SUFFICES ASSUME ~cfg.write PROVE CheckInv'
    BY <1>2 DEF CheckInv
  <2>1. /\ changed = Differing(k - 1) /\ stdout = Format(disk[File]) /\ orig = disk[File]
        /\ disk = begin
    BY <1>2 DEF RepoInv, CheckInv, StdoutChild
  <2>2. changed' = IF Format(disk[File]) # disk[File] THEN changed \cup {File} ELSE changed
    BY <2>1 DEF ChildDone
  <2>3. 1..k = 1..(k - 1) \cup {k}
    BY <1>1
  <2>4. /\ Format(disk[File]) # disk[File] => Differing(k) = Differing(k - 1) \cup {File}
        /\ Format(disk[File]) = disk[File] => Differing(k) = Differing(k - 1)
    BY <2>3 DEF Differing, File
  <2>5. changed' = Differing(k)
    BY <2>1, <2>2, <2>4
  <2>6. Differing(k - 1)' = Differing(k)
    BY <1>2 DEF Differing
  <2> QED
    BY <1>2, <2>1, <2>5, <2>6 DEF CheckInv, Differing
<1>5. WriteInv'
  <2> SUFFICES ASSUME cfg.write PROVE WriteInv'
    BY <1>2 DEF WriteInv
  <2>1. /\ \A p \in Paths \ Picked : disk[p] = begin[p]
        /\ \A n \in 1..Len(list) : n > k => disk[list[n].path] = begin[list[n].path]
        /\ \A n \in 1..Len(list) : n < k => disk[list[n].path] = Format(begin[list[n].path])
        /\ disk[list[k].path] = Format(begin[list[k].path])
    BY <1>2 DEF RepoInv, WriteInv, WritingChild, File
  <2>2. \A n \in 1..Len(list) : n < k + 1 => disk[list[n].path] = Format(begin[list[n].path])
    BY <1>1, <2>1
  <2>3. k + 1 <= Len(list) => disk[list[k + 1].path] = begin[list[k + 1].path]
    BY <1>1, <2>1 DEF IsChoice
  <2>4. \A n \in 1..Len(list) : n > k + 1 => disk[list[n].path] = begin[list[n].path]
    BY <1>1, <2>1
  <2> QED
    BY <1>2, <2>1, <2>2, <2>3, <2>4 DEF WriteInv, Picked, File
<1> QED
  BY <1>3, <1>4, <1>5 DEF RepoInv

-----------------------------------------------------------------------------
(***************************************************************************)
(* The steps of the process, and its end by a signal.                      *)
(***************************************************************************)
ChildState ==
  /\ step = "child" /\ step' = "child"
  /\ UNCHANGED own
  /\ IsChoice(list)
  /\ k \in 1..Len(list)
  /\ File \in Paths
  /\ argv = buildArgs(cfg, File)
  /\ IsDisk(disk)

LEMMA InChild ==
  ASSUME ChoicesAreLists, RepoInv, Child \/ KillChild
  PROVE  ChildState
<1>1. step = "child" /\ UNCHANGED own
  BY DEF Child, KillChild
<1>2. IsChoice(list) /\ k \in 1..Len(list)
  BY <1>1, ListIsChoice DEF RepoInv, ListInv, IsChoice
<1>3. File \in Paths
  BY <1>2 DEF IsChoice, File
<1> QED
  BY <1>1, <1>2, <1>3 DEF ChildState, RepoInv, ListInv, own

LEMMA ChildOfCheck ==
  ASSUME ChildState, ~cfg.write, StdoutChild(File), L!Step \/ L!Kill
  PROVE  /\ UNCHANGED <<disk, argv>>
         /\ pc' \in {"flags", "files", "format", "stdout", "exit"}
         /\ i' = 1
         /\ pc' = "format" => data' = disk[File]
         /\ pc' = "stdout" => data' = Format(disk[File])
         /\ pc' = "exit" /\ code' = 0 => stdout' = Format(disk[File])
<1>1. /\ argv.write = FALSE /\ argv.paths = <<File>> /\ argv.info = "none"
      /\ Len(argv.paths) = 1 /\ argv.paths[1] = File
  BY DEF ChildState, buildArgs
<1> USE <1>1 DEF StdoutChild, L!Exit
<1>8. CASE L!RefuseFlags \/ L!PrintInfo \/ L!RefuseUsage \/ L!AcceptFlags
  BY <1>8 DEF L!RefuseFlags, L!PrintInfo, L!RefuseUsage, L!AcceptFlags
<1>2. CASE L!ReadFails \/ L!ReadFile
  BY <1>2 DEF L!ReadFails, L!ReadFile, L!Path
<1>3. CASE L!FormatData
  BY <1>3 DEF L!FormatData
<1>4. CASE L!OpenFails \/ L!Truncate \/ L!WriteBytes \/ L!WriteFails
  BY <1>4 DEF L!OpenFails, L!Truncate, L!WriteBytes, L!WriteFails
<1>5. CASE L!WriteStdout \/ L!StdoutFails
  BY <1>5 DEF L!WriteStdout, L!StdoutFails
<1>6. CASE L!AllPathsDone
  BY <1>6 DEF L!AllPathsDone
<1>7. CASE L!Kill
  BY <1>7 DEF L!Kill, L!Running
<1> QED
  BY <1>8, <1>2, <1>3, <1>4, <1>5, <1>6, <1>7 DEF L!Step

(***************************************************************************)
(* Writing goes to the file in hand, and to no other.                      *)
(***************************************************************************)
Elsewhere(f) == IsDisk(disk)' /\ \A p \in Paths \ {f} : disk'[p] = disk[p]

LEMMA ChildOfWrite ==
  ASSUME ChildState, cfg.write, WritingChild(File), L!Step \/ L!Kill
  PROVE  /\ argv' = argv
         /\ Elsewhere(File)
         /\ pc' \in {"flags", "files", "format", "open", "bytes", "exit"}
         /\ i' \in {1, 2}
         /\ pc' \in {"flags", "format", "open", "bytes"} => i' = 1
         /\ pc' \in {"flags", "format", "open"} => disk'[File] = begin[File]
         /\ pc' = "files" /\ i' = 1 => disk'[File] = begin[File]
         /\ pc' = "format" => data' = begin[File]
         /\ pc' \in {"open", "bytes"} => data' = Format(begin[File])
         /\ pc' = "files" /\ i' = 2 => disk'[File] = Format(begin[File])
         /\ pc' = "exit" /\ code' = 0 => disk'[File] = Format(begin[File])
<1>1. /\ argv.write = TRUE /\ argv.paths = <<File>> /\ argv.info = "none"
      /\ Len(argv.paths) = 1 /\ argv.paths[1] = File
  BY DEF ChildState, buildArgs
<1>2. /\ File \in Paths /\ DOMAIN disk = Paths
      /\ \A t : /\ [disk EXCEPT ![File] = t][File] = t
                /\ \A p \in Paths \ {File} : [disk EXCEPT ![File] = t][p] = disk[p]
                /\ IsDisk([disk EXCEPT ![File] = t])
  BY DEF ChildState, IsDisk
<1>3. disk' = disk => Elsewhere(File)
  BY DEF ChildState, Elsewhere, IsDisk
<1>4. \A t : disk' = [disk EXCEPT ![File] = t] => disk'[File] = t /\ Elsewhere(File)
  BY <1>2 DEF Elsewhere, IsDisk
<1>5. i = 1 => L!Path = File
  BY <1>1 DEF L!Path
<1> USE <1>1 DEF WritingChild, L!Exit
<1>6. CASE L!RefuseFlags \/ L!PrintInfo \/ L!RefuseUsage \/ L!AcceptFlags
  BY <1>3, <1>6 DEF L!RefuseFlags, L!PrintInfo, L!RefuseUsage, L!AcceptFlags
<1>7. CASE L!ReadFails
  BY <1>3, <1>7 DEF L!ReadFails
<1>8. CASE L!ReadFile
  BY <1>3, <1>5, <1>8 DEF L!ReadFile
<1>9. CASE L!FormatData
  BY <1>3, <1>9 DEF L!FormatData
<1>10. CASE L!OpenFails
  BY <1>3, <1>10 DEF L!OpenFails
<1>11. CASE L!Truncate
  BY <1>4, <1>5, <1>11 DEF L!Truncate
<1>12. CASE L!WriteBytes
  <2>1. disk' = [disk EXCEPT ![File] = data] /\ data = Format(begin[File])
    BY <1>5, <1>12 DEF L!WriteBytes
  <2>2. disk'[File] = data /\ Elsewhere(File)
    BY <1>4, <2>1
  <2> QED
    BY <1>12, <2>1, <2>2 DEF L!WriteBytes
<1>13. CASE L!WriteFails
  <2>1. PICK part : disk' = [disk EXCEPT ![File] = part]
    BY <1>5, <1>13 DEF L!WriteFails
  <2>2. Elsewhere(File)
    BY <1>4, <2>1
  <2> QED
    BY <1>13, <2>2 DEF L!WriteFails
<1>14. CASE L!WriteStdout \/ L!StdoutFails
  BY <1>14 DEF L!WriteStdout, L!StdoutFails
<1>15. CASE L!AllPathsDone
  BY <1>3, <1>15 DEF L!AllPathsDone
<1>16. CASE L!Kill /\ pc = "bytes"
  BY <1>4, <1>5, <1>16 DEF L!Kill
<1>17. CASE L!Kill /\ pc # "bytes"
  BY <1>3, <1>17 DEF L!Kill, L!Running
<1> QED
  BY <1>6, <1>7, <1>8, <1>9, <1>10, <1>11, <1>12, <1>13, <1>14, <1>15, <1>16, <1>17
     DEF L!Step

LEMMA ChildKeeps ==
  ASSUME ChoicesAreLists, RepoInv, Child \/ KillChild
  PROVE  RepoInv'
<1>1. ChildState /\ (L!Step \/ L!Kill)
  BY InChild DEF Child, KillChild
<1>2. UNCHANGED <<cfg, list, k, orig, changed, exitCode, begin>> /\ File' = File
  BY <1>1 DEF ChildState, own, File
<1>3. CASE ~cfg.write
  <2>1. StdoutChild(File) /\ disk = begin /\ orig = disk[File] /\ changed = Differing(k - 1)
    BY <1>1, <1>3 DEF RepoInv, CheckInv, ChildState
  <2>2. /\ UNCHANGED <<disk, argv>>
        /\ pc' \in {"flags", "files", "format", "stdout", "exit"}
        /\ i' = 1
        /\ pc' = "format" => data' = disk[File]
        /\ pc' = "stdout" => data' = Format(disk[File])
        /\ pc' = "exit" /\ code' = 0 => stdout' = Format(disk[File])
    BY <1>1, <1>3, <2>1, ChildOfCheck
  <2>3. ListInv'
    BY <1>1, <1>2, <2>2 DEF RepoInv, ListInv, ChildState, IsChoice, buildArgs
  <2>4. StdoutChild(File)'
    BY <1>2, <2>2 DEF StdoutChild
  <2>5. CheckInv'
    BY <1>1, <1>2, <2>1, <2>2, <2>4 DEF CheckInv, Differing, ChildState
  <2>6. WriteInv'
    BY <1>2, <1>3 DEF WriteInv
  <2> QED
    BY <2>3, <2>5, <2>6 DEF RepoInv
<1>4. CASE cfg.write
  <2>1. WritingChild(File)
    BY <1>1, <1>4 DEF RepoInv, WriteInv, ChildState
  <2>2. argv' = argv /\ Elsewhere(File)
    BY <1>1, <1>4, <2>1, ChildOfWrite
  <2>3. WritingChild(File)'
    BY <1>1, <1>2, <1>4, <2>1, ChildOfWrite DEF WritingChild
  <2>4. ListInv'
    BY <1>1, <1>2, <2>2 DEF RepoInv, ListInv, ChildState, IsChoice, buildArgs, Elsewhere
  <2>5. CheckInv'
    BY <1>2, <1>4 DEF CheckInv
  <2>6. \A n \in 1..Len(list) : n # k => disk'[list[n].path] = disk[list[n].path]
    BY <1>1, <2>2 DEF ChildState, IsChoice, Elsewhere, File
  <2>7. \A p \in Paths \ Picked : disk'[p] = disk[p]
    BY <1>1, <2>2 DEF ChildState, Picked, Elsewhere, File
  <2>8. /\ \A p \in Paths \ Picked : disk[p] = begin[p]
        /\ \A n \in 1..Len(list) : n > k => disk[list[n].path] = begin[list[n].path]
        /\ \A n \in 1..Len(list) : n < k => disk[list[n].path] = Format(begin[list[n].path])
    BY <1>1, <1>4 DEF RepoInv, WriteInv, ChildState
  <2>9. k \in Nat /\ \A n \in 1..Len(list) : (n > k => n # k) /\ (n < k => n # k)
    BY <1>1 DEF ChildState
  <2>10. WriteInv'
    BY <1>1, <1>2, <2>3, <2>6, <2>7, <2>8, <2>9 DEF WriteInv, Picked, ChildState
  <2> QED
    BY <2>4, <2>5, <2>10 DEF RepoInv
<1> QED
  BY <1>3, <1>4

LEMMA NextRepo ==
  ASSUME ChoicesAreLists, RepoInv, [Next]_vars
  PROVE  RepoInv'
<1>1. CASE ReadFails
  BY <1>1, EndKeeps DEF ReadFails, Done
<1>2. CASE ChildFailed
  <2>1. k <= Len(list)
    BY <1>2 DEF RepoInv, ListInv, ChildFailed
  <2> QED
    BY <1>2, <2>1, EndKeeps DEF ChildFailed, Done
<1>3. CASE UNCHANGED vars
  <2>1. UNCHANGED <<disk, argv, pc, i, data, stdout, code, step, cfg, list, k, orig, changed,
                    exitCode, begin>>
    BY <1>3 DEF vars, child, own
  <2>2. ListInv'
    BY <2>1 DEF RepoInv, ListInv, File
  <2>3. CheckInv'
    BY <2>1 DEF RepoInv, CheckInv, Differing, StdoutChild, File
  <2>4. WriteInv'
    BY <2>1 DEF RepoInv, WriteInv, Picked, WritingChild, File
  <2> QED
    BY <2>2, <2>3, <2>4 DEF RepoInv
<1> QED
  BY <1>1, <1>2, <1>3, RunKeeps, CannotStartKeeps, collectGoFilesKeeps, StartChildKeeps,
     ChildKeeps, ChildDoneKeeps, FinishKeeps DEF Next, Work

LEMMA Invariance ==
  ASSUME ChoicesAreLists, DisksHoldPaths
  PROVE  Spec => []RepoInv
<1>1. Init => RepoInv
  BY InitRepo
<1>2. RepoInv /\ [Next]_vars => RepoInv'
  BY NextRepo
<1> QED
  BY <1>1, <1>2, PTL DEF Spec

-----------------------------------------------------------------------------
(***************************************************************************)
(* A check writes nothing and tells what a write would do (main of         *)
(* tools/fmt_repo), for all trees, file systems and formatters.            *)
(***************************************************************************)
THEOREM ChecksForetell ==
  ASSUME FilesAreListed, DisksHoldPaths
  PROVE  Spec => []CheckForetellsWrite
<1> ChoicesAreLists
  BY ChosenIsList
<1>1. Spec => []RepoInv
  BY Invariance
<1>2. RepoInv => CheckForetellsWrite
  <2> SUFFICES ASSUME RepoInv, ~cfg.write, step # "none"
               PROVE  /\ disk = begin
                      /\ Over(0) => \A p \in Listed : Format(disk[p]) = disk[p]
                      /\ step = "done" /\ k > Len(list) /\ list # <<>> =>
                           changed = {p \in Listed : Format(disk[p]) # disk[p]}
    BY DEF CheckForetellsWrite
  <2>1. disk = begin
    BY DEF RepoInv, CheckInv
  <2>2. ASSUME step = "done", list = Chosen(cfg), k > Len(list)
        PROVE  Differing(Len(list)) = {p \in Listed : Format(disk[p]) # disk[p]}
    BY <2>2 DEF Listed, Differing, ChoicesAreLists, IsChoice, RepoInv, ListInv
  <2>3. ASSUME Over(0) PROVE \A p \in Listed : Format(disk[p]) = disk[p]
    <3>1. step = "done" /\ list = Chosen(cfg) /\ k > Len(list) /\ changed = {}
      BY <2>3 DEF Over, RepoInv, ListInv, CheckInv
    <3>2. CASE list = <<>>
      BY <3>1, <3>2 DEF Listed
    <3>3. CASE list # <<>>
      BY <2>2, <3>1, <3>3 DEF RepoInv, CheckInv
    <3> QED
      BY <3>2, <3>3
  <2>4. ASSUME step = "done", k > Len(list), list # <<>>
        PROVE  changed = {p \in Listed : Format(disk[p]) # disk[p]}
    BY <2>2, <2>4 DEF RepoInv, ListInv, CheckInv
  <2> QED
    BY <2>1, <2>3, <2>4
<1> QED
  BY <1>1, <1>2, PTL

(***************************************************************************)
(* A write that ends well has formatted every file chosen once; one that   *)
(* fails leaves the files behind alone; no other file is touched (main of  *)
(* tools/fmt_repo and the processes it starts).                            *)
(***************************************************************************)
THEOREM WritesAreComplete ==
  ASSUME FilesAreListed, DisksHoldPaths
  PROVE  Spec => []WriteIsComplete
<1> ChoicesAreLists
  BY ChosenIsList
<1>1. Spec => []RepoInv
  BY Invariance
<1>2. RepoInv => WriteIsComplete
  <2> SUFFICES ASSUME RepoInv, cfg.write, step # "none"
               PROVE  /\ Over(0) => \A p \in Listed : disk[p] = Format(begin[p])
                      /\ \A n \in DOMAIN list : n > k => disk[list[n].path] = begin[list[n].path]
                      /\ \A p \in Paths \ Listed : disk[p] = begin[p]
    BY DEF WriteIsComplete
  <2>1. list = <<>> \/ list = Chosen(cfg)
    BY DEF RepoInv, ListInv
  <2>2. DOMAIN list = 1..Len(list)
    <3>1. DOMAIN <<>> = 1..Len(<<>>)
      OBVIOUS
    <3> QED
      BY <2>1, <3>1 DEF ChoicesAreLists, IsChoice, RepoInv, ListInv
  <2>3. Picked \subseteq Listed
    BY <2>1, <2>2 DEF Picked, Listed
  <2>4. \A p \in Paths \ Listed : disk[p] = begin[p]
    BY <2>3 DEF RepoInv, WriteInv
  <2>5. \A n \in DOMAIN list : n > k => disk[list[n].path] = begin[list[n].path]
    BY <2>2 DEF RepoInv, WriteInv
  <2>6. ASSUME Over(0) PROVE \A p \in Listed : disk[p] = Format(begin[p])
    <3>1. list = Chosen(cfg)
      BY <2>6 DEF Over, RepoInv, ListInv
    <3>2. \A n \in 1..Len(list) : disk[list[n].path] = Format(begin[list[n].path])
      BY <2>6 DEF Over, RepoInv, WriteInv
    <3> QED
      BY <2>2, <3>1, <3>2 DEF Listed
  <2> QED
    BY <2>4, <2>5, <2>6
<1> QED
  BY <1>1, <1>2, PTL
=============================================================================
