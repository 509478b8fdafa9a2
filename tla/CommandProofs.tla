---------------------------- MODULE CommandProofs ----------------------------
(***************************************************************************)
(* What a process of llformat leaves on the disk, for all file systems,    *)
(* command lines and formatters; and what the reporting tools say, for all *)
(* trees, flags, matchings of lines and choices of what to keep.           *)
(***************************************************************************)
EXTENDS CommandLine, Reports, Lemmas, FunctionTheorems

(***************************************************************************)
(* What the proofs ask of the constants.                                   *)
(***************************************************************************)
ArgvsNamePaths == \A a \in Argvs : a.paths \in Seq(Paths)

IsDisk(d) == d = [p \in Paths |-> d[p]]

DisksHoldPaths == \A d \in Disks : IsDisk(d)

-----------------------------------------------------------------------------
(***************************************************************************)
(* Formatted and Times are recursive functions; that they are what their   *)
(* bodies say takes an induction each.                                     *)
(***************************************************************************)
IsFormatting(f, t, n) == f = [k \in 0..n |-> IF k = 0 THEN t ELSE Format(f[k - 1])]

LEMMA FormattingExists ==
  ASSUME NEW t
  PROVE  \A n \in Nat : \E f : IsFormatting(f, t, n)
<1> DEFINE S == {n \in Nat : \E f : IsFormatting(f, t, n)}
<1>1. 0 \in S
  <2>1. IsFormatting([k \in 0..0 |-> t], t, 0)
    BY DEF IsFormatting
  <2> QED
    BY <2>1
<1>2. ASSUME NEW n \in Nat, n \in S PROVE n + 1 \in S
  <2>1. PICK f : IsFormatting(f, t, n)
    BY <1>2
  <2> DEFINE g == [k \in 0..(n + 1) |-> IF k <= n THEN f[k] ELSE Format(f[n])]
  <2>2. \A k \in 0..n : g[k] = f[k]
    OBVIOUS
  <2>3. f[0] = t /\ \A k \in 1..n : f[k] = Format(f[k - 1])
    BY <2>1 DEF IsFormatting
  <2>4. IsFormatting(g, t, n + 1)
    BY <2>2, <2>3 DEF IsFormatting
  <2> QED
    BY <2>4
<1> HIDE DEF S
<1>3. Nat \subseteq S
  BY <1>1, <1>2, NatInductionOnSets
<1> QED
  BY <1>3 DEF S

LEMMA FormattingUnique ==
  ASSUME NEW t, NEW m \in Nat, NEW n \in Nat, NEW f, NEW g,
         IsFormatting(f, t, m), IsFormatting(g, t, n)
  PROVE  \A k \in Nat : k <= m /\ k <= n => f[k] = g[k]
<1> DEFINE S == {k \in Nat : k <= m /\ k <= n => f[k] = g[k]}
<1>1. 0 \in S
  BY DEF IsFormatting
<1>2. ASSUME NEW k \in Nat, k \in S PROVE k + 1 \in S
  <2> SUFFICES ASSUME k + 1 <= m, k + 1 <= n PROVE f[k + 1] = g[k + 1]
    OBVIOUS
  <2>1. f[k + 1] = Format(f[k])
    BY DEF IsFormatting
  <2>2. g[k + 1] = Format(g[k])
    BY DEF IsFormatting
  <2> QED
    BY <2>1, <2>2, <1>2
<1> HIDE DEF S
<1>3. Nat \subseteq S
  BY <1>1, <1>2, NatInductionOnSets
<1> QED
  BY <1>3 DEF S

LEMMA FormattedIs ==
  ASSUME NEW t, NEW n \in Nat
  PROVE  \E f : IsFormatting(f, t, n) /\ Formatted(t, n) = f[n]
<1>1. \E f : IsFormatting(f, t, n)
  BY FormattingExists
<1>2. PICK f : f = CHOOSE g : IsFormatting(g, t, n)
  OBVIOUS
<1>3. IsFormatting(f, t, n)
  BY <1>1, <1>2
<1>4. Formatted(t, n) = f[n]
  BY <1>2 DEF Formatted, IsFormatting
<1> QED
  BY <1>3, <1>4

LEMMA FormattedStep ==
  ASSUME NEW t
  PROVE  /\ Formatted(t, 0) = t
         /\ \A n \in Nat : Formatted(t, n + 1) = Format(Formatted(t, n))
<1>1. Formatted(t, 0) = t
  BY FormattedIs DEF IsFormatting
<1>2. ASSUME NEW n \in Nat PROVE Formatted(t, n + 1) = Format(Formatted(t, n))
  <2>1. PICK f : IsFormatting(f, t, n) /\ Formatted(t, n) = f[n]
    BY FormattedIs
  <2>2. PICK g : IsFormatting(g, t, n + 1) /\ Formatted(t, n + 1) = g[n + 1]
    BY FormattedIs
  <2>3. f[n] = g[n]
    BY <2>1, <2>2, FormattingUnique
  <2>4. g[n + 1] = Format(g[n])
    BY <2>2 DEF IsFormatting
  <2> QED
    BY <2>1, <2>2, <2>3, <2>4
<1> QED
  BY <1>1, <1>2

IsCount(c, paths, p, n) ==
  c = [k \in 0..n |-> IF k = 0 THEN 0 ELSE c[k - 1] + (IF paths[k] = p THEN 1 ELSE 0)]

LEMMA CountExists ==
  ASSUME NEW paths, NEW p
  PROVE  \A n \in Nat : \E c : IsCount(c, paths, p, n)
<1> DEFINE S == {n \in Nat : \E c : IsCount(c, paths, p, n)}
           More(k) == IF paths[k] = p THEN 1 ELSE 0
<1>1. 0 \in S
  <2>1. IsCount([k \in 0..0 |-> 0], paths, p, 0)
    BY DEF IsCount
  <2> QED
    BY <2>1
<1>2. ASSUME NEW n \in Nat, n \in S PROVE n + 1 \in S
  <2>1. PICK c : IsCount(c, paths, p, n)
    BY <1>2
  <2> DEFINE d == [k \in 0..(n + 1) |-> IF k <= n THEN c[k] ELSE c[n] + More(n + 1)]
  <2>2. \A k \in 0..n : d[k] = c[k]
    OBVIOUS
  <2>3. c[0] = 0 /\ \A k \in 1..n : c[k] = c[k - 1] + More(k)
    BY <2>1 DEF IsCount
  <2>4. IsCount(d, paths, p, n + 1)
    BY <2>2, <2>3 DEF IsCount
  <2> QED
    BY <2>4
<1> HIDE DEF S
<1>3. Nat \subseteq S
  BY <1>1, <1>2, NatInductionOnSets
<1> QED
  BY <1>3 DEF S

LEMMA CountUnique ==
  ASSUME NEW paths, NEW p, NEW m \in Nat, NEW n \in Nat, NEW c, NEW d,
         IsCount(c, paths, p, m), IsCount(d, paths, p, n)
  PROVE  \A k \in Nat : k <= m /\ k <= n => c[k] = d[k] /\ c[k] \in Nat
<1> DEFINE S == {k \in Nat : k <= m /\ k <= n => c[k] = d[k] /\ c[k] \in Nat}
<1>1. 0 \in S
  BY DEF IsCount
<1>2. ASSUME NEW k \in Nat, k \in S PROVE k + 1 \in S
  <2> SUFFICES ASSUME k + 1 <= m, k + 1 <= n PROVE c[k + 1] = d[k + 1] /\ c[k + 1] \in Nat
    OBVIOUS
  <2> DEFINE x == IF paths[k + 1] = p THEN 1 ELSE 0
  <2>1. c[k + 1] = c[k] + x
    BY DEF IsCount
  <2>2. d[k + 1] = d[k] + x
    BY DEF IsCount
  <2> QED
    BY <2>1, <2>2, <1>2
<1> HIDE DEF S
<1>3. Nat \subseteq S
  BY <1>1, <1>2, NatInductionOnSets
<1> QED
  BY <1>3 DEF S

LEMMA TimesIs ==
  ASSUME NEW paths, NEW p, NEW n \in Nat
  PROVE  \E c : IsCount(c, paths, p, n) /\ Times(paths, p, n) = c[n]
<1> DEFINE c == CHOOSE c : IsCount(c, paths, p, n)
<1>1. IsCount(c, paths, p, n)
  BY CountExists
<1>2. Times(paths, p, n) = c[n]
  BY DEF Times, IsCount
<1> QED
  BY <1>1, <1>2

LEMMA TimesStep ==
  ASSUME NEW paths, NEW p
  PROVE  /\ Times(paths, p, 0) = 0
         /\ \A n \in Nat :
              /\ Times(paths, p, n) \in Nat
              /\ paths[n + 1] = p => Times(paths, p, n + 1) = Times(paths, p, n) + 1
              /\ paths[n + 1] # p => Times(paths, p, n + 1) = Times(paths, p, n)
<1>1. Times(paths, p, 0) = 0
  BY TimesIs DEF IsCount
<1>2. ASSUME NEW n \in Nat
      PROVE  /\ Times(paths, p, n) \in Nat
             /\ paths[n + 1] = p => Times(paths, p, n + 1) = Times(paths, p, n) + 1
             /\ paths[n + 1] # p => Times(paths, p, n + 1) = Times(paths, p, n)
  <2>1. PICK c : IsCount(c, paths, p, n) /\ Times(paths, p, n) = c[n]
    BY TimesIs
  <2>2. PICK d : IsCount(d, paths, p, n + 1) /\ Times(paths, p, n + 1) = d[n + 1]
    BY TimesIs
  <2>3. c[n] = d[n] /\ c[n] \in Nat
    BY <2>1, <2>2, CountUnique
  <2>4. d[n + 1] = d[n] + (IF paths[n + 1] = p THEN 1 ELSE 0)
    BY <2>2 DEF IsCount
  <2> QED
    BY <2>1, <2>2, <2>3, <2>4
<1> QED
  BY <1>1, <1>2

-----------------------------------------------------------------------------
(***************************************************************************)
(* A process has a path in hand while it works on one, and a write that    *)
(* was broken off is the end of it.                                        *)
(***************************************************************************)
HandInv ==
  /\ IsDisk(disk)
  /\ argv.paths \in Seq(Paths)
  /\ i \in Nat \ {0}
  /\ pc \in {"format", "open", "bytes", "stdout"} => i <= Len(argv.paths)
  /\ torn # {} => pc = "exit"

LEMMA PathInHand ==
  ASSUME HandInv, pc \in {"format", "open", "bytes", "stdout"}
  PROVE  Path \in Paths
<1>1. i \in 1..Len(argv.paths)
  BY DEF HandInv
<1>2. \A s \in Seq(Paths) : \A k \in 1..Len(s) : s[k] \in Paths
  OBVIOUS
<1> QED
  BY <1>1, <1>2 DEF Path, HandInv

LEMMA HandInit ==
  ASSUME ArgvsNamePaths, DisksHoldPaths, Init
  PROVE  HandInv
  BY DEF ArgvsNamePaths, DisksHoldPaths, Init, HandInv

LEMMA HandStep ==
  ASSUME ArgvsNamePaths, HandInv, [Next]_vars
  PROVE  HandInv'
<1> USE DEF HandInv, IsDisk
<1>1. CASE UNCHANGED vars
  BY <1>1 DEF vars
<1>2. ASSUME NEW a \in Argvs, Start(a) PROVE HandInv'
  BY <1>2 DEF ArgvsNamePaths, Start
<1>3. CASE RefuseFlags \/ PrintInfo \/ RefuseUsage \/ AcceptFlags
  BY <1>3 DEF RefuseFlags, PrintInfo, RefuseUsage, AcceptFlags, Exit
<1>4. CASE ReadFails \/ ReadFile \/ FormatData \/ OpenFails
  BY <1>4 DEF ReadFails, ReadFile, FormatData, OpenFails, Exit
<1>5. CASE Truncate \/ WriteBytes
  BY <1>5 DEF Truncate, WriteBytes
<1>6. CASE WriteFails
  BY <1>6 DEF WriteFails, Exit
<1>7. CASE WriteStdout \/ StdoutFails \/ AllPathsDone
  BY <1>7 DEF WriteStdout, StdoutFails, AllPathsDone, Exit
<1>8. CASE Kill
  BY <1>8 DEF Kill, Running, Exit
<1> QED
  BY <1>1, <1>2, <1>3, <1>4, <1>5, <1>6, <1>7, <1>8 DEF Next, Step

-----------------------------------------------------------------------------
(***************************************************************************)
(* DamageIsTold: in every step at most the one path in hand is torn, and   *)
(* the process is over with a message or killed.                           *)
(***************************************************************************)
LEMMA DamageStep ==
  ASSUME HandInv, DamageIsTold, [Next]_vars
  PROVE  DamageIsTold'
<1> USE DEF DamageIsTold
<1>1. CASE UNCHANGED vars
  BY <1>1 DEF vars
<1>2. ASSUME NEW a \in Argvs, Start(a) PROVE DamageIsTold'
  BY <1>2 DEF Start
<1>3. CASE RefuseFlags \/ PrintInfo \/ RefuseUsage \/ AcceptFlags
  BY <1>3 DEF RefuseFlags, PrintInfo, RefuseUsage, AcceptFlags, Exit
<1>4. CASE ReadFails \/ ReadFile \/ FormatData \/ OpenFails \/ Truncate \/ WriteBytes
  BY <1>4 DEF ReadFails, ReadFile, FormatData, OpenFails, Truncate, WriteBytes, Exit
<1>5. CASE WriteFails
  <2>1. torn = {} /\ Path \in Paths
    BY <1>5, PathInHand DEF WriteFails, HandInv
  <2> QED
    BY <1>5, <2>1 DEF WriteFails, Exit
<1>6. CASE WriteStdout \/ StdoutFails \/ AllPathsDone
  BY <1>6 DEF WriteStdout, StdoutFails, AllPathsDone, Exit
<1>7. CASE Kill /\ pc = "bytes"
  <2>1. torn = {} /\ Path \in Paths
    BY <1>7, PathInHand DEF HandInv
  <2> QED
    BY <1>7, <2>1 DEF Kill, Exit
<1>8. CASE Kill /\ pc # "bytes"
  BY <1>8 DEF Kill, Running, Exit
<1> QED
  BY <1>1, <1>2, <1>3, <1>4, <1>5, <1>6, <1>7, <1>8 DEF Next, Step

(***************************************************************************)
(* A process that damages a file says so (the error paths of run and of    *)
(* writeFile), whatever the disk, the command line and the formatter.      *)
(***************************************************************************)
THEOREM DamagedMeansTold ==
  ASSUME ArgvsNamePaths, DisksHoldPaths
  PROVE  Spec => []DamageIsTold
<1>1. Init => HandInv /\ DamageIsTold
  BY HandInit DEF Init, DamageIsTold
<1>2. HandInv /\ DamageIsTold /\ [Next]_vars => (HandInv /\ DamageIsTold)'
  BY HandStep, DamageStep
<1> QED
  BY <1>1, <1>2, PTL DEF Spec

-----------------------------------------------------------------------------
(***************************************************************************)
(* FilesWhole says nothing of the text in hand, on which the next write    *)
(* depends: it is the one due, and after FormatData the one due next.      *)
(***************************************************************************)
Due(p) == Formatted(start[p], Times(argv.paths, p, i - 1))

DataInv ==
  /\ pc = "format" => data = Due(Path)
  /\ pc \in {"open", "bytes"} => data = Format(Due(Path))

LEMMA FilesInit == Init => FilesWhole /\ DataInv
  BY DEF Init, FilesWhole, DataInv

LEMMA FilesStart ==
  ASSUME NEW a, Start(a)
  PROVE  FilesWhole' /\ DataInv'
<1>1. start' = disk /\ disk' = disk /\ i' = 1 /\ pc' = "flags"
  BY DEF Start
<1>2. \A p : Formatted(start'[p], Times(argv'.paths, p, i' - 1)) = disk'[p]
  BY <1>1, FormattedStep, TimesStep
<1> QED
  BY <1>1, <1>2 DEF FilesWhole, DataInv

(***************************************************************************)
(* A step that leaves the disk and the list of paths alone.                *)
(***************************************************************************)
LEMMA FilesRest ==
  ASSUME FilesWhole, DataInv, pc # "none",
         disk' = disk, start' = start, argv' = argv, i' = i, torn \subseteq torn',
         pc = "bytes" => pc' = "bytes",
         pc' = "format" => data' = Due(Path),
         pc' \in {"open", "bytes"} => data' = Format(Due(Path))
  PROVE  FilesWhole' /\ DataInv'
  BY DEF FilesWhole, DataInv, Due, Path

LEMMA FilesWritten ==
  ASSUME HandInv, FilesWhole, DataInv, WriteBytes
  PROVE  FilesWhole' /\ DataInv'
<1>1. /\ pc = "bytes" /\ pc' = "files" /\ i' = i + 1 /\ argv' = argv /\ start' = start
      /\ torn' = torn /\ disk' = [disk EXCEPT ![Path] = data]
  BY DEF WriteBytes
<1>2. Path \in Paths /\ i - 1 \in Nat /\ i' - 1 = (i - 1) + 1
  BY <1>1, PathInHand DEF HandInv
<1>3. Path = argv.paths[(i - 1) + 1]
  BY <1>2 DEF Path, HandInv
<1>4. DOMAIN disk = Paths
  BY DEF HandInv, IsDisk
<1>5. Times(argv.paths, Path, (i - 1) + 1) = Times(argv.paths, Path, i - 1) + 1
  BY <1>2, <1>3, TimesStep
<1>6. disk'[Path] = Formatted(start[Path], Times(argv.paths, Path, (i - 1) + 1))
  <2>1. disk'[Path] = Format(Due(Path))
    BY <1>1, <1>2, <1>4 DEF DataInv
  <2>2. Times(argv.paths, Path, i - 1) \in Nat
    BY <1>2, TimesStep
  <2> QED
    BY <1>5, <2>1, <2>2, FormattedStep DEF Due
<1>7. ASSUME NEW p \in Paths, p # Path, p \notin torn
      PROVE  disk'[p] = Formatted(start[p], Times(argv.paths, p, (i - 1) + 1))
  <2>1. disk'[p] = disk[p]
    BY <1>1, <1>4, <1>7
  <2>2. disk[p] = Formatted(start[p], Times(argv.paths, p, i - 1))
    BY <1>1, <1>7 DEF FilesWhole
  <2>3. Times(argv.paths, p, (i - 1) + 1) = Times(argv.paths, p, i - 1)
    BY <1>2, <1>3, <1>7, TimesStep
  <2> QED
    BY <2>1, <2>2, <2>3
<1>8. \A p \in Paths : p \in torn \/ disk'[p] = Formatted(start'[p], Times(argv'.paths, p, i' - 1))
  BY <1>1, <1>2, <1>6, <1>7
<1> QED
  BY <1>1, <1>8 DEF FilesWhole, DataInv

(***************************************************************************)
(* A write that is broken off, by an error or a kill, leaves its path torn *)
(* and the others as they are.                                             *)
(***************************************************************************)
LEMMA FilesTorn ==
  ASSUME HandInv, FilesWhole, DataInv, pc = "bytes", NEW part,
         disk' = [disk EXCEPT ![Path] = part], torn' = torn \cup {Path}, pc' = "exit",
         start' = start, argv' = argv, i' = i
  PROVE  FilesWhole' /\ DataInv'
<1>1. DOMAIN disk = Paths /\ Path \in Paths
  BY PathInHand DEF HandInv, IsDisk
<1> QED
  BY <1>1 DEF FilesWhole, DataInv

LEMMA FilesStep ==
  ASSUME HandInv, FilesWhole, DataInv, [Next]_vars
  PROVE  FilesWhole' /\ DataInv'
<1>1. CASE UNCHANGED vars
  BY <1>1 DEF vars, FilesWhole, DataInv, Due, Path
<1>2. ASSUME NEW a \in Argvs, Start(a) PROVE FilesWhole' /\ DataInv'
  BY <1>2, FilesStart
<1>3. CASE RefuseFlags \/ PrintInfo \/ RefuseUsage \/ AcceptFlags
  BY <1>3, FilesRest DEF RefuseFlags, PrintInfo, RefuseUsage, AcceptFlags, Exit
<1>4. CASE ReadFails \/ OpenFails \/ WriteStdout \/ StdoutFails \/ AllPathsDone
  BY <1>4, FilesRest DEF ReadFails, OpenFails, WriteStdout, StdoutFails, AllPathsDone, Exit
<1>5. CASE ReadFile
  <2>1. i \in 1..Len(argv.paths) /\ torn = {}
    BY <1>5 DEF ReadFile, HandInv
  <2>2. Path \in Paths
    BY <2>1 DEF Path, HandInv
  <2>3. data' = Due(Path)
    BY <1>5, <2>1, <2>2 DEF ReadFile, FilesWhole, Due
  <2> QED
    BY <1>5, <2>3, FilesRest DEF ReadFile
<1>6. CASE FormatData
  <2>1. data' = Format(Due(Path))
    BY <1>6 DEF FormatData, DataInv
  <2> QED
    BY <1>6, <2>1, FilesRest DEF FormatData
<1>7. CASE Truncate
  <2>1. DOMAIN disk = Paths /\ data' = data /\ Path' = Path
    BY <1>7 DEF HandInv, IsDisk, Truncate, Path
  <2> QED
    BY <1>7, <2>1 DEF Truncate, FilesWhole, DataInv, Due
<1>8. CASE WriteBytes
  BY <1>8, FilesWritten
<1>9. CASE WriteFails
  BY <1>9, FilesTorn DEF WriteFails, Exit
<1>10. CASE Kill /\ pc = "bytes"
  BY <1>10, FilesTorn DEF Kill, Exit
<1>11. CASE Kill /\ pc # "bytes"
  BY <1>11, FilesRest DEF Kill, Running, Exit
<1> QED
  BY <1>1, <1>2, <1>3, <1>4, <1>5, <1>6, <1>7, <1>8, <1>9, <1>10, <1>11 DEF Next, Step

(***************************************************************************)
(* No file is lost but by a write broken off in its middle (writeFile and  *)
(* the loop over the paths), for all disks, command lines and formatters.  *)
(***************************************************************************)
THEOREM FilesStayWhole ==
  ASSUME ArgvsNamePaths, DisksHoldPaths
  PROVE  Spec => []FilesWhole
<1>1. Init => HandInv /\ FilesWhole /\ DataInv
  BY HandInit, FilesInit
<1>2. HandInv /\ FilesWhole /\ DataInv /\ [Next]_vars => (HandInv /\ FilesWhole /\ DataInv)'
  BY HandStep, FilesStep
<1> QED
  BY <1>1, <1>2, PTL DEF Spec
-----------------------------------------------------------------------------
(***************************************************************************)
(*                            The reporting tools                          *)
(***************************************************************************)
(***************************************************************************)
(* Numbers selected from a list of them, from the first to the last, stay  *)
(* in this order.                                                          *)
(***************************************************************************)
Rising(s) == \A h, j \in 1..Len(s) : h < j => s[h] < s[j]

LEMMA RisingAppend ==
  ASSUME NEW s \in Seq(Nat), Rising(s), NEW x \in Nat, \A h \in 1..Len(s) : s[h] < x
  PROVE  Rising(Append(s, x))
<1>1. PICK t : t = Append(s, x)
  OBVIOUS
<1>2. Len(s) \in Nat /\ Len(t) = Len(s) + 1 /\ t[Len(s) + 1] = x /\ \A h \in 1..Len(s) : t[h] = s[h]
  BY <1>1
<1>3. ASSUME NEW h \in 1..Len(t), NEW j \in 1..Len(t), h < j PROVE t[h] < t[j]
  <2>1. h \in 1..Len(s) /\ t[h] = s[h]
    BY <1>2, <1>3
  <2>2. CASE j = Len(s) + 1
    BY <1>2, <2>1, <2>2
  <2>3. CASE j # Len(s) + 1
    <3>1. j \in 1..Len(s) /\ t[j] = s[j]
      BY <1>2, <2>3
    <3> QED
      BY <1>3, <2>1, <3>1 DEF Rising
  <2> QED
    BY <2>2, <2>3
<1> QED
  BY <1>1, <1>3 DEF Rising

LEMMA SelectedRises ==
  ASSUME NEW n \in Nat, NEW S
  PROVE  LET s == Selected([k \in 1..n |-> k], S) IN
         /\ s \in Seq(Nat) /\ IsInjective(s) /\ ToSet(s) = (1..n) \cap S
         /\ Rising(s)
<1>1. PICK list : list = [k \in 1..n |-> k]
  OBVIOUS
<1>2. list \in Seq(Nat) /\ Len(list) = n /\ DOMAIN list = 1..n /\ \A j \in 1..n : list[j] = j
  BY <1>1
<1>3. IsInjective(list)
  BY <1>2 DEF IsInjective
<1>4. ToSet(list) = 1..n
  BY <1>2 DEF ToSet
<1>5. PICK s : s = Selected(list, S)
  OBVIOUS
<1>6. s \in Seq(Nat) /\ IsInjective(s) /\ ToSet(s) = (1..n) \cap S
  BY <1>2, <1>3, <1>4, <1>5, SelectedFacts
<1>7. PICK f : IsPrefixes(list, S, Len(list), f) /\ s = f[Len(list)]
  BY <1>2, <1>5, SelectedRecursion
<1>8. \A j \in 0..n :
        f[j] = IF j = 0 THEN <<>> ELSE IF j \in S THEN Append(f[j - 1], j) ELSE f[j - 1]
  <2>1. \A j \in 0..n :
          f[j] = IF j = 0 THEN <<>> ELSE IF list[j] \in S THEN Append(f[j - 1], list[j]) ELSE f[j - 1]
    BY <1>2, <1>7 DEF IsPrefixes
  <2>2. \A j \in 0..n : j # 0 => list[j] = j
    BY <1>2
  <2> QED
    BY <2>1, <2>2
<1> DEFINE Good(m) == f[m] \in Seq(Nat) /\ Rising(f[m]) /\ \A j \in 1..Len(f[m]) : f[m][j] <= m
           U == {m \in Nat : m <= n => Good(m)}
<1>9. 0 \in U
  <2>1. f[0] = <<>>
    BY <1>8
  <2>2. Rising(<<>>)
    BY DEF Rising
  <2>3. Good(0)
    BY <2>1, <2>2
  <2> QED
    BY <2>3
<1>10. ASSUME NEW m \in Nat, m \in U PROVE m + 1 \in U
  <2> SUFFICES ASSUME m + 1 <= n PROVE Good(m + 1)
    OBVIOUS
  <2>1. Good(m)
    BY <1>10
  <2>2. PICK g : g = f[m]
    OBVIOUS
  <2>3. g \in Seq(Nat) /\ Rising(g) /\ Len(g) \in Nat /\ \A j \in 1..Len(g) : g[j] \in Nat /\ g[j] <= m
    BY <2>1, <2>2
  <2>4. f[m + 1] = IF m + 1 \in S THEN Append(g, m + 1) ELSE g
    BY <1>8, <2>2
  <2>5. CASE m + 1 \in S
    <3>1. PICK h : h = Append(g, m + 1)
      OBVIOUS
    <3>2. Rising(h)
      BY <2>3, <3>1, RisingAppend
    <3>3. h \in Seq(Nat) /\ \A j \in 1..Len(h) : h[j] <= m + 1
      BY <2>3, <3>1
    <3>4. f[m + 1] = h
      BY <2>4, <2>5, <3>1
    <3> QED
      BY <3>2, <3>3, <3>4
  <2>6. CASE m + 1 \notin S
    <3>1. f[m + 1] = g
      BY <2>4, <2>6
    <3> QED
      BY <2>3, <3>1
  <2> QED
    BY <2>5, <2>6
<1> HIDE DEF U
<1>11. Nat \subseteq U
  BY <1>9, <1>10, NatInductionOnSets
<1>12. Rising(s)
  BY <1>2, <1>7, <1>11 DEF U
<1> QED
  BY <1>1, <1>5, <1>6, <1>12

(***************************************************************************)
(* One list behind another.                                                *)
(***************************************************************************)
IsList(s) == s \in Seq(ToSet(s))

AreJoined(s, t, u) ==
  /\ IsList(u) /\ Len(u) = Len(s) + Len(t)
  /\ \A k \in 1..Len(s) : u[k] = s[k]
  /\ \A k \in 1..Len(t) : u[Len(s) + k] = t[k]
  /\ \A k \in 1..Len(u) : k \in 1..Len(s) \/ \E m \in 1..Len(t) : k = Len(s) + m

LEMMA ListFacts ==
  ASSUME NEW s, IsList(s)
  PROVE  Len(s) \in Nat /\ DOMAIN s = 1..Len(s) /\ \A k \in 1..Len(s) : s[k] \in ToSet(s)
BY DEF IsList

LEMMA Joining ==
  ASSUME NEW s, NEW t, IsList(s), IsList(t)
  PROVE  AreJoined(s, t, s \o t)
<1>1. PICK X : X = ToSet(s) \cup ToSet(t)
  OBVIOUS
<1>2. s \in Seq(X) /\ t \in Seq(X)
  <2>1. PICK A, B : A = ToSet(s) /\ B = ToSet(t)
    OBVIOUS
  <2>2. s \in Seq(A) /\ t \in Seq(B) /\ A \subseteq X /\ B \subseteq X
    BY <1>1, <2>1 DEF IsList
  <2> QED
    BY <2>2
<1>3. PICK u : u = s \o t
  OBVIOUS
<1>4. /\ u \in Seq(X) /\ Len(u) = Len(s) + Len(t) /\ Len(s) \in Nat /\ Len(t) \in Nat
      /\ \A k \in 1..Len(s) : u[k] = s[k]
      /\ \A k \in 1..Len(t) : u[Len(s) + k] = t[k]
  BY <1>2, <1>3
<1>5. IsList(u)
  <2>1. u \in [1..Len(u) -> ToSet(u)] /\ Len(u) \in Nat
    BY <1>4 DEF ToSet
  <2>2. PICK Y : Y = ToSet(u)
    OBVIOUS
  <2> QED
    BY <2>1, <2>2 DEF IsList
<1>6. ASSUME NEW k \in 1..Len(u), k \notin 1..Len(s) PROVE \E m \in 1..Len(t) : k = Len(s) + m
  <2>1. k - Len(s) \in 1..Len(t) /\ k = Len(s) + (k - Len(s))
    BY <1>4, <1>6
  <2> QED
    BY <2>1
<1> QED
  BY <1>3, <1>4, <1>5, <1>6 DEF AreJoined

-----------------------------------------------------------------------------
(***************************************************************************)
(* The files that are looked at, for any corpus and flags.                 *)
(***************************************************************************)
TakenIn(co, c) == UNION {{<<k, m>> : m \in DOMAIN GoFilesUnder(c, co[k])} : k \in DOMAIN co}

FileIn(co, c, x) == GoFilesUnder(c, co[x[1]])[x[2]]

NamedIn(co, c, rec, x) == rec.repo = co[x[1]].base /\ rec.file = FileIn(co, c, x).path

ToldApart(co, c) ==
  \A x, y \in TakenIn(co, c) :
    co[x[1]].base = co[y[1]].base /\ FileIn(co, c, x).path = FileIn(co, c, y).path => x = y

LEMMA FilesUnder ==
  ASSUME NEW co \in Corpora, NEW c, NEW n \in DOMAIN co
  PROVE  LET s == GoFilesUnder(c, co[n]) IN
         /\ IsList(s)
         /\ \A k \in DOMAIN s : IsFile(s[k])
         /\ \A k, m \in DOMAIN s : s[k].path = s[m].path => k = m
<1>1. PICK repo : repo = co[n]
  OBVIOUS
<1>2. repo \in ToSet(co)
  BY <1>1 DEF ToSet
<1>3. /\ repo.files \in Seq(ToSet(repo.files))
      /\ \A file \in ToSet(repo.files) : IsFile(file)
      /\ \A k, m \in DOMAIN repo.files : repo.files[k].path = repo.files[m].path => k = m
  BY <1>2, ReportsAssumption
<1>4. IsInjective(repo.files)
  BY <1>3 DEF IsInjective
<1>5. PICK T, S : T = ToSet(repo.files) /\ S = {file \in T : ~Skipped(c, repo, file)}
  OBVIOUS
<1>6. PICK s : s = GoFilesUnder(c, co[n])
  OBVIOUS
<1>7. s = Selected(repo.files, S)
  BY <1>1, <1>5, <1>6 DEF GoFilesUnder
<1>8. s \in Seq(T) /\ IsInjective(s) /\ ToSet(s) = T \cap S
  BY <1>3, <1>4, <1>5, <1>7, SelectedFacts
<1>9. IsList(s)
  <2>1. s \in [1..Len(s) -> ToSet(s)] /\ Len(s) \in Nat
    BY <1>8 DEF ToSet
  <2>2. PICK Y : Y = ToSet(s)
    OBVIOUS
  <2> QED
    BY <2>1, <2>2 DEF IsList
<1>10. \A k \in DOMAIN s : s[k] \in T
  BY <1>8
<1>11. ASSUME NEW k \in DOMAIN s, NEW m \in DOMAIN s, s[k].path = s[m].path PROVE k = m
  <2>1. PICK h \in DOMAIN repo.files, j \in DOMAIN repo.files : s[k] = repo.files[h] /\ s[m] = repo.files[j]
    BY <1>5, <1>10 DEF ToSet
  <2>2. h = j
    BY <1>3, <1>11, <2>1
  <2> QED
    BY <1>8, <2>1, <2>2 DEF IsInjective
<1> QED
  BY <1>3, <1>5, <1>6, <1>9, <1>10, <1>11

LEMMA TakenFacts ==
  ASSUME NEW co \in Corpora, NEW c, NEW x \in TakenIn(co, c)
  PROVE  /\ x = <<x[1], x[2]>> /\ x[1] \in DOMAIN co /\ x[2] \in DOMAIN GoFilesUnder(c, co[x[1]])
         /\ IsFile(FileIn(co, c, x))
<1>1. PICK k \in DOMAIN co : \E m \in DOMAIN GoFilesUnder(c, co[k]) : x = <<k, m>>
  BY DEF TakenIn
<1>2. PICK m \in DOMAIN GoFilesUnder(c, co[k]) : x = <<k, m>>
  BY <1>1
<1>3. x[1] = k /\ x[2] = m
  BY <1>2
<1>4. IsFile(GoFilesUnder(c, co[k])[m])
  BY FilesUnder
<1> QED
  BY <1>2, <1>3, <1>4 DEF FileIn

-----------------------------------------------------------------------------
(***************************************************************************)
(* The rows of one file: one for each line in S, in the order of the file. *)
(***************************************************************************)
LEMMA LinesInOrder ==
  ASSUME NEW file, IsFile(file), NEW S \in SUBSET DOMAIN file.after
  PROVE  LET s == InOrder(file, S) IN
         /\ s \in Seq(Nat) /\ IsInjective(s) /\ ToSet(s) = S /\ Rising(s)
<1>1. PICK n : n = Len(file.after)
  OBVIOUS
<1>2. n \in Nat /\ DOMAIN file.after = 1..n
  BY <1>1 DEF IsFile
<1>3. InOrder(file, S) = Selected([k \in 1..n |-> k], S)
  BY <1>2 DEF InOrder
<1>4. (1..n) \cap S = S
  BY <1>2
<1> QED
  BY <1>2, <1>3, <1>4, SelectedRises

RowsFor(repo, file, S, col, rows) ==
  /\ IsList(rows)
  /\ \A m \in DOMAIN rows :
       /\ rows[m].line \in S /\ rows[m].repo = repo.base /\ rows[m].file = file.path
       /\ rows[m] = Case(repo, file, rows[m].line, col)
  /\ \A k \in S : \E m \in DOMAIN rows : rows[m].line = k
  /\ \A m, n \in DOMAIN rows : rows[m].line = rows[n].line => m = n

LEMMA CasesAreRows ==
  ASSUME NEW repo, NEW file, IsFile(file), NEW S \in SUBSET DOMAIN file.after, NEW col
  PROVE  RowsFor(repo, file, S, col, CasesForFile(repo, file, S, col))
<1>1. PICK s, rows : s = InOrder(file, S) /\ rows = CasesForFile(repo, file, S, col)
  OBVIOUS
<1>2. s \in Seq(Nat) /\ IsInjective(s) /\ ToSet(s) = S
  BY <1>1, LinesInOrder
<1>3. Len(s) \in Nat /\ DOMAIN s = 1..Len(s)
  BY <1>2
<1>4. rows = [m \in 1..Len(s) |-> Case(repo, file, s[m], col)]
  BY <1>1, <1>3 DEF CasesForFile
<1>5. IsList(rows)
  <2>1. rows \in [1..Len(s) -> ToSet(rows)]
    BY <1>3, <1>4 DEF ToSet
  <2>2. PICK Y : Y = ToSet(rows)
    OBVIOUS
  <2> QED
    BY <1>3, <2>1, <2>2 DEF IsList
<1>6. \A m \in 1..Len(s) : rows[m].line = s[m] /\ rows[m].repo = repo.base /\ rows[m].file = file.path
  BY <1>4 DEF Case
<1>7. DOMAIN rows = 1..Len(s)
  BY <1>4
<1>8. \A m \in DOMAIN rows : rows[m] = Case(repo, file, rows[m].line, col)
  BY <1>4, <1>6, <1>7
<1>9. \A m \in DOMAIN rows : rows[m].line \in S
  BY <1>2, <1>3, <1>6, <1>7 DEF ToSet
<1>10. \A k \in S : \E m \in DOMAIN rows : rows[m].line = k
  BY <1>2, <1>3, <1>6, <1>7 DEF ToSet
<1>11. \A m, n \in DOMAIN rows : rows[m].line = rows[n].line => m = n
  BY <1>2, <1>3, <1>6, <1>7 DEF IsInjective
<1> QED
  BY <1>1, <1>5, <1>6, <1>7, <1>8, <1>9, <1>10, <1>11 DEF RowsFor

-----------------------------------------------------------------------------
(***************************************************************************)
(* The book of corpus_check: every record is one of a file that was seen,  *)
(* and every file that was seen has the records of the lines kept of it.   *)
(***************************************************************************)
KeptIn(co, c, x) ==
  IF FileIn(co, c, x).readable /\ FileIn(co, c, x).formats
  THEN CapByRank(co[x[1]], FileIn(co, c, x), c)
  ELSE {{}}

Rows(co, c, cs, x) == {m \in DOMAIN cs : NamedIn(co, c, cs[m], x)}

Known(co, c, cs, seen) == \A m \in DOMAIN cs : \E x \in seen : NamedIn(co, c, cs[m], x)

ReportedAs(co, c, cs, x, S) ==
  /\ \A m \in Rows(co, c, cs, x) :
       /\ cs[m].line \in S
       /\ cs[m] = Case(co[x[1]], FileIn(co, c, x), cs[m].line, c.col)
  /\ \A k \in S : \E m \in Rows(co, c, cs, x) : cs[m].line = k
  /\ \A m, n \in Rows(co, c, cs, x) : cs[m].line = cs[n].line => m = n

Booked(co, c, cs, seen) ==
  \A x \in seen : \E S \in KeptIn(co, c, x) : ReportedAs(co, c, cs, x, S)

LEMMA KeptAreLines ==
  ASSUME NEW co, NEW c, NEW x, NEW S \in KeptIn(co, c, x)
  PROVE  S \in SUBSET DOMAIN FileIn(co, c, x).after
BY DEF KeptIn, CapByRank, CaseLines, FindOverflows

(***************************************************************************)
(* The records of a file put behind those of others.                       *)
(***************************************************************************)
LEMMA BookOne ==
  ASSUME NEW co \in Corpora, NEW c, ToldApart(co, c),
         NEW cs, IsList(cs), NEW seen \in SUBSET TakenIn(co, c), NEW z \in TakenIn(co, c), z \notin seen,
         Known(co, c, cs, seen), Booked(co, c, cs, seen),
         NEW S \in KeptIn(co, c, z), NEW rows, RowsFor(co[z[1]], FileIn(co, c, z), S, c.col, rows),
         NEW u, AreJoined(cs, rows, u)
  PROVE  Booked(co, c, u, seen \cup {z})
<1>1. /\ Len(cs) \in Nat /\ DOMAIN cs = 1..Len(cs)
      /\ Len(rows) \in Nat /\ DOMAIN rows = 1..Len(rows)
  BY ListFacts DEF RowsFor
<1>2. /\ DOMAIN u = 1..Len(u) /\ Len(u) = Len(cs) + Len(rows)
      /\ \A k \in 1..Len(cs) : u[k] = cs[k]
      /\ \A k \in 1..Len(rows) : u[Len(cs) + k] = rows[k]
      /\ \A k \in 1..Len(u) : k \in 1..Len(cs) \/ \E m \in 1..Len(rows) : k = Len(cs) + m
  BY ListFacts DEF AreJoined
<1>3. ASSUME NEW m \in 1..Len(cs) PROVE ~NamedIn(co, c, cs[m], z)
  <2>1. PICK x \in seen : NamedIn(co, c, cs[m], x)
    BY <1>1 DEF Known
  <2>2. NamedIn(co, c, cs[m], z) => x = z
    BY <2>1 DEF NamedIn, ToldApart
  <2> QED
    BY <2>2
<1>4. ASSUME NEW m \in 1..Len(rows), NEW x \in seen PROVE ~NamedIn(co, c, rows[m], x)
  <2>1. NamedIn(co, c, rows[m], z)
    BY <1>1 DEF RowsFor, NamedIn
  <2>2. NamedIn(co, c, rows[m], x) => x = z
    BY <2>1 DEF NamedIn, ToldApart
  <2> QED
    BY <2>2
<1>5. ASSUME NEW x \in seen PROVE \E T \in KeptIn(co, c, x) : ReportedAs(co, c, u, x, T)
  <2>1. PICK T \in KeptIn(co, c, x) : ReportedAs(co, c, cs, x, T)
    BY DEF Booked
  <2>2. Rows(co, c, u, x) = Rows(co, c, cs, x)
    <3>1. ASSUME NEW k \in Rows(co, c, u, x) PROVE k \in Rows(co, c, cs, x)
      <4>1. k \in 1..Len(u) /\ NamedIn(co, c, u[k], x)
        BY <1>2 DEF Rows
      <4>2. k \in 1..Len(cs)
        BY <1>2, <1>4, <4>1
      <4> QED
        BY <1>1, <1>2, <4>1, <4>2 DEF Rows
    <3>2. ASSUME NEW k \in Rows(co, c, cs, x) PROVE k \in Rows(co, c, u, x)
      <4>1. k \in 1..Len(cs) /\ NamedIn(co, c, cs[k], x)
        BY <1>1 DEF Rows
      <4>2. k \in 1..Len(u) /\ u[k] = cs[k]
        BY <1>1, <1>2, <4>1
      <4> QED
        BY <1>2, <4>1, <4>2 DEF Rows
    <3> QED
      BY <3>1, <3>2
  <2>3. \A m \in Rows(co, c, cs, x) : u[m] = cs[m]
    BY <1>1, <1>2 DEF Rows
  <2>4. ReportedAs(co, c, u, x, T)
    BY <2>1, <2>2, <2>3 DEF ReportedAs
  <2> QED
    BY <2>4
<1>6. ReportedAs(co, c, u, z, S)
  <2>1. ASSUME NEW k \in Rows(co, c, u, z) PROVE \E m \in 1..Len(rows) : k = Len(cs) + m /\ u[k] = rows[m]
    <3>1. k \in 1..Len(u) /\ NamedIn(co, c, u[k], z)
      BY <1>2 DEF Rows
    <3> QED
      BY <1>2, <1>3, <3>1
  <2>2. ASSUME NEW m \in 1..Len(rows) PROVE Len(cs) + m \in Rows(co, c, u, z) /\ u[Len(cs) + m] = rows[m]
    <3>1. Len(cs) + m \in 1..Len(u) /\ u[Len(cs) + m] = rows[m]
      BY <1>1, <1>2
    <3>2. NamedIn(co, c, rows[m], z)
      BY <1>1 DEF RowsFor, NamedIn
    <3> QED
      BY <1>2, <3>1, <3>2 DEF Rows
  <2>3. ASSUME NEW k \in Rows(co, c, u, z)
        PROVE  u[k].line \in S /\ u[k] = Case(co[z[1]], FileIn(co, c, z), u[k].line, c.col)
    BY <1>1, <2>1 DEF RowsFor
  <2>4. ASSUME NEW k \in S PROVE \E m \in Rows(co, c, u, z) : u[m].line = k
    <3>1. PICK m \in 1..Len(rows) : rows[m].line = k
      BY <1>1 DEF RowsFor
    <3> QED
      BY <2>2, <3>1
  <2>5. ASSUME NEW k \in Rows(co, c, u, z), NEW l \in Rows(co, c, u, z), u[k].line = u[l].line PROVE k = l
    <3>1. PICK m \in 1..Len(rows) : k = Len(cs) + m /\ u[k] = rows[m]
      BY <2>1
    <3>2. PICK n \in 1..Len(rows) : l = Len(cs) + n /\ u[l] = rows[n]
      BY <2>1
    <3>3. m = n
      BY <1>1, <2>5, <3>1, <3>2 DEF RowsFor
    <3> QED
      BY <3>1, <3>2, <3>3
  <2> QED
    BY <2>3, <2>4, <2>5 DEF ReportedAs
<1> QED
  BY <1>5, <1>6 DEF Booked

LEMMA KnownOne ==
  ASSUME NEW co, NEW c, NEW cs, IsList(cs), NEW seen, NEW z, Known(co, c, cs, seen),
         NEW rows, IsList(rows), \A m \in DOMAIN rows : NamedIn(co, c, rows[m], z),
         NEW u, AreJoined(cs, rows, u)
  PROVE  Known(co, c, u, seen \cup {z})
<1>1. /\ Len(cs) \in Nat /\ DOMAIN cs = 1..Len(cs)
      /\ Len(rows) \in Nat /\ DOMAIN rows = 1..Len(rows)
      /\ DOMAIN u = 1..Len(u)
  BY ListFacts DEF AreJoined
<1>2. ASSUME NEW k \in DOMAIN u PROVE \E x \in seen \cup {z} : NamedIn(co, c, u[k], x)
  <2>1. CASE k \in 1..Len(cs)
    <3>1. u[k] = cs[k]
      BY <2>1 DEF AreJoined
    <3> QED
      BY <1>1, <2>1, <3>1 DEF Known
  <2>2. CASE k \notin 1..Len(cs)
    <3>1. PICK m \in 1..Len(rows) : k = Len(cs) + m
      BY <1>1, <2>2 DEF AreJoined
    <3>2. u[k] = rows[m]
      BY <3>1 DEF AreJoined
    <3> QED
      BY <1>1, <3>2
  <2> QED
    BY <2>1, <2>2
<1> QED
  BY <1>2 DEF Known
-----------------------------------------------------------------------------
(***************************************************************************)
(* The rows of overflow_report: with the declaration around each line.     *)
(***************************************************************************)
LEMMA LeastOf ==
  ASSUME NEW S \in SUBSET Nat, S # {}
  PROVE  Min(S) \in S /\ \A y \in S : Min(S) <= y
<1>1. \E x \in S : \A y \in S : x <= y
  BY LeastNat
<1> QED
  BY <1>1 DEF Min

LEMMA RangeEncloses ==
  ASSUME NEW file, IsFile(file), NEW k \in DOMAIN file.after
  PROVE  EnclosingRange(file, k).from <= k /\ k <= EnclosingRange(file, k).to
<1>1. Len(file.after) \in Nat /\ DOMAIN file.after = 1..Len(file.after) /\ k \in Nat
  BY DEF IsFile
<1>2. DOMAIN file.decls \in SUBSET Nat
  BY DEF IsFile
<1> DEFINE Of(kind) == {n \in DOMAIN file.decls :
                          /\ file.decls[n].kind = kind
                          /\ file.decls[n].from <= k /\ k <= file.decls[n].to}
           First(kind) == LET d == file.decls[Min(Of(kind))] IN
                          [kind |-> kind, from |-> d.doc, to |-> d.to]
<1>3. ASSUME NEW kind, Of(kind) # {} PROVE First(kind).from <= k /\ k <= First(kind).to
  <2>1. PICK n : n = Min(Of(kind))
    OBVIOUS
  <2>2. n \in Of(kind)
    <3>1. Of(kind) \in SUBSET Nat
      BY <1>2
    <3> HIDE DEF Of
    <3> QED
      BY <1>3, <2>1, <3>1, LeastOf
  <2>3. PICK d : d = file.decls[n]
    OBVIOUS
  <2>4. d.from <= k /\ k <= d.to /\ n \in DOMAIN file.decls
    BY <2>2, <2>3
  <2>5. d \in ToSet(file.decls)
    BY <2>3, <2>4 DEF ToSet
  <2>6. d.doc \in Nat /\ d.from \in Nat /\ d.to \in Nat /\ d.doc <= d.from
    BY <2>5 DEF IsFile
  <2>7. First(kind) = [kind |-> kind, from |-> d.doc, to |-> d.to]
    BY <2>1, <2>3
  <2> HIDE DEF First
  <2> QED
    BY <1>1, <2>4, <2>6, <2>7
<1>4. EnclosingRange(file, k) =
        IF Of("function") # {} THEN First("function")
        ELSE IF Of("declaration") # {} THEN First("declaration")
        ELSE IF Of("comment") # {} THEN First("comment")
        ELSE [kind |-> "file", from |-> 1, to |-> Len(file.after)]
  BY DEF EnclosingRange
<1> HIDE DEF Of, First
<1>5. CASE Of("function") # {}
  BY <1>3, <1>4, <1>5
<1>6. CASE Of("function") = {} /\ Of("declaration") # {}
  BY <1>3, <1>4, <1>6
<1>7. CASE Of("function") = {} /\ Of("declaration") = {} /\ Of("comment") # {}
  BY <1>3, <1>4, <1>7
<1>8. CASE Of("function") = {} /\ Of("declaration") = {} /\ Of("comment") = {}
  BY <1>1, <1>4, <1>8
<1> QED
  BY <1>5, <1>6, <1>7, <1>8

Fits(cs) ==
  \A m \in DOMAIN cs :
    cs[m].snippet.kind # "none" => cs[m].snippet.from <= cs[m].line /\ cs[m].line <= cs[m].snippet.to

Ordered(cs) ==
  \A m \in DOMAIN cs : m > 1 /\ cs[m - 1].file = cs[m].file => cs[m - 1].line < cs[m].line

EntriesFor(repo, file, rows) ==
  /\ IsList(rows) /\ Fits(rows) /\ Ordered(rows)
  /\ \A m \in DOMAIN rows : rows[m].repo = repo.base /\ rows[m].file = file.path

LEMMA EntriesAreRows ==
  ASSUME NEW repo, NEW file, IsFile(file), NEW S \in SUBSET DOMAIN file.after, NEW col,
         NEW rows, rows = Entries(repo, file, S, col)
  PROVE  EntriesFor(repo, file, rows)
<1>1. PICK s : s = InOrder(file, S)
  OBVIOUS
<1>2. s \in Seq(Nat) /\ Rising(s) /\ ToSet(s) = S
  BY <1>1, LinesInOrder
<1>3. Len(s) \in Nat /\ DOMAIN s = 1..Len(s) /\ \A m \in 1..Len(s) : s[m] \in DOMAIN file.after
  BY <1>2 DEF ToSet
<1>4. PICK snips : snips = Snippets(file, s, col)
  OBVIOUS
<1>5. rows = [m \in 1..Len(s) |->
                [repo |-> repo.base, file |-> file.path, line |-> s[m],
                 width |-> file.after[s[m]].width, text |-> file.after[s[m]].text,
                 snippet |-> snips[m]]]
  BY <1>1, <1>3, <1>4 DEF Entries
<1>6. DOMAIN rows = 1..Len(s)
      /\ \A m \in 1..Len(s) : /\ rows[m].repo = repo.base /\ rows[m].file = file.path
                             /\ rows[m].line = s[m] /\ rows[m].snippet = snips[m]
  BY <1>5
<1>7. IsList(rows)
  <2>1. rows \in [1..Len(s) -> ToSet(rows)]
    BY <1>3, <1>5 DEF ToSet
  <2>2. PICK Y : Y = ToSet(rows)
    OBVIOUS
  <2> QED
    BY <1>3, <2>1, <2>2 DEF IsList
<1>8. ASSUME NEW m \in 1..Len(s), snips[m].kind # "none"
      PROVE  snips[m].from <= s[m] /\ s[m] <= snips[m].to
  <2>1. snips[m] = IF file.parsesAfter THEN Snippet(file, s[m], col)
                   ELSE [from |-> 0, to |-> 0, kind |-> "none", reproduces |-> FALSE]
    BY <1>3, <1>4 DEF Snippets
  <2>2. CASE file.parsesAfter
    <3>1. PICK d : d = EnclosingRange(file, s[m])
      OBVIOUS
    <3>2. d.from <= s[m] /\ s[m] <= d.to
      BY <1>3, <3>1, RangeEncloses
    <3>3. snips[m].from = d.from /\ snips[m].to = d.to
      BY <2>1, <2>2, <3>1 DEF Snippet
    <3> QED
      BY <3>2, <3>3
  <2>3. CASE ~file.parsesAfter
    BY <1>8, <2>1, <2>3
  <2> QED
    BY <2>2, <2>3
<1>9. Fits(rows)
  BY <1>6, <1>8 DEF Fits
<1>10. Ordered(rows)
  <2>1. ASSUME NEW m \in 1..Len(s), m > 1 PROVE s[m - 1] < s[m]
    <3>1. m - 1 \in 1..Len(s) /\ m - 1 < m
      BY <1>3, <2>1
    <3> QED
      BY <1>2, <3>1 DEF Rising
  <2>2. ASSUME NEW m \in 1..Len(s), m > 1 PROVE m - 1 \in 1..Len(s)
    BY <1>3, <2>2
  <2> QED
    BY <1>6, <2>1, <2>2 DEF Ordered
<1> QED
  BY <1>1, <1>6, <1>7, <1>9, <1>10 DEF EntriesFor

LEMMA EntriesJoined ==
  ASSUME NEW cs, IsList(cs), Fits(cs), Ordered(cs),
         NEW rows, IsList(rows), Fits(rows), Ordered(rows),
         \A k \in DOMAIN cs, m \in DOMAIN rows : cs[k].file # rows[m].file,
         NEW u, AreJoined(cs, rows, u)
  PROVE  Fits(u) /\ Ordered(u)
<1>1. /\ Len(cs) \in Nat /\ DOMAIN cs = 1..Len(cs)
      /\ Len(rows) \in Nat /\ DOMAIN rows = 1..Len(rows)
      /\ DOMAIN u = 1..Len(u) /\ Len(u) = Len(cs) + Len(rows)
      /\ \A k \in 1..Len(cs) : u[k] = cs[k]
      /\ \A k \in 1..Len(rows) : u[Len(cs) + k] = rows[k]
      /\ \A k \in 1..Len(u) : k \in 1..Len(cs) \/ \E m \in 1..Len(rows) : k = Len(cs) + m
  BY ListFacts DEF AreJoined
<1>2. Fits(u)
  <2>1. SUFFICES ASSUME NEW k \in 1..Len(u), u[k].snippet.kind # "none"
                 PROVE  u[k].snippet.from <= u[k].line /\ u[k].line <= u[k].snippet.to
    BY <1>1 DEF Fits
  <2>2. CASE k \in 1..Len(cs)
    BY <1>1, <2>1, <2>2 DEF Fits
  <2>3. CASE k \notin 1..Len(cs)
    <3>1. PICK m \in 1..Len(rows) : k = Len(cs) + m
      BY <1>1, <2>3
    <3>2. u[k] = rows[m]
      BY <1>1, <3>1
    <3> QED
      BY <1>1, <2>1, <3>2 DEF Fits
  <2> QED
    BY <2>2, <2>3
<1>3. Ordered(u)
  <2>1. SUFFICES ASSUME NEW k \in 1..Len(u), k > 1, u[k - 1].file = u[k].file
                 PROVE  u[k - 1].line < u[k].line
    BY <1>1 DEF Ordered
  <2>2. CASE k \in 1..Len(cs)
    <3>1. k - 1 \in 1..Len(cs) /\ u[k] = cs[k] /\ u[k - 1] = cs[k - 1]
      BY <1>1, <2>1, <2>2
    <3> QED
      BY <1>1, <2>1, <2>2, <3>1 DEF Ordered
  <2>3. CASE k \notin 1..Len(cs)
    <3>1. PICK m \in 1..Len(rows) : k = Len(cs) + m
      BY <1>1, <2>3
    <3>2. u[k] = rows[m]
      BY <1>1, <3>1
    <3>3. CASE m = 1
      <4>1. k - 1 \in 1..Len(cs)
        BY <1>1, <2>1, <3>1, <3>3
      <4>2. u[k - 1] = cs[k - 1]
        BY <1>1, <4>1
      <4>3. cs[k - 1].file # rows[m].file
        BY <1>1, <4>1
      <4> QED
        BY <2>1, <3>2, <4>2, <4>3
    <3>4. CASE m > 1
      <4>1. m - 1 \in 1..Len(rows) /\ k - 1 = Len(cs) + (m - 1)
        BY <1>1, <3>1, <3>4
      <4>2. u[k - 1] = rows[m - 1]
        BY <1>1, <4>1
      <4> QED
        BY <1>1, <2>1, <3>2, <3>4, <4>2 DEF Ordered
    <3> QED
      BY <3>1, <3>3, <3>4
  <2> QED
    BY <2>2, <2>3
<1> QED
  BY <1>2, <1>3
-----------------------------------------------------------------------------
(***************************************************************************)
(* Redaction.                                                              *)
(***************************************************************************)
SameRecord(a, b) == a.repo = b.repo /\ a.file = b.file /\ a.line = b.line

IsCase(rec) ==
  /\ rec = [repo |-> rec.repo, file |-> rec.file, line |-> rec.line, width |-> rec.width,
            text |-> rec.text, kind |-> rec.kind, syntax |-> rec.syntax, node |-> rec.node,
            sound |-> rec.sound]
  /\ \A g \in ToSet(rec.text) : g = [class |-> g.class, glyph |-> g.glyph]

AllCases(co, cs) == \A k \in DOMAIN cs : IsCase(cs[k]) /\ \E n \in DOMAIN co : cs[k].repo = co[n].base

Hidden(co, cs) ==
  /\ \A k \in DOMAIN cs :
       /\ cs[k].repo \in {<<"repo", n>> : n \in DOMAIN co} /\ cs[k].file[1] = "file"
       /\ \A g \in ToSet(cs[k].text) : g.class \in Masked => g.glyph \in {"a", "A", "0"}
  /\ \A k, m \in DOMAIN cs : cs[k].file = cs[m].file => cs[k].repo = cs[m].repo

IDsDiffer(cs) == \A k, m \in DOMAIN cs : CaseID(cs[k]) = CaseID(cs[m]) => k = m

LEMMA RecordsDiffer ==
  ASSUME NEW co, NEW c, NEW cs, NEW seen \in SUBSET TakenIn(co, c), Known(co, c, cs, seen), Booked(co, c, cs, seen)
  PROVE  \A k, m \in DOMAIN cs : SameRecord(cs[k], cs[m]) => k = m
<1> SUFFICES ASSUME NEW k \in DOMAIN cs, NEW m \in DOMAIN cs, SameRecord(cs[k], cs[m])
             PROVE  k = m
  OBVIOUS
<1>1. PICK x \in seen : NamedIn(co, c, cs[k], x)
  BY DEF Known
<1>2. NamedIn(co, c, cs[m], x)
  BY <1>1 DEF NamedIn, SameRecord
<1>3. k \in Rows(co, c, cs, x) /\ m \in Rows(co, c, cs, x)
  BY <1>1, <1>2 DEF Rows
<1> QED
  BY <1>3 DEF Booked, ReportedAs, SameRecord

LEMMA RowsAreCases ==
  ASSUME NEW co, NEW n \in DOMAIN co, NEW file, IsFile(file), NEW S \in SUBSET DOMAIN file.after, NEW col,
         NEW rows, RowsFor(co[n], file, S, col, rows)
  PROVE  AllCases(co, rows)
<1> SUFFICES ASSUME NEW k \in DOMAIN rows
             PROVE  IsCase(rows[k]) /\ rows[k].repo = co[n].base
  BY DEF AllCases
<1>1. PICK line : line = rows[k].line
  OBVIOUS
<1>2. line \in DOMAIN file.after /\ rows[k].repo = co[n].base /\ rows[k] = Case(co[n], file, line, col)
  BY <1>1 DEF RowsFor
<1>3. file.after[line] \in ToSet(file.after)
  BY <1>2 DEF ToSet
<1>4. rows[k].text = file.after[line].text
  BY <1>2 DEF Case
<1>5. \A g \in ToSet(rows[k].text) : g = [class |-> g.class, glyph |-> g.glyph]
  BY <1>3, <1>4 DEF IsFile
<1>6. rows[k] = [repo |-> rows[k].repo, file |-> rows[k].file, line |-> rows[k].line,
                 width |-> rows[k].width, text |-> rows[k].text, kind |-> rows[k].kind,
                 syntax |-> rows[k].syntax, node |-> rows[k].node, sound |-> rows[k].sound]
  BY <1>2 DEF Case
<1> QED
  BY <1>2, <1>5, <1>6 DEF IsCase

LEMMA CasesJoined ==
  ASSUME NEW co, NEW cs, IsList(cs), AllCases(co, cs), NEW rows, IsList(rows), AllCases(co, rows),
         NEW u, AreJoined(cs, rows, u)
  PROVE  AllCases(co, u)
<1>1. /\ DOMAIN cs = 1..Len(cs) /\ DOMAIN rows = 1..Len(rows) /\ DOMAIN u = 1..Len(u)
      /\ \A k \in 1..Len(cs) : u[k] = cs[k]
      /\ \A k \in 1..Len(rows) : u[Len(cs) + k] = rows[k]
      /\ \A k \in 1..Len(u) : k \in 1..Len(cs) \/ \E m \in 1..Len(rows) : k = Len(cs) + m
  BY ListFacts DEF AreJoined
<1>2. ASSUME NEW k \in DOMAIN u
      PROVE  (\E m \in DOMAIN cs : u[k] = cs[m]) \/ (\E m \in DOMAIN rows : u[k] = rows[m])
  BY <1>1
<1>3. ASSUME NEW k \in DOMAIN u PROVE IsCase(u[k]) /\ \E n \in DOMAIN co : u[k].repo = co[n].base
  BY <1>2 DEF AllCases
<1> QED
  BY <1>3 DEF AllCases

(***************************************************************************)
(* The number in an alias is that of a repository with this last name.     *)
(***************************************************************************)
LEMMA AliasOfBase ==
  ASSUME NEW n \in DOMAIN corpus, NEW l \in Nat, DOMAIN corpus = 1..l
  PROVE  \E h \in DOMAIN corpus :
            RepoAlias(corpus[n].base) = <<"repo", h>> /\ corpus[h].base = corpus[n].base
<1>1. PICK T : T = {k \in DOMAIN corpus : corpus[k].base = corpus[n].base}
  OBVIOUS
<1>2. T \subseteq 0..l /\ T # {}
  BY <1>1
<1>3. Max(T) \in T
  BY <1>2, MaxFacts
<1>4. RepoAlias(corpus[n].base) = <<"repo", Max(T)>>
  BY <1>1 DEF RepoAlias
<1> QED
  BY <1>1, <1>3, <1>4

LEMMA GlyphsRedacted ==
  ASSUME NEW text, \A g \in ToSet(text) : g = [class |-> g.class, glyph |-> g.glyph]
  PROVE  \A g \in ToSet(RedactSourceShape(text)) :
           g.class \in Masked => g.glyph \in {"a", "A", "0"}
<1>1. PICK shape : shape = RedactSourceShape(text)
  OBVIOUS
<1>2. SUFFICES ASSUME NEW k \in DOMAIN text
               PROVE  shape[k].class \in Masked => shape[k].glyph \in {"a", "A", "0"}
  BY <1>1 DEF RedactSourceShape, ToSet
<1>3. PICK g : g = text[k]
  OBVIOUS
<1>4. g = [class |-> g.class, glyph |-> g.glyph]
  BY <1>3 DEF ToSet
<1>5. PICK h : h = RedactGlyph(g)
  OBVIOUS
<1>6. shape[k] = h
  BY <1>1, <1>3, <1>5 DEF RedactSourceShape
<1>7. CASE g.class = "lower"
  <2>1. h = [g EXCEPT !.glyph = "a"]
    BY <1>5, <1>7 DEF RedactGlyph
  <2> QED
    BY <1>4, <1>6, <2>1
<1>8. CASE g.class = "upper"
  <2>1. h = [g EXCEPT !.glyph = "A"]
    BY <1>5, <1>8 DEF RedactGlyph
  <2> QED
    BY <1>4, <1>6, <2>1
<1>9. CASE g.class = "digit"
  <2>1. h = [g EXCEPT !.glyph = "0"]
    BY <1>5, <1>9 DEF RedactGlyph
  <2> QED
    BY <1>4, <1>6, <2>1
<1>10. CASE g.class \notin {"lower", "upper", "digit"}
  <2>1. h = g
    BY <1>5, <1>10 DEF RedactGlyph
  <2> QED
    BY <1>6, <1>10, <2>1 DEF Masked
<1> QED
  BY <1>7, <1>8, <1>9, <1>10

LEMMA Redacting ==
  ASSUME NEW l \in Nat, DOMAIN corpus = 1..l, NEW all, IsList(all), AllCases(corpus, all)
  PROVE  /\ Hidden(corpus, RedactReport(all))
         /\ (\A k, m \in DOMAIN all : SameRecord(all[k], all[m]) => k = m) => IDsDiffer(RedactReport(all))
<1>1. PICK cs : cs = RedactReport(all)
  OBVIOUS
<1>2. DOMAIN cs = DOMAIN all /\ DOMAIN all \in SUBSET Nat
  <2>1. DOMAIN cs = DOMAIN all
    BY <1>1 DEF RedactReport
  <2>2. Len(all) \in Nat /\ DOMAIN all = 1..Len(all)
    BY ListFacts
  <2> QED
    BY <2>1, <2>2
<1>3. ASSUME NEW k \in DOMAIN all
      PROVE  /\ cs[k].repo = RepoAlias(all[k].repo) /\ cs[k].file = FileAlias(all, k)
             /\ cs[k].text = RedactSourceShape(all[k].text) /\ cs[k].line = all[k].line
  <2>1. PICK a, b, e, t : a = all[k] /\ b = RepoAlias(a.repo) /\ e = FileAlias(all, k)
                          /\ t = RedactSourceShape(a.text)
    OBVIOUS
  <2>2. a = [repo |-> a.repo, file |-> a.file, line |-> a.line, width |-> a.width,
            text |-> a.text, kind |-> a.kind, syntax |-> a.syntax, node |-> a.node,
            sound |-> a.sound]
    BY <2>1 DEF AllCases, IsCase
  <2>3. cs[k] = [a EXCEPT !.repo = b, !.file = e, !.text = t]
    BY <1>1, <2>1 DEF RedactReport
  <2>4. cs[k].repo = b /\ cs[k].file = e /\ cs[k].text = t /\ cs[k].line = a.line
    BY <2>2, <2>3
  <2> QED
    BY <2>1, <2>4
<1> DEFINE Same(k) == {m \in DOMAIN all : /\ all[m].file = all[k].file
                                          /\ RepoAlias(all[m].repo) = RepoAlias(all[k].repo)}
<1>4. ASSUME NEW k \in DOMAIN all
      PROVE  FileAlias(all, k) = <<"file", Min(Same(k))>> /\ Min(Same(k)) \in Same(k)
  <2>1. FileAlias(all, k) = <<"file", Min(Same(k))>>
    BY DEF FileAlias
  <2>2. k \in Same(k) /\ Same(k) \in SUBSET Nat
    BY <1>2
  <2> HIDE DEF Same
  <2>3. Min(Same(k)) \in Same(k)
    BY <2>2, LeastOf
  <2> QED
    BY <2>1, <2>3
<1>5. ASSUME NEW k \in DOMAIN all, NEW m \in DOMAIN all, cs[k].file = cs[m].file
      PROVE  cs[k].repo = cs[m].repo /\ all[k].file = all[m].file
  <2>1. PICK n : n = Min(Same(k))
    OBVIOUS
  <2>2. Min(Same(m)) = n
    BY <1>3, <1>4, <1>5, <2>1
  <2>3. n \in Same(k) /\ n \in Same(m)
    BY <1>4, <2>1, <2>2
  <2> QED
    BY <1>3, <2>3
<1>6. ASSUME NEW k \in DOMAIN all
      PROVE  \E h \in DOMAIN corpus : RepoAlias(all[k].repo) = <<"repo", h>> /\ corpus[h].base = all[k].repo
  <2>1. PICK n \in DOMAIN corpus : all[k].repo = corpus[n].base
    BY DEF AllCases
  <2> QED
    BY <2>1, AliasOfBase
<1>7. ASSUME NEW k \in DOMAIN all, NEW m \in DOMAIN all, cs[k].repo = cs[m].repo
      PROVE  all[k].repo = all[m].repo
  <2>1. PICK h \in DOMAIN corpus : cs[k].repo = <<"repo", h>> /\ corpus[h].base = all[k].repo
    BY <1>3, <1>6
  <2>2. PICK j \in DOMAIN corpus : cs[m].repo = <<"repo", j>> /\ corpus[j].base = all[m].repo
    BY <1>3, <1>6
  <2>3. cs[k].repo[2] = h /\ cs[m].repo[2] = j
    BY <2>1, <2>2
  <2> QED
    BY <1>7, <2>1, <2>2, <2>3
<1>8. ASSUME \A k, m \in DOMAIN all : SameRecord(all[k], all[m]) => k = m,
             NEW k \in DOMAIN all, NEW m \in DOMAIN all, CaseID(cs[k]) = CaseID(cs[m])
      PROVE  k = m
  <2>1. cs[k].repo = cs[m].repo /\ cs[k].file = cs[m].file /\ cs[k].line = cs[m].line
    BY <1>8 DEF CaseID
  <2>2. SameRecord(all[k], all[m])
    BY <1>3, <1>5, <1>7, <2>1 DEF SameRecord
  <2> QED
    BY <1>8, <2>2
<1>9. ASSUME NEW k \in DOMAIN all
      PROVE  /\ cs[k].repo \in {<<"repo", n>> : n \in DOMAIN corpus} /\ cs[k].file[1] = "file"
             /\ \A g \in ToSet(cs[k].text) : g.class \in Masked => g.glyph \in {"a", "A", "0"}
  <2>1. cs[k].repo \in {<<"repo", n>> : n \in DOMAIN corpus}
    BY <1>3, <1>6
  <2>2. cs[k].file[1] = "file"
    <3>1. cs[k].file = <<"file", Min(Same(k))>>
      BY <1>3, <1>4
    <3> QED
      BY <3>1
  <2>3. PICK t : t = all[k].text
    OBVIOUS
  <2>4. \A g \in ToSet(t) : g = [class |-> g.class, glyph |-> g.glyph]
    BY <2>3 DEF AllCases, IsCase
  <2>5. \A g \in ToSet(RedactSourceShape(t)) : g.class \in Masked => g.glyph \in {"a", "A", "0"}
    BY <2>4, GlyphsRedacted
  <2> QED
    BY <1>3, <2>1, <2>2, <2>3, <2>5
<1> HIDE DEF Same
<1>10. Hidden(corpus, cs)
  BY <1>2, <1>5, <1>9 DEF Hidden
<1>11. (\A k, m \in DOMAIN all : SameRecord(all[k], all[m]) => k = m) => IDsDiffer(cs)
  BY <1>2, <1>8 DEF IDsDiffer
<1> QED
  BY <1>1, <1>10, <1>11
-----------------------------------------------------------------------------
(***************************************************************************)
(* A line that was nowhere before counts as changed, ranks above all that  *)
(* did not change, and the cap keeps it or a full list of others.          *)
(***************************************************************************)
LEMMA MatchedAreEqual ==
  ASSUME NEW before, NEW after, NEW p \in MatchedLines(before, after)
  PROVE  p \in EqualLines(before, after)
BY DEF MatchedLines

LEMMA NewLineChanged ==
  ASSUME NEW file, IsFile(file), NEW k \in DOMAIN file.after,
         \A m \in DOMAIN file.before : file.before[m].text # file.after[k].text
  PROVE  k \in ChangedLines(file.before, file.after, 0)
<1>1. PICK before, after : before = file.before /\ after = file.after
  OBVIOUS
<1>2. Len(after) \in Nat /\ DOMAIN after = 1..Len(after) /\ k \in 1..Len(after)
  BY <1>1 DEF IsFile
<1>3. PICK pairs : pairs = MatchedLines(before, after)
  OBVIOUS
<1>4. ASSUME NEW p \in pairs PROVE p[2] # k
  <2>1. p \in EqualLines(before, after)
    BY <1>3, MatchedAreEqual
  <2>2. p[1] \in DOMAIN before /\ before[p[1]].text = after[p[2]].text
    BY <2>1 DEF EqualLines
  <2> QED
    BY <1>1, <2>2
<1>5. k \in DOMAIN after \ {p[2] : p \in pairs}
  BY <1>2, <1>4
<1>6. k \in 1..(Len(after) + 0) /\ k - 0 <= k /\ k <= k + 0 /\ ~(0 > 0)
  BY <1>2
<1> QED
  BY <1>1, <1>3, <1>5, <1>6 DEF ChangedLines

NewKinds == {"new_overflow", "touched_overflow"}

LEMMA ChangedKind ==
  ASSUME NEW file, IsFile(file), NEW k \in DOMAIN file.after,
         k \in ChangedLines(file.before, file.after, 0), NEW col \in Nat
  PROVE  Kind(file, k, col) \in NewKinds
<1>1. PICK width, ow : width = file.after[k].width /\ ow = OriginalWidth(file, k)
  OBVIOUS
<1>2. ow \in Nat
  <2>1. CASE k \in DOMAIN file.before
    <3>1. file.before[k] \in ToSet(file.before)
      BY <2>1 DEF ToSet
    <3> QED
      BY <1>1, <2>1, <3>1 DEF OriginalWidth, IsFile
  <2> QED
    BY <1>1, <2>1 DEF OriginalWidth
<1>3. Kind(file, k, col) = IF ow <= col THEN "new_overflow" ELSE "touched_overflow"
  <2>1. CASE ow <= col
    BY <1>1, <1>2, <2>1 DEF Kind, ClassifyCase
  <2>2. CASE ~(ow <= col)
    <3>1. ow > col
      BY <1>2, <2>2
    <3> QED
      BY <1>1, <2>2, <3>1 DEF Kind, ClassifyCase
  <2> QED
    BY <2>1, <2>2
<1> QED
  BY <1>3 DEF NewKinds

LEMMA Weights ==
  ASSUME NEW kind
  PROVE  /\ KindWeight(kind) \in 0..1000
         /\ kind \in NewKinds => KindWeight(kind) >= 500
         /\ kind \notin NewKinds => KindWeight(kind) <= 250
<1>1. CASE kind = "new_overflow"
  BY <1>1 DEF KindWeight, NewKinds
<1>2. CASE kind = "touched_overflow"
  BY <1>2 DEF KindWeight, NewKinds
<1>3. CASE kind = "shifted_overflow"
  BY <1>3 DEF KindWeight, NewKinds
<1>4. CASE kind = "moved_existing_overflow"
  BY <1>4 DEF KindWeight, NewKinds
<1>5. CASE kind \notin {"new_overflow", "touched_overflow", "shifted_overflow", "moved_existing_overflow"}
  BY <1>5 DEF KindWeight, NewKinds
<1> QED
  BY <1>1, <1>2, <1>3, <1>4, <1>5

LEMMA OutrankedByWidth ==
  ASSUME NEW repo, NEW file, IsFile(file), NEW k \in DOMAIN file.after, NEW m \in DOMAIN file.after,
         NEW col \in Nat, Kind(file, k, col) \in NewKinds,
         CaseRank(Case(repo, file, m, col), col) >= CaseRank(Case(repo, file, k, col), col)
  PROVE  \/ Kind(file, m, col) \in NewKinds
         \/ file.after[m].width >= file.after[k].width + 250
<1>1. PICK a, b, va, vb, u : /\ a = file.after[m].width /\ b = file.after[k].width
                            /\ va = KindWeight(Kind(file, m, col)) /\ vb = KindWeight(Kind(file, k, col))
                            /\ u = IF Sound(file) THEN 0 ELSE 2000
  OBVIOUS
<1>2. a \in Nat /\ b \in Nat
  <2>1. file.after[m] \in ToSet(file.after) /\ file.after[k] \in ToSet(file.after)
    BY DEF ToSet
  <2> QED
    BY <1>1, <2>1 DEF IsFile
<1>3. va \in Nat /\ vb \in Nat /\ u \in Nat /\ vb >= 500
  BY <1>1, Weights
<1>4. CaseRank(Case(repo, file, m, col), col) = a - col + va + u
  BY <1>1 DEF CaseRank, Case
<1>5. CaseRank(Case(repo, file, k, col), col) = b - col + vb + u
  BY <1>1 DEF CaseRank, Case
<1>6. Kind(file, m, col) \notin NewKinds => va <= 250
  BY <1>1, Weights
<1>7. a - col + va + u >= b - col + vb + u
  BY <1>4, <1>5
<1> QED
  BY <1>1, <1>2, <1>3, <1>6, <1>7

LEMMA CapIsReached ==
  ASSUME NEW lines, IsFiniteSet(lines), NEW cap \in Nat, NEW S \in SUBSET lines, S # lines,
         Cardinality(S) = Min({cap, Cardinality(lines)})
  PROVE  Cardinality(S) = cap
<1>1. Cardinality(lines) \in Nat
  BY FS_CardinalityType
<1>2. Cardinality(S) # Cardinality(lines)
  BY FS_Subset
<1>3. {cap, Cardinality(lines)} \in SUBSET Nat /\ {cap, Cardinality(lines)} # {}
  BY <1>1
<1>4. Min({cap, Cardinality(lines)}) \in {cap, Cardinality(lines)}
  BY <1>3, LeastOf
<1> QED
  BY <1>2, <1>4

LEMMA AsManyRows ==
  ASSUME NEW co, NEW c, NEW cs, NEW x, NEW S, IsFiniteSet(S), ReportedAs(co, c, cs, x, S)
  PROVE  Cardinality(Rows(co, c, cs, x)) = Cardinality(S)
<1>1. PICK R : R = Rows(co, c, cs, x)
  OBVIOUS
<1>2. PICK f : f = [m \in R |-> cs[m].line]
  OBVIOUS
<1>3. f \in [R -> S] /\ \A m, n \in R : f[m] = f[n] => m = n
  BY <1>1, <1>2 DEF ReportedAs
<1>4. \A k \in S : \E m \in R : f[m] = k
  BY <1>1, <1>2 DEF ReportedAs
<1>5. f \in Bijection(R, S)
  BY <1>3, <1>4 DEF Bijection, Injection, Surjection, IsInjective
<1>6. ExistsBijection(S, R)
  <2>1. ExistsBijection(R, S)
    BY <1>5 DEF ExistsBijection
  <2> QED
    BY <2>1, Fun_ExistsBijSymmetric
<1> QED
  BY <1>1, <1>6, FS_Bijection

LEMMA NewLinesKept ==
  ASSUME NEW co \in Corpora, NEW c \in Configs, NEW x \in TakenIn(co, c),
         NEW file, file = FileIn(co, c, x), file.readable, file.formats,
         NEW S \in KeptIn(co, c, x), NEW cs, ReportedAs(co, c, cs, x, S),
         NEW k \in FindOverflows(file.after, c.col),
         \A m \in DOMAIN file.before : file.before[m].text # file.after[k].text
  PROVE  \/ \E m \in Rows(co, c, cs, x) : cs[m].line = k
         \/ /\ Cardinality(Rows(co, c, cs, x)) = c.cap
            /\ \A m \in Rows(co, c, cs, x) :
                 \/ cs[m].kind \in NewKinds
                 \/ cs[m].width >= file.after[k].width + 250
<1>1. PICK col, repo, lines : col = c.col /\ repo = co[x[1]] /\ lines = CaseLines(file, col)
  OBVIOUS
<1>2. IsFile(file) /\ col \in Nat /\ c.cap \in Nat
  BY <1>1, TakenFacts, ReportsAssumption
<1>3. k \in DOMAIN file.after
  BY DEF FindOverflows
<1>4. Kind(file, k, col) \in NewKinds
  BY <1>2, <1>3, NewLineChanged, ChangedKind
<1>5. k \in lines
  BY <1>1, <1>4 DEF CaseLines, NewKinds
<1>6. S \in CapByRank(repo, file, c)
  BY <1>1 DEF KeptIn
<1>7. lines \in SUBSET DOMAIN file.after
  BY <1>1 DEF CaseLines, FindOverflows
<1>8. IsFiniteSet(lines)
  <2>1. Len(file.after) \in Nat /\ DOMAIN file.after = 1..Len(file.after)
    BY <1>2 DEF IsFile
  <2>2. PICK n \in Nat : n = Len(file.after)
    BY <2>1
  <2>3. IsFiniteSet(1..n)
    BY FS_Interval
  <2>4. lines \in SUBSET (1..n)
    BY <1>7, <2>1, <2>2
  <2> QED
    BY <2>3, <2>4, FS_Subset
<1>9. SUFFICES ASSUME k \notin S
               PROVE  /\ Cardinality(Rows(co, c, cs, x)) = c.cap
                      /\ \A m \in Rows(co, c, cs, x) :
                           \/ cs[m].kind \in NewKinds
                           \/ cs[m].width >= file.after[k].width + 250
  BY DEF ReportedAs
<1>10. /\ S \in SUBSET lines /\ Cardinality(S) = Min({c.cap, Cardinality(lines)})
       /\ \A m \in S, n \in lines \ S :
            CaseRank(Case(repo, file, m, col), col) >= CaseRank(Case(repo, file, n, col), col)
  <2>1. PICK rank : rank = [n \in lines |-> CaseRank(Case(repo, file, n, col), col)]
    OBVIOUS
  <2>2. /\ S \in SUBSET lines /\ Cardinality(S) = Min({c.cap, Cardinality(lines)})
        /\ \A m \in S, n \in lines \ S : rank[m] >= rank[n]
    BY <1>1, <1>6, <2>1 DEF CapByRank
  <2> QED
    BY <2>1, <2>2
<1>11. Cardinality(S) = c.cap
  BY <1>2, <1>5, <1>8, <1>9, <1>10, CapIsReached
<1>12. IsFiniteSet(S)
  BY <1>8, <1>10, FS_Subset
<1>13. Cardinality(Rows(co, c, cs, x)) = c.cap
  BY <1>11, <1>12, AsManyRows
<1>14. ASSUME NEW m \in Rows(co, c, cs, x)
       PROVE  cs[m].kind \in NewKinds \/ cs[m].width >= file.after[k].width + 250
  <2>1. PICK n : n = cs[m].line
    OBVIOUS
  <2>2. n \in S /\ cs[m] = Case(repo, file, n, col)
    BY <1>1, <2>1 DEF ReportedAs
  <2>3. CaseRank(Case(repo, file, n, col), col) >= CaseRank(Case(repo, file, k, col), col)
    BY <1>5, <1>9, <1>10, <2>2
  <2>4. Kind(file, n, col) \in NewKinds \/ file.after[n].width >= file.after[k].width + 250
    BY <1>2, <1>3, <1>4, <1>7, <1>10, <2>2, <2>3, OutrankedByWidth
  <2>5. cs[m].kind = Kind(file, n, col) /\ cs[m].width = file.after[n].width
    BY <2>2 DEF Case
  <2> QED
    BY <2>4, <2>5
<1> QED
  BY <1>13, <1>14
-----------------------------------------------------------------------------
(***************************************************************************)
(* The inductive invariant: while files are walked, the book holds for     *)
(* those seen so far; then for all of them, or its redaction is in hand.   *)
(***************************************************************************)
SeenIn(co, c, n, m) == {x \in TakenIn(co, c) : x[1] < n \/ (x[1] = n /\ x[2] < m)}

Seen == SeenIn(corpus, cfg, repoAt, fileAt)

Fresh == phase = "idle" => cases = <<>> /\ repoAt = 1 /\ fileAt = 1

Placed ==
  phase \in {"file", "write", "done"} =>
    /\ corpus \in Corpora /\ cfg \in Configs
    /\ repoAt \in DOMAIN corpus /\ fileAt \in Nat \ {0}
    /\ cfg.tool = "overflow" => Len(corpus) = 1

ScannedSoFar ==
  phase = "file" =>
    /\ IsList(cases) /\ Known(corpus, cfg, cases, Seen)
    /\ cfg.tool = "corpus" /\ ToldApart(corpus, cfg) => Booked(corpus, cfg, cases, Seen)
    /\ cfg.tool = "corpus" => AllCases(corpus, cases)
    /\ cfg.tool = "overflow" => Fits(cases) /\ Ordered(cases)

ScannedAll ==
  phase \in {"write", "done"} =>
    /\ cfg.tool = "corpus" /\ ~cfg.redact /\ ToldApart(corpus, cfg) =>
         Booked(corpus, cfg, cases, TakenIn(corpus, cfg))
    /\ cfg.tool = "corpus" /\ cfg.redact =>
         Hidden(corpus, cases) /\ (ToldApart(corpus, cfg) => IDsDiffer(cases))
    /\ cfg.tool = "overflow" => Fits(cases) /\ Ordered(cases)

ReportsInv == Fresh /\ Placed /\ ScannedSoFar /\ ScannedAll

LEMMA CorpusFacts ==
  ASSUME NEW co \in Corpora
  PROVE  Len(co) \in Nat \ {0} /\ DOMAIN co = 1..Len(co) /\ DOMAIN co \subseteq Nat
<1>1. co \in Seq(ToSet(co)) /\ co # <<>>
  BY ReportsAssumption
<1>2. PICK T : T = ToSet(co)
  OBVIOUS
<1> QED
  BY <1>1, <1>2

LEMMA FilesCount ==
  ASSUME NEW co \in Corpora, NEW c, NEW n \in DOMAIN co
  PROVE  Len(GoFilesUnder(c, co[n])) \in Nat /\ DOMAIN GoFilesUnder(c, co[n]) = 1..Len(GoFilesUnder(c, co[n]))
<1>1. PICK s : s = GoFilesUnder(c, co[n])
  OBVIOUS
<1>2. IsList(s)
  BY <1>1, FilesUnder
<1> QED
  BY <1>1, <1>2, ListFacts

LEMMA SeeingNone ==
  ASSUME NEW co \in Corpora, NEW c
  PROVE  SeenIn(co, c, 1, 1) = {}
<1>1. ASSUME NEW x \in TakenIn(co, c) PROVE x[1] \in Nat /\ x[1] >= 1 /\ x[2] \in Nat /\ x[2] >= 1
  BY TakenFacts, CorpusFacts, FilesCount
<1> QED
  BY <1>1 DEF SeenIn

LEMMA SeeingOne ==
  ASSUME NEW co \in Corpora, NEW c, NEW n \in DOMAIN co, NEW m \in Nat \ {0}, m <= Len(GoFilesUnder(c, co[n]))
  PROVE  /\ <<n, m>> \in TakenIn(co, c) /\ <<n, m>> \notin SeenIn(co, c, n, m)
         /\ SeenIn(co, c, n, m + 1) = SeenIn(co, c, n, m) \cup {<<n, m>>}
<1>1. m \in DOMAIN GoFilesUnder(c, co[n]) /\ n \in Nat
  BY FilesCount, CorpusFacts
<1>2. <<n, m>> \in TakenIn(co, c)
  BY <1>1 DEF TakenIn
<1>3. <<n, m>> \notin SeenIn(co, c, n, m)
  BY <1>1 DEF SeenIn
<1>4. ASSUME NEW x \in TakenIn(co, c)
      PROVE  x \in SeenIn(co, c, n, m + 1) <=> x \in SeenIn(co, c, n, m) \cup {<<n, m>>}
  <2>1. x = <<x[1], x[2]>> /\ x[1] \in DOMAIN co /\ x[2] \in DOMAIN GoFilesUnder(c, co[x[1]])
    BY TakenFacts
  <2>2. x[1] \in Nat /\ x[2] \in Nat
    BY <2>1, CorpusFacts, FilesCount
  <2>3. x = <<n, m>> <=> x[1] = n /\ x[2] = m
    BY <2>1
  <2>4. x[2] < m + 1 <=> x[2] < m \/ x[2] = m
    BY <2>2
  <2> QED
    BY <1>1, <2>2, <2>3, <2>4 DEF SeenIn
<1>5. SeenIn(co, c, n, m + 1) \subseteq TakenIn(co, c) /\ SeenIn(co, c, n, m) \cup {<<n, m>>} \subseteq TakenIn(co, c)
  BY <1>2 DEF SeenIn
<1> QED
  BY <1>2, <1>3, <1>4, <1>5

LEMMA SeeingNextRepo ==
  ASSUME NEW co \in Corpora, NEW c, NEW n \in DOMAIN co, NEW m \in Nat \ {0}, m > Len(GoFilesUnder(c, co[n]))
  PROVE  /\ SeenIn(co, c, n + 1, 1) = SeenIn(co, c, n, m)
         /\ n = Len(co) => SeenIn(co, c, n, m) = TakenIn(co, c)
<1>1. ASSUME NEW x \in TakenIn(co, c)
      PROVE  /\ x[1] \in Nat /\ x[2] \in Nat /\ x[2] >= 1 /\ x[1] <= Len(co)
             /\ x[1] = n => x[2] < m
  <2>1. x[1] \in DOMAIN co /\ x[2] \in DOMAIN GoFilesUnder(c, co[x[1]])
    BY TakenFacts
  <2>2. /\ x[1] \in 1..Len(co) /\ Len(co) \in Nat
        /\ x[2] \in 1..Len(GoFilesUnder(c, co[x[1]])) /\ Len(GoFilesUnder(c, co[x[1]])) \in Nat
    BY <2>1, CorpusFacts, FilesCount
  <2> QED
    BY <2>2
<1>2. n \in Nat /\ Len(co) \in Nat
  BY CorpusFacts
<1>3. ASSUME NEW x \in TakenIn(co, c)
      PROVE  (x[1] < n + 1 \/ (x[1] = n + 1 /\ x[2] < 1)) <=> (x[1] < n \/ (x[1] = n /\ x[2] < m))
  BY <1>1, <1>2
<1>4. ASSUME NEW x \in TakenIn(co, c), n = Len(co) PROVE x[1] < n \/ (x[1] = n /\ x[2] < m)
  BY <1>1, <1>2, <1>4
<1> QED
  BY <1>3, <1>4 DEF SeenIn
LEMMA WrittenAreLines ==
  ASSUME NEW file, NEW c, NEW S \in CapByWidth(file, c)
  PROVE  S \in SUBSET DOMAIN file.after
<1>1. Reported(file, c) \in SUBSET DOMAIN file.after
  BY DEF Reported, FindOverflowsMinExcess
<1> QED
  BY <1>1 DEF CapByWidth

LEMMA InvInit == ReportsInit => ReportsInv
BY DEF ReportsInit, ReportsInv, Fresh, Placed, ScannedSoFar, ScannedAll

LEMMA StartKeeps ==
  ASSUME ReportsInv, StartReport PROVE ReportsInv'
<1>1. /\ cases = <<>> /\ cases' = <<>> /\ repoAt' = 1 /\ fileAt' = 1 /\ phase' = "file"
      /\ corpus' \in Corpora /\ cfg' \in Configs
      /\ cfg'.tool = "overflow" => Len(corpus') = 1
  BY DEF StartReport, ReportsInv, Fresh
<1>2. Placed'
  <2>1. 1 \in DOMAIN corpus'
    BY <1>1, CorpusFacts
  <2> QED
    BY <1>1, <2>1 DEF Placed
<1>3. Seen' = {}
  BY <1>1, SeeingNone DEF Seen
<1>4. IsList(cases') /\ DOMAIN cases' = {}
  BY <1>1 DEF IsList, ToSet
<1>5. Known(corpus', cfg', cases', {}) /\ Booked(corpus', cfg', cases', {})
      /\ AllCases(corpus', cases') /\ Fits(cases') /\ Ordered(cases')
  BY <1>4 DEF Known, Booked, AllCases, Fits, Ordered
<1>6. ScannedSoFar'
  BY <1>3, <1>4, <1>5 DEF ScannedSoFar
<1> QED
  BY <1>1, <1>2, <1>6 DEF ReportsInv, Fresh, ScannedAll

LEMMA FileInHand ==
  ASSUME ReportsInv, phase = "file", fileAt <= Len(FilesInHand)
  PROVE  LET z == <<repoAt, fileAt>> IN
         /\ corpus \in Corpora /\ cfg \in Configs
         /\ z \in TakenIn(corpus, cfg) /\ z \notin Seen /\ Seen \in SUBSET TakenIn(corpus, cfg)
         /\ SeenIn(corpus, cfg, repoAt, fileAt + 1) = Seen \cup {z}
         /\ FilesInHand[fileAt] = FileIn(corpus, cfg, z)
         /\ IsFile(FilesInHand[fileAt])
<1>1. /\ corpus \in Corpora /\ cfg \in Configs
      /\ repoAt \in DOMAIN corpus /\ fileAt \in Nat \ {0}
  BY DEF ReportsInv, Placed
<1>2. fileAt <= Len(GoFilesUnder(cfg, corpus[repoAt]))
  BY DEF FilesInHand
<1>3. /\ <<repoAt, fileAt>> \in TakenIn(corpus, cfg) /\ <<repoAt, fileAt>> \notin Seen
      /\ SeenIn(corpus, cfg, repoAt, fileAt + 1) = Seen \cup {<<repoAt, fileAt>>}
  BY <1>1, <1>2, SeeingOne DEF Seen
<1>4. Seen \in SUBSET TakenIn(corpus, cfg)
  BY DEF Seen, SeenIn
<1>5. FilesInHand[fileAt] = FileIn(corpus, cfg, <<repoAt, fileAt>>)
  BY DEF FilesInHand, FileIn
<1>6. IsFile(FilesInHand[fileAt])
  BY <1>1, <1>3, <1>5, TakenFacts
<1> QED
  BY <1>1, <1>3, <1>4, <1>5, <1>6

LEMMA AnalyzeKeeps ==
  ASSUME ReportsInv, AnalyzeFile PROVE ReportsInv'
<1>1. PICK z : z = <<repoAt, fileAt>>
  OBVIOUS
<1>2. PICK file : file = FilesInHand[fileAt]
  OBVIOUS
<1>3. /\ phase = "file" /\ phase' = "file" /\ fileAt <= Len(FilesInHand) /\ cfg.tool = "corpus"
      /\ fileAt' = fileAt + 1
      /\ corpus' = corpus /\ cfg' = cfg /\ repoAt' = repoAt
  BY DEF AnalyzeFile
<1>4. PICK kept \in IF file.readable /\ file.formats THEN CapByRank(corpus[repoAt], file, cfg) ELSE {{}} :
        cases' = cases \o CasesForFile(corpus[repoAt], file, kept, cfg.col)
  BY <1>2 DEF AnalyzeFile
<1>5. /\ corpus \in Corpora /\ cfg \in Configs
      /\ z \in TakenIn(corpus, cfg) /\ z \notin Seen /\ Seen \in SUBSET TakenIn(corpus, cfg)
      /\ SeenIn(corpus, cfg, repoAt, fileAt + 1) = Seen \cup {z}
      /\ file = FileIn(corpus, cfg, z) /\ IsFile(file)
  BY <1>1, <1>2, <1>3, FileInHand
<1>6. z[1] = repoAt /\ corpus[z[1]] = corpus[repoAt]
  BY <1>1
<1>7. kept \in KeptIn(corpus, cfg, z)
  BY <1>4, <1>5, <1>6 DEF KeptIn
<1>8. kept \in SUBSET DOMAIN file.after
  BY <1>5, <1>7, KeptAreLines
<1>9. PICK rows, col : rows = CasesForFile(corpus[repoAt], file, kept, cfg.col) /\ col = cfg.col
  OBVIOUS
<1>10. RowsFor(corpus[repoAt], file, kept, cfg.col, rows)
  BY <1>5, <1>8, <1>9, CasesAreRows
<1>11. IsList(cases) /\ Known(corpus, cfg, cases, Seen) /\ AllCases(corpus, cases)
       /\ (ToldApart(corpus, cfg) => Booked(corpus, cfg, cases, Seen))
  BY <1>3 DEF ReportsInv, ScannedSoFar
<1>12. IsList(rows) /\ \A m \in DOMAIN rows : NamedIn(corpus, cfg, rows[m], z)
  BY <1>5, <1>6, <1>10 DEF RowsFor, NamedIn
<1>13. AreJoined(cases, rows, cases')
  BY <1>4, <1>9, <1>11, <1>12, Joining
<1>14. Seen' = Seen \cup {z}
  BY <1>3, <1>5 DEF Seen
<1>15. Known(corpus, cfg, cases', Seen \cup {z})
  BY <1>11, <1>12, <1>13, KnownOne
<1>16. ToldApart(corpus, cfg) => Booked(corpus, cfg, cases', Seen \cup {z})
  BY <1>5, <1>6, <1>7, <1>10, <1>11, <1>13, BookOne
<1>17. ScannedSoFar'
  <2>1. IsList(cases')
    BY <1>13 DEF AreJoined
  <2>2. AllCases(corpus, rows)
    <3>1. repoAt \in DOMAIN corpus
      BY <1>3 DEF ReportsInv, Placed
    <3>2. RowsFor(corpus[repoAt], file, kept, col, rows)
      BY <1>9, <1>10
    <3> QED
      BY <1>5, <1>8, <3>1, <3>2, RowsAreCases
  <2>3. AllCases(corpus, cases')
    BY <1>11, <1>12, <1>13, <2>2, CasesJoined
  <2> QED
    BY <1>3, <1>14, <1>15, <1>16, <2>1, <2>3 DEF ScannedSoFar
<1>18. Placed'
  BY <1>3 DEF ReportsInv, Placed
<1> QED
  BY <1>3, <1>17, <1>18 DEF ReportsInv, Fresh, ScannedAll

LEMMA ReportKeeps ==
  ASSUME ReportsInv, ReportFile PROVE ReportsInv'
<1>1. PICK z : z = <<repoAt, fileAt>>
  OBVIOUS
<1>2. PICK file : file = FilesInHand[fileAt]
  OBVIOUS
<1>3. /\ phase = "file" /\ phase' = "file" /\ fileAt <= Len(FilesInHand) /\ cfg.tool = "overflow"
      /\ fileAt' = fileAt + 1
      /\ corpus' = corpus /\ cfg' = cfg /\ repoAt' = repoAt
  BY DEF ReportFile
<1>4. PICK filed \in SUBSET DOMAIN file.after :
        cases' = cases \o Entries(corpus[repoAt], file, filed, cfg.col)
  <2>1. PICK kept \in IF file.readable /\ file.formats THEN CapByWidth(file, cfg) ELSE {{}} :
          \E filed \in IF cfg.perBug THEN SUBSET kept ELSE {kept} :
            cases' = cases \o Entries(corpus[repoAt], file, filed, cfg.col)
    BY <1>2 DEF ReportFile
  <2>2. kept \in SUBSET DOMAIN file.after
    BY <2>1, WrittenAreLines
  <2> QED
    BY <2>1, <2>2
<1>5. /\ corpus \in Corpora /\ cfg \in Configs
      /\ z \in TakenIn(corpus, cfg) /\ z \notin Seen /\ Seen \in SUBSET TakenIn(corpus, cfg)
      /\ SeenIn(corpus, cfg, repoAt, fileAt + 1) = Seen \cup {z}
      /\ file = FileIn(corpus, cfg, z) /\ IsFile(file)
  BY <1>1, <1>2, <1>3, FileInHand
<1>6. z[1] = repoAt /\ corpus[z[1]] = corpus[repoAt]
  BY <1>1
<1>7. PICK rows, repo, col : rows = Entries(repo, file, filed, col) /\ repo = corpus[repoAt] /\ col = cfg.col
  OBVIOUS
<1>8. /\ IsList(rows) /\ Fits(rows) /\ Ordered(rows)
      /\ \A m \in DOMAIN rows : rows[m].repo = corpus[repoAt].base /\ rows[m].file = file.path
  <2>1. EntriesFor(repo, file, rows)
    BY <1>5, <1>7, EntriesAreRows
  <2> QED
    BY <1>7, <2>1 DEF EntriesFor
<1>9. IsList(cases) /\ Known(corpus, cfg, cases, Seen) /\ Fits(cases) /\ Ordered(cases)
  BY <1>3 DEF ReportsInv, ScannedSoFar
<1>10. AreJoined(cases, rows, cases')
  BY <1>4, <1>7, <1>8, <1>9, Joining
<1>11. \A m \in DOMAIN rows : NamedIn(corpus, cfg, rows[m], z)
  BY <1>5, <1>6, <1>8 DEF NamedIn
<1>12. Known(corpus, cfg, cases', Seen \cup {z})
  BY <1>8, <1>9, <1>10, <1>11, KnownOne
<1>13. ASSUME NEW k \in DOMAIN cases, NEW m \in DOMAIN rows PROVE cases[k].file # rows[m].file
  <2>1. PICK x \in Seen : NamedIn(corpus, cfg, cases[k], x)
    BY <1>9 DEF Known
  <2>2. DOMAIN corpus = {1}
    <3>1. Len(corpus) = 1
      BY <1>3 DEF ReportsInv, Placed
    <3> QED
      BY <1>5, <3>1, CorpusFacts
  <2>3. x[1] \in DOMAIN corpus /\ x = <<x[1], x[2]>> /\ x[2] \in DOMAIN GoFilesUnder(cfg, corpus[x[1]])
    BY <1>5, <2>1, TakenFacts
  <2>4. z[1] \in DOMAIN corpus /\ z[2] \in DOMAIN GoFilesUnder(cfg, corpus[z[1]])
    BY <1>5, TakenFacts
  <2>5. x[1] = z[1]
    BY <2>2, <2>3, <2>4
  <2>6. x # z
    BY <1>5, <2>1
  <2>7. x[2] # z[2]
    BY <1>1, <2>3, <2>5, <2>6
  <2>8. FileIn(corpus, cfg, x).path # FileIn(corpus, cfg, z).path
    BY <1>5, <2>3, <2>4, <2>5, <2>7, FilesUnder DEF FileIn
  <2> QED
    BY <1>5, <1>8, <2>1, <2>8 DEF NamedIn
<1>14. Fits(cases') /\ Ordered(cases')
  BY <1>8, <1>9, <1>10, <1>13, EntriesJoined
<1>15. ScannedSoFar'
  <2>1. IsList(cases')
    BY <1>10 DEF AreJoined
  <2>2. Seen' = Seen \cup {z}
    BY <1>3, <1>5 DEF Seen
  <2> QED
    BY <1>3, <1>12, <1>14, <2>1, <2>2 DEF ScannedSoFar
<1>16. Placed'
  BY <1>3 DEF ReportsInv, Placed
<1> QED
  BY <1>3, <1>15, <1>16 DEF ReportsInv, Fresh, ScannedAll
LEMMA NextRepoKeeps ==
  ASSUME ReportsInv, NextRepo PROVE ReportsInv'
<1>1. /\ phase = "file" /\ phase' = "file" /\ fileAt > Len(FilesInHand) /\ repoAt < Len(corpus)
      /\ repoAt' = repoAt + 1 /\ fileAt' = 1
      /\ corpus' = corpus /\ cfg' = cfg /\ cases' = cases
  BY DEF NextRepo
<1>2. corpus \in Corpora /\ cfg \in Configs /\ repoAt \in DOMAIN corpus /\ fileAt \in Nat \ {0}
  BY <1>1 DEF ReportsInv, Placed
<1>3. SeenIn(corpus, cfg, repoAt + 1, 1) = Seen
  BY <1>1, <1>2, SeeingNextRepo DEF FilesInHand, Seen
<1>4. Seen' = Seen
  BY <1>1, <1>3 DEF Seen
<1>5. repoAt' \in DOMAIN corpus
  BY <1>1, <1>2, CorpusFacts
<1>6. Placed'
  BY <1>1, <1>5 DEF ReportsInv, Placed
<1>7. ScannedSoFar'
  BY <1>1, <1>4 DEF ReportsInv, ScannedSoFar
<1> QED
  BY <1>1, <1>6, <1>7 DEF ReportsInv, Fresh, ScannedAll

LEMMA BuildKeeps ==
  ASSUME ReportsInv, BuildReport PROVE ReportsInv'
<1>1. /\ phase = "file" /\ phase' = "write" /\ fileAt > Len(FilesInHand) /\ repoAt = Len(corpus)
      /\ cases' = (IF cfg.tool = "corpus" /\ cfg.redact THEN RedactReport(cases) ELSE cases)
      /\ corpus' = corpus /\ cfg' = cfg /\ repoAt' = repoAt /\ fileAt' = fileAt
  BY DEF BuildReport
<1>2. corpus \in Corpora /\ cfg \in Configs /\ repoAt \in DOMAIN corpus /\ fileAt \in Nat \ {0}
  BY <1>1 DEF ReportsInv, Placed
<1>3. Seen = TakenIn(corpus, cfg)
  BY <1>1, <1>2, SeeingNextRepo DEF FilesInHand, Seen
<1>4. /\ IsList(cases) /\ Known(corpus, cfg, cases, TakenIn(corpus, cfg))
      /\ (cfg.tool = "corpus" /\ ToldApart(corpus, cfg)) => Booked(corpus, cfg, cases, TakenIn(corpus, cfg))
      /\ cfg.tool = "corpus" => AllCases(corpus, cases)
      /\ cfg.tool = "overflow" => Fits(cases) /\ Ordered(cases)
  BY <1>1, <1>3 DEF ReportsInv, ScannedSoFar
<1>5. ASSUME cfg.tool = "corpus", ~cfg.redact, ToldApart(corpus, cfg)
      PROVE  Booked(corpus, cfg, cases', TakenIn(corpus, cfg))
  BY <1>1, <1>4, <1>5
<1>6. ASSUME cfg.tool = "corpus", cfg.redact
      PROVE  Hidden(corpus, cases') /\ (ToldApart(corpus, cfg) => IDsDiffer(cases'))
  <2>1. Len(corpus) \in Nat /\ DOMAIN corpus = 1..Len(corpus)
    BY <1>2, CorpusFacts
  <2>2. /\ Hidden(corpus, RedactReport(cases))
        /\ (\A k, m \in DOMAIN cases : SameRecord(cases[k], cases[m]) => k = m)
              => IDsDiffer(RedactReport(cases))
    <3>1. PICK l \in Nat : l = Len(corpus)
      BY <2>1
    <3>2. DOMAIN corpus = 1..l
      BY <2>1, <3>1
    <3> QED
      BY <1>4, <1>6, <3>2, Redacting
  <2>3. ASSUME ToldApart(corpus, cfg)
        PROVE  \A k, m \in DOMAIN cases : SameRecord(cases[k], cases[m]) => k = m
    BY <1>4, <1>6, <2>3, RecordsDiffer
  <2> QED
    BY <1>1, <1>6, <2>2, <2>3
<1>7. ASSUME cfg.tool = "overflow" PROVE Fits(cases') /\ Ordered(cases')
  BY <1>1, <1>4, <1>7
<1>8. ScannedAll'
  BY <1>1, <1>5, <1>6, <1>7 DEF ScannedAll
<1>9. Placed'
  BY <1>1 DEF ReportsInv, Placed
<1> QED
  BY <1>1, <1>8, <1>9 DEF ReportsInv, Fresh, ScannedSoFar

LEMMA StopKeeps ==
  ASSUME ReportsInv, phase' = "failed" PROVE ReportsInv'
BY DEF ReportsInv, Fresh, Placed, ScannedSoFar, ScannedAll

LEMMA WriteKeeps ==
  ASSUME ReportsInv, WriteReport PROVE ReportsInv'
<1>1. /\ phase = "write" /\ phase' \in {"done", "failed"}
      /\ corpus' = corpus /\ cfg' = cfg /\ repoAt' = repoAt /\ fileAt' = fileAt /\ cases' = cases
  BY DEF WriteReport
<1>2. CASE phase' = "failed"
  BY <1>2, StopKeeps
<1>3. CASE phase' = "done"
  BY <1>1, <1>3 DEF ReportsInv, Fresh, Placed, ScannedSoFar, ScannedAll
<1> QED
  BY <1>1, <1>2, <1>3

LEMMA InvNext == ReportsInv /\ [ReportsNext]_reportsVars => ReportsInv'
<1> SUFFICES ASSUME ReportsInv, [ReportsNext]_reportsVars PROVE ReportsInv'
  OBVIOUS
<1>1. CASE Refuse
  BY <1>1, StopKeeps DEF Refuse
<1>2. CASE StartReport
  BY <1>2, StartKeeps
<1>3. CASE ScanFails
  BY <1>3, StopKeeps DEF ScanFails
<1>4. CASE AnalyzeFile
  BY <1>4, AnalyzeKeeps
<1>5. CASE ReportFile
  BY <1>5, ReportKeeps
<1>6. CASE NextRepo
  BY <1>6, NextRepoKeeps
<1>7. CASE BuildReport
  BY <1>7, BuildKeeps
<1>8. CASE WriteReport
  BY <1>8, WriteKeeps
<1>9. CASE UNCHANGED reportsVars
  BY <1>9 DEF reportsVars, ReportsInv, Fresh, Placed, ScannedSoFar, ScannedAll, Seen
<1> QED
  BY <1>1, <1>2, <1>3, <1>4, <1>5, <1>6, <1>7, <1>8, <1>9 DEF ReportsNext

(***************************************************************************)
(* For every corpus, flag, file and choice of the cap: a line too wide     *)
(* that the file did not have before is in the report, or the report of    *)
(* its file is full, of lines that were changed too or are far wider.      *)
(***************************************************************************)
THEOREM NewOverflowsReported == ReportsSpec => []NoNewOverflowMissed
<1>1. ReportsInv => NoNewOverflowMissed
  <2> SUFFICES ASSUME ReportsInv, phase \in {"write", "done"}, cfg.tool = "corpus", ~cfg.redact, NamedApart,
                      NEW x \in Taken, NEW file, file = FileOf(x), file.readable, file.formats,
                      NEW k \in FindOverflows(file.after, cfg.col),
                      \A m \in DOMAIN file.before : file.before[m].text # file.after[k].text
               PROVE  \/ \E m \in CasesOf(x) : cases[m].line = k
                      \/ /\ Cardinality(CasesOf(x)) = cfg.cap
                         /\ \A m \in CasesOf(x) :
                              \/ cases[m].kind \in {"new_overflow", "touched_overflow"}
                              \/ cases[m].width >= file.after[k].width + 250
    BY DEF NoNewOverflowMissed
  <2>1. corpus \in Corpora /\ cfg \in Configs
    BY DEF ReportsInv, Placed
  <2>2. x \in TakenIn(corpus, cfg) /\ file = FileIn(corpus, cfg, x)
    BY DEF Taken, TakenIn, FileOf, FileIn
  <2>3. ToldApart(corpus, cfg)
    BY DEF NamedApart, ToldApart, Taken, TakenIn, FileOf, FileIn
  <2>4. PICK S \in KeptIn(corpus, cfg, x) : ReportedAs(corpus, cfg, cases, x, S)
    BY <2>2, <2>3 DEF ReportsInv, ScannedAll, Booked
  <2>5. CasesOf(x) = Rows(corpus, cfg, cases, x)
    BY DEF CasesOf, Rows, NamedAs, NamedIn, FileOf, FileIn
  <2> QED
    BY <2>1, <2>2, <2>4, <2>5, NewLinesKept DEF NewKinds
<1> QED
  BY <1>1, InvInit, InvNext, PTL DEF ReportsSpec

(***************************************************************************)
(* A redacted report names numbers and aliases only, shows no ASCII letter *)
(* or digit, and has one alias per file and repository number, for all     *)
(* corpora, those with one last name twice included; where no two files    *)
(* had one name, no two lines have one ID.                                 *)
(***************************************************************************)
THEOREM RedactionTellsApart == ReportsSpec => []RedactedButDistinct
<1>1. ReportsInv => RedactedButDistinct
  <2>1. NamedApart => ToldApart(corpus, cfg)
    BY DEF NamedApart, ToldApart, Taken, TakenIn, FileOf, FileIn
  <2> QED
    BY <2>1 DEF ReportsInv, ScannedAll, RedactedButDistinct, Hidden, IDsDiffer
<1> QED
  BY <1>1, InvInit, InvNext, PTL DEF ReportsSpec

(***************************************************************************)
(* Every line of an overflow report lies in the declaration it comes with, *)
(* and the lines of a file are in their order, but in an index.            *)
(***************************************************************************)
THEOREM SnippetsAroundLines == ReportsSpec => []SnippetsBelong
<1>1. ReportsInv => SnippetsBelong
  BY DEF ReportsInv, ScannedAll, SnippetsBelong, Fits, Ordered
<1> QED
  BY <1>1, InvInit, InvNext, PTL DEF ReportsSpec
=============================================================================
