--------------------------- MODULE FormatterProofs ---------------------------
(***************************************************************************)
(* Theorems about FormatGlobals and Comments.  Calls that share the        *)
(* package variables run under their own settings, for any number of       *)
(* goroutines, calls and settings.  The comment stage keeps the words of a *)
(* file and its code, for all files, modes, limits and lists of words that *)
(* mean something.                                                         *)
(***************************************************************************)
EXTENDS FormatGlobals, Comments, Lemmas

-----------------------------------------------------------------------------
(***************************************************************************)
(* FormatGlobals.                                                          *)
(***************************************************************************)
(***************************************************************************)
(* The members of a sequence of variables, as they are taken from its      *)
(* front one by one.                                                       *)
(***************************************************************************)
LEMMA EmptyHasNone == ToSet(<<>>) = {}
  BY DEF ToSet

LEMMA HeadAndTail ==
  ASSUME NEW s \in Seq(Vars), s # <<>>
  PROVE  /\ Head(s) \in Vars /\ Tail(s) \in Seq(Vars)
         /\ ToSet(s) = {Head(s)} \cup ToSet(Tail(s))
<1>1. Head(s) \in Vars /\ Tail(s) \in Seq(Vars) /\ Len(s) \in Nat \ {0} /\ Head(s) = s[1]
  OBVIOUS
<1>2. Len(Tail(s)) = Len(s) - 1 /\ \A k \in 1..(Len(s) - 1) : Tail(s)[k] = s[k + 1]
  OBVIOUS
<1>3. \A k \in 1..Len(s) : k = 1 \/ (k - 1 \in 1..(Len(s) - 1) /\ s[k] = Tail(s)[k - 1])
  BY <1>1, <1>2
<1>4. ToSet(s) \subseteq {Head(s)} \cup ToSet(Tail(s))
  <2>1. ASSUME NEW k \in 1..Len(s) PROVE s[k] = Head(s) \/ s[k] \in ToSet(Tail(s))
    <3>1. k - 1 \in DOMAIN Tail(s) => Tail(s)[k - 1] \in ToSet(Tail(s))
      BY DEF ToSet
    <3>2. DOMAIN Tail(s) = 1..(Len(s) - 1)
      BY <1>1, <1>2
    <3> QED
      BY <1>1, <1>3, <3>1, <3>2
  <2> QED
    BY <2>1 DEF ToSet
<1>5. {Head(s)} \cup ToSet(Tail(s)) \subseteq ToSet(s)
  BY <1>1, <1>2 DEF ToSet
<1> QED
  BY <1>1, <1>4, <1>5

LEMMA AssignedVars ==
  ASSUME NEW c \in Requests
  PROVE  /\ Assigned(c) \in Seq(Vars)
         /\ Restored(c) \in {Assigned(c), <<>>}
<1>1. c.op \in Ops
  BY GlobalsAssumption
<1>2. /\ <<"limit", "tab", "fallback", "skipGofmt", "targets">> \in Seq(Vars)
      /\ <<"limit", "tab", "targets">> \in Seq(Vars)
      /\ <<"limit", "tab">> \in Seq(Vars)
      /\ <<>> \in Seq(Vars)
  BY DEF Vars
<1> QED
  BY <1>1, <1>2 DEF Ops, Assigned, Restored

(***************************************************************************)
(* A constructor leaves no limit a formatter would not assign.             *)
(***************************************************************************)
LEMMA LimitsArePositive ==
  ASSUME NEW c \in Requests, c.op = "file", NEW v \in {"limit", "tab"}
  PROVE  ~(Setting(c)[v] <= 0)
<1>1. DOMAIN c.set = Vars
  BY GlobalsAssumption
<1>2. Setting(c) = NewCompactCallFormatter(c.set)
  BY DEF Setting
<1>3. Setting(c).limit = (IF c.set.limit <= 0 THEN 80 ELSE c.set.limit)
  BY <1>1, <1>2 DEF NewCompactCallFormatter, Vars
<1>4. Setting(c).tab = (IF c.set.tab <= 0 THEN 8 ELSE c.set.tab)
  BY <1>1, <1>2 DEF NewCompactCallFormatter, Vars
<1>5. CASE v = "limit"
  BY <1>3, <1>5
<1>6. CASE v = "tab"
  BY <1>4, <1>6
<1> QED
  BY <1>5, <1>6

-----------------------------------------------------------------------------
(***************************************************************************)
(* Who holds the mutex is the one guarded call that is past its Lock.      *)
(***************************************************************************)
ThreadInv(t) ==
  /\ call[t] \in Requests \cup {NoCall}
  /\ pc[t] \in {"idle", "lock", "assign", "work", "restore", "unlock"}
  /\ pc[t] = "idle" <=> call[t] = NoCall
  /\ pc[t] \in {"lock", "assign", "restore", "unlock"} => Guarded(call[t])
  /\ mu = t <=> \/ pc[t] \in {"assign", "restore", "unlock"}
                \/ pc[t] = "work" /\ Guarded(call[t])
  /\ pc[t] \in {"idle", "lock", "assign"} => read[t] = Nothing

MutexInv ==
  /\ mu \in Threads \cup {Nobody}
  /\ DOMAIN call = Threads /\ DOMAIN pc = Threads /\ DOMAIN todo = Threads
  /\ DOMAIN old = Threads /\ DOMAIN read = Threads
  /\ \A t \in Threads : ThreadInv(t)

LEMMA MutexInit == Init => MutexInv
  BY GlobalsAssumption DEF Init, MutexInv, ThreadInv, Guarded

(***************************************************************************)
(* What a step of one thread leaves of another: everything but the mutex,  *)
(* which it takes only when it is free and gives back only when it has it. *)
(***************************************************************************)
LEMMA MutexStep ==
  ASSUME MutexInv, [Next]_vars
  PROVE  MutexInv'
<1> USE GlobalsAssumption DEF MutexInv, ThreadInv, Goto
<1>1. CASE UNCHANGED vars
  BY <1>1 DEF vars
<1>2. ASSUME NEW t \in Threads, Begin(t) PROVE MutexInv'
  BY <1>2 DEF Begin
<1>3. ASSUME NEW t \in Threads, Lock(t) PROVE MutexInv'
  BY <1>3 DEF Lock
<1>4. ASSUME NEW t \in Threads, Assign(t) PROVE MutexInv'
  BY <1>4 DEF Assign
<1>5. ASSUME NEW t \in Threads, StartWork(t) PROVE MutexInv'
  BY <1>5 DEF StartWork
<1>6. ASSUME NEW t \in Threads, Read(t) PROVE MutexInv'
  BY <1>6 DEF Read
<1>7. ASSUME NEW t \in Threads, EndWork(t) PROVE MutexInv'
  BY <1>7 DEF EndWork, Return
<1>8. ASSUME NEW t \in Threads, Panic(t) PROVE MutexInv'
  BY <1>8 DEF Panic
<1>9. ASSUME NEW t \in Threads, Restore(t) PROVE MutexInv'
  BY <1>9 DEF Restore
<1>10. ASSUME NEW t \in Threads, Unlock(t) PROVE MutexInv'
  BY <1>10 DEF Unlock, Return
<1> QED
  BY <1>1, <1>2, <1>3, <1>4, <1>5, <1>6, <1>7, <1>8, <1>9, <1>10 DEF Next, Work

-----------------------------------------------------------------------------
(***************************************************************************)
(* The settings the holder's call should work with, and how far it is with *)
(* assigning them or with putting back what it found.  OwnSettings alone   *)
(* says nothing of a call that has not read yet.                           *)
(***************************************************************************)
Mine(t) == With(call[t], entry, Assigned(call[t]))

PutBack(t) == IF Restored(call[t]) = <<>> THEN Mine(t) ELSE entry

HolderInv(t) ==
  /\ todo[t] \in Seq(Vars)
  /\ \A v \in Vars : read[t][v] \subseteq {Mine(t)[v]}
  /\ Restored(call[t]) # <<>> => old[t] = entry
  /\ pc[t] = "assign" =>
       /\ ToSet(todo[t]) \subseteq ToSet(Assigned(call[t]))
       /\ \A v \in Vars \ ToSet(todo[t]) : globals[v] = Mine(t)[v]
  /\ pc[t] \in {"work", "unlock"} => \A v \in Vars : globals[v] = Mine(t)[v]
  /\ pc[t] = "restore" =>
       /\ Restored(call[t]) = <<>> => todo[t] = <<>>
       /\ \A v \in Vars \ ToSet(todo[t]) : globals[v] = PutBack(t)[v]

Whole(settings) == settings = [v \in Vars |-> settings[v]]

SettingsInv ==
  /\ Whole(globals)
  /\ Whole(entry)
  /\ \A t \in Threads : DOMAIN read[t] = Vars
  /\ \A t \in Threads : mu = t => HolderInv(t)

LEMMA SettingsInit == Init => SettingsInv
  BY GlobalsAssumption DEF Init, SettingsInv, Whole, Nothing, Initial, Vars

(***************************************************************************)
(* A step of t does not touch what the holder's invariant says of another  *)
(* thread u, so long as u holds the mutex and t therefore does not.        *)
(***************************************************************************)
Local(t) ==
  \A u \in Threads \ {t} :
    /\ call'[u] = call[u] /\ pc'[u] = pc[u] /\ todo'[u] = todo[u]
    /\ old'[u] = old[u] /\ read'[u] = read[u]

LEMMA StepsAreLocal ==
  ASSUME MutexInv, NEW t \in Threads, Begin(t) \/ Lock(t) \/ Work(t)
  PROVE  Local(t)
<1> USE DEF Local, MutexInv, Goto
<1>1. CASE Begin(t) \/ Lock(t)
  BY <1>1 DEF Begin, Lock
<1>2. CASE Assign(t) \/ StartWork(t) \/ Read(t) \/ Panic(t) \/ Restore(t)
  BY <1>2 DEF Assign, StartWork, Read, Panic, Restore
<1>3. CASE EndWork(t)
  BY <1>3 DEF EndWork, Return
<1>4. CASE Unlock(t)
  BY <1>4 DEF Unlock, Return
<1> QED
  BY <1>1, <1>2, <1>3, <1>4 DEF Work

LEMMA OthersKeep ==
  ASSUME SettingsInv, NEW t, Local(t), globals' = globals, entry' = entry,
         NEW u \in Threads, u # t, mu = u
  PROVE  HolderInv(u)'
<1>1. HolderInv(u) /\ Mine(u)' = Mine(u) /\ PutBack(u)' = PutBack(u)
  BY DEF SettingsInv, Local, Mine, PutBack
<1> QED
  BY <1>1 DEF HolderInv, Local

LEMMA LockStep ==
  ASSUME MutexInv, SettingsInv, NEW t \in Threads, Lock(t)
  PROVE  SettingsInv'
<1>1. /\ mu' = t /\ entry' = globals /\ globals' = globals /\ pc' = [pc EXCEPT ![t] = "assign"]
      /\ call' = call /\ read' = read /\ todo' = [todo EXCEPT ![t] = Assigned(call[t])]
      /\ old' = [old EXCEPT ![t] = IF Restored(call[t]) # <<>> THEN globals ELSE @]
  BY DEF Lock, Goto
<1>2. pc'[t] = "assign" /\ todo'[t] = Assigned(call[t])
      /\ (Restored(call[t]) # <<>> => old'[t] = globals)
  BY <1>1 DEF MutexInv
<1>3. call[t] \in Requests /\ read[t] = Nothing
  BY DEF Lock, MutexInv, ThreadInv
<1>4. todo'[t] \in Seq(Vars)
  BY <1>2, <1>3, AssignedVars
<1>5. \A v \in Vars \ ToSet(todo'[t]) : globals'[v] = Mine(t)'[v]
  BY <1>1, <1>2 DEF Mine, With
<1>6. \A v \in Vars : read'[t][v] = {}
  BY <1>1, <1>3 DEF Nothing
<1>7. HolderInv(t)'
  BY <1>1, <1>2, <1>4, <1>5, <1>6 DEF HolderInv
<1> QED
  BY <1>1, <1>7 DEF SettingsInv

LEMMA AssignStep ==
  ASSUME MutexInv, SettingsInv, NEW t \in Threads, Assign(t)
  PROVE  SettingsInv'
<1>1. mu = t /\ call[t] \in Requests /\ HolderInv(t) /\ pc[t] = "assign" /\ todo[t] # <<>>
  BY DEF Assign, MutexInv, ThreadInv, SettingsInv
<1> DEFINE v0 == Head(todo[t])
<1>2. /\ v0 \in Vars /\ Tail(todo[t]) \in Seq(Vars)
      /\ ToSet(todo[t]) = {v0} \cup ToSet(Tail(todo[t]))
  BY <1>1, HeadAndTail DEF HolderInv
<1>3. /\ mu' = mu /\ call' = call /\ pc' = pc /\ old' = old /\ read' = read /\ entry' = entry
      /\ todo' = [todo EXCEPT ![t] = Tail(todo[t])]
  BY DEF Assign
<1>4. globals' = [globals EXCEPT ![v0] = Setting(call[t])[v0]]
  BY <1>1, LimitsArePositive DEF Assign
<1>5. todo'[t] = Tail(todo[t])
  BY <1>3 DEF MutexInv
<1>6. \A v \in Vars \ ToSet(todo'[t]) : globals'[v] = Mine(t)'[v]
  <2>1. Mine(t)' = Mine(t)
    BY <1>3 DEF Mine
  <2>2. Mine(t)[v0] = Setting(call[t])[v0]
    BY <1>1, <1>2 DEF Mine, With, HolderInv
  <2>3. globals'[v0] = Mine(t)[v0]
    BY <1>2, <1>4, <2>2 DEF SettingsInv, Whole
  <2>4. \A v \in Vars \ ToSet(todo[t]) : globals'[v] = Mine(t)[v]
    BY <1>1, <1>2, <1>4 DEF SettingsInv, Whole, HolderInv
  <2> QED
    BY <1>2, <1>5, <2>1, <2>3, <2>4
<1>7. HolderInv(t)'
  <2>1. Mine(t)' = Mine(t)
    BY <1>3 DEF Mine
  <2> QED
    BY <1>1, <1>2, <1>3, <1>5, <1>6, <2>1 DEF HolderInv
<1>8. Whole(globals')
  BY <1>4 DEF SettingsInv, Whole
<1> QED
  BY <1>1, <1>3, <1>7, <1>8, GlobalsAssumption DEF SettingsInv

LEMMA StartWorkStep ==
  ASSUME MutexInv, SettingsInv, NEW t \in Threads, StartWork(t)
  PROVE  SettingsInv'
<1>1. mu = t /\ HolderInv(t) /\ pc[t] = "assign" /\ todo[t] = <<>> /\ pc'[t] = "work"
  BY DEF StartWork, Goto, MutexInv, ThreadInv, SettingsInv
<1>2. UNCHANGED <<mu, globals, call, todo, old, read, entry>>
  BY DEF StartWork
<1>3. \A v \in Vars : globals[v] = Mine(t)[v]
  BY <1>1, EmptyHasNone DEF HolderInv
<1>4. Mine(t)' = Mine(t)
  BY <1>2 DEF Mine
<1>5. HolderInv(t)'
  BY <1>1, <1>2, <1>3, <1>4 DEF HolderInv
<1> QED
  BY <1>1, <1>2, <1>5 DEF SettingsInv

LEMMA ReadStep ==
  ASSUME MutexInv, SettingsInv, NEW t \in Threads, Read(t)
  PROVE  SettingsInv'
<1>1. UNCHANGED <<mu, globals, call, pc, todo, old, entry>> /\ pc[t] = "work"
  BY DEF Read
<1>2. PICK v0 \in ReadVars(call[t]) :
        read' = [read EXCEPT ![t][v0] = read[t][v0] \cup {globals[v0]}]
  BY DEF Read
<1>3. \A u \in Threads : DOMAIN read'[u] = Vars
  BY <1>2 DEF SettingsInv, MutexInv
<1>4. ASSUME mu = t PROVE HolderInv(t)'
  <2>1. HolderInv(t) /\ Mine(t)' = Mine(t) /\ PutBack(t)' = PutBack(t)
    BY <1>1, <1>4 DEF SettingsInv, Mine, PutBack
  <2>2. \A v \in Vars : read'[t][v] = IF v = v0 THEN read[t][v] \cup {globals[v0]} ELSE read[t][v]
    BY <1>2 DEF SettingsInv, MutexInv
  <2>3. \A v \in Vars : read'[t][v] \subseteq {Mine(t)[v]}
    <3>1. \A v \in Vars : globals[v] = Mine(t)[v] /\ read[t][v] \subseteq {Mine(t)[v]}
      BY <1>1, <2>1 DEF HolderInv
    <3> HIDE DEF Mine
    <3> QED
      BY <2>2, <3>1
  <2> QED
    BY <1>1, <2>1, <2>3 DEF HolderInv
<1>5. Local(t)
  BY StepsAreLocal DEF Work
<1>6. \A u \in Threads : mu' = u => HolderInv(u)'
  BY <1>1, <1>4, <1>5, OthersKeep
<1> QED
  BY <1>1, <1>3, <1>6 DEF SettingsInv

LEMMA EndWorkStep ==
  ASSUME MutexInv, SettingsInv, NEW t \in Threads, EndWork(t)
  PROVE  SettingsInv'
<1>1. UNCHANGED <<mu, globals, entry>> /\ pc[t] = "work" /\ Local(t)
  BY StepsAreLocal DEF EndWork, Work
<1>2. \A u \in Threads : DOMAIN read'[u] = Vars
  BY DEF EndWork, Return, Nothing, SettingsInv, MutexInv
<1>3. ASSUME mu = t PROVE HolderInv(t)'
  <2>1. Guarded(call[t]) /\ HolderInv(t) /\ call[t] \in Requests
    BY <1>1, <1>3 DEF MutexInv, ThreadInv, SettingsInv
  <2>2. UNCHANGED <<call, read, old>> /\ todo'[t] = Restored(call[t]) /\ pc'[t] = "restore"
    BY <2>1 DEF EndWork, Goto, MutexInv
  <2>3. Mine(t)' = Mine(t) /\ PutBack(t)' = PutBack(t)
    BY <1>1, <2>2 DEF Mine, PutBack
  <2>4. \A v \in Vars : globals[v] = Mine(t)[v]
    BY <1>1, <2>1 DEF HolderInv
  <2>5. \A v \in Vars \ ToSet(Restored(call[t])) : globals[v] = PutBack(t)[v]
    <3>1. CASE Restored(call[t]) = <<>>
      BY <2>4, <3>1 DEF PutBack
    <3>2. CASE Restored(call[t]) # <<>>
      BY <2>1, <2>4, <3>2, AssignedVars DEF PutBack, Mine, With
    <3> QED
      BY <3>1, <3>2
  <2>6. Restored(call[t]) \in Seq(Vars)
    <3>1. <<>> \in Seq(Vars)
      OBVIOUS
    <3> QED
      BY <2>1, <3>1, AssignedVars
  <2> QED
    BY <1>1, <2>1, <2>2, <2>3, <2>5, <2>6 DEF HolderInv
<1>4. \A u \in Threads : mu' = u => HolderInv(u)'
  BY <1>1, <1>3, OthersKeep
<1> QED
  BY <1>1, <1>2, <1>4 DEF SettingsInv

LEMMA PanicStep ==
  ASSUME MutexInv, SettingsInv, NEW t \in Threads, Panic(t)
  PROVE  SettingsInv'
<1>1. mu = t /\ HolderInv(t) /\ pc[t] = "work" /\ pc'[t] = "unlock"
  BY DEF Panic, Goto, MutexInv, ThreadInv, SettingsInv
<1>2. UNCHANGED <<mu, globals, call, todo, old, read, entry>>
  BY DEF Panic
<1>3. Mine(t)' = Mine(t)
  BY <1>2 DEF Mine
<1>4. HolderInv(t)'
  BY <1>1, <1>2, <1>3 DEF HolderInv
<1> QED
  BY <1>1, <1>2, <1>4 DEF SettingsInv

LEMMA RestoreStep ==
  ASSUME MutexInv, SettingsInv, NEW t \in Threads, Restore(t)
  PROVE  SettingsInv'
<1> DEFINE v0 == Head(todo[t])
<1>1. mu = t /\ call[t] \in Requests /\ HolderInv(t) /\ pc[t] = "restore" /\ todo[t] # <<>>
  BY DEF Restore, MutexInv, ThreadInv, SettingsInv
<1>2. /\ v0 \in Vars /\ Tail(todo[t]) \in Seq(Vars)
      /\ ToSet(todo[t]) = {v0} \cup ToSet(Tail(todo[t]))
  BY <1>1, HeadAndTail DEF HolderInv
<1>3. /\ UNCHANGED <<mu, call, pc, old, read, entry>>
      /\ todo'[t] = Tail(todo[t])
      /\ globals' = [globals EXCEPT ![v0] = old[t][v0]]
  BY DEF Restore, MutexInv
<1>4. Mine(t)' = Mine(t) /\ PutBack(t)' = PutBack(t)
  BY <1>3 DEF Mine, PutBack
<1>5. Restored(call[t]) # <<>> /\ old[t] = entry /\ PutBack(t) = entry
  BY <1>1 DEF HolderInv, PutBack
<1>6. \A v \in Vars \ ToSet(todo'[t]) : globals'[v] = entry[v]
  <2>1. globals'[v0] = entry[v0]
    BY <1>2, <1>3, <1>5 DEF SettingsInv, Whole
  <2>2. \A v \in Vars \ ToSet(todo[t]) : globals'[v] = entry[v]
    BY <1>1, <1>2, <1>3, <1>5 DEF SettingsInv, Whole, HolderInv
  <2> QED
    BY <1>2, <1>3, <2>1, <2>2
<1>7. HolderInv(t)'
  BY <1>1, <1>2, <1>3, <1>4, <1>5, <1>6 DEF HolderInv
<1>8. Whole(globals')
  BY <1>3 DEF SettingsInv, Whole
<1> QED
  BY <1>1, <1>3, <1>7, <1>8, GlobalsAssumption DEF SettingsInv

LEMMA UnlockStep ==
  ASSUME MutexInv, SettingsInv, NEW t \in Threads, Unlock(t)
  PROVE  SettingsInv'
<1>1. mu' = Nobody /\ entry' = Initial /\ globals' = globals
      /\ read' = [read EXCEPT ![t] = Nothing]
  BY DEF Unlock, Return
<1>2. Whole(entry') /\ \A u \in Threads : DOMAIN read'[u] = Vars
  BY <1>1 DEF Initial, Nothing, Vars, Whole, SettingsInv, MutexInv
<1> QED
  BY <1>1, <1>2, GlobalsAssumption DEF SettingsInv

LEMMA BeginStep ==
  ASSUME MutexInv, SettingsInv, NEW t \in Threads, Begin(t)
  PROVE  SettingsInv'
<1>1. UNCHANGED <<mu, globals, entry, read>> /\ mu # t /\ Local(t)
  BY StepsAreLocal DEF Begin, MutexInv, ThreadInv
<1>2. \A u \in Threads : mu' = u => HolderInv(u)'
  BY <1>1, OthersKeep
<1> QED
  BY <1>1, <1>2 DEF SettingsInv

LEMMA SettingsStep ==
  ASSUME MutexInv, SettingsInv, [Next]_vars
  PROVE  SettingsInv'
<1>1. CASE UNCHANGED vars
  BY <1>1 DEF vars, SettingsInv, HolderInv, Mine, PutBack
<1>2. ASSUME NEW t \in Threads, Begin(t) \/ Lock(t) \/ Work(t) PROVE SettingsInv'
  BY <1>2, BeginStep, LockStep, AssignStep, StartWorkStep, ReadStep, EndWorkStep,
     PanicStep, RestoreStep, UnlockStep DEF Work
<1> QED
  BY <1>1, <1>2 DEF Next

(***************************************************************************)
(* The goroutine in the critical section is the only one that changes the  *)
(* package variables, and what it will restore is what it has found.       *)
(***************************************************************************)
THEOREM Invariance == Spec => [](MutexInv /\ SettingsInv)
<1>1. Init => MutexInv /\ SettingsInv
  BY MutexInit, SettingsInit
<1>2. MutexInv /\ SettingsInv /\ [Next]_vars => (MutexInv /\ SettingsInv)'
  BY MutexStep, SettingsStep
<1> QED
  BY <1>1, <1>2, PTL DEF Spec

(***************************************************************************)
(* A call that holds the mutex reads only its own settings and those it    *)
(* found (formatGlobalsMu and the assignments of every entry point).       *)
(***************************************************************************)
THEOREM CallsReadTheirOwn == Spec => []OwnSettings
<1>1. MutexInv /\ SettingsInv => OwnSettings
  BY DEF SettingsInv, HolderInv, OwnSettings, Mine
<1> QED
  BY <1>1, Invariance, PTL

-----------------------------------------------------------------------------
(***************************************************************************)
(* The refinement: a call takes place for SerialCalls when it gives the    *)
(* mutex back; until then the settings standing are those it found.        *)
(***************************************************************************)
Standing == IF mu = Nobody THEN globals ELSE entry

LEMMA SerialInit == Init => Serial!Init
  BY DEF Init, Serial!Init

LEMMA SerialStep ==
  ASSUME MutexInv, SettingsInv, [Next]_vars
  PROVE  [Serial!Next]_(Serial!vars)
<1> USE DEF Serial!Next, Serial!vars
<1>1. CASE UNCHANGED vars
  BY <1>1 DEF vars
<1>2. ASSUME NEW t \in Threads, Begin(t) PROVE Serial!Next
  <2>1. Serial!Begin(t)
    BY <1>2 DEF Begin, Serial!Begin, MutexInv, ThreadInv
  <2> QED
    BY <2>1
<1>3. ASSUME NEW t \in Threads, Lock(t) PROVE UNCHANGED Serial!vars
  BY <1>3, GlobalsAssumption DEF Lock
<1>4. ASSUME NEW t \in Threads, Assign(t) \/ Restore(t) PROVE UNCHANGED Serial!vars
  <2>1. mu = t
    BY <1>4 DEF Assign, Restore, MutexInv, ThreadInv
  <2> QED
    BY <1>4, <2>1, GlobalsAssumption DEF Assign, Restore
<1>5. ASSUME NEW t \in Threads, StartWork(t) \/ Read(t) \/ Panic(t) PROVE UNCHANGED Serial!vars
  BY <1>5 DEF StartWork, Read, Panic
<1>6. ASSUME NEW t \in Threads, EndWork(t) PROVE [Serial!Next]_(Serial!vars)
  <2>1. CASE Guarded(call[t])
    BY <1>6, <2>1 DEF EndWork
  <2>2. CASE ~Guarded(call[t])
    <3>1. Serial!UnguardedCall(t)
      BY <1>6, <2>2 DEF EndWork, Return, Serial!UnguardedCall, MutexInv, ThreadInv
    <3> QED
      BY <3>1
  <2> QED
    BY <2>1, <2>2
<1>7. ASSUME NEW t \in Threads, Unlock(t) PROVE Serial!Next
  <2>1. mu = t /\ mu # Nobody /\ HolderInv(t) /\ Guarded(call[t]) /\ call[t] # NoCall
    BY <1>7, GlobalsAssumption DEF Unlock, MutexInv, ThreadInv, SettingsInv
  <2>2. mu' = Nobody /\ globals' = globals /\ call' = [call EXCEPT ![t] = NoCall]
    BY <1>7 DEF Unlock, Return
  <2>3. Whole(globals) /\ Whole(Mine(t)) /\ Whole(PutBack(t))
    BY DEF SettingsInv, Mine, With, PutBack, Whole
  <2>4. globals \in {Mine(t), PutBack(t)}
    <3>1. CASE pc[t] = "unlock"
      BY <2>1, <2>3, <3>1 DEF HolderInv, Whole
    <3>2. CASE pc[t] = "restore" /\ todo[t] = <<>>
      BY <2>1, <2>3, <3>2, EmptyHasNone DEF HolderInv, Whole
    <3> QED
      BY <1>7, <3>1, <3>2 DEF Unlock
  <2>5. Serial!GuardedCall(t)
    BY <2>1, <2>2, <2>4 DEF Serial!GuardedCall, Mine, PutBack
  <2> QED
    BY <2>5
<1> QED
  BY <1>1, <1>2, <1>3, <1>4, <1>5, <1>6, <1>7 DEF Next, Work

(***************************************************************************)
(* Calls that take the mutex take place one at a time, whatever they are,  *)
(* also when a helper panics (formatGlobalsMu and the deferred unlock).    *)
(***************************************************************************)
THEOREM CallsAreSerial == Spec => Implements
  BY SerialInit, SerialStep, Invariance, PTL DEF Spec, Implements, Serial!Spec

-----------------------------------------------------------------------------
(***************************************************************************)
(* Comments.                                                               *)
(***************************************************************************)
(***************************************************************************)
(* Lists and their concatenation.                                          *)
(***************************************************************************)
Join(a, b) == a \o b

LEMMA SeqInduction ==
  ASSUME NEW X, NEW P, <<>> \in P, \A s \in Seq(X), e \in X : s \in P => Append(s, e) \in P
  PROVE  Seq(X) \subseteq P
<1> DEFINE U == {n \in Nat : \A s \in Seq(X) : Len(s) = n => s \in P}
<1>1. 0 \in U
  <2>1. \A s \in Seq(X) : Len(s) = 0 => s = <<>>
    BY EmptySeq
  <2> QED
    BY <2>1
<1>2. ASSUME NEW n \in Nat, n \in U PROVE n + 1 \in U
  <2> SUFFICES ASSUME NEW s \in Seq(X), Len(s) = n + 1 PROVE s \in P
    OBVIOUS
  <2>1. s # <<>>
    OBVIOUS
  <2>2. PICK t \in Seq(X), e \in X : s = Append(t, e)
    BY <2>1, SequenceEmptyOrAppend
  <2>3. Len(t) \in Nat /\ Len(s) = Len(t) + 1
    BY <2>2
  <2>4. Len(t) = n
    BY <2>3
  <2>5. t \in P
    BY <1>2, <2>4
  <2> QED
    BY <2>2, <2>5
<1> HIDE DEF U
<1>3. Nat \subseteq U
  BY <1>1, <1>2, NatInductionOnSets
<1>4. ASSUME NEW s \in Seq(X) PROVE s \in P
  <2>1. Len(s) \in U
    BY <1>3, LenProperties
  <2> QED
    BY <2>1 DEF U
<1> QED
  BY <1>4

LEMMA JoinType ==
  ASSUME NEW X, NEW a \in Seq(X), NEW b \in Seq(X)
  PROVE  Join(a, b) \in Seq(X) /\ Len(Join(a, b)) = Len(a) + Len(b)
BY ConcatProperties DEF Join

LEMMA JoinAssoc ==
  ASSUME NEW X, NEW a \in Seq(X), NEW b \in Seq(X), NEW c \in Seq(X)
  PROVE  Join(Join(a, b), c) = Join(a, Join(b, c))
BY ConcatAssociative DEF Join

LEMMA JoinEmpty ==
  ASSUME NEW X, NEW a \in Seq(X)
  PROVE  Join(a, <<>>) = a /\ Join(<<>>, a) = a
BY ConcatEmptySeq DEF Join

LEMMA JoinOne ==
  ASSUME NEW X, NEW a \in Seq(X), NEW x \in X
  PROVE  Append(a, x) = Join(a, <<x>>)
BY AppendIsConcat DEF Join

LEMMA JoinAppend ==
  ASSUME NEW X, NEW a \in Seq(X), NEW b \in Seq(X), NEW x \in X
  PROVE  Join(a, Append(b, x)) = Append(Join(a, b), x)
<1>1. <<x>> \in Seq(X)
  OBVIOUS
<1>2. Append(b, x) = Join(b, <<x>>)
  BY JoinOne
<1>3. PICK c : c = Join(a, b)
  OBVIOUS
<1>4. c \in Seq(X)
  BY <1>3, JoinType
<1>5. Append(c, x) = Join(c, <<x>>)
  BY <1>4, JoinOne
<1>6. PICK d : d = <<x>>
  OBVIOUS
<1>7. Join(c, d) = Join(a, Join(b, d))
  <2>1. d \in Seq(X)
    BY <1>1, <1>6
  <2> QED
    BY <1>3, <2>1, JoinAssoc
<1> QED
  BY <1>2, <1>3, <1>5, <1>6, <1>7

(***************************************************************************)
(* Two functions that go along two lists by the same steps agree.          *)
(***************************************************************************)
AlikeSteps(f, g, n) ==
  f[0] = g[0] /\ \A k \in 1..n : f[k - 1] = g[k - 1] => f[k] = g[k]

LEMMA SameSteps ==
  ASSUME NEW n \in Nat, NEW f, NEW g, AlikeSteps(f, g, n)
  PROVE  \A k \in 0..n : f[k] = g[k]
<1> DEFINE U == {k \in Nat : k <= n => f[k] = g[k]}
<1>1. 0 \in U
  BY DEF AlikeSteps
<1>2. ASSUME NEW k \in Nat, k \in U PROVE k + 1 \in U
  <2>1. CASE k + 1 <= n
    <3>1. k + 1 \in 1..n /\ (k + 1) - 1 = k /\ f[k] = g[k]
      BY <1>2, <2>1
    <3> QED
      BY <3>1 DEF AlikeSteps
  <2>2. CASE ~(k + 1 <= n)
    BY <2>2
  <2> QED
    BY <2>1, <2>2
<1> HIDE DEF U
<1>3. Nat \subseteq U
  BY <1>1, <1>2, NatInductionOnSets
<1> QED
  BY <1>3 DEF U

LEMMA AppendFacts ==
  ASSUME NEW X, NEW s \in Seq(X), NEW e \in X
  PROVE  /\ Append(s, e) \in Seq(X) /\ Len(s) \in Nat /\ Len(Append(s, e)) = Len(s) + 1
         /\ DOMAIN s = 1..Len(s) /\ DOMAIN Append(s, e) = 1..(Len(s) + 1)
         /\ \A k \in 1..Len(s) : Append(s, e)[k] = s[k]
         /\ Append(s, e)[Len(s) + 1] = e
BY AppendProperties, LenProperties

(***************************************************************************)
(* Concat and Selected, one member at a time.                              *)
(***************************************************************************)
IsConcat(ss, f) ==
  f = [n \in 0..Len(ss) |-> IF n = 0 THEN <<>> ELSE f[n - 1] \o ss[n]]

LEMMA ConcatRecursion ==
  ASSUME NEW X, NEW ss \in Seq(Seq(X))
  PROVE  \E f : /\ Concat(ss) = f[Len(ss)]
                /\ f \in [0..Len(ss) -> Seq(X)]
                /\ f[0] = <<>> /\ \A k \in 1..Len(ss) : f[k] = Join(f[k - 1], ss[k])
<1>1. PICK n, L : n = Len(ss) /\ L = Seq(X)
  OBVIOUS
<1>2. PICK G : G = [q \in (1..n) \X L |-> Join(q[2], ss[q[1]])]
  OBVIOUS
<1>3. n \in Nat /\ \A k \in 1..n : ss[k] \in L
  BY <1>1
<1>4. ASSUME NEW k \in 1..n, NEW x \in L PROVE Join(x, ss[k]) \in L
  <2>1. ss[k] \in Seq(X) /\ x \in Seq(X)
    BY <1>1, <1>3
  <2> QED
    BY <1>1, <2>1, JoinType
<1>5. G \in [(1..n) \X L -> L]
  BY <1>2, <1>4
<1>6. PICK e : e = <<>>
  OBVIOUS
<1>7. e \in L
  BY <1>1, <1>6
<1>8. PICK f : Steps(f, L, e, n, G)
  BY <1>3, <1>5, <1>7, StepsExist
<1>9. ASSUME NEW k \in 1..n PROVE f[k] = Join(f[k - 1], ss[k])
  <2>1. k - 1 \in 0..n /\ f[k - 1] \in L
    BY <1>3, <1>8 DEF Steps
  <2> QED
    BY <1>2, <1>8, <2>1 DEF Steps
<1>10. f = [k \in 0..n |-> IF k = 0 THEN e ELSE Join(f[k - 1], ss[k])]
  <2>1. f \in [0..n -> L] /\ f[0] = e
    BY <1>8 DEF Steps
  <2>2. \A k \in 0..n : f[k] = IF k = 0 THEN e ELSE Join(f[k - 1], ss[k])
    BY <1>3, <1>9, <2>1
  <2> QED
    BY <2>1, <2>2
<1>11. IsConcat(ss, f)
  BY <1>1, <1>6, <1>10 DEF IsConcat, Join
<1>12. PICK g : g = CHOOSE h : IsConcat(ss, h)
  OBVIOUS
<1>13. IsConcat(ss, g)
  BY <1>11, <1>12
<1>14. Concat(ss) = g[n]
  BY <1>1, <1>12 DEF Concat, IsConcat
<1>15. g = [k \in 0..n |-> IF k = 0 THEN e ELSE Join(g[k - 1], ss[k])]
  BY <1>1, <1>6, <1>13 DEF IsConcat, Join
<1>16. g[0] = e /\ \A k \in 1..n : g[k] = Join(g[k - 1], ss[k])
  BY <1>3, <1>15
<1>17. \A k \in 0..n : f[k] = g[k]
  <2>1. f[0] = g[0]
    BY <1>8, <1>16 DEF Steps
  <2>2. \A k \in 1..n : f[k - 1] = g[k - 1] => f[k] = g[k]
    BY <1>9, <1>16
  <2>3. n \in Nat
    BY <1>3
  <2>4. AlikeSteps(f, g, n)
    BY <2>1, <2>2 DEF AlikeSteps
  <2> QED
    BY <2>3, <2>4, SameSteps
<1>18. Concat(ss) = f[n]
  BY <1>3, <1>14, <1>17
<1> QED
  BY <1>1, <1>6, <1>8, <1>9, <1>18 DEF Steps

LEMMA ConcatAppend ==
  ASSUME NEW X, NEW ss \in Seq(Seq(X)), NEW x \in Seq(X)
  PROVE  Concat(ss) \in Seq(X) /\ Concat(Append(ss, x)) = Join(Concat(ss), x)
<1>1. PICK L, n, tt : L = Seq(X) /\ n = Len(ss) /\ tt = Append(ss, x)
  OBVIOUS
<1>2. /\ tt \in Seq(L) /\ n \in Nat /\ Len(tt) = n + 1
      /\ \A k \in 1..n : tt[k] = ss[k]
      /\ tt[n + 1] = x
  BY <1>1, AppendFacts
<1>3. PICK f : /\ Concat(ss) = f[n] /\ f \in [0..n -> Seq(X)]
               /\ f[0] = <<>> /\ \A k \in 1..n : f[k] = Join(f[k - 1], ss[k])
  <2>1. PICK f : /\ Concat(ss) = f[Len(ss)]
                 /\ f \in [0..Len(ss) -> Seq(X)]
                 /\ f[0] = <<>> /\ \A k \in 1..Len(ss) : f[k] = Join(f[k - 1], ss[k])
    BY ConcatRecursion
  <2> QED
    BY <1>1, <2>1
<1>4. PICK g : /\ Concat(tt) = g[n + 1]
               /\ g[0] = <<>> /\ \A k \in 1..(n + 1) : g[k] = Join(g[k - 1], tt[k])
  <2>1. tt \in Seq(Seq(X))
    BY <1>1, <1>2
  <2>2. PICK g : /\ Concat(tt) = g[Len(tt)]
                 /\ g \in [0..Len(tt) -> Seq(X)]
                 /\ g[0] = <<>> /\ \A k \in 1..Len(tt) : g[k] = Join(g[k - 1], tt[k])
    BY <2>1, ConcatRecursion
  <2> QED
    BY <1>2, <2>2
<1>5. f[0] = g[0]
  BY <1>3, <1>4
<1>6. \A k \in 1..n : f[k - 1] = g[k - 1] => f[k] = g[k]
  BY <1>2, <1>3, <1>4
<1>7. \A k \in 0..n : f[k] = g[k]
  <2>1. n \in Nat
    BY <1>2
  <2>2. AlikeSteps(f, g, n)
    BY <1>5, <1>6 DEF AlikeSteps
  <2> QED
    BY <2>1, <2>2, SameSteps
<1>8. g[n + 1] = Join(g[n], x)
  BY <1>2, <1>4
<1> QED
  BY <1>1, <1>2, <1>3, <1>4, <1>7, <1>8

LEMMA ConcatEmpty == Concat(<<>>) = <<>>
<1>1. PICK ss : ss = <<>>
  OBVIOUS
<1>2. ss \in Seq(Seq({})) /\ Len(ss) = 0
  BY <1>1
<1>3. Concat(ss) = <<>>
  BY <1>2, ConcatRecursion
<1> QED
  BY <1>1, <1>3

LEMMA ConcatJoin ==
  ASSUME NEW X, NEW ss \in Seq(Seq(X)), NEW tt \in Seq(Seq(X))
  PROVE  Concat(Join(ss, tt)) = Join(Concat(ss), Concat(tt))
<1>1. PICK L : L = Seq(X)
  OBVIOUS
<1>2. ss \in Seq(L) /\ tt \in Seq(L)
  BY <1>1
<1>3. PICK P : P = {t \in Seq(L) : Concat(Join(ss, t)) = Join(Concat(ss), Concat(t))}
  OBVIOUS
<1>4. \A t \in Seq(L) : Concat(t) \in Seq(X)
  BY <1>1, ConcatAppend, EmptySeq
<1>5. <<>> \in P
  <2>1. Join(ss, <<>>) = ss
    BY <1>2, JoinEmpty
  <2>2. Join(Concat(ss), <<>>) = Concat(ss)
    BY <1>2, <1>4, JoinEmpty
  <2>3. <<>> \in Seq(L)
    OBVIOUS
  <2> QED
    BY <1>3, <2>1, <2>2, <2>3, ConcatEmpty
<1>6. ASSUME NEW t \in Seq(L), NEW x \in L, t \in P PROVE Append(t, x) \in P
  <2>1. Concat(Join(ss, t)) = Join(Concat(ss), Concat(t))
    BY <1>3, <1>6
  <2>2. Join(ss, Append(t, x)) = Append(Join(ss, t), x)
    BY <1>2, JoinAppend
  <2>3. Join(ss, t) \in Seq(L) /\ x \in Seq(X)
    BY <1>1, <1>2, JoinType
  <2>4. Concat(Append(Join(ss, t), x)) = Join(Concat(Join(ss, t)), x)
    BY <1>1, <2>3, ConcatAppend
  <2>5. Concat(Append(t, x)) = Join(Concat(t), x)
    BY <1>1, <2>3, ConcatAppend
  <2>6. Join(Join(Concat(ss), Concat(t)), x) = Join(Concat(ss), Join(Concat(t), x))
    BY <1>2, <1>4, <2>3, JoinAssoc
  <2>7. Append(t, x) \in Seq(L)
    BY AppendFacts
  <2> QED
    BY <1>3, <2>1, <2>2, <2>4, <2>5, <2>6, <2>7
<1>7. Seq(L) \subseteq P
  BY <1>5, <1>6, SeqInduction
<1> QED
  BY <1>2, <1>3, <1>7


GrowsBy(list, S, n, f) ==
  /\ f[0] = <<>>
  /\ \A k \in 1..n : f[k] = IF list[k] \in S THEN Append(f[k - 1], list[k]) ELSE f[k - 1]

LEMMA PrefixSteps ==
  ASSUME NEW list, NEW S, NEW n \in Nat, Len(list) = n
  PROVE  \E f : GrowsBy(list, S, n, f) /\ Selected(list, S) = f[n]
<1>1. PICK f : IsPrefixes(list, S, n, f) /\ Selected(list, S) = f[n]
  <2>1. PICK f : IsPrefixes(list, S, Len(list), f) /\ Selected(list, S) = f[Len(list)]
    BY SelectedRecursion
  <2> QED
    BY <2>1
<1>2. f = [j \in 0..n |-> IF j = 0 THEN <<>>
                          ELSE IF list[j] \in S THEN Append(f[j - 1], list[j]) ELSE f[j - 1]]
  BY <1>1 DEF IsPrefixes
<1>3. \A j \in 0..n : f[j] = IF j = 0 THEN <<>>
                               ELSE IF list[j] \in S THEN Append(f[j - 1], list[j]) ELSE f[j - 1]
  BY <1>2
<1>4. 0 \in 0..n /\ \A k \in 1..n : k \in 0..n /\ k # 0
  OBVIOUS
<1>5. GrowsBy(list, S, n, f)
  BY <1>3, <1>4 DEF GrowsBy
<1> QED
  BY <1>1, <1>5

LEMMA SelectedAppend ==
  ASSUME NEW L, NEW list \in Seq(L), NEW e \in L, NEW S
  PROVE  Selected(Append(list, e), S)
           = IF e \in S THEN Append(Selected(list, S), e) ELSE Selected(list, S)
<1>1. PICK n, m, long : n = Len(list) /\ m = Len(list) + 1 /\ long = Append(list, e)
  OBVIOUS
<1>2. /\ n \in Nat /\ m = n + 1 /\ Len(long) = m /\ long[m] = e
      /\ \A k \in 1..n : long[k] = list[k]
  BY <1>1, AppendFacts
<1>3. PICK f : GrowsBy(list, S, n, f) /\ Selected(list, S) = f[n]
  <2>1. n \in Nat /\ Len(list) = n
    BY <1>1, <1>2
  <2> QED
    BY <2>1, PrefixSteps
<1>4. PICK g : GrowsBy(long, S, m, g) /\ Selected(long, S) = g[m]
  <2>1. m \in Nat /\ Len(long) = m
    BY <1>2
  <2> QED
    BY <2>1, PrefixSteps
<1>5. AlikeSteps(f, g, n)
  BY <1>2, <1>3, <1>4 DEF GrowsBy, AlikeSteps
<1>6. f[n] = g[n]
  <2>1. n \in Nat
    BY <1>2
  <2>2. \A k \in 0..n : f[k] = g[k]
    BY <1>5, <2>1, SameSteps
  <2> QED
    BY <2>1, <2>2
<1>7. g[m] = IF e \in S THEN Append(g[n], e) ELSE g[n]
  BY <1>2, <1>4 DEF GrowsBy
<1> QED
  BY <1>1, <1>3, <1>4, <1>6, <1>7

LEMMA SelectedEmpty == ASSUME NEW S PROVE Selected(<<>>, S) = <<>>
<1>1. PICK list : list = <<>>
  OBVIOUS
<1>2. Len(list) = 0
  BY <1>1
<1>3. Selected(list, S) = <<>>
  BY <1>2, SelectedRecursion DEF IsPrefixes
<1> QED
  BY <1>1, <1>3

LEMMA SelectedJoin ==
  ASSUME NEW L, NEW a \in Seq(L), NEW b \in Seq(L), NEW S
  PROVE  Selected(Join(a, b), S) = Join(Selected(a, S), Selected(b, S))
<1>1. PICK P : P = {t \in Seq(L) : Selected(Join(a, t), S) = Join(Selected(a, S), Selected(t, S))}
  OBVIOUS
<1>2. <<>> \in P
  <2>1. Join(a, <<>>) = a
    BY JoinEmpty
  <2>2. Join(Selected(a, S), <<>>) = Selected(a, S)
    BY SelectedMembers, JoinEmpty
  <2>3. <<>> \in Seq(L)
    OBVIOUS
  <2> QED
    BY <1>1, <2>1, <2>2, <2>3, SelectedEmpty
<1>3. ASSUME NEW t \in Seq(L), NEW e \in L, t \in P PROVE Append(t, e) \in P
  <2>1. Selected(Join(a, t), S) = Join(Selected(a, S), Selected(t, S))
    BY <1>1, <1>3
  <2>2. PICK c, sa, st : c = Join(a, t) /\ sa = Selected(a, S) /\ st = Selected(t, S)
    OBVIOUS
  <2>3. c \in Seq(L) /\ sa \in Seq(L) /\ st \in Seq(L)
    <3>1. Join(a, t) \in Seq(L)
      BY JoinType
    <3>2. Selected(a, S) \in Seq(L) /\ Selected(t, S) \in Seq(L)
      BY SelectedMembers
    <3> QED
      BY <2>2, <3>1, <3>2
  <2>4. Join(a, Append(t, e)) = Append(c, e)
    <3>1. Join(a, Append(t, e)) = Append(Join(a, t), e)
      BY JoinAppend
    <3> QED
      BY <2>2, <3>1
  <2>5. Selected(Append(c, e), S) = IF e \in S THEN Append(Selected(c, S), e) ELSE Selected(c, S)
    BY <2>3, SelectedAppend
  <2>6. Selected(Append(t, e), S) = IF e \in S THEN Append(st, e) ELSE st
    BY <2>2, SelectedAppend
  <2>7. Join(sa, Append(st, e)) = Append(Join(sa, st), e)
    BY <2>3, JoinAppend
  <2>8. Append(t, e) \in Seq(L)
    BY AppendFacts
  <2> QED
    BY <1>1, <2>1, <2>2, <2>4, <2>5, <2>6, <2>7, <2>8
<1>4. Seq(L) \subseteq P
  BY <1>2, <1>3, SeqInduction
<1> QED
  BY <1>1, <1>4

(* Selecting twice is selecting what both want.                            *)
LEMMA SelectedTwice ==
  ASSUME NEW L, NEW a \in Seq(L), NEW S, NEW T, S \subseteq T
  PROVE  Selected(Selected(a, T), S) = Selected(a, S)
<1>1. PICK P : P = {t \in Seq(L) : Selected(Selected(t, T), S) = Selected(t, S)}
  OBVIOUS
<1>2. <<>> \in P
  <2>1. <<>> \in Seq(L)
    OBVIOUS
  <2> QED
    BY <1>1, <2>1, SelectedEmpty
<1>3. ASSUME NEW t \in Seq(L), NEW e \in L, t \in P PROVE Append(t, e) \in P
  <2>1. PICK c : c = Selected(t, T)
    OBVIOUS
  <2>2. c \in Seq(L)
    BY <2>1, SelectedMembers
  <2>3. Selected(c, S) = Selected(t, S)
    BY <1>1, <1>3, <2>1
  <2>4. Selected(Append(t, e), T) = IF e \in T THEN Append(c, e) ELSE c
    BY <2>1, SelectedAppend
  <2>5. Selected(Append(t, e), S) = IF e \in S THEN Append(Selected(t, S), e) ELSE Selected(t, S)
    BY SelectedAppend
  <2>6. Selected(Append(c, e), S) = IF e \in S THEN Append(Selected(c, S), e) ELSE Selected(c, S)
    BY <2>2, SelectedAppend
  <2>7. Append(t, e) \in Seq(L)
    BY AppendFacts
  <2> QED
    BY <1>1, <2>3, <2>4, <2>5, <2>6, <2>7
<1>4. Seq(L) \subseteq P
  BY <1>2, <1>3, SeqInduction
<1> QED
  BY <1>1, <1>4

(***************************************************************************)
(* A list made of what every member of another one stands for.             *)
(***************************************************************************)
Mapped(s, F) == [k \in DOMAIN s |-> F[s[k]]]

Flat(s, F) == Concat(Mapped(s, F))

Maps(F, X, Y) == F \in [X -> Y]

LEMMA MappedAppend ==
  ASSUME NEW X, NEW Y, NEW F, Maps(F, X, Y), NEW s \in Seq(X), NEW x \in X
  PROVE  /\ Mapped(s, F) \in Seq(Y)
         /\ Mapped(Append(s, x), F) = Append(Mapped(s, F), F[x])
<1>1. PICK n, t, m, w : n = Len(s) /\ t = Append(s, x) /\ m = Mapped(s, F) /\ w = Mapped(t, F)
  OBVIOUS
<1>2. /\ t \in Seq(X) /\ n \in Nat /\ DOMAIN s = 1..n /\ DOMAIN t = 1..(n + 1)
      /\ \A k \in 1..n : t[k] = s[k]
      /\ t[n + 1] = x
  BY <1>1, AppendFacts
<1>3. \A k \in 1..n : s[k] \in X
  BY <1>1
<1>4. m = [k \in 1..n |-> F[s[k]]]
  BY <1>1, <1>2 DEF Mapped
<1>5. w = [k \in 1..(n + 1) |-> F[t[k]]]
  BY <1>1, <1>2 DEF Mapped
<1>6. m \in [1..n -> Y]
  BY <1>3, <1>4 DEF Maps
<1>7. m \in Seq(Y) /\ Len(m) = n
  BY <1>2, <1>6, LenProperties
<1>8. F[x] \in Y
  BY DEF Maps
<1>9. PICK v : v = Append(m, F[x])
  OBVIOUS
<1>10. /\ v \in Seq(Y) /\ DOMAIN v = 1..(n + 1)
       /\ \A k \in 1..n : v[k] = m[k]
       /\ v[n + 1] = F[x]
  BY <1>7, <1>8, <1>9, AppendFacts
<1>11. v = [k \in 1..(n + 1) |-> v[k]]
  BY <1>10
<1>12. \A k \in 1..(n + 1) : v[k] = F[t[k]]
  BY <1>2, <1>4, <1>10
<1>13. v = w
  BY <1>5, <1>11, <1>12
<1> QED
  BY <1>1, <1>7, <1>9, <1>13

LEMMA FlatEmpty == ASSUME NEW F PROVE Flat(<<>>, F) = <<>>
<1>1. PICK s, m : s = <<>> /\ m = Mapped(s, F)
  OBVIOUS
<1>2. DOMAIN s = {}
  BY <1>1
<1>3. DOMAIN m = {} /\ m = [k \in {} |-> 0]
  BY <1>1, <1>2 DEF Mapped
<1>4. m = <<>>
  BY <1>3
<1> QED
  BY <1>1, <1>4, ConcatEmpty DEF Flat

LEMMA FlatAppend ==
  ASSUME NEW X, NEW Y, NEW F, Maps(F, X, Seq(Y)), NEW s \in Seq(X), NEW x \in X
  PROVE  /\ Flat(s, F) \in Seq(Y)
         /\ Flat(Append(s, x), F) = Join(Flat(s, F), F[x])
<1>1. PICK L, m, y : L = Seq(Y) /\ m = Mapped(s, F) /\ y = F[x]
  OBVIOUS
<1>2. y \in L /\ Maps(F, X, L)
  BY <1>1 DEF Maps
<1>3. m \in Seq(L) /\ Mapped(Append(s, x), F) = Append(m, y)
  <2>1. Mapped(s, F) \in Seq(L) /\ Mapped(Append(s, x), F) = Append(Mapped(s, F), F[x])
    BY <1>2, MappedAppend
  <2> QED
    BY <1>1, <2>1
<1>4. m \in Seq(Seq(Y)) /\ y \in Seq(Y)
  BY <1>1, <1>2, <1>3
<1>5. Concat(m) \in Seq(Y) /\ Concat(Append(m, y)) = Join(Concat(m), y)
  BY <1>4, ConcatAppend
<1> QED
  BY <1>1, <1>3, <1>5 DEF Flat

LEMMA FlatType ==
  ASSUME NEW X, NEW Y, NEW F, Maps(F, X, Seq(Y)), NEW s \in Seq(X)
  PROVE  Flat(s, F) \in Seq(Y)
<1>1. CASE s = <<>>
  BY <1>1, FlatEmpty, EmptySeq
<1>2. CASE s # <<>>
  <2>1. PICK t \in Seq(X), e \in X : s = Append(t, e)
    BY <1>2, SequenceEmptyOrAppend
  <2>2. Flat(t, F) \in Seq(Y) /\ Flat(s, F) = Join(Flat(t, F), F[e])
    BY <2>1, FlatAppend
  <2>3. F[e] \in Seq(Y)
    BY DEF Maps
  <2> QED
    BY <2>2, <2>3, JoinType
<1> QED
  BY <1>1, <1>2

LEMMA FlatJoin ==
  ASSUME NEW X, NEW Y, NEW F, Maps(F, X, Seq(Y)), NEW a \in Seq(X), NEW b \in Seq(X)
  PROVE  Flat(Join(a, b), F) = Join(Flat(a, F), Flat(b, F))
<1>1. PICK P : P = {t \in Seq(X) : Flat(Join(a, t), F) = Join(Flat(a, F), Flat(t, F))}
  OBVIOUS
<1>2. <<>> \in P
  <2>1. Join(a, <<>>) = a
    BY JoinEmpty
  <2>2. Join(Flat(a, F), <<>>) = Flat(a, F)
    <3>1. Flat(a, F) \in Seq(Y)
      BY FlatType
    <3> QED
      BY <3>1, JoinEmpty
  <2>3. <<>> \in Seq(X)
    OBVIOUS
  <2> QED
    BY <1>1, <2>1, <2>2, <2>3, FlatEmpty
<1>3. ASSUME NEW t \in Seq(X), NEW e \in X, t \in P PROVE Append(t, e) \in P
  <2>1. PICK c, fa, ft, fe : c = Join(a, t) /\ fa = Flat(a, F) /\ ft = Flat(t, F) /\ fe = F[e]
    OBVIOUS
  <2>2. Flat(c, F) = Join(fa, ft)
    BY <1>1, <1>3, <2>1
  <2>3. c \in Seq(X)
    BY <2>1, JoinType
  <2>4. fa \in Seq(Y) /\ ft \in Seq(Y) /\ fe \in Seq(Y)
    <3>1. Flat(a, F) \in Seq(Y) /\ Flat(t, F) \in Seq(Y)
      BY FlatType
    <3>2. F[e] \in Seq(Y)
      BY DEF Maps
    <3> QED
      BY <2>1, <3>1, <3>2
  <2>5. Join(a, Append(t, e)) = Append(c, e)
    <3>1. Join(a, Append(t, e)) = Append(Join(a, t), e)
      BY JoinAppend
    <3> QED
      BY <2>1, <3>1
  <2>6. Flat(Append(c, e), F) = Join(Flat(c, F), fe)
    <3>1. Flat(Append(c, e), F) = Join(Flat(c, F), F[e])
      BY <2>3, FlatAppend
    <3> QED
      BY <2>1, <3>1
  <2>7. Flat(Append(t, e), F) = Join(ft, fe)
    <3>1. Flat(Append(t, e), F) = Join(Flat(t, F), F[e])
      BY FlatAppend
    <3> QED
      BY <2>1, <3>1
  <2>8. Join(Join(fa, ft), fe) = Join(fa, Join(ft, fe))
    BY <2>4, JoinAssoc
  <2>9. Append(t, e) \in Seq(X)
    BY AppendFacts
  <2>10. Flat(Join(a, Append(t, e)), F) = Join(fa, Flat(Append(t, e), F))
    BY <2>2, <2>5, <2>6, <2>7, <2>8
  <2> QED
    BY <1>1, <2>1, <2>9, <2>10
<1>4. Seq(X) \subseteq P
  BY <1>2, <1>3, SeqInduction
<1> QED
  BY <1>1, <1>4

-----------------------------------------------------------------------------
(***************************************************************************)
(* The words of lines.                                                     *)
(***************************************************************************)
LinesOf(V, M) == [indent : Nat, mark : M, lead : Nat, words : Seq(V)]

WordsOf == [l \in AnyLine |-> PlainWords(l.words)]

LEMMA PlainWordsType ==
  ASSUME NEW ws \in Seq(Words)
  PROVE  PlainWords(ws) \in Seq(Words) /\ RealWords(ws) \in Seq(Words)
BY SelectedMembers DEF PlainWords, RealWords

LEMMA PlainWordsAppend ==
  ASSUME NEW ws \in Seq(Words), NEW w \in Words
  PROVE  PlainWords(Append(ws, w))
           = IF w \in {"", "//", "/*", "*/"} THEN PlainWords(ws) ELSE Append(PlainWords(ws), w)
<1>1. PICK S : S = Words \ {"", "//", "/*", "*/"}
  OBVIOUS
<1>2. Selected(Append(ws, w), S) = IF w \in S THEN Append(Selected(ws, S), w) ELSE Selected(ws, S)
  BY SelectedAppend
<1>3. w \in S <=> w \notin {"", "//", "/*", "*/"}
  BY <1>1
<1>4. PlainWords(ws) = Selected(ws, S) /\ PlainWords(Append(ws, w)) = Selected(Append(ws, w), S)
  BY <1>1 DEF PlainWords
<1> QED
  BY <1>2, <1>3, <1>4

LEMMA PlainWordsEmpty == PlainWords(<<>>) = <<>> /\ RealWords(<<>>) = <<>>
BY SelectedEmpty DEF PlainWords, RealWords

LEMMA PlainWordsJoin ==
  ASSUME NEW a \in Seq(Words), NEW b \in Seq(Words)
  PROVE  PlainWords(Join(a, b)) = Join(PlainWords(a), PlainWords(b))
<1>1. PICK S : S = Words \ {"", "//", "/*", "*/"}
  OBVIOUS
<1>2. Selected(Join(a, b), S) = Join(Selected(a, S), Selected(b, S))
  BY SelectedJoin
<1> QED
  BY <1>1, <1>2 DEF PlainWords

LEMMA PlainWordsOfReal ==
  ASSUME NEW ws \in Seq(Words)
  PROVE  PlainWords(RealWords(ws)) = PlainWords(ws)
<1>1. PICK S, T : S = Words \ {"", "//", "/*", "*/"} /\ T = Words \ {""}
  OBVIOUS
<1>2. S \subseteq T
  BY <1>1
<1>3. Selected(Selected(ws, T), S) = Selected(ws, S)
  BY <1>2, SelectedTwice
<1> QED
  BY <1>1, <1>3 DEF PlainWords, RealWords

LEMMA WordsOfMaps == Maps(WordsOf, AnyLine, Seq(Words))
<1>1. \A l \in AnyLine : PlainWords(l.words) \in Seq(Words)
  <2> SUFFICES ASSUME NEW l \in AnyLine PROVE PlainWords(l.words) \in Seq(Words)
    OBVIOUS
  <2>1. l.words \in Seq(Words)
    BY DEF AnyLine
  <2> QED
    BY <2>1, PlainWordsType
<1> QED
  BY <1>1 DEF Maps, WordsOf

LEMMA AllWordsFlat ==
  ASSUME NEW file \in Seq(AnyLine)
  PROVE  AllWords(file) = Flat(file, WordsOf)
<1>1. \A k \in DOMAIN file : file[k] \in AnyLine
  OBVIOUS
<1>2. \A k \in DOMAIN file : WordsOf[file[k]] = PlainWords(file[k].words)
  BY <1>1 DEF WordsOf
<1>3. [k \in DOMAIN file |-> WordsOf[file[k]]] = [k \in DOMAIN file |-> PlainWords(file[k].words)]
  BY <1>2
<1> QED
  BY <1>3 DEF AllWords, Flat, Mapped

LEMMA AllWordsType ==
  ASSUME NEW file \in Seq(AnyLine)
  PROVE  AllWords(file) \in Seq(Words)
<1>1. Flat(file, WordsOf) \in Seq(Words)
  BY WordsOfMaps, FlatType
<1> QED
  BY <1>1, AllWordsFlat

LEMMA AllWordsEmpty == AllWords(<<>>) = <<>>
<1>1. <<>> \in Seq(AnyLine)
  OBVIOUS
<1> QED
  BY <1>1, AllWordsFlat, FlatEmpty

LEMMA AllWordsAppend ==
  ASSUME NEW file \in Seq(AnyLine), NEW l \in AnyLine
  PROVE  AllWords(Append(file, l)) = Join(AllWords(file), PlainWords(l.words))
<1>1. PICK long : long = Append(file, l)
  OBVIOUS
<1>2. long \in Seq(AnyLine)
  BY <1>1, AppendFacts
<1>3. Flat(Append(file, l), WordsOf) = Join(Flat(file, WordsOf), WordsOf[l])
  BY WordsOfMaps, FlatAppend
<1>4. WordsOf[l] = PlainWords(l.words)
  BY DEF WordsOf
<1>5. AllWords(long) = Flat(long, WordsOf) /\ AllWords(file) = Flat(file, WordsOf)
  BY <1>2, AllWordsFlat
<1> QED
  BY <1>1, <1>3, <1>4, <1>5

LEMMA AllWordsJoin ==
  ASSUME NEW a \in Seq(AnyLine), NEW b \in Seq(AnyLine)
  PROVE  AllWords(Join(a, b)) = Join(AllWords(a), AllWords(b))
<1>1. PICK c : c = Join(a, b)
  OBVIOUS
<1>2. c \in Seq(AnyLine)
  BY <1>1, JoinType
<1>3. Flat(Join(a, b), WordsOf) = Join(Flat(a, WordsOf), Flat(b, WordsOf))
  BY WordsOfMaps, FlatJoin
<1>4. AllWords(c) = Flat(c, WordsOf) /\ AllWords(a) = Flat(a, WordsOf) /\ AllWords(b) = Flat(b, WordsOf)
  BY <1>2, AllWordsFlat
<1> QED
  BY <1>1, <1>3, <1>4

LEMMA AllWordsOne ==
  ASSUME NEW l \in AnyLine
  PROVE  <<l>> \in Seq(AnyLine) /\ AllWords(<<l>>) = PlainWords(l.words)
<1>1. PICK e : e = <<>>
  OBVIOUS
<1>2. e \in Seq(AnyLine) /\ AllWords(e) = <<>>
  BY <1>1, AllWordsEmpty
<1>3. AllWords(Append(e, l)) = Join(AllWords(e), PlainWords(l.words))
  BY <1>2, AllWordsAppend
<1>4. PlainWords(l.words) \in Seq(Words)
  <2>1. l.words \in Seq(Words)
    BY DEF AnyLine
  <2> QED
    BY <2>1, PlainWordsType
<1>5. Join(<<>>, PlainWords(l.words)) = PlainWords(l.words)
  BY <1>4, JoinEmpty
<1>6. Append(e, l) = <<l>> /\ <<l>> \in Seq(AnyLine)
  BY <1>1
<1> QED
  BY <1>2, <1>3, <1>5, <1>6

LEMMA OneMember == ASSUME NEW X, NEW x \in X PROVE <<x>> \in Seq(X) /\ Len(<<x>>) = 1
OBVIOUS

LEMMA PlainWordsOne ==
  ASSUME NEW ws \in Seq(Words), NEW w \in Words
  PROVE  /\ PlainWords(<<w>>) \in Seq(Words)
         /\ PlainWords(Append(ws, w)) = Join(PlainWords(ws), PlainWords(<<w>>))
<1>1. PICK o : o = <<w>>
  OBVIOUS
<1>2. o \in Seq(Words)
  BY <1>1, OneMember
<1>3. Append(ws, w) = Join(ws, o)
  BY <1>1, JoinOne
<1>4. PlainWords(Join(ws, o)) = Join(PlainWords(ws), PlainWords(o))
  BY <1>2, PlainWordsJoin
<1>5. PlainWords(o) \in Seq(Words)
  BY <1>2, PlainWordsType
<1> QED
  BY <1>1, <1>3, <1>4, <1>5

LEMMA PrefixAppend ==
  ASSUME NEW X, NEW s \in Seq(X), NEW k \in Nat, k < Len(s)
  PROVE  /\ SubSeq(s, 1, k) \in Seq(X) /\ s[k + 1] \in X
         /\ SubSeq(s, 1, k + 1) = Append(SubSeq(s, 1, k), s[k + 1])
<1>1. Len(s) \in Nat /\ DOMAIN s = 1..Len(s) /\ \A j \in 1..Len(s) : s[j] \in X
  BY LenProperties
<1>2. PICK a, b, c : a = SubSeq(s, 1, k) /\ b = SubSeq(s, 1, k + 1) /\ c = Append(a, s[k + 1])
  OBVIOUS
<1>3. k + 1 \in 1..Len(s) /\ s[k + 1] \in X
  BY <1>1
<1>4. a \in Seq(X) /\ Len(a) = k /\ \A j \in 1..k : a[j] = s[j]
  <2>1. 1 \in Int /\ k \in Int /\ \A j \in 1..k : s[j] \in X
    BY <1>1
  <2>2. /\ SubSeq(s, 1, k) \in Seq(X)
        /\ Len(SubSeq(s, 1, k)) = IF 1 <= k THEN k - 1 + 1 ELSE 0
        /\ \A j \in 1..(k - 1 + 1) : SubSeq(s, 1, k)[j] = s[1 + j - 1]
    BY <2>1, SubSeqProperties
  <2> QED
    BY <1>2, <2>2
<1>5. b \in Seq(X) /\ Len(b) = k + 1 /\ \A j \in 1..(k + 1) : b[j] = s[j]
  BY <1>1, <1>2, <1>3, SubSeqProperties
<1>6. /\ c \in Seq(X) /\ Len(c) = k + 1
      /\ \A j \in 1..k : c[j] = a[j]
      /\ c[k + 1] = s[k + 1]
  BY <1>2, <1>3, <1>4, AppendFacts
<1>7. \A j \in 1..(k + 1) : b[j] = c[j]
  BY <1>4, <1>5, <1>6
<1>8. b = c
  BY <1>5, <1>6, <1>7, SeqEqual
<1> QED
  BY <1>2, <1>3, <1>4, <1>8

(***************************************************************************)
(* Placing a word adds it to the words placed, whichever line it goes to.  *)
(***************************************************************************)
Accs(V, M) == [done : Seq(LinesOf(V, M)), cur : LinesOf(V, M), filled : BOOLEAN]

PlacedWords(a) == Join(AllWords(a.done), PlainWords(a.cur.words))

LEMMA LinesOfAnyLine ==
  ASSUME NEW V, V \subseteq Words, NEW M, M \subseteq Marks
  PROVE  /\ LinesOf(V, M) \subseteq AnyLine
         /\ Seq(LinesOf(V, M)) \subseteq Seq(AnyLine)
         /\ Seq(V) \subseteq Seq(Words)
<1>1. \A A, B : A \subseteq B => Seq(A) \subseteq Seq(B)
  <2> SUFFICES ASSUME NEW A, NEW B, A \subseteq B, NEW s \in Seq(A) PROVE s \in Seq(B)
    OBVIOUS
  <2>1. Len(s) \in Nat /\ s \in [1..Len(s) -> A]
    BY LenProperties
  <2>2. s \in [1..Len(s) -> B]
    BY <2>1
  <2> QED
    BY <2>1, <2>2
<1>2. Seq(V) \subseteq Seq(Words)
  BY <1>1
<1>3. LinesOf(V, M) \subseteq AnyLine
  BY <1>2 DEF LinesOf, AnyLine
<1> QED
  BY <1>1, <1>2, <1>3

LEMMA WithWordFacts ==
  ASSUME NEW V, NEW M, NEW l \in LinesOf(V, M), NEW w \in V
  PROVE  WithWord(l, w) \in LinesOf(V, M) /\ WithWord(l, w).words = Append(l.words, w)
<1>1. l.indent \in Nat /\ l.mark \in M /\ l.lead \in Nat /\ l.words \in Seq(V)
  BY DEF LinesOf
<1>2. PICK ws : ws = Append(l.words, w)
  OBVIOUS
<1>3. ws \in Seq(V)
  BY <1>1, <1>2, AppendFacts
<1>4. WithWord(l, w) = [indent |-> l.indent, mark |-> l.mark, lead |-> l.lead, words |-> ws]
  BY <1>2 DEF WithWord, Line
<1> QED
  BY <1>1, <1>2, <1>3, <1>4 DEF LinesOf

LEMMA PlaceFacts ==
  ASSUME NEW V, V \subseteq Words, NEW M, M \subseteq Marks,
         NEW a \in Accs(V, M), NEW w \in V,
         NEW cont \in LinesOf(V, M), cont.words = <<>>
  PROVE  /\ Place(a, w, cont) \in Accs(V, M)
         /\ PlacedWords(Place(a, w, cont)) = Join(PlacedWords(a), PlainWords(<<w>>))
         /\ Place(a, w, cont).filled \/ Place(a, w, cont).cur = cont
<1>1. PICK done, cur, b : done = a.done /\ cur = a.cur /\ b = Place(a, w, cont)
  OBVIOUS
<1>2. done \in Seq(LinesOf(V, M)) /\ cur \in LinesOf(V, M)
  BY <1>1 DEF Accs
<1>3. PICK dw, cw, ow : dw = AllWords(done) /\ cw = PlainWords(cur.words) /\ ow = PlainWords(<<w>>)
  OBVIOUS
<1>4. PICK wide, next, put, put2 :
        /\ wide = Append(done, cur) /\ put = WithWord(cur, w) /\ put2 = WithWord(cont, w)
        /\ next = IF a.filled THEN put2 ELSE put
  OBVIOUS
<1>5. /\ put \in LinesOf(V, M) /\ put2 \in LinesOf(V, M)
      /\ put.words = Append(cur.words, w) /\ put2.words = Append(cont.words, w)
  BY <1>2, <1>4, WithWordFacts
<1>6. wide \in Seq(LinesOf(V, M))
  BY <1>2, <1>4, AppendFacts
<1>7. /\ w \in Words /\ cur.words \in Seq(Words) /\ cont.words \in Seq(Words)
      /\ cur \in AnyLine /\ cont \in AnyLine /\ put \in AnyLine /\ put2 \in AnyLine
      /\ done \in Seq(AnyLine) /\ wide \in Seq(AnyLine)
  <2>1. LinesOf(V, M) \subseteq AnyLine /\ Seq(LinesOf(V, M)) \subseteq Seq(AnyLine)
    BY LinesOfAnyLine
  <2>2. \A l \in AnyLine : l.words \in Seq(Words)
    BY DEF AnyLine
  <2> QED
    BY <1>2, <1>5, <1>6, <2>1, <2>2
<1>8. dw \in Seq(Words) /\ cw \in Seq(Words) /\ ow \in Seq(Words)
  <2>1. AllWords(done) \in Seq(Words) /\ PlainWords(cur.words) \in Seq(Words)
    BY <1>7, AllWordsType, PlainWordsType
  <2>2. PlainWords(<<w>>) \in Seq(Words)
    BY <1>7, PlainWordsOne
  <2> QED
    BY <1>3, <2>1, <2>2
<1>9. PlainWords(put.words) = Join(cw, ow)
  <2>1. PlainWords(Append(cur.words, w)) = Join(PlainWords(cur.words), PlainWords(<<w>>))
    BY <1>7, PlainWordsOne
  <2> QED
    BY <1>3, <1>5, <2>1
<1>10. PlainWords(cont.words) = <<>>
  BY PlainWordsEmpty
<1>11. PlainWords(put2.words) = ow
  <2>1. PlainWords(Append(cont.words, w)) = Join(PlainWords(cont.words), PlainWords(<<w>>))
    BY <1>7, PlainWordsOne
  <2>2. Join(<<>>, ow) = ow
    BY <1>8, JoinEmpty
  <2> QED
    BY <1>3, <1>5, <1>10, <2>1, <2>2
<1>12. AllWords(wide) = Join(dw, cw)
  <2>1. AllWords(Append(done, cur)) = Join(AllWords(done), PlainWords(cur.words))
    BY <1>7, AllWordsAppend
  <2> QED
    BY <1>3, <1>4, <2>1
<1>13. PICK tw : tw = Join(dw, cw)
  OBVIOUS
<1>14. tw \in Seq(Words) /\ PlacedWords(a) = tw /\ Join(tw, ow) = Join(dw, Join(cw, ow))
  <2>1. Join(dw, cw) \in Seq(Words) /\ Join(Join(dw, cw), ow) = Join(dw, Join(cw, ow))
    BY <1>8, JoinType, JoinAssoc
  <2> QED
    BY <1>1, <1>3, <1>13, <2>1 DEF PlacedWords
<1>15. CASE a.filled /\ VisualLen(put) <= ColumnLimit
  <2>1. b = [done |-> done, cur |-> put, filled |-> TRUE]
    BY <1>1, <1>4, <1>15 DEF Place
  <2>2. b.done = done /\ b.cur = put /\ b.filled
    BY <2>1
  <2>3. b \in Accs(V, M)
    BY <1>2, <1>5, <2>1 DEF Accs
  <2>4. PlacedWords(b) = Join(dw, Join(cw, ow))
    BY <1>3, <1>9, <2>2 DEF PlacedWords
  <2> QED
    BY <1>1, <1>3, <1>14, <2>2, <2>3, <2>4
<1>16. CASE ~(a.filled /\ VisualLen(put) <= ColumnLimit)
  <2>1. PICK d : d = IF a.filled THEN wide ELSE done
    OBVIOUS
  <2>2. b = IF VisualLen(next) > ColumnLimit
            THEN [done |-> Append(d, next), cur |-> cont, filled |-> FALSE]
            ELSE [done |-> d, cur |-> next, filled |-> TRUE]
    BY <1>1, <1>4, <1>16, <2>1 DEF Place
  <2>3. d \in Seq(LinesOf(V, M)) /\ next \in LinesOf(V, M) /\ d \in Seq(AnyLine) /\ next \in AnyLine
    BY <1>2, <1>4, <1>5, <1>6, <1>7, <2>1
  <2>4. Join(AllWords(d), PlainWords(next.words)) = Join(tw, ow)
    <3>1. CASE a.filled
      BY <1>4, <1>11, <1>12, <1>13, <2>1, <3>1
    <3>2. CASE ~a.filled
      <4>1. d = done /\ next = put
        BY <1>4, <2>1, <3>2
      <4> QED
        BY <1>3, <1>9, <1>14, <4>1
    <3> QED
      BY <3>1, <3>2
  <2>5. CASE VisualLen(next) > ColumnLimit
    <3>1. PICK e : e = Append(d, next)
      OBVIOUS
    <3>2. e \in Seq(LinesOf(V, M))
      BY <2>3, <3>1, AppendFacts
    <3>3. AllWords(e) = Join(tw, ow)
      <4>1. AllWords(Append(d, next)) = Join(AllWords(d), PlainWords(next.words))
        BY <2>3, AllWordsAppend
      <4> QED
        BY <2>4, <3>1, <4>1
    <3>4. b = [done |-> e, cur |-> cont, filled |-> FALSE]
      BY <2>2, <2>5, <3>1
    <3>5. b.done = e /\ b.cur = cont
      BY <3>4
    <3>6. b \in Accs(V, M)
      BY <3>2, <3>4 DEF Accs
    <3>7. Join(tw, ow) \in Seq(Words)
      BY <1>8, <1>14, JoinType
    <3>8. PlacedWords(b) = Join(tw, ow)
      <4>1. Join(Join(tw, ow), <<>>) = Join(tw, ow)
        BY <3>7, JoinEmpty
      <4> QED
        BY <1>10, <3>3, <3>5, <4>1 DEF PlacedWords
    <3> QED
      BY <1>1, <1>3, <1>14, <3>5, <3>6, <3>8
  <2>6. CASE ~(VisualLen(next) > ColumnLimit)
    <3>1. b = [done |-> d, cur |-> next, filled |-> TRUE]
      BY <2>2, <2>6
    <3>2. b.done = d /\ b.cur = next /\ b.filled
      BY <3>1
    <3>3. b \in Accs(V, M)
      BY <2>3, <3>1 DEF Accs
    <3>4. PlacedWords(b) = Join(tw, ow)
      BY <2>4, <3>2 DEF PlacedWords
    <3> QED
      BY <1>1, <1>3, <1>14, <3>2, <3>3, <3>4
  <2> QED
    BY <2>5, <2>6
<1> QED
  BY <1>15, <1>16

IsPlaced(words, head, cont, f) ==
  f = [n \in 0..Len(words) |->
         IF n = 0 THEN [done |-> <<>>, cur |-> head, filled |-> FALSE]
         ELSE Place(f[n - 1], words[n], cont)]

LEMMA PlacedExists ==
  ASSUME NEW V, V \subseteq Words, NEW M, M \subseteq Marks,
         NEW words \in Seq(V), NEW head \in LinesOf(V, M),
         NEW cont \in LinesOf(V, M), cont.words = <<>>
  PROVE  \E f : IsPlaced(words, head, cont, f)
<1>1. PICK n, A, e : /\ n = Len(words) /\ A = Accs(V, M)
                     /\ e = [done |-> <<>>, cur |-> head, filled |-> FALSE]
  OBVIOUS
<1>2. PICK G : G = [q \in (1..n) \X A |-> Place(q[2], words[q[1]], cont)]
  OBVIOUS
<1>3. n \in Nat /\ \A k \in 1..n : words[k] \in V
  BY <1>1
<1>4. e \in A
  BY <1>1 DEF Accs
<1>5. \A k \in 1..n, a \in A : Place(a, words[k], cont) \in A
  BY <1>1, <1>3, PlaceFacts
<1>6. G \in [(1..n) \X A -> A]
  BY <1>2, <1>5
<1>7. PICK f : Steps(f, A, e, n, G)
  BY <1>3, <1>4, <1>6, StepsExist
<1>8. f \in [0..n -> A] /\ f[0] = e /\ \A k \in 1..n : f[k] = G[<<k, f[k - 1]>>]
  BY <1>7 DEF Steps
<1>9. ASSUME NEW k \in 0..n PROVE f[k] = IF k = 0 THEN e ELSE Place(f[k - 1], words[k], cont)
  <2>1. CASE k = 0
    BY <1>8, <2>1
  <2>2. CASE k # 0
    <3>1. k \in 1..n /\ k - 1 \in 0..n
      BY <1>3, <2>2
    <3>2. f[k - 1] \in A
      BY <1>8, <3>1
    <3>3. G[<<k, f[k - 1]>>] = Place(f[k - 1], words[k], cont)
      BY <1>2, <3>1, <3>2
    <3> QED
      BY <1>8, <2>2, <3>1, <3>3
  <2> QED
    BY <2>1, <2>2
<1>10. f = [k \in 0..n |-> IF k = 0 THEN e ELSE Place(f[k - 1], words[k], cont)]
  BY <1>8, <1>9
<1> QED
  BY <1>1, <1>10 DEF IsPlaced

LEMMA ReflowWordsFacts ==
  ASSUME NEW V, V \subseteq Words, NEW M, M \subseteq Marks,
         NEW words \in Seq(V), NEW head \in LinesOf(V, M),
         NEW cont \in LinesOf(V, M), cont.words = <<>>
  PROVE  /\ ReflowWords(words, head, cont) \in Seq(LinesOf(V, M))
         /\ AllWords(ReflowWords(words, head, cont))
              = Join(PlainWords(head.words), PlainWords(words))
<1>1. PICK n, A, r, hw : /\ n = Len(words) /\ A = Accs(V, M) /\ r = ReflowWords(words, head, cont)
                         /\ hw = PlainWords(head.words)
  OBVIOUS
<1>2. n \in Nat /\ \A k \in 1..n : words[k] \in V
  BY <1>1
<1>3. /\ \A l \in LinesOf(V, M) : l \in AnyLine
      /\ \A s \in Seq(LinesOf(V, M)) : s \in Seq(AnyLine)
      /\ \A ws \in Seq(V) : ws \in Seq(Words)
      /\ \A w \in V : w \in Words
  BY LinesOfAnyLine
<1>4. words \in Seq(Words) /\ head.words \in Seq(Words)
  BY <1>3 DEF LinesOf
<1>5. hw \in Seq(Words)
  BY <1>1, <1>4, PlainWordsType
<1>6. PICK f : f = CHOOSE g : IsPlaced(words, head, cont, g)
  OBVIOUS
<1>7. IsPlaced(words, head, cont, f)
  <2>1. \E g : IsPlaced(words, head, cont, g)
    BY PlacedExists
  <2> QED
    BY <1>6, <2>1
<1>8. PICK e : e = [done |-> <<>>, cur |-> head, filled |-> FALSE]
  OBVIOUS
<1>9. f[0] = e /\ \A k \in 1..n : f[k] = Place(f[k - 1], words[k], cont)
  <2>1. f = [k \in 0..n |-> IF k = 0 THEN e ELSE Place(f[k - 1], words[k], cont)]
    BY <1>1, <1>7, <1>8 DEF IsPlaced
  <2>2. \A k \in 0..n : f[k] = IF k = 0 THEN e ELSE Place(f[k - 1], words[k], cont)
    BY <2>1
  <2>3. 0 \in 0..n /\ \A k \in 1..n : k \in 0..n /\ k # 0
    BY <1>2
  <2> QED
    BY <2>2, <2>3
<1>10. r = IF words = <<>> THEN <<head>>
           ELSE IF f[n].filled THEN Append(f[n].done, f[n].cur) ELSE f[n].done
  BY <1>1, <1>6 DEF ReflowWords, IsPlaced
<1>11. PICK U : U = {k \in 0..n : /\ f[k] \in A
                                  /\ PlacedWords(f[k]) = Join(hw, PlainWords(SubSeq(words, 1, k)))
                                  /\ k > 0 => f[k].filled \/ f[k].cur = cont}
  OBVIOUS
<1>12. 0 \in U
  <2>1. e \in A
    BY <1>1, <1>8 DEF Accs
  <2>2. SubSeq(words, 1, 0) = <<>>
    BY SubSeqEmpty
  <2>3. PlacedWords(e) = hw
    <3>1. e.done = <<>> /\ e.cur = head
      BY <1>8
    <3>2. Join(<<>>, hw) = hw
      BY <1>5, JoinEmpty
    <3> QED
      BY <1>1, <3>1, <3>2, AllWordsEmpty DEF PlacedWords
  <2>4. Join(hw, <<>>) = hw
    BY <1>5, JoinEmpty
  <2>5. PlacedWords(f[0]) = Join(hw, PlainWords(SubSeq(words, 1, 0)))
    BY <1>9, <2>2, <2>3, <2>4, PlainWordsEmpty
  <2> QED
    BY <1>2, <1>9, <1>11, <2>1, <2>5
<1>13. ASSUME NEW k \in 0..n, k \in U, k < n PROVE k + 1 \in U
  <2>1. PICK a, w, b : a = f[k] /\ w = words[k + 1] /\ b = f[k + 1]
    OBVIOUS
  <2>2. k \in Nat /\ k + 1 \in 1..n /\ (k + 1) - 1 = k /\ k < Len(words)
    BY <1>1, <1>2, <1>13
  <2>3. b = Place(a, w, cont) /\ w \in V
    BY <1>2, <1>9, <2>1, <2>2
  <2>4. a \in Accs(V, M)
    BY <1>1, <1>11, <1>13, <2>1
  <2>5. /\ Place(a, w, cont) \in Accs(V, M)
        /\ PlacedWords(Place(a, w, cont)) = Join(PlacedWords(a), PlainWords(<<w>>))
        /\ Place(a, w, cont).filled \/ Place(a, w, cont).cur = cont
    BY <2>3, <2>4, PlaceFacts
  <2>6. PICK u : u = SubSeq(words, 1, k)
    OBVIOUS
  <2>7. u \in Seq(V) /\ SubSeq(words, 1, k + 1) = Append(u, w)
    <3>1. /\ SubSeq(words, 1, k) \in Seq(V) 
          /\ SubSeq(words, 1, k + 1) = Append(SubSeq(words, 1, k), words[k + 1])
      BY <2>2, PrefixAppend
    <3> QED
      BY <2>1, <2>6, <3>1
  <2>8. u \in Seq(Words) /\ w \in Words
    BY <1>3, <2>3, <2>7
  <2>9. PICK uw, ow : uw = PlainWords(u) /\ ow = PlainWords(<<w>>)
    OBVIOUS
  <2>10. PlainWords(Append(u, w)) = Join(uw, ow) /\ uw \in Seq(Words) /\ ow \in Seq(Words)
    BY <2>8, <2>9, PlainWordsOne, PlainWordsType
  <2>11. PlacedWords(a) = Join(hw, uw)
    BY <1>11, <1>13, <2>1, <2>6, <2>9
  <2>12. Join(Join(hw, uw), ow) = Join(hw, Join(uw, ow))
    BY <1>5, <2>10, JoinAssoc
  <2>13. PlacedWords(b) = Join(hw, PlainWords(SubSeq(words, 1, k + 1)))
    BY <2>3, <2>5, <2>7, <2>9, <2>10, <2>11, <2>12
  <2>14. b \in A /\ (b.filled \/ b.cur = cont)
    BY <1>1, <2>3, <2>5
  <2>15. k + 1 \in 0..n
    BY <2>2
  <2> QED
    BY <1>11, <2>1, <2>13, <2>14, <2>15
<1>14. n \in U
  <2>1. 0 \in Nat /\ n \in Nat /\ \A k \in 0..n : k \in U /\ k < n => k + 1 \in U
    BY <1>2, <1>13
  <2>2. \A k \in 0..n : k \in U
    BY <1>12, <2>1, InductionUpTo
  <2> QED
    BY <1>2, <2>2
<1>15. CASE words = <<>>
  <2>1. r = <<head>>
    BY <1>10, <1>15
  <2>2. <<head>> \in Seq(LinesOf(V, M))
    BY OneMember
  <2>3. AllWords(<<head>>) = hw
    BY <1>1, <1>3, AllWordsOne
  <2>4. Join(hw, PlainWords(words)) = hw
    BY <1>5, <1>15, PlainWordsEmpty, JoinEmpty
  <2> QED
    BY <1>1, <2>1, <2>2, <2>3, <2>4
<1>16. CASE words # <<>>
  <2>1. PICK b, done, cur : b = f[n] /\ done = b.done /\ cur = b.cur
    OBVIOUS
  <2>2. /\ b \in Accs(V, M)
        /\ PlacedWords(b) = Join(hw, PlainWords(SubSeq(words, 1, n)))
        /\ n > 0 => b.filled \/ b.cur = cont
    BY <1>1, <1>11, <1>14, <2>1
  <2>3. done \in Seq(LinesOf(V, M)) /\ cur \in LinesOf(V, M)
    BY <2>1, <2>2 DEF Accs
  <2>4. n > 0
    BY <1>1, <1>2, <1>16, EmptySeq
  <2>5. SubSeq(words, 1, n) = words
    BY <1>1, SubSeqFull
  <2>6. Join(AllWords(done), PlainWords(cur.words)) = Join(hw, PlainWords(words))
    BY <2>1, <2>2, <2>5 DEF PlacedWords
  <2>7. CASE b.filled
    <3>1. r = Append(done, cur)
      BY <1>10, <1>16, <2>1, <2>7
    <3>2. Append(done, cur) \in Seq(LinesOf(V, M))
      BY <2>3, AppendFacts
    <3>3. AllWords(Append(done, cur)) = Join(AllWords(done), PlainWords(cur.words))
      <4>1. done \in Seq(AnyLine) /\ cur \in AnyLine
        BY <1>3, <2>3
      <4> QED
        BY <4>1, AllWordsAppend
    <3> QED
      BY <1>1, <2>6, <3>1, <3>2, <3>3
  <2>8. CASE ~b.filled
    <3>1. r = done /\ cur = cont
      BY <1>10, <1>16, <2>1, <2>2, <2>4, <2>8
    <3>2. AllWords(done) \in Seq(Words)
      <4>1. done \in Seq(AnyLine)
        BY <1>3, <2>3
      <4> QED
        BY <4>1, AllWordsType
    <3>3. Join(AllWords(done), <<>>) = AllWords(done)
      BY <3>2, JoinEmpty
    <3> QED
      BY <1>1, <2>3, <2>6, <3>1, <3>3, PlainWordsEmpty
  <2> QED
    BY <2>7, <2>8
<1> QED
  BY <1>15, <1>16

-----------------------------------------------------------------------------
(***************************************************************************)
(* Paragraphs keep the words of the lines they are made of.                *)
(***************************************************************************)
LEMMA FrontLast ==
  ASSUME NEW X, NEW s \in Seq(X), s # <<>>
  PROVE  /\ Front(s) \in Seq(X) /\ Last(s) \in X
         /\ s = Append(Front(s), Last(s))
<1>1. PICK n, k : n = Len(s) /\ k = Len(s) - 1
  OBVIOUS
<1>2. n \in Nat /\ n # 0
  BY <1>1, EmptySeq, LenProperties
<1>3. k \in Nat /\ k < Len(s) /\ k + 1 = n /\ n = Len(s)
  BY <1>1, <1>2
<1>4. /\ SubSeq(s, 1, k) \in Seq(X) /\ s[k + 1] \in X
      /\ SubSeq(s, 1, k + 1) = Append(SubSeq(s, 1, k), s[k + 1])
  BY <1>3, PrefixAppend
<1>5. SubSeq(s, 1, n) = s
  BY <1>3, SubSeqFull
<1>6. Front(s) = SubSeq(s, 1, k) /\ Last(s) = s[n]
  BY <1>1 DEF Front, Last
<1> QED
  BY <1>3, <1>4, <1>5, <1>6

LEMMA AppendToEmpty == ASSUME NEW X, NEW x \in X PROVE Append(<<>>, x) = <<x>>
OBVIOUS

LEMMA FirstRest ==
  ASSUME NEW X, NEW s \in Seq(X), s # <<>>
  PROVE  /\ Tail(s) \in Seq(X) /\ s[1] \in X /\ Head(s) = s[1]
         /\ s = Join(<<s[1]>>, Tail(s))
<1>1. PICK n : n = Len(s)
  OBVIOUS
<1>2. n \in Nat /\ n # 0
  BY <1>1, EmptySeq, LenProperties
<1>3. 0 \in Nat /\ 0 < Len(s) /\ 0 + 1 = 1
  BY <1>1, <1>2
<1>4. s[1] \in X /\ SubSeq(s, 1, 1) = Append(SubSeq(s, 1, 0), s[1])
  BY <1>3, PrefixAppend
<1>5. SubSeq(s, 1, 0) = <<>>
  BY SubSeqEmpty
<1>6. SubSeq(s, 1, 1) = <<s[1]>>
  <2>1. Append(<<>>, s[1]) = <<s[1]>>
    BY <1>4, AppendToEmpty
  <2> QED
    BY <1>4, <1>5, <2>1
<1>7. Tail(s) \in Seq(X) /\ Tail(s) = SubSeq(s, 2, n)
  BY <1>1, HeadTailProperties, TailIsSubSeq
<1>8. 1 \in 1..(Len(s) + 1) /\ 1 \in (1 - 1)..Len(s) /\ n \in 1..Len(s) /\ 1 + 1 = 2
  BY <1>1, <1>2
<1>9. SubSeq(s, 1, 1) \o SubSeq(s, 1 + 1, n) = SubSeq(s, 1, n)
  BY <1>8, ConcatAdjacentSubSeq
<1>10. Join(SubSeq(s, 1, 1), SubSeq(s, 2, n)) = SubSeq(s, 1, n)
  BY <1>8, <1>9 DEF Join
<1>11. SubSeq(s, 1, n) = s
  BY <1>1, SubSeqFull
<1>12. Head(s) = s[1]
  OBVIOUS
<1> QED
  BY <1>4, <1>6, <1>7, <1>10, <1>11, <1>12

Kinds == {"blank", "item", "text"}

Paras(V) == {p \in [kind : Kinds, lead : Nat, words : Seq(V)] : p.kind = "blank" => p.words = <<>>}

ParaWords ==
  [p \in Paras(Words) |->
     IF p.kind = "item" THEN Join(<<"-">>, PlainWords(p.words)) ELSE PlainWords(p.words)]

LEMMA DashIsPlain == <<"-">> \in Seq(Words) /\ PlainWords(<<"-">>) = <<"-">>
<1>1. PICK e, d : e = <<>> /\ d = "-"
  OBVIOUS
<1>2. e \in Seq(Words) /\ d \in Words /\ d \notin {"", "//", "/*", "*/"}
  <2>1. e \in Seq(Words)
    BY <1>1, EmptySeq
  <2>2. d \in Words /\ d \notin {"", "//", "/*", "*/"}
    BY <1>1, CommentsAssumption
  <2> QED
    BY <2>1, <2>2
<1>3. PlainWords(Append(e, d)) = Append(PlainWords(e), d)
  BY <1>2, PlainWordsAppend
<1>4. PlainWords(e) = <<>>
  BY <1>1, PlainWordsEmpty
<1>5. Append(e, d) = <<"-">>
  BY <1>1
<1>6. <<d>> \in Seq(Words)
  BY <1>2, OneMember
<1> QED
  BY <1>1, <1>3, <1>4, <1>5, <1>6

LEMMA ParaWordsMaps == Maps(ParaWords, Paras(Words), Seq(Words))
<1>1. ASSUME NEW p \in Paras(Words)
      PROVE  (IF p.kind = "item" THEN Join(<<"-">>, PlainWords(p.words)) ELSE PlainWords(p.words))
               \in Seq(Words)
  <2>1. p.words \in Seq(Words)
    BY DEF Paras
  <2>2. PlainWords(p.words) \in Seq(Words)
    BY <2>1, PlainWordsType
  <2>3. Join(<<"-">>, PlainWords(p.words)) \in Seq(Words)
    BY <2>2, DashIsPlain, JoinType
  <2> QED
    BY <2>2, <2>3
<1> QED
  BY <1>1 DEF Maps, ParaWords

LEMMA SeqOfSubset ==
  ASSUME NEW A, NEW B, A \subseteq B
  PROVE  Seq(A) \subseteq Seq(B)
<1> SUFFICES ASSUME NEW s \in Seq(A) PROVE s \in Seq(B)
  OBVIOUS
<1>1. Len(s) \in Nat /\ s \in [1..Len(s) -> A]
  BY LenProperties
<1>2. s \in [1..Len(s) -> B]
  BY <1>1
<1> QED
  BY <1>1, <1>2

LEMMA ParasOfSubset ==
  ASSUME NEW V, V \subseteq Words
  PROVE  Paras(V) \subseteq Paras(Words) /\ Seq(Paras(V)) \subseteq Seq(Paras(Words))
<1>1. Seq(V) \subseteq Seq(Words)
  BY SeqOfSubset
<1>2. Paras(V) \subseteq Paras(Words)
  BY <1>1 DEF Paras
<1> QED
  BY <1>2, SeqOfSubset

LEMMA ContentLeadType ==
  ASSUME NEW l, l.lead \in Nat
  PROVE  ContentLead(l) \in Nat
<1>1. PICK n, m : n = l.lead - 1 /\ m = IF n >= 0 THEN n ELSE 0
  OBVIOUS
<1>2. n \in Int /\ m \in {0, n} /\ m \in Nat /\ \A x \in {0, n} : m >= x
  BY <1>1
<1>3. PICK z : z = Max({0, n})
  OBVIOUS
<1>4. z \in {0, n} /\ \A x \in {0, n} : z >= x
  BY <1>2, <1>3 DEF Max
<1>5. z \in Nat
  BY <1>2, <1>4
<1> QED
  BY <1>1, <1>3, <1>5 DEF ContentLead

(* Sets of words reflowing stays within: it takes some marks for text.     *)
Vocabulary(V) == V \subseteq Words /\ {"-", "/", "//", "/*"} \subseteq V

LEMMA RealWordsOf ==
  ASSUME NEW V, NEW ws \in Seq(V)
  PROVE  RealWords(ws) \in Seq(V)
BY SelectedMembers DEF RealWords

LEMMA MarkIsNoWord ==
  ASSUME NEW m \in {"//", "/*", "*/", ""}
  PROVE  m \in Words /\ PlainWords(<<m>>) = <<>>
<1>1. m \in Words
  BY CommentsAssumption DEF Marks
<1>2. PICK e : e = <<>>
  OBVIOUS
<1>3. e \in Seq(Words) /\ PlainWords(e) = <<>>
  BY <1>2, EmptySeq, PlainWordsEmpty
<1>4. PlainWords(Append(e, m)) = PlainWords(e)
  BY <1>1, <1>3, PlainWordsAppend
<1>5. Append(e, m) = <<m>>
  BY <1>1, <1>2, AppendToEmpty
<1> QED
  BY <1>1, <1>3, <1>4, <1>5

LEMMA TextWordsFacts ==
  ASSUME NEW V, Vocabulary(V), NEW l \in LinesOf(V, Marks), NEW mark
  PROVE  /\ TextWords(l, mark) \in Seq(V)
         /\ l.mark # "*/" => PlainWords(TextWords(l, mark)) = PlainWords(l.words)
<1>1. l.words \in Seq(V) /\ l.words \in Seq(Words)
  <2>1. l.words \in Seq(V)
    BY DEF LinesOf
  <2>2. Seq(V) \subseteq Seq(Words)
    BY SeqOfSubset DEF Vocabulary
  <2> QED
    BY <2>1, <2>2
<1>2. CASE mark = "//" \/ l.mark \in {"", "*", " *"}
  BY <1>1, <1>2 DEF TextWords
<1>3. CASE ~(mark = "//" \/ l.mark \in {"", "*", " *"})
  <2>1. PICK m, o : m = (IF l.mark = "*/" THEN "/" ELSE l.mark) /\ o = <<m>>
    OBVIOUS
  <2>2. TextWords(l, mark) = Join(o, l.words)
    BY <1>3, <2>1 DEF TextWords, Join
  <2>3. l.mark \in {"//", "/*", "*/"}
    BY <1>3 DEF LinesOf, Marks
  <2>4. m \in V
    BY <2>1, <2>3 DEF Vocabulary
  <2>5. m \in Words /\ o \in Seq(V) /\ o \in Seq(Words)
    BY <2>1, <2>4, OneMember DEF Vocabulary
  <2>6. Join(o, l.words) \in Seq(V)
    BY <1>1, <2>5, JoinType
  <2>7. ASSUME l.mark # "*/" PROVE PlainWords(TextWords(l, mark)) = PlainWords(l.words)
    <3>1. m \in {"//", "/*", "*/", ""}
      BY <2>1, <2>3, <2>7
    <3>2. PlainWords(o) = <<>>
      BY <2>1, <3>1, MarkIsNoWord
    <3>3. PlainWords(Join(o, l.words)) = Join(PlainWords(o), PlainWords(l.words))
      BY <1>1, <2>5, PlainWordsJoin
    <3>4. PlainWords(l.words) \in Seq(Words)
      BY <1>1, PlainWordsType
    <3>5. Join(<<>>, PlainWords(l.words)) = PlainWords(l.words)
      BY <3>4, JoinEmpty
    <3> QED
      BY <2>2, <3>2, <3>3, <3>5
  <2> QED
    BY <2>2, <2>6, <2>7
<1> QED
  BY <1>2, <1>3

(* The words of one paragraph more.                                        *)
LEMMA ParaAppend ==
  ASSUME NEW paras \in Seq(Paras(Words)), NEW p \in Paras(Words)
  PROVE  /\ Flat(paras, ParaWords) \in Seq(Words)
         /\ Flat(Append(paras, p), ParaWords) = Join(Flat(paras, ParaWords), ParaWords[p])
BY ParaWordsMaps, FlatAppend

LEMMA ParaWordsOfKind ==
  ASSUME NEW p \in Paras(Words)
  PROVE  /\ ParaWords[p] \in Seq(Words)
         /\ p.kind = "item" => ParaWords[p] = Join(<<"-">>, PlainWords(p.words))
         /\ p.kind # "item" => ParaWords[p] = PlainWords(p.words)
<1>1. p.words \in Seq(Words)
  BY DEF Paras
<1>2. PlainWords(p.words) \in Seq(Words)
  BY <1>1, PlainWordsType
<1>3. Join(<<"-">>, PlainWords(p.words)) \in Seq(Words)
  BY <1>2, DashIsPlain, JoinType
<1>4. ParaWords[p] = IF p.kind = "item" THEN Join(<<"-">>, PlainWords(p.words)) ELSE PlainWords(p.words)
  BY DEF ParaWords
<1> QED
  BY <1>2, <1>3, <1>4

LEMMA AddLineFacts ==
  ASSUME NEW V, Vocabulary(V), NEW paras \in Seq(Paras(V)), NEW l \in LinesOf(V, Marks), NEW mark
  PROVE  /\ AddLine(paras, l, mark) \in Seq(Paras(V))
         /\ l.mark # "*/" =>
              Flat(AddLine(paras, l, mark), ParaWords) = Join(Flat(paras, ParaWords), PlainWords(l.words))
<1>1. PICK words, real, r, lw :
        /\ words = TextWords(l, mark) /\ real = RealWords(words)
        /\ r = AddLine(paras, l, mark) /\ lw = PlainWords(words)
  OBVIOUS
<1>2. V \subseteq Words /\ \A s \in Seq(V) : s \in Seq(Words)
  BY SeqOfSubset DEF Vocabulary
<1>3. words \in Seq(V) /\ real \in Seq(V) /\ (l.mark # "*/" => lw = PlainWords(l.words))
  BY <1>1, TextWordsFacts, RealWordsOf
<1>4. words \in Seq(Words) /\ real \in Seq(Words) /\ PlainWords(real) = lw /\ lw \in Seq(Words)
  <2>1. words \in Seq(Words) /\ real \in Seq(Words)
    BY <1>2, <1>3
  <2>2. PlainWords(RealWords(words)) = PlainWords(words) /\ PlainWords(words) \in Seq(Words)
    BY <2>1, PlainWordsOfReal, PlainWordsType
  <2> QED
    BY <1>1, <2>1, <2>2
<1>5. /\ \A p \in Paras(V) : p \in Paras(Words)
      /\ \A ps \in Seq(Paras(V)) : ps \in Seq(Paras(Words))
  BY <1>2, ParasOfSubset
<1>6. PICK pw : pw = Flat(paras, ParaWords)
  OBVIOUS
<1>7. pw \in Seq(Words) /\ paras \in Seq(Paras(Words))
  BY <1>5, <1>6, ParaWordsMaps, FlatType
<1>8. SUFFICES r \in Seq(Paras(V)) /\ Flat(r, ParaWords) = Join(pw, lw)
  BY <1>1, <1>3, <1>6
<1>9. ASSUME NEW p \in Paras(V), r = Append(paras, p), ParaWords[p] = lw
      PROVE  r \in Seq(Paras(V)) /\ Flat(r, ParaWords) = Join(pw, lw)
  <2>1. Append(paras, p) \in Seq(Paras(V)) /\ p \in Paras(Words)
    BY <1>5, AppendFacts
  <2>2. Flat(Append(paras, p), ParaWords) = Join(Flat(paras, ParaWords), ParaWords[p])
    BY <1>7, <2>1, ParaAppend
  <2> QED
    BY <1>6, <1>9, <2>1, <2>2
<1>10. CASE real = <<>>
  <2>1. PICK p : p = [kind |-> "blank", lead |-> 0, words |-> <<>>]
    OBVIOUS
  <2>2. r = Append(paras, p)
    BY <1>1, <1>10, <2>1 DEF AddLine
  <2>3. p \in Paras(V) /\ p.kind = "blank" /\ p.words = <<>>
    BY <2>1 DEF Paras, Kinds
  <2>4. lw = <<>>
    BY <1>4, <1>10, PlainWordsEmpty
  <2>5. ParaWords[p] = PlainWords(p.words)
    BY <1>5, <2>3, ParaWordsOfKind
  <2> QED
    BY <1>9, <2>2, <2>3, <2>4, <2>5, PlainWordsEmpty
<1>11. CASE real # <<>> /\ words[1] = "-" /\ Len(words) > 1
  <2>1. PICK tail, p : /\ tail = Tail(words)
                       /\ p = [kind |-> "item", lead |-> ContentLead(l), words |-> RealWords(tail)]
    OBVIOUS
  <2>2. r = Append(paras, p)
    BY <1>1, <1>11, <2>1 DEF AddLine
  <2>3. words # <<>>
    BY <1>11
  <2>4. tail \in Seq(V) /\ words = Join(<<"-">>, tail)
    BY <1>3, <1>11, <2>1, <2>3, FirstRest
  <2>5. tail \in Seq(Words) /\ RealWords(tail) \in Seq(V)
    BY <1>2, <2>4, RealWordsOf
  <2>6. p \in Paras(V) /\ p.kind = "item" /\ p.words = RealWords(tail)
    <3>1. ContentLead(l) \in Nat
      BY ContentLeadType DEF LinesOf
    <3> QED
      BY <2>1, <2>5, <3>1 DEF Paras, Kinds
  <2>7. ParaWords[p] = Join(<<"-">>, PlainWords(p.words))
    BY <1>5, <2>6, ParaWordsOfKind
  <2>8. PlainWords(RealWords(tail)) = PlainWords(tail)
    BY <2>5, PlainWordsOfReal
  <2>9. PlainWords(Join(<<"-">>, tail)) = Join(PlainWords(<<"-">>), PlainWords(tail))
    BY <2>5, DashIsPlain, PlainWordsJoin
  <2>10. ParaWords[p] = lw
    BY <1>1, <2>4, <2>6, <2>7, <2>8, <2>9, DashIsPlain
  <2> QED
    BY <1>9, <2>2, <2>6, <2>10
<1>12. CASE /\ real # <<>> /\ ~(words[1] = "-" /\ Len(words) > 1)
            /\ paras # <<>> /\ Last(paras).kind # "blank"
  <2>1. PICK front, p, q, pws :
          /\ front = Front(paras) /\ p = Last(paras) /\ pws = p.words
          /\ q = [kind |-> p.kind, lead |-> p.lead, words |-> Join(pws, real)]
    OBVIOUS
  <2>2. r = Append(front, q)
    BY <1>1, <1>12, <2>1 DEF AddLine, Join
  <2>3. front \in Seq(Paras(V)) /\ p \in Paras(V) /\ paras = Append(front, p)
    BY <1>12, <2>1, FrontLast
  <2>4. p.kind \in Kinds /\ p.lead \in Nat /\ pws \in Seq(V) /\ p.kind # "blank"
    BY <1>12, <2>1, <2>3 DEF Paras
  <2>5. Join(pws, real) \in Seq(V)
    BY <1>3, <2>4, JoinType
  <2>6. q \in Paras(V) /\ q.kind = p.kind /\ q.words = Join(pws, real)
    BY <2>1, <2>4, <2>5 DEF Paras
  <2>7. p \in Paras(Words) /\ q \in Paras(Words) /\ front \in Seq(Paras(Words)) /\ pws \in Seq(Words)
    BY <1>2, <1>5, <2>3, <2>4, <2>6
  <2>8. PICK fw, w, pp, qq : /\ fw = Flat(front, ParaWords) /\ w = PlainWords(pws)
                             /\ pp = ParaWords[p] /\ qq = ParaWords[q]
    OBVIOUS
  <2>9. fw \in Seq(Words) /\ w \in Seq(Words) /\ pp \in Seq(Words) /\ qq \in Seq(Words)
    <3>1. Flat(front, ParaWords) \in Seq(Words)
      BY <2>7, ParaWordsMaps, FlatType
    <3>2. PlainWords(pws) \in Seq(Words)
      BY <2>7, PlainWordsType
    <3>3. ParaWords[p] \in Seq(Words) /\ ParaWords[q] \in Seq(Words)
      BY <2>7, ParaWordsOfKind
    <3> QED
      BY <2>8, <3>1, <3>2, <3>3
  <2>10. PlainWords(q.words) = Join(w, lw)
    <3>1. PlainWords(Join(pws, real)) = Join(PlainWords(pws), PlainWords(real))
      BY <1>4, <2>7, PlainWordsJoin
    <3> QED
      BY <1>4, <2>6, <2>8, <3>1
  <2>11. qq = Join(pp, lw)
    <3>1. CASE p.kind = "item"
      <4>1. pp = Join(<<"-">>, w)
        BY <2>1, <2>7, <2>8, <3>1, ParaWordsOfKind
      <4>2. qq = Join(<<"-">>, Join(w, lw))
        BY <2>6, <2>7, <2>8, <2>10, <3>1, ParaWordsOfKind
      <4>3. Join(Join(<<"-">>, w), lw) = Join(<<"-">>, Join(w, lw))
        <5>1. PICK d : d = <<"-">>
          OBVIOUS
        <5>2. d \in Seq(Words) /\ w \in Seq(Words) /\ lw \in Seq(Words)
          BY <1>4, <2>9, <5>1, DashIsPlain
        <5>3. Join(Join(d, w), lw) = Join(d, Join(w, lw))
          BY <5>2, JoinAssoc
        <5> QED
          BY <5>1, <5>3
      <4> QED
        BY <4>1, <4>2, <4>3
    <3>2. CASE p.kind # "item"
      <4>1. pp = w
        BY <2>1, <2>7, <2>8, <3>2, ParaWordsOfKind
      <4>2. qq = Join(w, lw)
        BY <2>6, <2>7, <2>8, <2>10, <3>2, ParaWordsOfKind
      <4> QED
        BY <4>1, <4>2
    <3> QED
      BY <3>1, <3>2
  <2>12. pw = Join(fw, pp)
    <3>1. Flat(Append(front, p), ParaWords) = Join(Flat(front, ParaWords), ParaWords[p])
      BY <2>7, ParaAppend
    <3> QED
      BY <1>6, <2>3, <2>8, <3>1
  <2>13. Flat(r, ParaWords) = Join(fw, qq)
    <3>1. Flat(Append(front, q), ParaWords) = Join(Flat(front, ParaWords), ParaWords[q])
      BY <2>7, ParaAppend
    <3> QED
      BY <2>2, <2>8, <3>1
  <2>14. Join(Join(fw, pp), lw) = Join(fw, Join(pp, lw))
    BY <1>4, <2>9, JoinAssoc
  <2>15. r \in Seq(Paras(V))
    BY <2>2, <2>3, <2>6, AppendFacts
  <2> QED
    BY <2>11, <2>12, <2>13, <2>14, <2>15
<1>13. CASE /\ real # <<>> /\ ~(words[1] = "-" /\ Len(words) > 1)
            /\ ~(paras # <<>> /\ Last(paras).kind # "blank")
  <2>1. PICK p : p = [kind |-> "text", lead |-> 0, words |-> real]
    OBVIOUS
  <2>2. r = Append(paras, p)
    BY <1>1, <1>13, <2>1 DEF AddLine
  <2>3. p \in Paras(V) /\ p.kind = "text" /\ p.words = real
    BY <1>3, <2>1 DEF Paras, Kinds
  <2>4. ParaWords[p] = PlainWords(p.words)
    BY <1>5, <2>3, ParaWordsOfKind
  <2> QED
    BY <1>4, <1>9, <2>2, <2>3, <2>4
<1> QED
  BY <1>10, <1>11, <1>12, <1>13

(***************************************************************************)
(* The paragraphs of a block.  No line of it starts with a closing mark:   *)
(* that is where a block comment ends.                                     *)
(***************************************************************************)
TextLines(V) == LinesOf(V, Marks \ {"*/"})

IsGrouped(block, mark, f) ==
  f = [n \in 0..Len(block) |-> IF n = 0 THEN <<>> ELSE AddLine(f[n - 1], block[n], mark)]

LEMMA TextLinesFacts ==
  ASSUME NEW V, Vocabulary(V)
  PROVE  /\ TextLines(V) \subseteq LinesOf(V, Marks) /\ TextLines(V) \subseteq AnyLine
         /\ Seq(TextLines(V)) \subseteq Seq(AnyLine)
         /\ \A l \in TextLines(V) : l.mark # "*/"
<1>1. TextLines(V) \subseteq LinesOf(V, Marks) /\ \A l \in TextLines(V) : l.mark # "*/"
  BY DEF TextLines, LinesOf
<1>2. TextLines(V) \subseteq AnyLine /\ Seq(TextLines(V)) \subseteq Seq(AnyLine)
  <2>1. V \subseteq Words /\ Marks \ {"*/"} \subseteq Marks
    BY DEF Vocabulary
  <2> QED
    BY <2>1, LinesOfAnyLine DEF TextLines
<1> QED
  BY <1>1, <1>2

LEMMA GroupedExists ==
  ASSUME NEW V, Vocabulary(V), NEW block \in Seq(TextLines(V)), NEW mark
  PROVE  \E f : IsGrouped(block, mark, f)
<1>1. PICK n, A, e : n = Len(block) /\ A = Seq(Paras(V)) /\ e = <<>>
  OBVIOUS
<1>2. PICK G : G = [q \in (1..n) \X A |-> AddLine(q[2], block[q[1]], mark)]
  OBVIOUS
<1>3. n \in Nat /\ \A k \in 1..n : block[k] \in TextLines(V)
  BY <1>1
<1>4. e \in A
  BY <1>1
<1>5. ASSUME NEW k \in 1..n, NEW a \in A PROVE AddLine(a, block[k], mark) \in A
  <2>1. block[k] \in LinesOf(V, Marks) /\ a \in Seq(Paras(V))
    BY <1>1, <1>3, TextLinesFacts
  <2> QED
    BY <1>1, <2>1, AddLineFacts
<1>6. G \in [(1..n) \X A -> A]
  BY <1>2, <1>5
<1>7. PICK f : Steps(f, A, e, n, G)
  BY <1>3, <1>4, <1>6, StepsExist
<1>8. f \in [0..n -> A] /\ f[0] = e /\ \A k \in 1..n : f[k] = G[<<k, f[k - 1]>>]
  BY <1>7 DEF Steps
<1>9. ASSUME NEW k \in 0..n PROVE f[k] = IF k = 0 THEN e ELSE AddLine(f[k - 1], block[k], mark)
  <2>1. CASE k = 0
    BY <1>8, <2>1
  <2>2. CASE k # 0
    <3>1. k \in 1..n /\ k - 1 \in 0..n
      BY <1>3, <2>2
    <3>2. f[k - 1] \in A
      BY <1>8, <3>1
    <3>3. G[<<k, f[k - 1]>>] = AddLine(f[k - 1], block[k], mark)
      BY <1>2, <3>1, <3>2
    <3> QED
      BY <1>8, <2>2, <3>1, <3>3
  <2> QED
    BY <2>1, <2>2
<1>10. f = [k \in 0..n |-> IF k = 0 THEN e ELSE AddLine(f[k - 1], block[k], mark)]
  BY <1>8, <1>9
<1> QED
  BY <1>1, <1>10 DEF IsGrouped

LEMMA ParagraphsFacts ==
  ASSUME NEW V, Vocabulary(V), NEW block \in Seq(TextLines(V)), NEW mark
  PROVE  /\ Paragraphs(block, mark) \in Seq(Paras(V))
         /\ Flat(Paragraphs(block, mark), ParaWords) = AllWords(block)
<1>1. PICK n, A : n = Len(block) /\ A = Seq(Paras(V))
  OBVIOUS
<1>2. n \in Nat /\ \A k \in 1..n : block[k] \in TextLines(V)
  BY <1>1
<1>3. /\ \A l \in TextLines(V) : l \in LinesOf(V, Marks) /\ l \in AnyLine /\ l.mark # "*/"
      /\ \A s \in Seq(TextLines(V)) : s \in Seq(AnyLine)
  BY TextLinesFacts
<1>4. PICK f : f = CHOOSE g : IsGrouped(block, mark, g)
  OBVIOUS
<1>5. IsGrouped(block, mark, f)
  <2>1. \E g : IsGrouped(block, mark, g)
    BY GroupedExists
  <2> QED
    BY <1>4, <2>1
<1>6. f[0] = <<>> /\ \A k \in 1..n : f[k] = AddLine(f[k - 1], block[k], mark)
  <2>1. f = [k \in 0..n |-> IF k = 0 THEN <<>> ELSE AddLine(f[k - 1], block[k], mark)]
    BY <1>1, <1>5 DEF IsGrouped
  <2>2. \A k \in 0..n : f[k] = IF k = 0 THEN <<>> ELSE AddLine(f[k - 1], block[k], mark)
    BY <2>1
  <2>3. 0 \in 0..n /\ \A k \in 1..n : k \in 0..n /\ k # 0
    BY <1>2
  <2> QED
    BY <2>2, <2>3
<1>7. Paragraphs(block, mark) = f[n]
  BY <1>1, <1>4 DEF Paragraphs, IsGrouped
<1>8. PICK U : U = {k \in 0..n : f[k] \in A /\ Flat(f[k], ParaWords) = AllWords(SubSeq(block, 1, k))}
  OBVIOUS
<1>9. 0 \in U
  <2>1. SubSeq(block, 1, 0) = <<>>
    BY SubSeqEmpty
  <2>2. <<>> \in A
    BY <1>1, EmptySeq
  <2>3. Flat(f[0], ParaWords) = AllWords(SubSeq(block, 1, 0))
    BY <1>6, <2>1, FlatEmpty, AllWordsEmpty
  <2> QED
    BY <1>2, <1>6, <1>8, <2>2, <2>3
<1>10. ASSUME NEW k \in 0..n, k \in U, k < n PROVE k + 1 \in U
  <2>1. PICK a, l, b : a = f[k] /\ l = block[k + 1] /\ b = f[k + 1]
    OBVIOUS
  <2>2. k \in Nat /\ k + 1 \in 1..n /\ (k + 1) - 1 = k /\ k < Len(block)
    BY <1>1, <1>2, <1>10
  <2>3. b = AddLine(a, l, mark) /\ l \in TextLines(V)
    BY <1>2, <1>6, <2>1, <2>2
  <2>4. l \in LinesOf(V, Marks) /\ l \in AnyLine /\ l.mark # "*/"
    BY <1>3, <2>3
  <2>5. a \in Seq(Paras(V)) /\ Flat(a, ParaWords) = AllWords(SubSeq(block, 1, k))
    BY <1>1, <1>8, <1>10, <2>1
  <2>6. /\ AddLine(a, l, mark) \in Seq(Paras(V))
        /\ Flat(AddLine(a, l, mark), ParaWords) = Join(Flat(a, ParaWords), PlainWords(l.words))
    BY <2>4, <2>5, AddLineFacts
  <2>7. PICK u : u = SubSeq(block, 1, k)
    OBVIOUS
  <2>8. u \in Seq(TextLines(V)) /\ SubSeq(block, 1, k + 1) = Append(u, l)
    <3>1. /\ SubSeq(block, 1, k) \in Seq(TextLines(V))
          /\ SubSeq(block, 1, k + 1) = Append(SubSeq(block, 1, k), block[k + 1])
      BY <2>2, PrefixAppend
    <3> QED
      BY <2>1, <2>7, <3>1
  <2>9. u \in Seq(AnyLine)
    BY <1>3, <2>8
  <2>10. AllWords(Append(u, l)) = Join(AllWords(u), PlainWords(l.words))
    BY <2>4, <2>9, AllWordsAppend
  <2>11. Flat(b, ParaWords) = AllWords(SubSeq(block, 1, k + 1))
    BY <2>3, <2>5, <2>6, <2>7, <2>8, <2>10
  <2>12. k + 1 \in 0..n
    BY <2>2
  <2>13. b \in A
    BY <1>1, <2>3, <2>6
  <2> QED
    BY <1>8, <2>1, <2>11, <2>12, <2>13
<1>11. n \in U
  <2>1. 0 \in Nat /\ n \in Nat /\ \A k \in 0..n : k \in U /\ k < n => k + 1 \in U
    BY <1>2, <1>10
  <2>2. \A k \in 0..n : k \in U
    BY <1>9, <2>1, InductionUpTo
  <2> QED
    BY <1>2, <2>2
<1>12. SubSeq(block, 1, n) = block
  BY <1>1, SubSeqFull
<1> QED
  BY <1>1, <1>7, <1>8, <1>11, <1>12

(***************************************************************************)
(* Writing paragraphs out.                                                 *)
(***************************************************************************)
EmitMarks == {"//", " *"}

Marked(V, mark) == LinesOf(V, {mark})

LEMMA LineFacts ==
  ASSUME NEW V, NEW indent \in Nat, NEW mark, NEW lead \in Nat, NEW words \in Seq(V)
  PROVE  /\ Line(indent, mark, lead, words) \in Marked(V, mark)
         /\ Line(indent, mark, lead, words).words = words
<1>1. PICK l : l = Line(indent, mark, lead, words)
  OBVIOUS
<1>2. l = [indent |-> indent, mark |-> mark, lead |-> lead, words |-> words]
  BY <1>1 DEF Line
<1>3. l \in [indent : Nat, mark : {mark}, lead : Nat, words : Seq(V)] /\ l.words = words
  BY <1>2
<1> QED
  BY <1>1, <1>3 DEF Marked, LinesOf

LEMMA MarkedReflow ==
  ASSUME NEW V, V \subseteq Words, NEW mark \in Marks, NEW words \in Seq(V),
         NEW h \in Marked(V, mark), NEW c \in Marked(V, mark), c.words = <<>>
  PROVE  /\ ReflowWords(words, h, c) \in Seq(Marked(V, mark))
         /\ AllWords(ReflowWords(words, h, c)) = Join(PlainWords(h.words), PlainWords(words))
<1>1. PICK M : M = {mark}
  OBVIOUS
<1>2. M \subseteq Marks
  BY <1>1
<1>3. h \in LinesOf(V, M) /\ c \in LinesOf(V, M) /\ LinesOf(V, M) = Marked(V, mark)
  BY <1>1 DEF Marked
<1>4. /\ ReflowWords(words, h, c) \in Seq(LinesOf(V, M))
      /\ AllWords(ReflowWords(words, h, c)) = Join(PlainWords(h.words), PlainWords(words))
  BY <1>2, <1>3, ReflowWordsFacts
<1> QED
  BY <1>3, <1>4

LEMMA MarkedLines ==
  ASSUME NEW V, Vocabulary(V), NEW mark \in Marks
  PROVE  /\ Marked(V, mark) \subseteq AnyLine /\ Seq(Marked(V, mark)) \subseteq Seq(AnyLine)
<1>1. PICK M : M = {mark}
  OBVIOUS
<1>2. M \subseteq Marks /\ V \subseteq Words
  BY <1>1 DEF Vocabulary
<1>3. LinesOf(V, M) \subseteq AnyLine /\ Seq(LinesOf(V, M)) \subseteq Seq(AnyLine)
  BY <1>2, LinesOfAnyLine
<1> QED
  BY <1>1, <1>3 DEF Marked

LEMMA EmitFacts ==
  ASSUME NEW V, Vocabulary(V), NEW p \in Paras(V), NEW indent \in Nat, NEW mark \in EmitMarks
  PROVE  /\ Emit(p, indent, mark) \in Seq(Marked(V, mark))
         /\ AllWords(Emit(p, indent, mark)) = ParaWords[p]
<1>1. PICK lead, more, words, none, dash :
        /\ lead = p.lead + (IF mark = "//" THEN 0 ELSE 1)
        /\ more = lead + 2
        /\ words = p.words /\ none = <<>> /\ dash = <<"-">>
  OBVIOUS
<1>2. V \subseteq Words /\ mark \in Marks
  BY DEF Marks, EmitMarks, Vocabulary
<1>3. /\ p.kind \in Kinds /\ words \in Seq(V)
      /\ p.kind = "blank" => words = <<>>
  BY <1>1 DEF Paras
<1>4. lead \in Nat /\ more \in Nat
  <2>1. p.lead \in Nat
    BY DEF Paras
  <2>2. PICK n : n = IF mark = "//" THEN 0 ELSE 1
    OBVIOUS
  <2>3. n \in Nat
    BY <2>2
  <2>4. lead = p.lead + n
    BY <1>1, <2>2
  <2>5. lead \in Nat
    BY <2>1, <2>3, <2>4
  <2> QED
    BY <1>1, <2>5
<1>5. none \in Seq(V) /\ dash \in Seq(V) /\ words \in Seq(Words) /\ p \in Paras(Words)
  <2>1. none \in Seq(V)
    BY <1>1, EmptySeq
  <2>2. dash \in Seq(V)
    <3>1. "-" \in V
      BY DEF Vocabulary
    <3> QED
      BY <1>1, <3>1, OneMember
  <2>3. words \in Seq(Words)
    BY <1>2, <1>3, SeqOfSubset
  <2>4. p \in Paras(Words)
    BY <1>2, ParasOfSubset
  <2> QED
    BY <2>1, <2>2, <2>3, <2>4
<1>6. PlainWords(words) \in Seq(Words)
  BY <1>5, PlainWordsType
<1>7. CASE p.kind = "blank"
  <2>1. PICK zero, l : zero = 0 /\ l = Line(indent, mark, zero, none)
    OBVIOUS
  <2>2. zero \in Nat /\ none \in Seq(V)
    BY <1>5, <2>1
  <2>3. Line(indent, mark, zero, none) \in Marked(V, mark) /\ Line(indent, mark, zero, none).words = none
    BY <2>2, LineFacts
  <2>4. l \in Marked(V, mark) /\ l.words = <<>>
    BY <1>1, <2>1, <2>3
  <2>5. l \in AnyLine
    BY <1>2, <2>4, MarkedLines
  <2>6. Emit(p, indent, mark) = <<l>>
    BY <1>1, <1>7, <2>1 DEF Emit
  <2>7. <<l>> \in Seq(Marked(V, mark))
    BY <2>4, OneMember
  <2>8. AllWords(<<l>>) = <<>>
    BY <2>4, <2>5, AllWordsOne, PlainWordsEmpty
  <2>9. ParaWords[p] = PlainWords(p.words)
    BY <1>5, <1>7, ParaWordsOfKind
  <2>10. p.words = <<>>
    BY <1>1, <1>3, <1>7
  <2> QED
    BY <2>6, <2>7, <2>8, <2>9, <2>10, PlainWordsEmpty
<1>8. CASE p.kind = "item"
  <2>1. PICK h, c : h = Line(indent, mark, lead, dash) /\ c = Line(indent, mark, more, none)
    OBVIOUS
  <2>2. h \in Marked(V, mark) /\ h.words = dash
    <3>1. lead \in Nat /\ dash \in Seq(V)
      BY <1>4, <1>5
    <3>2. Line(indent, mark, lead, dash) \in Marked(V, mark) /\ Line(indent, mark, lead, dash).words = dash
      BY <3>1, LineFacts
    <3> QED
      BY <2>1, <3>2
  <2>3. c \in Marked(V, mark) /\ c.words = <<>>
    <3>1. more \in Nat /\ none \in Seq(V)
      BY <1>4, <1>5
    <3>2. Line(indent, mark, more, none) \in Marked(V, mark) /\ Line(indent, mark, more, none).words = none
      BY <3>1, LineFacts
    <3> QED
      BY <1>1, <2>1, <3>2
  <2>4. Emit(p, indent, mark) = ReflowWords(words, h, c)
    BY <1>1, <1>8, <2>1 DEF Emit
  <2>5. /\ ReflowWords(words, h, c) \in Seq(Marked(V, mark))
        /\ AllWords(ReflowWords(words, h, c)) = Join(PlainWords(h.words), PlainWords(words))
    BY <1>2, <1>3, <2>2, <2>3, MarkedReflow
  <2>6. ParaWords[p] = Join(<<"-">>, PlainWords(p.words))
    BY <1>5, <1>8, ParaWordsOfKind
  <2>7. PlainWords(h.words) = <<"-">>
    BY <1>1, <2>2, DashIsPlain
  <2> QED
    BY <1>1, <2>4, <2>5, <2>6, <2>7
<1>9. CASE p.kind # "blank" /\ p.kind # "item"
  <2>1. PICK one, h : one = 1 /\ h = Line(indent, mark, one, none)
    OBVIOUS
  <2>2. h \in Marked(V, mark) /\ h.words = <<>>
    <3>1. one \in Nat /\ none \in Seq(V)
      BY <1>5, <2>1
    <3>2. Line(indent, mark, one, none) \in Marked(V, mark) /\ Line(indent, mark, one, none).words = none
      BY <3>1, LineFacts
    <3> QED
      BY <1>1, <2>1, <3>2
  <2>3. Emit(p, indent, mark) = ReflowWords(words, h, h)
    BY <1>1, <1>9, <2>1 DEF Emit
  <2>4. /\ ReflowWords(words, h, h) \in Seq(Marked(V, mark))
        /\ AllWords(ReflowWords(words, h, h)) = Join(PlainWords(h.words), PlainWords(words))
    BY <1>2, <1>3, <2>2, MarkedReflow
  <2>5. ParaWords[p] = PlainWords(p.words)
    BY <1>5, <1>9, ParaWordsOfKind
  <2>6. Join(<<>>, PlainWords(words)) = PlainWords(words)
    BY <1>6, JoinEmpty
  <2> QED
    BY <1>1, <2>2, <2>3, <2>4, <2>5, <2>6, PlainWordsEmpty
<1> QED
  BY <1>7, <1>8, <1>9

LEMMA EmittedWords ==
  ASSUME NEW L, L \subseteq AnyLine, NEW P, P \subseteq Paras(Words), NEW F, Maps(F, P, Seq(L)),
         \A p \in P : AllWords(F[p]) = ParaWords[p],
         NEW paras \in Seq(P)
  PROVE  Flat(paras, F) \in Seq(L) /\ AllWords(Flat(paras, F)) = Flat(paras, ParaWords)
<1>1. Seq(L) \subseteq Seq(AnyLine) /\ Seq(P) \subseteq Seq(Paras(Words))
  BY SeqOfSubset
<1>2. PICK Q : Q = {s \in Seq(P) : AllWords(Flat(s, F)) = Flat(s, ParaWords)}
  OBVIOUS
<1>3. <<>> \in Q
  <2>1. <<>> \in Seq(P)
    BY EmptySeq
  <2> QED
    BY <1>2, <2>1, FlatEmpty, AllWordsEmpty
<1>4. ASSUME NEW s \in Seq(P), NEW p \in P, s \in Q PROVE Append(s, p) \in Q
  <2>1. PICK fs, fp : fs = Flat(s, F) /\ fp = F[p]
    OBVIOUS
  <2>2. fs \in Seq(L) /\ fp \in Seq(L) /\ Flat(Append(s, p), F) = Join(fs, fp)
    <3>1. Flat(s, F) \in Seq(L) /\ Flat(Append(s, p), F) = Join(Flat(s, F), F[p])
      BY FlatAppend
    <3>2. F[p] \in Seq(L)
      BY DEF Maps
    <3> QED
      BY <2>1, <3>1, <3>2
  <2>3. fs \in Seq(AnyLine) /\ fp \in Seq(AnyLine)
    BY <1>1, <2>2
  <2>4. AllWords(Join(fs, fp)) = Join(AllWords(fs), AllWords(fp))
    BY <2>3, AllWordsJoin
  <2>5. AllWords(fs) = Flat(s, ParaWords) /\ AllWords(fp) = ParaWords[p]
    BY <1>2, <1>4, <2>1
  <2>6. Flat(Append(s, p), ParaWords) = Join(Flat(s, ParaWords), ParaWords[p])
    <3>1. s \in Seq(Paras(Words)) /\ p \in Paras(Words)
      BY <1>1
    <3> QED
      BY <3>1, ParaAppend
  <2>7. Append(s, p) \in Seq(P)
    BY AppendFacts
  <2> QED
    BY <1>2, <2>2, <2>4, <2>5, <2>6, <2>7
<1>5. Seq(P) \subseteq Q
  BY <1>3, <1>4, SeqInduction
<1>6. Flat(paras, F) \in Seq(L)
  BY FlatType
<1> QED
  BY <1>2, <1>5, <1>6

LEMMA EmitAllFacts ==
  ASSUME NEW V, Vocabulary(V), NEW block \in Seq(TextLines(V)), NEW indent \in Nat, NEW mark \in EmitMarks
  PROVE  /\ EmitAll(block, indent, mark) \in Seq(Marked(V, mark))
         /\ AllWords(EmitAll(block, indent, mark)) = AllWords(block)
<1>1. PICK paras, P, L : paras = Paragraphs(block, mark) /\ P = Paras(V) /\ L = Marked(V, mark)
  OBVIOUS
<1>2. paras \in Seq(P) /\ Flat(paras, ParaWords) = AllWords(block)
  BY <1>1, ParagraphsFacts
<1>3. PICK F : F = [p \in P |-> Emit(p, indent, mark)]
  OBVIOUS
<1>4. \A p \in P : Emit(p, indent, mark) \in Seq(L) /\ AllWords(Emit(p, indent, mark)) = ParaWords[p]
  BY <1>1, EmitFacts
<1>5. Maps(F, P, Seq(L)) /\ \A p \in P : AllWords(F[p]) = ParaWords[p]
  BY <1>3, <1>4 DEF Maps
<1>6. L \subseteq AnyLine /\ P \subseteq Paras(Words)
  <2>1. V \subseteq Words /\ mark \in Marks
    BY DEF Vocabulary, EmitMarks, Marks
  <2>2. Marked(V, mark) \subseteq AnyLine
    BY <2>1, MarkedLines
  <2>3. Paras(V) \subseteq Paras(Words)
    BY <2>1, ParasOfSubset
  <2> QED
    BY <1>1, <2>2, <2>3
<1>7. Flat(paras, F) \in Seq(L) /\ AllWords(Flat(paras, F)) = Flat(paras, ParaWords)
  <2>1. paras \in Seq(P)
    BY <1>2
  <2> QED
    BY <1>5, <1>6, <2>1, EmittedWords
<1>8. EmitAll(block, indent, mark) = Flat(paras, F)
  <2>1. \A k \in DOMAIN paras : F[paras[k]] = Emit(paras[k], indent, mark)
    <3>1. \A k \in DOMAIN paras : paras[k] \in P
      BY <1>2
    <3> QED
      BY <1>3, <3>1
  <2>2. [k \in DOMAIN paras |-> F[paras[k]]] = [k \in DOMAIN paras |-> Emit(paras[k], indent, mark)]
    BY <2>1
  <2> QED
    BY <1>1, <2>2 DEF EmitAll, Flat, Mapped
<1> QED
  BY <1>1, <1>2, <1>7, <1>8

-----------------------------------------------------------------------------
(***************************************************************************)
(* Blocks of line comments.                                                *)
(***************************************************************************)
LineComments == Marked(Words, "//")

LEMMA AllWordsAreVocabulary == Vocabulary(Words)
BY CommentsAssumption DEF Vocabulary, Marks

LEMMA LineCommentsFacts ==
  /\ LineComments \subseteq AnyLine /\ Seq(LineComments) \subseteq Seq(AnyLine)
  /\ LineComments \subseteq TextLines(Words) /\ Seq(LineComments) \subseteq Seq(TextLines(Words))
  /\ \A l \in LineComments : l.mark = "//" /\ l.indent \in Nat
<1>1. "//" \in Marks /\ {"//"} \subseteq Marks \ {"*/"}
  BY DEF Marks
<1>2. LineComments \subseteq TextLines(Words)
  BY <1>1 DEF LineComments, Marked, TextLines, LinesOf
<1>3. LineComments \subseteq AnyLine
  BY <1>1, AllWordsAreVocabulary, MarkedLines DEF LineComments
<1>4. \A l \in LineComments : l.mark = "//" /\ l.indent \in Nat
  BY DEF LineComments, Marked, LinesOf
<1> QED
  BY <1>2, <1>3, <1>4, SeqOfSubset

LEMMA ReflowLinesFacts ==
  ASSUME NEW block \in Seq(LineComments), block # <<>> \/ mode = "overflow"
  PROVE  /\ ReflowLineCommentBlock(block) \in Seq(LineComments)
         /\ AllWords(ReflowLineCommentBlock(block)) = AllWords(block)
<1>1. CASE Preserved(block)
  BY <1>1 DEF ReflowLineCommentBlock
<1>2. CASE block = <<>>
  <2>1. ToSet(block) = {}
    <3>1. DOMAIN block = {}
      BY <1>2
    <3> QED
      BY <3>1 DEF ToSet
  <2>2. Fits(block)
    BY <2>1 DEF Fits
  <2>3. Preserved(block) \/ mode # "overflow"
    BY <2>2 DEF Preserved
  <2> QED
    BY <1>1, <1>2, <2>3
<1>3. CASE block # <<>> /\ ~Preserved(block)
  <2>1. PICK indent, mark : indent = block[1].indent /\ mark = "//"
    OBVIOUS
  <2>2. block[1] \in LineComments
    BY <1>3, FirstRest
  <2>3. indent \in Nat /\ mark \in EmitMarks
    BY <2>1, <2>2, LineCommentsFacts DEF EmitMarks
  <2>4. block \in Seq(TextLines(Words))
    BY LineCommentsFacts
  <2>5. /\ EmitAll(block, indent, mark) \in Seq(Marked(Words, mark))
        /\ AllWords(EmitAll(block, indent, mark)) = AllWords(block)
    BY <2>3, <2>4, AllWordsAreVocabulary, EmitAllFacts
  <2>6. ReflowLineCommentBlock(block) = EmitAll(block, indent, mark)
    BY <1>3, <2>1 DEF ReflowLineCommentBlock
  <2> QED
    BY <2>1, <2>5, <2>6 DEF LineComments
<1> QED
  BY <1>1, <1>2, <1>3

Stretches == [done : Seq(LineComments), part : Seq(LineComments)]

StretchWords(a) == Join(AllWords(a.done), AllWords(a.part))

LEMMA NextStretchFacts ==
  ASSUME NEW a \in Stretches, NEW l \in LineComments, mode = "overflow"
  PROVE  /\ NextStretch(a, l) \in Stretches
         /\ StretchWords(NextStretch(a, l)) = Join(StretchWords(a), PlainWords(l.words))
<1>1. PICK done, part, b : done = a.done /\ part = a.part /\ b = NextStretch(a, l)
  OBVIOUS
<1>2. done \in Seq(LineComments) /\ part \in Seq(LineComments)
  BY <1>1 DEF Stretches
<1>3. l \in AnyLine /\ done \in Seq(AnyLine) /\ part \in Seq(AnyLine)
  BY <1>2, LineCommentsFacts
<1>4. PICK dw, pw, lw : dw = AllWords(done) /\ pw = AllWords(part) /\ lw = PlainWords(l.words)
  OBVIOUS
<1>5. dw \in Seq(Words) /\ pw \in Seq(Words) /\ lw \in Seq(Words)
  <2>1. AllWords(done) \in Seq(Words) /\ AllWords(part) \in Seq(Words)
    BY <1>3, AllWordsType
  <2>2. l.words \in Seq(Words)
    BY <1>3 DEF AnyLine
  <2>3. PlainWords(l.words) \in Seq(Words)
    BY <2>2, PlainWordsType
  <2> QED
    BY <1>4, <2>1, <2>3
<1>6. StretchWords(a) = Join(dw, pw)
  BY <1>1, <1>4 DEF StretchWords
<1>7. Join(Join(dw, pw), lw) = Join(dw, Join(pw, lw)) /\ Join(Join(dw, pw), lw) \in Seq(Words)
  BY <1>5, JoinAssoc, JoinType
<1>8. CASE IsBlank(l)
  <2>1. PICK re, d, e, none : /\ re = ReflowLineCommentBlock(part) /\ d = Join(done, re)
                              /\ e = Append(d, l) /\ none = <<>>
    OBVIOUS
  <2>2. b = [done |-> e, part |-> none]
    BY <1>1, <1>8, <2>1 DEF NextStretch, Join
  <2>3. re \in Seq(LineComments) /\ AllWords(re) = pw
    BY <1>2, <1>4, <2>1, ReflowLinesFacts
  <2>4. d \in Seq(LineComments)
    BY <1>2, <2>1, <2>3, JoinType
  <2>5. e \in Seq(LineComments) /\ none \in Seq(LineComments)
    BY <2>1, <2>4, AppendFacts, EmptySeq
  <2>6. b \in Stretches
    BY <2>2, <2>5 DEF Stretches
  <2>7. d \in Seq(AnyLine) /\ re \in Seq(AnyLine)
    BY <2>3, <2>4, LineCommentsFacts
  <2>8. AllWords(d) = Join(dw, pw)
    <3>1. AllWords(Join(done, re)) = Join(AllWords(done), AllWords(re))
      BY <1>3, <2>7, AllWordsJoin
    <3> QED
      BY <1>4, <2>1, <2>3, <3>1
  <2>9. AllWords(e) = Join(Join(dw, pw), lw)
    <3>1. AllWords(Append(d, l)) = Join(AllWords(d), PlainWords(l.words))
      BY <1>3, <2>7, AllWordsAppend
    <3> QED
      BY <1>4, <2>1, <2>8, <3>1
  <2>10. b.done = e /\ b.part = <<>>
    BY <2>1, <2>2
  <2>11. StretchWords(b) = Join(AllWords(e), <<>>)
    BY <2>10, AllWordsEmpty DEF StretchWords
  <2>12. Join(AllWords(e), <<>>) = AllWords(e)
    BY <1>7, <2>9, JoinEmpty
  <2> QED
    BY <1>1, <1>4, <1>6, <2>6, <2>9, <2>11, <2>12
<1>9. CASE ~IsBlank(l)
  <2>1. PICK e : e = Append(part, l)
    OBVIOUS
  <2>2. b = [done |-> done, part |-> e]
    BY <1>1, <1>9, <2>1 DEF NextStretch
  <2>3. e \in Seq(LineComments)
    BY <1>2, <2>1, AppendFacts
  <2>4. b \in Stretches
    BY <1>2, <2>2, <2>3 DEF Stretches
  <2>5. AllWords(e) = Join(pw, lw)
    <3>1. AllWords(Append(part, l)) = Join(AllWords(part), PlainWords(l.words))
      BY <1>3, AllWordsAppend
    <3> QED
      BY <1>4, <2>1, <3>1
  <2>6. b.done = done /\ b.part = e
    BY <2>2
  <2>7. StretchWords(b) = Join(dw, Join(pw, lw))
    BY <1>4, <2>5, <2>6 DEF StretchWords
  <2> QED
    BY <1>1, <1>4, <1>6, <1>7, <2>4, <2>7
<1> QED
  BY <1>8, <1>9

IsStretched(block, f) ==
  f = [n \in 0..Len(block) |->
         IF n = 0 THEN [done |-> <<>>, part |-> <<>>] ELSE NextStretch(f[n - 1], block[n])]

LEMMA StretchedExists ==
  ASSUME NEW block \in Seq(LineComments), mode = "overflow"
  PROVE  \E f : IsStretched(block, f)
<1>1. PICK n, A, e : n = Len(block) /\ A = Stretches /\ e = [done |-> <<>>, part |-> <<>>]
  OBVIOUS
<1>2. PICK G : G = [q \in (1..n) \X A |-> NextStretch(q[2], block[q[1]])]
  OBVIOUS
<1>3. n \in Nat /\ \A k \in 1..n : block[k] \in LineComments
  BY <1>1
<1>4. e \in A
  BY <1>1 DEF Stretches
<1>5. \A k \in 1..n, a \in A : NextStretch(a, block[k]) \in A
  BY <1>1, <1>3, NextStretchFacts
<1>6. G \in [(1..n) \X A -> A]
  BY <1>2, <1>5
<1>7. PICK f : Steps(f, A, e, n, G)
  BY <1>3, <1>4, <1>6, StepsExist
<1>8. f \in [0..n -> A] /\ f[0] = e /\ \A k \in 1..n : f[k] = G[<<k, f[k - 1]>>]
  BY <1>7 DEF Steps
<1>9. ASSUME NEW k \in 0..n PROVE f[k] = IF k = 0 THEN e ELSE NextStretch(f[k - 1], block[k])
  <2>1. CASE k = 0
    BY <1>8, <2>1
  <2>2. CASE k # 0
    <3>1. k \in 1..n /\ k - 1 \in 0..n
      BY <1>3, <2>2
    <3>2. f[k - 1] \in A
      BY <1>8, <3>1
    <3>3. G[<<k, f[k - 1]>>] = NextStretch(f[k - 1], block[k])
      BY <1>2, <3>1, <3>2
    <3> QED
      BY <1>8, <2>2, <3>1, <3>3
  <2> QED
    BY <2>1, <2>2
<1>10. f = [k \in 0..n |-> IF k = 0 THEN e ELSE NextStretch(f[k - 1], block[k])]
  BY <1>8, <1>9
<1> QED
  BY <1>1, <1>10 DEF IsStretched

LEMMA ReflowStretchesFacts ==
  ASSUME NEW block \in Seq(LineComments), mode = "overflow"
  PROVE  /\ ReflowByBlankBoundaries(block) \in Seq(LineComments)
         /\ AllWords(ReflowByBlankBoundaries(block)) = AllWords(block)
<1>1. PICK n : n = Len(block)
  OBVIOUS
<1>2. n \in Nat /\ \A k \in 1..n : block[k] \in LineComments
  BY <1>1
<1>3. PICK f : f = CHOOSE g : IsStretched(block, g)
  OBVIOUS
<1>4. IsStretched(block, f)
  <2>1. \E g : IsStretched(block, g)
    BY StretchedExists
  <2> QED
    BY <1>3, <2>1
<1>5. PICK e : e = [done |-> <<>>, part |-> <<>>]
  OBVIOUS
<1>6. f[0] = e /\ \A k \in 1..n : f[k] = NextStretch(f[k - 1], block[k])
  <2>1. f = [k \in 0..n |-> IF k = 0 THEN e ELSE NextStretch(f[k - 1], block[k])]
    BY <1>1, <1>4, <1>5 DEF IsStretched
  <2>2. \A k \in 0..n : f[k] = IF k = 0 THEN e ELSE NextStretch(f[k - 1], block[k])
    BY <2>1
  <2>3. 0 \in 0..n /\ \A k \in 1..n : k \in 0..n /\ k # 0
    BY <1>2
  <2> QED
    BY <2>2, <2>3
<1>7. PICK done, part, re : done = f[n].done /\ part = f[n].part /\ re = ReflowLineCommentBlock(part)
  OBVIOUS
<1>8. ReflowByBlankBoundaries(block) = Join(done, re)
  BY <1>1, <1>3, <1>7 DEF ReflowByBlankBoundaries, IsStretched, Join
<1>9. PICK U : U = {k \in 0..n : f[k] \in Stretches /\ StretchWords(f[k]) = AllWords(SubSeq(block, 1, k))}
  OBVIOUS
<1>10. 0 \in U
  <2>1. SubSeq(block, 1, 0) = <<>>
    BY SubSeqEmpty
  <2>2. e \in Stretches /\ e.done = <<>> /\ e.part = <<>>
    BY <1>5 DEF Stretches
  <2>3. Join(<<>>, <<>>) = <<>>
    <3>1. <<>> \in Seq(Words)
      BY EmptySeq
    <3> QED
      BY <3>1, JoinEmpty
  <2>4. StretchWords(e) = <<>>
    BY <2>2, <2>3, AllWordsEmpty DEF StretchWords
  <2>5. StretchWords(f[0]) = AllWords(SubSeq(block, 1, 0))
    BY <1>6, <2>1, <2>4, AllWordsEmpty
  <2> QED
    BY <1>2, <1>6, <1>9, <2>2, <2>5
<1>11. ASSUME NEW k \in 0..n, k \in U, k < n PROVE k + 1 \in U
  <2>1. PICK a, l, b : a = f[k] /\ l = block[k + 1] /\ b = f[k + 1]
    OBVIOUS
  <2>2. k \in Nat /\ k + 1 \in 1..n /\ (k + 1) - 1 = k /\ k < Len(block)
    BY <1>1, <1>2, <1>11
  <2>3. b = NextStretch(a, l) /\ l \in LineComments
    BY <1>2, <1>6, <2>1, <2>2
  <2>4. a \in Stretches /\ StretchWords(a) = AllWords(SubSeq(block, 1, k))
    BY <1>9, <1>11, <2>1
  <2>5. /\ NextStretch(a, l) \in Stretches
        /\ StretchWords(NextStretch(a, l)) = Join(StretchWords(a), PlainWords(l.words))
    BY <2>3, <2>4, NextStretchFacts
  <2>6. PICK u : u = SubSeq(block, 1, k)
    OBVIOUS
  <2>7. u \in Seq(LineComments) /\ SubSeq(block, 1, k + 1) = Append(u, l)
    <3>1. /\ SubSeq(block, 1, k) \in Seq(LineComments)
          /\ SubSeq(block, 1, k + 1) = Append(SubSeq(block, 1, k), block[k + 1])
      BY <2>2, PrefixAppend
    <3> QED
      BY <2>1, <2>6, <3>1
  <2>8. u \in Seq(AnyLine) /\ l \in AnyLine
    BY <2>3, <2>7, LineCommentsFacts
  <2>9. AllWords(Append(u, l)) = Join(AllWords(u), PlainWords(l.words))
    BY <2>8, AllWordsAppend
  <2>10. StretchWords(b) = AllWords(SubSeq(block, 1, k + 1))
    BY <2>3, <2>4, <2>5, <2>6, <2>7, <2>9
  <2>11. k + 1 \in 0..n
    BY <2>2
  <2>12. b \in Stretches
    BY <2>3, <2>5
  <2> QED
    BY <1>9, <2>1, <2>10, <2>11, <2>12
<1>12. n \in U
  <2>1. 0 \in Nat /\ n \in Nat /\ \A k \in 0..n : k \in U /\ k < n => k + 1 \in U
    BY <1>2, <1>11
  <2>2. \A k \in 0..n : k \in U
    BY <1>10, <2>1, InductionUpTo
  <2> QED
    BY <1>2, <2>2
<1>13. SubSeq(block, 1, n) = block
  BY <1>1, SubSeqFull
<1>14. done \in Seq(LineComments) /\ part \in Seq(LineComments)
  BY <1>7, <1>9, <1>12 DEF Stretches
<1>15. re \in Seq(LineComments) /\ AllWords(re) = AllWords(part)
  BY <1>7, <1>14, ReflowLinesFacts
<1>16. Join(done, re) \in Seq(LineComments)
  BY <1>14, <1>15, JoinType
<1>17. AllWords(Join(done, re)) = Join(AllWords(done), AllWords(re))
  <2>1. done \in Seq(AnyLine) /\ re \in Seq(AnyLine)
    BY <1>14, <1>15, LineCommentsFacts
  <2> QED
    BY <2>1, AllWordsJoin
<1>18. Join(AllWords(done), AllWords(part)) = AllWords(block)
  BY <1>7, <1>9, <1>12, <1>13 DEF StretchWords
<1> QED
  BY <1>8, <1>15, <1>16, <1>17, <1>18

-----------------------------------------------------------------------------
(***************************************************************************)
(* Block comments: the first and the last line stay.                       *)
(***************************************************************************)
Ends(first, body, last) == Join(<<first>>, Append(body, last))

LEMMA EndsOf ==
  ASSUME NEW X, NEW s \in Seq(X), Len(s) >= 2
  PROVE  /\ SubSeq(s, 2, Len(s) - 1) \in Seq(X) /\ Last(s) \in X /\ s[1] \in X
         /\ s = Ends(s[1], SubSeq(s, 2, Len(s) - 1), Last(s))
<1>1. PICK n, m, body, last, t, tail :
        /\ n = Len(s) /\ m = n - 1 /\ body = SubSeq(s, 2, m) /\ last = Last(s)
        /\ t = Append(body, last) /\ tail = Tail(s)
  OBVIOUS
<1>2. n \in Nat /\ n >= 2 /\ m \in Nat /\ m >= 1 /\ m = n - 1 /\ \A k \in 1..n : s[k] \in X
  <2>1. n \in Nat /\ \A k \in 1..n : s[k] \in X
    BY <1>1
  <2> QED
    BY <1>1, <2>1
<1>3. last = s[n] /\ last \in X /\ s # <<>> /\ s[1] \in X
  <2>1. last = s[n]
    BY <1>1 DEF Last
  <2>2. s # <<>>
    BY <1>1, <1>2
  <2> QED
    BY <1>2, <2>1, <2>2
<1>4. body \in Seq(X) /\ Len(body) = m - 1 /\ \A k \in 1..(m - 1) : body[k] = s[k + 1]
  <2>1. 2 \in Int /\ m \in Int /\ \A k \in 2..m : s[k] \in X
    BY <1>2
  <2>2. /\ SubSeq(s, 2, m) \in Seq(X)
        /\ Len(SubSeq(s, 2, m)) = IF 2 <= m THEN m - 2 + 1 ELSE 0
        /\ \A k \in 1..(m - 2 + 1) : SubSeq(s, 2, m)[k] = s[2 + k - 1]
    BY <2>1, SubSeqProperties
  <2>3. m - 2 + 1 = m - 1 /\ \A k \in 1..(m - 1) : 2 + k - 1 = k + 1
    BY <1>2
  <2>4. (IF 2 <= m THEN m - 2 + 1 ELSE 0) = m - 1
    BY <1>2
  <2> QED
    BY <1>1, <2>2, <2>3, <2>4
<1>5. /\ t \in Seq(X) /\ Len(t) = m
      /\ \A k \in 1..(m - 1) : t[k] = body[k]
      /\ t[m] = last
  <2>1. /\ t \in Seq(X) /\ Len(t) = Len(body) + 1
        /\ \A k \in 1..Len(body) : t[k] = body[k]
        /\ t[Len(body) + 1] = last
    BY <1>1, <1>3, <1>4, AppendFacts
  <2>2. Len(body) + 1 = m
    BY <1>2, <1>4
  <2> QED
    BY <1>4, <2>1, <2>2
<1>6. /\ tail \in Seq(X) /\ Len(tail) = m
      /\ \A k \in 1..m : tail[k] = s[k + 1]
  BY <1>1, <1>2, <1>3, HeadTailProperties
<1>7. \A k \in 1..m : tail[k] = t[k]
  <2> SUFFICES ASSUME NEW k \in 1..m PROVE tail[k] = t[k]
    OBVIOUS
  <2>1. CASE k = m
    BY <1>2, <1>3, <1>5, <1>6, <2>1
  <2>2. CASE k # m
    <3>1. k \in 1..(m - 1)
      BY <1>2, <2>2
    <3> QED
      BY <1>4, <1>5, <1>6, <3>1
  <2> QED
    BY <2>1, <2>2
<1>8. tail = t
  BY <1>5, <1>6, <1>7, SeqEqual
<1>9. s = Join(<<s[1]>>, Tail(s))
  BY <1>3, FirstRest
<1>10. Ends(s[1], body, last) = Join(<<s[1]>>, t)
  BY <1>1 DEF Ends
<1> QED
  BY <1>1, <1>3, <1>4, <1>8, <1>9, <1>10

LEMMA ReflowBlockFacts ==
  ASSUME NEW V, Vocabulary(V), NEW block \in Seq(AnyLine), Len(block) >= 2,
         SubSeq(block, 2, Len(block) - 1) \in Seq(TextLines(V))
  PROVE  \E text \in Seq(TextLines(V)) :
           /\ AllWords(text) = AllWords(SubSeq(block, 2, Len(block) - 1))
           /\ ReflowBlockComment(block) = Ends(block[1], text, Last(block))
<1>1. PICK body, first, last : /\ body = SubSeq(block, 2, Len(block) - 1)
                               /\ first = block[1] /\ last = Last(block)
  OBVIOUS
<1>2. first \in AnyLine /\ last \in AnyLine /\ block = Ends(first, body, last) /\ body \in Seq(TextLines(V))
  BY <1>1, EndsOf
<1>3. CASE Preserved(block)
  <2>1. ReflowBlockComment(block) = block
    BY <1>3 DEF ReflowBlockComment
  <2> QED
    BY <1>1, <1>2, <2>1
<1>4. CASE ~Preserved(block)
  <2>1. PICK indent, mark, text : /\ indent = first.indent /\ mark = " *"
                                  /\ text = EmitAll(body, indent, mark)
    OBVIOUS
  <2>2. indent \in Nat
    <3>1. first.indent \in Nat
      BY <1>2 DEF AnyLine
    <3> QED
      BY <2>1, <3>1
  <2>3. mark \in EmitMarks /\ {mark} \subseteq Marks \ {"*/"}
    BY <2>1 DEF EmitMarks, Marks
  <2>4. text \in Seq(Marked(V, mark)) /\ AllWords(text) = AllWords(body)
    BY <1>2, <2>1, <2>2, <2>3, EmitAllFacts
  <2>5. Marked(V, mark) \subseteq TextLines(V)
    BY <2>3 DEF Marked, TextLines, LinesOf
  <2>6. text \in Seq(TextLines(V))
    BY <2>4, <2>5, SeqOfSubset
  <2>7. ReflowBlockComment(block) = (<<first>> \o text) \o <<last>>
    <3>1. ~(Len(block) < 2)
      BY LenProperties
    <3>2. ReflowBlockComment(block) = (<<block[1]>> \o EmitAll(body, block[1].indent, " *")) \o <<Last(block)>>
      BY <1>1, <1>4, <3>1, Zenon DEF ReflowBlockComment
    <3>3. EmitAll(body, block[1].indent, " *") = text
      BY <1>1, <2>1, Zenon
    <3> QED
      BY <1>1, <3>2, <3>3, Zenon
  <2>8. PICK f, l : f = <<first>> /\ l = <<last>>
    OBVIOUS
  <2>9. ReflowBlockComment(block) = Join(Join(f, text), l)
    BY <2>7, <2>8 DEF Join
  <2>10. f \in Seq(AnyLine) /\ l \in Seq(AnyLine) /\ text \in Seq(AnyLine)
    <3>1. <<first>> \in Seq(AnyLine) /\ <<last>> \in Seq(AnyLine)
      BY <1>2, OneMember
    <3>2. text \in Seq(AnyLine)
      BY <2>6, TextLinesFacts
    <3> QED
      BY <2>8, <3>1, <3>2
  <2>11. Join(Join(f, text), l) = Join(f, Join(text, l))
    BY <2>10, JoinAssoc
  <2>12. Append(text, last) = Join(text, l)
    <3>1. Append(text, last) = Join(text, <<last>>)
      BY <1>2, <2>10, JoinOne
    <3> QED
      BY <2>8, <3>1
  <2>13. Ends(first, text, last) = Join(f, Join(text, l))
    BY <2>8, <2>12 DEF Ends
  <2> QED
    BY <1>1, <2>4, <2>6, <2>9, <2>11, <2>13
<1> QED
  BY <1>3, <1>4

-----------------------------------------------------------------------------
(***************************************************************************)
(* Hoisting: a line stands for lines with the same words in another order. *)
(***************************************************************************)
Tally(w, ws) == Count(w, PlainWords(ws))

LEMMA CountFacts ==
  ASSUME NEW w, NEW a \in Seq(Words), NEW b \in Seq(Words)
  PROVE  Count(w, a) \in Nat /\ Count(w, Join(a, b)) = Count(w, a) + Count(w, b)
<1>1. PICK S, sa, sb : S = {w} /\ sa = Selected(a, S) /\ sb = Selected(b, S)
  OBVIOUS
<1>2. sa \in Seq(Words) /\ sb \in Seq(Words)
  BY <1>1, SelectedMembers
<1>3. Selected(Join(a, b), S) = Join(sa, sb)
  <2>1. Selected(Join(a, b), S) = Join(Selected(a, S), Selected(b, S))
    BY SelectedJoin
  <2> QED
    BY <1>1, <2>1
<1>4. Len(sa) \in Nat /\ Len(Join(sa, sb)) = Len(sa) + Len(sb)
  BY <1>2, JoinType, LenProperties
<1>5. Count(w, a) = Len(sa) /\ Count(w, b) = Len(sb) /\ Count(w, Join(a, b)) = Len(Join(sa, sb))
  BY <1>1, <1>3 DEF Count
<1> QED
  BY <1>4, <1>5

LEMMA CountEmpty == ASSUME NEW w PROVE Count(w, <<>>) = 0
<1>1. Selected(<<>>, {w}) = <<>>
  BY SelectedEmpty
<1>2. Len(<<>>) = 0
  BY EmptySeq
<1> QED
  BY <1>1, <1>2 DEF Count

LEMMA TallyFacts ==
  ASSUME NEW w, NEW a \in Seq(Words), NEW b \in Seq(Words)
  PROVE  Tally(w, a) \in Nat /\ Tally(w, Join(a, b)) = Tally(w, a) + Tally(w, b)
<1>1. PICK pa, pb : pa = PlainWords(a) /\ pb = PlainWords(b)
  OBVIOUS
<1>2. pa \in Seq(Words) /\ pb \in Seq(Words)
  BY <1>1, PlainWordsType
<1>3. PlainWords(Join(a, b)) = Join(pa, pb)
  BY <1>1, PlainWordsJoin
<1>4. Count(w, pa) \in Nat /\ Count(w, Join(pa, pb)) = Count(w, pa) + Count(w, pb)
  BY <1>2, CountFacts
<1> QED
  BY <1>1, <1>3, <1>4 DEF Tally

(* A comment mark counts for nothing.                                      *)
LEMMA TallyAround ==
  ASSUME NEW w, NEW a \in Seq(Words), NEW m \in {"//", "/*", "*/", ""}, NEW b \in Seq(Words)
  PROVE  Tally(w, Join(Append(a, m), b)) = Tally(w, a) + Tally(w, b)
<1>1. m \in Words /\ PlainWords(<<m>>) = <<>>
  BY MarkIsNoWord
<1>2. PICK c : c = Append(a, m)
  OBVIOUS
<1>3. c \in Seq(Words)
  BY <1>1, <1>2, AppendFacts
<1>4. PlainWords(Append(a, m)) = PlainWords(a)
  <2>1. PlainWords(Append(a, m)) = Join(PlainWords(a), PlainWords(<<m>>))
    BY <1>1, PlainWordsOne
  <2>2. Join(PlainWords(a), <<>>) = PlainWords(a)
    <3>1. PlainWords(a) \in Seq(Words)
      BY PlainWordsType
    <3> QED
      BY <3>1, JoinEmpty
  <2> QED
    BY <1>1, <2>1, <2>2
<1>5. Tally(w, c) = Tally(w, a)
  BY <1>2, <1>4 DEF Tally
<1>6. Tally(w, Join(c, b)) = Tally(w, c) + Tally(w, b)
  BY <1>3, TallyFacts
<1> QED
  BY <1>2, <1>5, <1>6

LEMMA SplitAt ==
  ASSUME NEW X, NEW s \in Seq(X), NEW k \in 1..Len(s)
  PROVE  /\ SubSeq(s, 1, k - 1) \in Seq(X) /\ s[k] \in X /\ SubSeq(s, k + 1, Len(s)) \in Seq(X)
         /\ s = Join(Append(SubSeq(s, 1, k - 1), s[k]), SubSeq(s, k + 1, Len(s)))
<1>1. PICK n, p : n = Len(s) /\ p = k - 1
  OBVIOUS
<1>2. n \in Nat /\ k \in 1..n /\ p \in Nat /\ p < Len(s) /\ p + 1 = k /\ \A j \in 1..n : s[j] \in X
  <2>1. n \in Nat /\ k \in 1..n
    BY <1>1
  <2>2. \A j \in 1..n : s[j] \in X
    BY <1>1
  <2> QED
    BY <1>1, <2>1, <2>2
<1>3. /\ SubSeq(s, 1, p) \in Seq(X) /\ s[p + 1] \in X
      /\ SubSeq(s, 1, p + 1) = Append(SubSeq(s, 1, p), s[p + 1])
  BY <1>2, PrefixAppend
<1>4. SubSeq(s, k + 1, n) \in Seq(X)
  <2>1. k + 1 \in Int /\ n \in Int /\ \A j \in (k + 1)..n : s[j] \in X
    BY <1>2
  <2> QED
    BY <2>1, SubSeqProperties
<1>5. SubSeq(s, 1, k) \o SubSeq(s, k + 1, n) = SubSeq(s, 1, n)
  <2>1. 1 \in 1..(Len(s) + 1) /\ k \in (1 - 1)..Len(s) /\ n \in k..Len(s)
    BY <1>1, <1>2
  <2> QED
    BY <2>1, ConcatAdjacentSubSeq
<1>6. SubSeq(s, 1, n) = s
  BY <1>1, SubSeqFull
<1>7. s = Join(SubSeq(s, 1, k), SubSeq(s, k + 1, n))
  BY <1>5, <1>6 DEF Join
<1> QED
  BY <1>1, <1>2, <1>3, <1>4, <1>7

LEMMA LeastOne ==
  ASSUME NEW S, S \subseteq Nat, S # {}
  PROVE  Min(S) \in S /\ \A y \in S : Min(S) <= y
<1>1. PICK x \in S : \A y \in S : x <= y
  BY LeastNat
<1> QED
  BY <1>1 DEF Min

LEMMA InlineCommentFacts ==
  ASSUME NEW toks \in Seq(Words), InlineCommentAt(toks) # 0
  PROVE  /\ InlineCommentAt(toks) \in 2..Len(toks)
         /\ \/ toks[InlineCommentAt(toks)] = "//"
            \/ /\ toks[InlineCommentAt(toks)] = "/*"
               /\ \E m \in (InlineCommentAt(toks) + 1)..Len(toks) : toks[m] = "*/"
<1>1. PICK opens, first : /\ opens = {k \in DOMAIN toks :
                                        /\ ~InString(toks, k)
                                        /\ \/ toks[k] = "//"
                                           \/ toks[k] = "/*" /\ \E m \in (k + 1)..Len(toks) : toks[m] = "*/"}
                          /\ first = Min(opens)
  OBVIOUS
<1>2. InlineCommentAt(toks) =
        IF opens = {} \/ \A m \in 1..(first - 1) : toks[m] = "" THEN 0 ELSE first
  BY <1>1, Zenon DEF InlineCommentAt
<1>3. /\ InlineCommentAt(toks) = first /\ opens # {}
      /\ ~(\A m \in 1..(first - 1) : toks[m] = "")
  BY <1>2
<1>4. DOMAIN toks = 1..Len(toks) /\ Len(toks) \in Nat
  BY LenProperties
<1>5. opens \subseteq 1..Len(toks) /\ opens \subseteq Nat
  <2>1. opens \subseteq DOMAIN toks
    BY <1>1
  <2>2. opens \subseteq 1..Len(toks)
    BY <1>4, <2>1
  <2>3. 1..Len(toks) \subseteq Nat
    OBVIOUS
  <2> QED
    BY <2>2, <2>3
<1>6. first \in opens
  BY <1>1, <1>3, <1>5, LeastOne
<1>7. PICK m \in 1..(first - 1) : toks[m] # ""
  BY <1>3
<1>8. first \in 1..Len(toks) /\ 1..(first - 1) # {}
  BY <1>5, <1>6, <1>7
<1>9. first \in 2..Len(toks)
  BY <1>4, <1>8
<1>10. \/ toks[first] = "//"
       \/ toks[first] = "/*" /\ \E mm \in (first + 1)..Len(toks) : toks[mm] = "*/"
  BY <1>1, <1>6
<1> QED
  BY <1>3, <1>9, <1>10

LEMMA TokensFacts ==
  ASSUME NEW l \in AnyLine
  PROVE  /\ l.words \in Seq(Words) /\ Tokens(l) \in Seq(Words)
         /\ l.mark = "" => Tokens(l) = l.words
         /\ l.mark # "" => /\ l.mark \in Words
                           /\ Tokens(l) = Join(<<l.mark>>, l.words)
                           /\ Tokens(l) # <<>> /\ Tokens(l)[1] = l.mark
<1>1. l.words \in Seq(Words) /\ l.mark \in Words
  <2>1. l.words \in Seq(Words) /\ l.mark \in Marks
    BY DEF AnyLine
  <2>2. Marks \subseteq Words
    BY CommentsAssumption
  <2> QED
    BY <2>1, <2>2
<1>2. CASE l.mark = ""
  BY <1>1, <1>2 DEF Tokens
<1>3. CASE l.mark # ""
  <2>1. PICK m, o, ws, t : m = l.mark /\ o = <<m>> /\ ws = l.words /\ t = Tokens(l)
    OBVIOUS
  <2>2. t = Join(o, ws)
    BY <1>3, <2>1 DEF Tokens, Join
  <2>3. o \in Seq(Words) /\ ws \in Seq(Words) /\ Len(o) = 1 /\ o[1] = m
    <3>1. o \in Seq(Words) /\ Len(o) = 1
      BY <1>1, <2>1, OneMember
    <3>2. o[1] = m
      BY <2>1
    <3> QED
      BY <1>1, <2>1, <3>1, <3>2
  <2>4. t \in Seq(Words)
    BY <2>2, <2>3, JoinType
  <2>5. t # <<>> /\ t[1] = m
    <3>1. t = o \o ws
      BY <2>2 DEF Join
    <3>2. Len(t) = Len(o) + Len(ws) /\ \A k \in 1..Len(o) : t[k] = o[k]
      <4>1. \A k \in 1..(Len(o) + Len(ws)) : (o \o ws)[k] = IF k <= Len(o) THEN o[k] ELSE ws[k - Len(o)]
        BY <2>3, ConcatProperties
      <4>2. Len(o \o ws) = Len(o) + Len(ws) /\ Len(ws) \in Nat
        BY <2>3, ConcatProperties, LenProperties
      <4> QED
        BY <2>3, <3>1, <4>1, <4>2
    <3>3. Len(ws) \in Nat /\ 1 \in 1..Len(o)
      BY <2>3, LenProperties
    <3>4. t[1] = m
      BY <2>3, <3>2, <3>3
    <3>5. Len(t) # 0
      BY <2>3, <3>2, <3>3
    <3> QED
      BY <3>4, <3>5
  <2> QED
    BY <1>1, <1>3, <2>1, <2>2, <2>4, <2>5
<1> QED
  BY <1>2, <1>3

(* What the mark of a line counts for among its tokens.                    *)
MarkTally(w, l) == IF l.mark = "" THEN 0 ELSE Tally(w, <<l.mark>>)

LEMMA MarkTallyFacts ==
  ASSUME NEW w, NEW l \in AnyLine
  PROVE  MarkTally(w, l) \in Nat /\ Tally(w, Tokens(l)) = MarkTally(w, l) + Tally(w, l.words)
<1>1. PICK t, ws, n : t = Tokens(l) /\ ws = l.words /\ n = Tally(w, ws)
  OBVIOUS
<1>2. ws \in Seq(Words) /\ n \in Nat
  <2>1. ws \in Seq(Words)
    BY <1>1, TokensFacts
  <2>2. Tally(w, ws) \in Nat
    BY <2>1, TallyFacts
  <2> QED
    BY <1>1, <2>1, <2>2
<1>3. CASE l.mark = ""
  <2>1. t = ws /\ MarkTally(w, l) = 0
    BY <1>1, <1>3, TokensFacts DEF MarkTally
  <2>2. n = 0 + n
    BY <1>2
  <2> QED
    BY <1>1, <2>1, <2>2
<1>4. CASE l.mark # ""
  <2>1. PICK o, mt : o = <<l.mark>> /\ mt = MarkTally(w, l)
    OBVIOUS
  <2>2. t = Join(o, ws) /\ mt = Tally(w, o) /\ l.mark \in Words
    BY <1>1, <1>4, <2>1, TokensFacts DEF MarkTally
  <2>3. o \in Seq(Words)
    BY <2>1, <2>2, OneMember
  <2>4. Tally(w, o) \in Nat /\ Tally(w, Join(o, ws)) = Tally(w, o) + Tally(w, ws)
    BY <1>2, <2>3, TallyFacts
  <2> QED
    BY <1>1, <2>1, <2>2, <2>4
<1> QED
  BY <1>3, <1>4

(* A line of code made of tokens that start with its mark.                 *)
StartsLike(l, toks) == l.mark # "" => toks # <<>> /\ toks[1] = l.mark

LEMMA CodeLineFacts ==
  ASSUME NEW l \in AnyLine, NEW toks \in Seq(Words), StartsLike(l, toks), NEW w
  PROVE  /\ CodeLine(l, toks) \in AnyLine /\ CodeLine(l, toks).mark = l.mark
         /\ Tally(w, toks) = MarkTally(w, l) + Tally(w, CodeLine(l, toks).words)
         /\ Tally(w, CodeLine(l, toks).words) \in Nat
<1>1. PICK ws, c : ws = (IF l.mark = "" THEN toks ELSE Tail(toks)) /\ c = CodeLine(l, toks)
  OBVIOUS
<1>2. ws \in Seq(Words)
  <2>1. CASE l.mark = ""
    BY <1>1, <2>1
  <2>2. CASE l.mark # ""
    <3>1. toks # <<>>
      BY <2>2 DEF StartsLike
    <3>2. Tail(toks) \in Seq(Words)
      BY <3>1, FirstRest
    <3> QED
      BY <1>1, <2>2, <3>2
  <2> QED
    BY <2>1, <2>2
<1>3. c = [indent |-> l.indent, mark |-> l.mark, lead |-> l.lead, words |-> ws]
  BY <1>1 DEF CodeLine, Line
<1>4. l.indent \in Nat /\ l.mark \in Marks /\ l.lead \in Nat
  BY DEF AnyLine
<1>5. c \in AnyLine /\ c.mark = l.mark /\ c.words = ws
  BY <1>2, <1>3, <1>4 DEF AnyLine
<1>6. Tally(w, ws) \in Nat
  BY <1>2, TallyFacts
<1>7. Tally(w, toks) = MarkTally(w, l) + Tally(w, ws)
  <2>1. CASE l.mark = ""
    <3>1. ws = toks /\ MarkTally(w, l) = 0
      BY <1>1, <2>1 DEF MarkTally
    <3>2. Tally(w, ws) = 0 + Tally(w, ws)
      BY <1>6
    <3> QED
      BY <3>1, <3>2
  <2>2. CASE l.mark # ""
    <3>1. PICK o : o = <<l.mark>>
      OBVIOUS
    <3>2. toks = Join(o, ws)
      <4>1. toks # <<>> /\ toks[1] = l.mark
        BY <2>2 DEF StartsLike
      <4>2. toks = Join(<<toks[1]>>, Tail(toks))
        BY <4>1, FirstRest
      <4> QED
        BY <1>1, <2>2, <3>1, <4>1, <4>2
    <3>3. o \in Seq(Words)
      BY <2>2, <3>1, OneMember, TokensFacts
    <3>4. Tally(w, Join(o, ws)) = Tally(w, o) + Tally(w, ws)
      BY <1>2, <3>3, TallyFacts
    <3>5. MarkTally(w, l) = Tally(w, o)
      BY <2>2, <3>1 DEF MarkTally
    <3> QED
      BY <3>2, <3>4, <3>5
  <2> QED
    BY <2>1, <2>2
<1> QED
  BY <1>1, <1>5, <1>6, <1>7

LEMMA AboveFacts ==
  ASSUME NEW l \in AnyLine, NEW words \in Seq(Words)
  PROVE  Above(l, words) \in AnyLine /\ Above(l, words).mark = "//" /\ Above(l, words).words = words
<1>1. PICK lead, a : lead = (IF words = <<>> THEN 0 ELSE 1) /\ a = Above(l, words)
  OBVIOUS
<1>2. a = [indent |-> l.indent, mark |-> "//", lead |-> lead, words |-> words]
  BY <1>1 DEF Above, Line
<1>3. l.indent \in Nat /\ lead \in Nat
  BY <1>1 DEF AnyLine
<1>4. "//" \in Marks
  BY DEF Marks
<1> QED
  BY <1>1, <1>2, <1>3, <1>4 DEF AnyLine

LEMMA TwoLines ==
  ASSUME NEW a \in AnyLine, NEW b \in AnyLine, NEW w
  PROVE  Count(w, AllWords(<<a, b>>)) = Tally(w, a.words) + Tally(w, b.words)
<1>1. PICK o, t : o = <<a>> /\ t = <<a, b>>
  OBVIOUS
<1>2. o \in Seq(AnyLine) /\ AllWords(o) = PlainWords(a.words)
  BY <1>1, AllWordsOne
<1>3. t = Append(o, b)
  BY <1>1
<1>4. AllWords(Append(o, b)) = Join(AllWords(o), PlainWords(b.words))
  BY <1>2, AllWordsAppend
<1>5. PlainWords(a.words) \in Seq(Words) /\ PlainWords(b.words) \in Seq(Words)
  BY PlainWordsType, TokensFacts
<1>6. PICK pa, pb : pa = PlainWords(a.words) /\ pb = PlainWords(b.words)
  OBVIOUS
<1>7. Count(w, Join(pa, pb)) = Count(w, pa) + Count(w, pb)
  BY <1>5, <1>6, CountFacts
<1> QED
  BY <1>1, <1>2, <1>3, <1>4, <1>6, <1>7 DEF Tally

LEMMA StartsPrefix ==
  ASSUME NEW l, NEW toks \in Seq(Words), StartsLike(l, toks), NEW k \in 2..Len(toks), NEW b \in Seq(Words)
  PROVE  /\ SubSeq(toks, 1, k - 1) \in Seq(Words)
         /\ StartsLike(l, SubSeq(toks, 1, k - 1))
         /\ StartsLike(l, Join(SubSeq(toks, 1, k - 1), b))
<1>1. PICK p, a, j : p = k - 1 /\ a = SubSeq(toks, 1, p) /\ j = Join(a, b)
  OBVIOUS
<1>2. p \in Nat /\ p >= 1 /\ \A n \in 1..p : toks[n] \in Words
  <2>1. \A n \in 1..Len(toks) : toks[n] \in Words
    OBVIOUS
  <2> QED
    BY <1>1, <2>1, LenProperties
<1>3. a \in Seq(Words) /\ Len(a) = p /\ a[1] = toks[1]
  <2>1. 1 \in Int /\ p \in Int
    BY <1>2
  <2>2. /\ SubSeq(toks, 1, p) \in Seq(Words)
        /\ Len(SubSeq(toks, 1, p)) = IF 1 <= p THEN p - 1 + 1 ELSE 0
        /\ \A n \in 1..(p - 1 + 1) : SubSeq(toks, 1, p)[n] = toks[1 + n - 1]
    BY <1>2, <2>1, SubSeqProperties
  <2>3. 1 \in 1..(p - 1 + 1) /\ 1 + 1 - 1 = 1 /\ p - 1 + 1 = p
    BY <1>2
  <2>4. SubSeq(toks, 1, p)[1] = toks[1]
    BY <2>2, <2>3
  <2> QED
    BY <1>1, <1>2, <2>2, <2>3, <2>4
<1>4. j[1] = toks[1] /\ Len(j) >= 1
  <2>1. \A n \in 1..(Len(a) + Len(b)) : (a \o b)[n] = IF n <= Len(a) THEN a[n] ELSE b[n - Len(a)]
    BY <1>3, ConcatProperties
  <2>2. Len(a \o b) = Len(a) + Len(b) /\ Len(b) \in Nat
    BY <1>3, ConcatProperties, LenProperties
  <2>3. 1 \in 1..(Len(a) + Len(b)) /\ 1 <= Len(a)
    BY <1>2, <1>3, <2>2
  <2>4. j = a \o b
    BY <1>1 DEF Join
  <2> QED
    BY <1>2, <1>3, <2>1, <2>2, <2>3, <2>4
<1>5. a # <<>> /\ j # <<>>
  BY <1>2, <1>3, <1>4, EmptySeq
<1> QED
  BY <1>1, <1>3, <1>4, <1>5 DEF StartsLike

LEMMA HoistLineFacts ==
  ASSUME NEW l \in ClosedAlone, NEW w
  PROVE  /\ HoistLine(l) \in Seq(ClosedAlone)
         /\ Count(w, AllWords(HoistLine(l))) = Tally(w, l.words)
<1>1. PICK toks, k, n, rest, code, r :
        /\ toks = Tokens(l) /\ k = InlineCommentAt(toks) /\ n = Len(toks)
        /\ rest = SubSeq(toks, k + 1, n) /\ code = SubSeq(toks, 1, k - 1)
        /\ r = HoistLine(l)
  OBVIOUS
<1>2. l \in AnyLine /\ toks \in Seq(Words) /\ StartsLike(l, toks)
  <2>1. l \in AnyLine
    BY DEF ClosedAlone
  <2> QED
    BY <1>1, <2>1, TokensFacts DEF StartsLike
<1>3. CASE r = <<l>>
  <2>1. AllWords(<<l>>) = PlainWords(l.words)
    BY <1>2, AllWordsOne
  <2>2. <<l>> \in Seq(ClosedAlone)
    BY OneMember
  <2> QED
    BY <1>1, <1>3, <2>1, <2>2 DEF Tally
<1>4. CASE k = 0 \/ l.mark = "//" \/ IsBlockStart(l)
  <2>1. r = <<l>>
    BY <1>1, <1>4, Zenon DEF HoistLine
  <2> QED
    BY <1>3, <2>1
<1>5. CASE k # 0 /\ ~(l.mark = "//" \/ IsBlockStart(l)) /\ r # <<l>>
  <2>1. k \in 2..n /\ (toks[k] = "//" \/ (toks[k] = "/*" /\ \E m \in (k + 1)..n : toks[m] = "*/"))
    BY <1>1, <1>2, <1>5, InlineCommentFacts
  <2>2. l.mark # "*/"
    <3> SUFFICES ASSUME l.mark = "*/" PROVE FALSE
      OBVIOUS
    <3>1. l.words = <<>>
      BY DEF ClosedAlone
    <3>2. toks = <<"*/">>
      <4>1. PICK o : o = <<"*/">>
        OBVIOUS
      <4>2. toks = o \o l.words
        BY <1>1, <4>1 DEF Tokens
      <4>3. o \in Seq({"*/"})
        BY <4>1, OneMember
      <4> QED
        BY <3>1, <4>1, <4>2, <4>3, ConcatEmptySeq
    <3>3. n = 1
      BY <1>1, <3>2
    <3> QED
      BY <2>1, <3>3
  <2>3. n \in Nat /\ k \in 1..Len(toks) /\ k \in 2..Len(toks)
    BY <1>1, <1>2, <2>1, LenProperties
  <2>4. /\ code \in Seq(Words) /\ rest \in Seq(Words)
        /\ toks = Join(Append(code, toks[k]), rest)
    <3>1. /\ SubSeq(toks, 1, k - 1) \in Seq(Words) /\ SubSeq(toks, k + 1, Len(toks)) \in Seq(Words)
          /\ toks = Join(Append(SubSeq(toks, 1, k - 1), toks[k]), SubSeq(toks, k + 1, Len(toks)))
      BY <1>2, <2>3, SplitAt
    <3> QED
      BY <1>1, <3>1
  <2>5. \A b \in Seq(Words) : StartsLike(l, code) /\ StartsLike(l, Join(code, b))
    BY <1>1, <1>2, <2>3, StartsPrefix
  <2>6. PICK mt : mt = MarkTally(w, l)
    OBVIOUS
  <2>7. mt \in Nat /\ Tally(w, toks) = mt + Tally(w, l.words) /\ Tally(w, l.words) \in Nat
    <3>1. MarkTally(w, l) \in Nat /\ Tally(w, Tokens(l)) = MarkTally(w, l) + Tally(w, l.words)
      BY <1>2, MarkTallyFacts
    <3>2. Tally(w, l.words) \in Nat
      BY <1>2, TokensFacts, TallyFacts
    <3> QED
      BY <1>1, <2>6, <3>1, <3>2
  <2>8. toks[k] \in {"//", "/*", "*/", ""}
    BY <2>1
  <2>9. Tally(w, toks) = Tally(w, code) + Tally(w, rest) /\ Tally(w, code) \in Nat /\ Tally(w, rest) \in Nat
    <3>1. Tally(w, Join(Append(code, toks[k]), rest)) = Tally(w, code) + Tally(w, rest)
      BY <2>4, <2>8, TallyAround
    <3>2. Tally(w, code) \in Nat /\ Tally(w, rest) \in Nat
      BY <2>4, TallyFacts
    <3> QED
      BY <2>4, <3>1, <3>2
  <2>10. ASSUME NEW a \in AnyLine, NEW c \in AnyLine, a.mark = "//", c.mark = l.mark, r = <<a, c>>,
                Tally(w, a.words) \in Nat, Tally(w, c.words) \in Nat,
                mt + Tally(w, c.words) + Tally(w, a.words) = Tally(w, toks)
         PROVE  r \in Seq(ClosedAlone) /\ Count(w, AllWords(r)) = Tally(w, l.words)
    <3>1. a \in ClosedAlone /\ c \in ClosedAlone
      BY <2>2, <2>10 DEF ClosedAlone
    <3>2. <<a, c>> \in Seq(ClosedAlone)
      BY <3>1
    <3>3. Count(w, AllWords(<<a, c>>)) = Tally(w, a.words) + Tally(w, c.words)
      BY TwoLines
    <3>4. PICK x, y, z, t : x = Tally(w, a.words) /\ y = Tally(w, c.words) /\ z = Tally(w, l.words)
                              /\ t = Tally(w, toks)
      OBVIOUS
    <3>5. x \in Nat /\ y \in Nat /\ mt + y + x = t
      BY <2>10, <3>4, Zenon
    <3>6. z \in Nat /\ mt \in Nat /\ t = mt + z
      BY <2>7, <3>4, Zenon
    <3>7. x + y = z
      BY <3>5, <3>6
    <3> QED
      BY <2>10, <3>2, <3>3, <3>4, <3>7, Zenon
  <2>11. CASE toks[k] = "//"
    <3>1. PICK a, c : a = Above(l, rest) /\ c = CodeLine(l, code)
      OBVIOUS
    <3>2. r = <<a, c>>
      <4>1. r = IF IsDirective(Above(l, rest)) THEN <<l>> ELSE <<Above(l, rest), CodeLine(l, code)>>
        BY <1>1, <1>5, <2>11, Zenon DEF HoistLine
      <4> QED
        BY <1>5, <3>1, <4>1
    <3>3. a \in AnyLine /\ a.mark = "//" /\ a.words = rest
      BY <1>2, <2>4, <3>1, AboveFacts
    <3>4. /\ c \in AnyLine /\ c.mark = l.mark
          /\ Tally(w, code) = mt + Tally(w, c.words)
          /\ Tally(w, c.words) \in Nat
      <4>1. StartsLike(l, code)
        <5>1. <<>> \in Seq(Words)
          BY EmptySeq
        <5> QED
          BY <2>5, <5>1
      <4> QED
        BY <1>2, <2>4, <2>6, <3>1, <4>1, CodeLineFacts
    <3>5. Tally(w, a.words) \in Nat /\ mt + Tally(w, c.words) + Tally(w, a.words) = Tally(w, toks)
      BY <2>7, <2>9, <3>3, <3>4
    <3> QED
      BY <1>1, <2>10, <3>2, <3>3, <3>4, <3>5
  <2>12. CASE toks[k] # "//"
    <3>1. toks[k] = "/*" /\ \E m \in (k + 1)..n : toks[m] = "*/"
      BY <2>1, <2>12
    <3>2. PICK closes, stop, m, before, after :
            /\ m = Len(rest) /\ closes = {j \in 1..m : rest[j] = "*/"} /\ stop = Min(closes)
            /\ before = SubSeq(rest, 1, stop - 1) /\ after = SubSeq(rest, stop + 1, m)
      OBVIOUS
    <3>3. stop \in 1..Len(rest) /\ rest[stop] = "*/"
      <4>1. PICK j \in (k + 1)..n : toks[j] = "*/"
        BY <3>1
      <4>2. \A x \in (k + 1)..n : toks[x] \in Words
        <5>1. \A x \in 1..n : toks[x] \in Words
          BY <1>1, <1>2
        <5> QED
          BY <2>1, <2>3, <5>1
      <4>3. k + 1 \in Int /\ n \in Int
        BY <2>1, <2>3
      <4>4. /\ Len(SubSeq(toks, k + 1, n)) = IF k + 1 <= n THEN n - (k + 1) + 1 ELSE 0
            /\ \A x \in 1..(n - (k + 1) + 1) : SubSeq(toks, k + 1, n)[x] = toks[(k + 1) + x - 1]
        BY <4>2, <4>3, SubSeqProperties
      <4>5. PICK x : x = j - k
        OBVIOUS
      <4>6. x \in 1..(n - (k + 1) + 1) /\ (k + 1) + x - 1 = j /\ k + 1 <= n
        BY <2>1, <2>3, <4>5
      <4>7. rest[x] = "*/" /\ x \in 1..Len(rest)
        BY <1>1, <4>1, <4>4, <4>6
      <4>8. closes # {} /\ closes \subseteq Nat /\ \A y \in closes : y \in 1..Len(rest) /\ rest[y] = "*/"
        <5>1. x \in closes
          BY <3>2, <4>7
        <5>2. 1..m \subseteq Nat
          OBVIOUS
        <5> QED
          BY <3>2, <5>1, <5>2
      <4> QED
        BY <3>2, <4>8, LeastOne
    <3>4. /\ before \in Seq(Words) /\ after \in Seq(Words)
          /\ rest = Join(Append(before, "*/"), after)
      <4>1. /\ SubSeq(rest, 1, stop - 1) \in Seq(Words) /\ SubSeq(rest, stop + 1, Len(rest)) \in Seq(Words)
            /\ rest = Join(Append(SubSeq(rest, 1, stop - 1), rest[stop]), SubSeq(rest, stop + 1, Len(rest)))
        <5>1. rest \in Seq(Words) /\ stop \in 1..Len(rest)
          BY <2>4, <3>3, Zenon
        <5> QED
          BY <5>1, SplitAt
      <4> QED
        BY <3>2, <3>3, <4>1, Zenon
    <3>5. /\ Tally(w, rest) = Tally(w, before) + Tally(w, after)
          /\ Tally(w, before) \in Nat /\ Tally(w, after) \in Nat
      <4>1. "*/" \in {"//", "/*", "*/", ""}
        OBVIOUS
      <4>2. Tally(w, Join(Append(before, "*/"), after)) = Tally(w, before) + Tally(w, after)
        BY <3>4, <4>1, TallyAround
      <4>3. Tally(w, before) \in Nat /\ Tally(w, after) \in Nat
        BY <3>4, TallyFacts
      <4> QED
        BY <3>4, <4>2, <4>3
    <3>6. PICK left, a, c : left = Join(code, after) /\ a = Above(l, before) /\ c = CodeLine(l, left)
      OBVIOUS
    <3>7. left \in Seq(Words) /\ Tally(w, left) = Tally(w, code) + Tally(w, after) /\ StartsLike(l, left)
      <4>1. Join(code, after) \in Seq(Words) /\ Tally(w, Join(code, after)) = Tally(w, code) + Tally(w, after)
        BY <2>4, <3>4, JoinType, TallyFacts
      <4> QED
        BY <2>5, <3>4, <3>6, <4>1
    <3>8. r = <<a, c>>
      BY <1>1, <1>5, <2>12, <3>2, <3>6, Zenon DEF HoistLine, Join
    <3>9. a \in AnyLine /\ a.mark = "//" /\ a.words = before
      BY <1>2, <3>4, <3>6, AboveFacts
    <3>10. /\ c \in AnyLine /\ c.mark = l.mark
           /\ Tally(w, left) = mt + Tally(w, c.words)
           /\ Tally(w, c.words) \in Nat
      BY <1>2, <2>6, <3>6, <3>7, CodeLineFacts
    <3>11. Tally(w, a.words) \in Nat /\ mt + Tally(w, c.words) + Tally(w, a.words) = Tally(w, toks)
      BY <2>7, <2>9, <3>5, <3>7, <3>9, <3>10
    <3> QED
      BY <1>1, <2>10, <3>8, <3>9, <3>10, <3>11
  <2> QED
    BY <2>11, <2>12
<1> QED
  BY <1>3, <1>4, <1>5

HoistedLine == [l \in ClosedAlone |-> HoistLine(l)]

LEMMA ClosedAloneLines ==
  ClosedAlone \subseteq AnyLine /\ Seq(ClosedAlone) \subseteq Seq(AnyLine)
<1>1. ClosedAlone \subseteq AnyLine
  BY DEF ClosedAlone
<1> QED
  BY <1>1, SeqOfSubset

LEMMA HoistedLineMaps == Maps(HoistedLine, ClosedAlone, Seq(ClosedAlone))
<1>1. \A l \in ClosedAlone : HoistLine(l) \in Seq(ClosedAlone)
  BY HoistLineFacts
<1> QED
  BY <1>1 DEF HoistedLine, Maps

LEMMA HoistFlat ==
  ASSUME NEW file \in Seq(ClosedAlone)
  PROVE  HoistInlineComments(file) = Flat(file, HoistedLine)
<1>1. \A k \in DOMAIN file : file[k] \in ClosedAlone
  OBVIOUS
<1>2. \A k \in DOMAIN file : HoistLine(file[k]) = HoistedLine[file[k]]
  BY <1>1 DEF HoistedLine
<1>3. [k \in DOMAIN file |-> HoistLine(file[k])] = Mapped(file, HoistedLine)
  BY <1>2, Zenon DEF Mapped
<1> QED
  BY <1>3, Zenon DEF HoistInlineComments, Flat

(***************************************************************************)
(* Hoisting keeps the words of a file, each as often as it was there.      *)
(***************************************************************************)
LEMMA HoistFacts ==
  ASSUME NEW file \in Seq(ClosedAlone)
  PROVE  /\ HoistInlineComments(file) \in Seq(ClosedAlone)
         /\ \A w : Count(w, AllWords(HoistInlineComments(file))) = Count(w, AllWords(file))
<1>1. PICK C, H : C = ClosedAlone /\ H = HoistedLine
  OBVIOUS
<1>2. Maps(H, C, Seq(C)) /\ C \subseteq AnyLine /\ Seq(C) \subseteq Seq(AnyLine)
  BY <1>1, HoistedLineMaps, ClosedAloneLines
<1>3. Flat(file, H) \in Seq(C)
  BY <1>1, <1>2, FlatType
<1>4. SUFFICES ASSUME NEW w PROVE Count(w, AllWords(Flat(file, H))) = Count(w, AllWords(file))
  BY <1>1, <1>3, HoistFlat
<1>5. PICK P : P = {s \in Seq(C) : Count(w, AllWords(Flat(s, H))) = Count(w, AllWords(s))}
  OBVIOUS
<1>6. <<>> \in P
  <2>1. Flat(<<>>, H) = <<>> /\ <<>> \in Seq(C)
    BY FlatEmpty, EmptySeq
  <2> QED
    BY <1>5, <2>1
<1>7. ASSUME NEW s \in Seq(C), NEW l \in C, s \in P PROVE Append(s, l) \in P
  <2>1. /\ Flat(Append(s, l), H) = Join(Flat(s, H), H[l])
        /\ Flat(s, H) \in Seq(C) /\ Append(s, l) \in Seq(C)
    BY <1>2, FlatAppend, AppendFacts
  <2>2. H[l] \in Seq(C) /\ Count(w, AllWords(H[l])) = Tally(w, l.words)
    <3>1. H[l] = HoistLine(l) /\ l \in ClosedAlone
      BY <1>1 DEF HoistedLine
    <3> QED
      BY <1>1, <3>1, HoistLineFacts
  <2>3. Flat(s, H) \in Seq(AnyLine) /\ H[l] \in Seq(AnyLine) /\ s \in Seq(AnyLine) /\ l \in AnyLine
    BY <1>2, <2>1, <2>2
  <2>4. AllWords(Join(Flat(s, H), H[l])) = Join(AllWords(Flat(s, H)), AllWords(H[l]))
    BY <2>3, AllWordsJoin
  <2>5. AllWords(Flat(s, H)) \in Seq(Words) /\ AllWords(H[l]) \in Seq(Words) /\ AllWords(s) \in Seq(Words)
    BY <2>3, AllWordsType
  <2>6. PICK a, b, c, d : /\ a = Count(w, AllWords(Flat(s, H))) /\ b = Count(w, AllWords(H[l]))
                          /\ c = Count(w, AllWords(Flat(Append(s, l), H)))
                          /\ d = Count(w, AllWords(Append(s, l)))
    OBVIOUS
  <2>7. c = a + b
    <3>1. Count(w, Join(AllWords(Flat(s, H)), AllWords(H[l])))
            = Count(w, AllWords(Flat(s, H))) + Count(w, AllWords(H[l]))
      BY <2>5, CountFacts
    <3> QED
      BY <2>1, <2>4, <2>6, <3>1
  <2>8. d = a + b
    <3>1. AllWords(Append(s, l)) = Join(AllWords(s), PlainWords(l.words))
      BY <2>3, AllWordsAppend
    <3>2. PlainWords(l.words) \in Seq(Words)
      BY <2>3, TokensFacts, PlainWordsType
    <3>3. Count(w, Join(AllWords(s), PlainWords(l.words)))
            = Count(w, AllWords(s)) + Count(w, PlainWords(l.words))
      BY <2>5, <3>2, CountFacts
    <3>4. Count(w, AllWords(s)) = a /\ Count(w, PlainWords(l.words)) = b
      BY <1>5, <1>7, <2>2, <2>6 DEF Tally
    <3> QED
      BY <2>6, <3>1, <3>3, <3>4
  <2> QED
    BY <1>5, <2>1, <2>6, <2>7, <2>8
<1>8. Seq(C) \subseteq P
  <2>1. \A s \in Seq(C), l \in C : s \in P => Append(s, l) \in P
    BY <1>7
  <2> QED
    BY <1>6, <2>1, SeqInduction
<1> QED
  BY <1>1, <1>5, <1>8

-----------------------------------------------------------------------------
(***************************************************************************)
(* The runs of lines that the walk looks at.                               *)
(***************************************************************************)
LEMMA GreatestUpTo ==
  ASSUME NEW n \in Nat, NEW S, S \subseteq 0..n, S # {}
  PROVE  Max(S) \in S /\ \A y \in S : Max(S) >= y
<1>1. PICK T : T = {m \in 0..n : n - m \in S}
  OBVIOUS
<1>2. T \subseteq Nat /\ T # {}
  <2>1. PICK x \in S : TRUE
    OBVIOUS
  <2>2. n - x \in 0..n /\ n - (n - x) = x
    OBVIOUS
  <2>3. n - x \in T
    BY <1>1, <2>2
  <2> QED
    BY <1>1, <2>3
<1>3. PICK m \in T : \A y \in T : m <= y
  BY <1>2, LeastNat
<1>4. n - m \in S /\ \A y \in S : n - m >= y
  <2>1. n - m \in S /\ m \in 0..n
    BY <1>1, <1>3
  <2>2. ASSUME NEW y \in S PROVE n - m >= y
    <3>1. n - y \in 0..n /\ n - (n - y) = y
      OBVIOUS
    <3>2. n - y \in T
      BY <1>1, <3>1
    <3>3. m <= n - y
      BY <1>3, <3>2
    <3> QED
      BY <2>1, <3>3
  <2> QED
    BY <2>1, <2>2
<1> QED
  BY <1>4 DEF Max

LEMMA RunOf ==
  ASSUME NEW X, NEW s \in Seq(X), NEW a \in 1..Len(s), NEW b \in a..Len(s)
  PROVE  /\ SubSeq(s, 1, a - 1) \in Seq(X) /\ SubSeq(s, a, b) \in Seq(X)
         /\ SubSeq(s, 1, b) = Join(SubSeq(s, 1, a - 1), SubSeq(s, a, b))
         /\ Len(SubSeq(s, a, b)) = b - a + 1
         /\ \A k \in 1..(b - a + 1) : SubSeq(s, a, b)[k] = s[a + k - 1]
<1>1. PICK n : n = Len(s)
  OBVIOUS
<1>2. n \in Nat /\ a \in 1..n /\ b \in a..n /\ \A k \in 1..n : s[k] \in X
  BY <1>1
<1>3. a - 1 \in Int /\ a \in Int /\ b \in Int /\ 1 \in Int
  BY <1>2
<1>4. (\A k \in 1..(a - 1) : s[k] \in X) /\ (\A k \in a..b : s[k] \in X) /\ (\A k \in 1..b : s[k] \in X)
  BY <1>2
<1>5. /\ SubSeq(s, 1, a - 1) \in Seq(X)
      /\ Len(SubSeq(s, 1, a - 1)) = a - 1
      /\ \A k \in 1..(a - 1) : SubSeq(s, 1, a - 1)[k] = s[k]
  <2>1. /\ SubSeq(s, 1, a - 1) \in Seq(X)
        /\ Len(SubSeq(s, 1, a - 1)) = IF 1 <= a - 1 THEN a - 1 - 1 + 1 ELSE 0
        /\ \A k \in 1..(a - 1 - 1 + 1) : SubSeq(s, 1, a - 1)[k] = s[1 + k - 1]
    BY <1>3, <1>4, SubSeqProperties
  <2>2. a - 1 - 1 + 1 = a - 1 /\ (~(1 <= a - 1) => a - 1 = 0) /\ \A k \in 1..(a - 1) : 1 + k - 1 = k
    BY <1>2
  <2> QED
    BY <2>1, <2>2
<1>6. /\ SubSeq(s, a, b) \in Seq(X)
      /\ Len(SubSeq(s, a, b)) = b - a + 1
      /\ \A k \in 1..(b - a + 1) : SubSeq(s, a, b)[k] = s[a + k - 1]
  <2>1. /\ SubSeq(s, a, b) \in Seq(X)
        /\ Len(SubSeq(s, a, b)) = IF a <= b THEN b - a + 1 ELSE 0
        /\ \A k \in 1..(b - a + 1) : SubSeq(s, a, b)[k] = s[a + k - 1]
    BY <1>3, <1>4, SubSeqProperties
  <2> QED
    BY <1>2, <2>1
<1>7. /\ SubSeq(s, 1, b) \in Seq(X)
      /\ Len(SubSeq(s, 1, b)) = b
      /\ \A k \in 1..b : SubSeq(s, 1, b)[k] = s[k]
  <2>1. /\ SubSeq(s, 1, b) \in Seq(X)
        /\ Len(SubSeq(s, 1, b)) = IF 1 <= b THEN b - 1 + 1 ELSE 0
        /\ \A k \in 1..(b - 1 + 1) : SubSeq(s, 1, b)[k] = s[1 + k - 1]
    BY <1>3, <1>4, SubSeqProperties
  <2>2. b - 1 + 1 = b /\ 1 <= b /\ \A k \in 1..b : 1 + k - 1 = k
    BY <1>2
  <2> QED
    BY <2>1, <2>2
<1>8. PICK u, v, w : u = SubSeq(s, 1, a - 1) /\ v = SubSeq(s, a, b) /\ w = SubSeq(s, 1, b)
  OBVIOUS
<1>9. w = Join(u, v)
  <2>1. u \in Seq(X) /\ v \in Seq(X) /\ w \in Seq(X) /\ Len(u) = a - 1 /\ Len(v) = b - a + 1 /\ Len(w) = b
    BY <1>5, <1>6, <1>7, <1>8
  <2>2. /\ Join(u, v) \in Seq(X) /\ Len(Join(u, v)) = Len(u) + Len(v)
        /\ \A k \in 1..(Len(u) + Len(v)) : Join(u, v)[k] = IF k <= Len(u) THEN u[k] ELSE v[k - Len(u)]
    BY <2>1, ConcatProperties, JoinType DEF Join
  <2>3. Len(u) + Len(v) = b
    BY <1>2, <2>1
  <2>4. ASSUME NEW k \in 1..b PROVE w[k] = Join(u, v)[k]
    <3>1. w[k] = s[k]
      BY <1>7, <1>8
    <3>2. Join(u, v)[k] = IF k <= a - 1 THEN u[k] ELSE v[k - (a - 1)]
      BY <2>1, <2>2, <2>3
    <3>3. CASE k <= a - 1
      <4>1. k \in 1..(a - 1)
        BY <1>2, <3>3
      <4> QED
        BY <1>5, <1>8, <3>1, <3>2, <3>3, <4>1
    <3>4. CASE ~(k <= a - 1)
      <4>1. k - (a - 1) \in 1..(b - a + 1) /\ a + (k - (a - 1)) - 1 = k
        BY <1>2, <3>4
      <4> QED
        BY <1>6, <1>8, <3>1, <3>2, <3>4, <4>1
    <3> QED
      BY <3>3, <3>4
  <2>5. PICK z : z = Join(u, v)
    OBVIOUS
  <2> QED
    BY <2>1, <2>2, <2>3, <2>4, SeqEqual
<1> QED
  BY <1>5, <1>6, <1>8, <1>9

(***************************************************************************)
(* A block of line comments: the lines from i on with the same indent that *)
(* open one.  out grows by what its text says.                             *)
(***************************************************************************)
BlockEnd == Max({k \in i..Len(lines) : \A m \in i..k : OpensLineBlock(lines[m]) /\ lines[m].indent = lines[i].indent})

LineBlockLines ==
  IF mode = "overflow" /\ \E l \in ToSet(SubSeq(lines, i, BlockEnd)) : IsBlank(l)
  THEN ReflowByBlankBoundaries(SubSeq(lines, i, BlockEnd))
  ELSE ReflowLineCommentBlock(SubSeq(lines, i, BlockEnd))

LEMMA LineBlockStep ==
  ASSUME LineBlock
  PROVE  out' = Join(out, LineBlockLines) /\ i' = BlockEnd + 1
  BY DEF LineBlock, LineBlockLines, BlockEnd, Join

LEMMA LineBlockFacts ==
  ASSUME lines \in Seq(AnyLine), i \in 1..Len(lines), OpensLineBlock(lines[i])
  PROVE  /\ BlockEnd \in i..Len(lines)
         /\ SubSeq(lines, i, BlockEnd) \in Seq(LineComments)
         /\ LineBlockLines \in Seq(LineComments)
         /\ AllWords(LineBlockLines) = AllWords(SubSeq(lines, i, BlockEnd))
<1>1. PICK S, n : /\ S = {k \in i..Len(lines) : \A m \in i..k : OpensLineBlock(lines[m]) /\ lines[m].indent = lines[i].indent}
                  /\ n = Len(lines)
  OBVIOUS
<1>2. n \in Nat /\ i \in 1..n /\ \A k \in 1..n : lines[k] \in AnyLine
  BY <1>1
<1>3. i \in S
  <2>1. i \in i..n /\ \A m \in i..i : m = i
    BY <1>2
  <2> QED
    BY <1>1, <2>1
<1>4. S \subseteq 0..n /\ S # {}
  BY <1>1, <1>2, <1>3
<1>5. PICK e : e = BlockEnd
  OBVIOUS
<1>6. e \in i..n /\ \A m \in i..e : OpensLineBlock(lines[m])
  <2>1. Max(S) \in S
    BY <1>2, <1>4, GreatestUpTo
  <2>2. e = Max(S)
    BY <1>1, <1>5 DEF BlockEnd
  <2> QED
    BY <1>1, <2>1, <2>2
<1>7. PICK block : block = SubSeq(lines, i, e)
  OBVIOUS
<1>8. /\ block \in Seq(AnyLine) /\ Len(block) = e - i + 1
      /\ \A k \in 1..(e - i + 1) : block[k] = lines[i + k - 1]
  BY <1>1, <1>2, <1>6, <1>7, RunOf
<1>9. block \in Seq(LineComments)
  <2>1. \A k \in 1..Len(block) : block[k] \in LineComments
    <3> SUFFICES ASSUME NEW k \in 1..Len(block) PROVE block[k] \in LineComments
      OBVIOUS
    <3>1. i + k - 1 \in i..e /\ i + k - 1 \in 1..n
      BY <1>2, <1>6, <1>8
    <3>2. block[k] = lines[i + k - 1]
      BY <1>8
    <3>3. OpensLineBlock(lines[i + k - 1]) /\ lines[i + k - 1] \in AnyLine
      BY <1>2, <1>6, <3>1
    <3> QED
      BY <3>2, <3>3 DEF OpensLineBlock, AnyLine, LineComments, Marked, LinesOf
  <2> QED
    BY <1>8, <2>1
<1>10. block # <<>>
  <2>1. Len(block) # 0
    BY <1>2, <1>6, <1>8
  <2> QED
    BY <2>1
<1>11. LineBlockLines \in Seq(LineComments) /\ AllWords(LineBlockLines) = AllWords(block)
  <2>1. PICK q : q = (mode = "overflow" /\ \E l \in ToSet(block) : IsBlank(l))
    OBVIOUS
  <2>2. LineBlockLines = IF q THEN ReflowByBlankBoundaries(block) ELSE ReflowLineCommentBlock(block)
    BY <1>5, <1>7, <2>1, Zenon DEF LineBlockLines
  <2>3. CASE q
    BY <1>9, <2>1, <2>2, <2>3, ReflowStretchesFacts
  <2>4. CASE ~q
    BY <1>9, <1>10, <2>2, <2>4, ReflowLinesFacts
  <2> QED
    BY <2>3, <2>4
<1> QED
  BY <1>1, <1>5, <1>6, <1>7, <1>9, <1>11

(***************************************************************************)
(* A block comment: up to a line that is nothing but the closing mark, or  *)
(* to the last line.                                                       *)
(***************************************************************************)
BlockEnds == {k \in (i + 1)..Len(lines) : IsBlockEnd(lines[k])}

CommentEnd == IF BlockEnds = {} THEN Len(lines) ELSE Min(BlockEnds)

CommentLines ==
  IF IsDirectiveBlock(SubSeq(lines, i, CommentEnd)) THEN SubSeq(lines, i, CommentEnd)
  ELSE ReflowBlockComment(SubSeq(lines, i, CommentEnd))

LEMMA BlockCommentStep ==
  ASSUME BlockComment
  PROVE  out' = Join(out, CommentLines) /\ i' = CommentEnd + 1
  BY DEF BlockComment, BlockEnds, CommentEnd, CommentLines, Join

LEMMA CommentEndFacts ==
  ASSUME lines \in Seq(AnyLine), i \in 1..Len(lines)
  PROVE  /\ CommentEnd \in i..Len(lines)
         /\ \A k \in (i + 1)..(CommentEnd - 1) : ~IsBlockEnd(lines[k])
         /\ CommentEnd = Len(lines) \/ IsBlockEnd(lines[CommentEnd])
<1>1. PICK n, E : n = Len(lines) /\ E = BlockEnds
  OBVIOUS
<1>2. n \in Nat /\ i \in 1..n
  BY <1>1
<1>3. E = {k \in (i + 1)..n : IsBlockEnd(lines[k])}
  BY <1>1 DEF BlockEnds
<1>4. CASE E = {}
  <2>1. CommentEnd = n
    BY <1>1, <1>4 DEF CommentEnd
  <2>2. \A k \in (i + 1)..(n - 1) : k \in (i + 1)..n
    BY <1>2
  <2> QED
    BY <1>1, <1>2, <1>3, <1>4, <2>1, <2>2
<1>5. CASE E # {}
  <2>1. CommentEnd = Min(E)
    BY <1>1, <1>5 DEF CommentEnd
  <2>2. E \subseteq Nat
    BY <1>2, <1>3
  <2>3. PICK c : c = CommentEnd
    OBVIOUS
  <2>4. c \in E /\ \A y \in E : c <= y
    BY <1>5, <2>1, <2>2, <2>3, LeastOne
  <2>5. c \in (i + 1)..n /\ IsBlockEnd(lines[c])
    BY <1>3, <2>4
  <2>6. \A k \in (i + 1)..(c - 1) : k \in (i + 1)..n /\ ~(c <= k)
    BY <1>2, <2>5
  <2>7. \A k \in (i + 1)..(c - 1) : ~IsBlockEnd(lines[k])
    BY <1>3, <2>4, <2>6
  <2> QED
    BY <1>1, <1>2, <2>3, <2>5, <2>7
<1> QED
  BY <1>4, <1>5

LEMMA CommentBody ==
  ASSUME lines \in Seq(ClosedAlone), i \in 1..Len(lines), NEW e, e = CommentEnd, e > i
  PROVE  /\ SubSeq(lines, i, e) \in Seq(ClosedAlone) /\ Len(SubSeq(lines, i, e)) >= 2
         /\ SubSeq(SubSeq(lines, i, e), 2, Len(SubSeq(lines, i, e)) - 1) = SubSeq(lines, i + 1, e - 1)
         /\ SubSeq(lines, i + 1, e - 1) \in Seq(TextLines(Words))
<1>1. PICK n, block : n = Len(lines) /\ block = SubSeq(lines, i, e)
  OBVIOUS
<1>2. n \in Nat /\ i \in 1..n /\ \A k \in 1..n : lines[k] \in ClosedAlone
  BY <1>1
<1>3. lines \in Seq(AnyLine)
  BY ClosedAloneLines
<1>4. e \in i..n /\ e \in 1..n /\ i \in Nat /\ e \in Nat /\ \A k \in (i + 1)..(e - 1) : ~IsBlockEnd(lines[k])
  <2>1. e \in i..n /\ \A k \in (i + 1)..(e - 1) : ~IsBlockEnd(lines[k])
    BY <1>1, <1>3, CommentEndFacts
  <2> QED
    BY <1>2, <2>1
<1>5. block \in Seq(ClosedAlone) /\ Len(block) = e - i + 1
  BY <1>1, <1>4, RunOf
<1>6. Len(block) >= 2
  BY <1>4, <1>5
<1>7. \A k \in (i + 1)..(e - 1) : lines[k] \in TextLines(Words)
  <2> SUFFICES ASSUME NEW k \in (i + 1)..(e - 1) PROVE lines[k] \in TextLines(Words)
    OBVIOUS
  <2>1. lines[k] \in ClosedAlone /\ ~IsBlockEnd(lines[k])
    BY <1>2, <1>4
  <2>2. lines[k] \in AnyLine /\ lines[k].mark # "*/"
    BY <2>1 DEF ClosedAlone, IsBlockEnd
  <2> QED
    BY <2>2 DEF TextLines, LinesOf, AnyLine
<1>8. SubSeq(lines, i + 1, e - 1) \in Seq(TextLines(Words))
  <2>1. i + 1 \in Int /\ e - 1 \in Int
    BY <1>4
  <2> QED
    BY <1>7, <2>1, SubSeqProperties
<1>9. SubSeq(block, 2, Len(block) - 1) = SubSeq(lines, i + 1, e - 1)
  <2>1. CASE e = i + 1
    <3>1. Len(block) - 1 = 1 /\ e - 1 < i + 1 /\ e - 1 \in Int /\ i + 1 \in Int
      BY <1>4, <1>5, <2>1
    <3>2. SubSeq(block, 2, 1) = <<>> /\ SubSeq(lines, i + 1, e - 1) = <<>>
      BY <3>1, SubSeqEmpty
    <3> QED
      BY <3>1, <3>2
  <2>2. CASE e # i + 1
    <3>1. PICK b : b = e - i
      OBVIOUS
    <3>2. /\ b \in 1..(e - i + 1) /\ 2 \in 1..(e - i + 1) /\ Len(block) - 1 = b
          /\ i + 2 - 1 = i + 1 /\ i + b - 1 = e - 1
      BY <1>4, <1>5, <2>2, <3>1
    <3>3. SubSeq(SubSeq(lines, i, e), 2, b) = SubSeq(lines, i + 2 - 1, i + b - 1)
      <4>1. lines \in Seq(ClosedAlone) /\ i \in 1..Len(lines) /\ e \in 1..Len(lines)
        BY <1>1, <1>4
      <4> QED
        BY <3>2, <4>1, SubSeqOfSubSeq
    <3> QED
      BY <1>1, <3>2, <3>3
  <2> QED
    BY <2>1, <2>2
<1> QED
  BY <1>1, <1>5, <1>6, <1>8, <1>9

LEMMA EndsWords ==
  ASSUME NEW first \in AnyLine, NEW last \in AnyLine, NEW a \in Seq(AnyLine), NEW b \in Seq(AnyLine),
         AllWords(a) = AllWords(b)
  PROVE  AllWords(Ends(first, a, last)) = AllWords(Ends(first, b, last))
<1>1. ASSUME NEW x \in Seq(AnyLine)
      PROVE  AllWords(Ends(first, x, last)) = Join(PlainWords(first.words), Join(AllWords(x), PlainWords(last.words)))
  <2>1. <<first>> \in Seq(AnyLine) /\ AllWords(<<first>>) = PlainWords(first.words)
    BY AllWordsOne
  <2>2. Append(x, last) \in Seq(AnyLine)
    OBVIOUS
  <2>3. AllWords(Join(<<first>>, Append(x, last))) = Join(AllWords(<<first>>), AllWords(Append(x, last)))
    BY <2>1, <2>2, AllWordsJoin
  <2>4. AllWords(Append(x, last)) = Join(AllWords(x), PlainWords(last.words))
    BY AllWordsAppend
  <2> QED
    BY <2>1, <2>3, <2>4 DEF Ends
<1> QED
  BY <1>1

LEMMA EndsType ==
  ASSUME NEW X, NEW first \in X, NEW last \in X, NEW a \in Seq(X)
  PROVE  Ends(first, a, last) \in Seq(X)
<1>1. <<first>> \in Seq(X) /\ Append(a, last) \in Seq(X)
  BY OneMember
<1> QED
  BY <1>1, JoinType DEF Ends

LEMMA TextLinesClosedAlone ==
  ASSUME NEW V, Vocabulary(V)
  PROVE  TextLines(V) \subseteq ClosedAlone /\ Seq(TextLines(V)) \subseteq Seq(ClosedAlone)
<1>1. TextLines(V) \subseteq ClosedAlone
  BY TextLinesFacts DEF ClosedAlone
<1> QED
  BY <1>1, SeqOfSubset

LEMMA BlockCommentFacts ==
  ASSUME lines \in Seq(ClosedAlone), i \in 1..Len(lines)
  PROVE  /\ CommentLines \in Seq(ClosedAlone)
         /\ AllWords(CommentLines) = AllWords(SubSeq(lines, i, CommentEnd))
<1>1. PICK e, block : e = CommentEnd /\ block = SubSeq(lines, i, e)
  OBVIOUS
<1>2. lines \in Seq(AnyLine)
  BY ClosedAloneLines
<1>3. e \in i..Len(lines) /\ e \in Nat /\ i \in Nat
  BY <1>1, <1>2, CommentEndFacts
<1>4. block \in Seq(ClosedAlone) /\ Len(block) = e - i + 1
  BY <1>1, <1>3, RunOf
<1>5. CommentLines = IF IsDirectiveBlock(block) THEN block ELSE ReflowBlockComment(block)
  BY <1>1 DEF CommentLines
<1>6. CASE IsDirectiveBlock(block)
  BY <1>1, <1>4, <1>5, <1>6
<1>7. CASE Len(block) < 2
  <2>1. ReflowBlockComment(block) = block
    BY <1>7 DEF ReflowBlockComment
  <2> QED
    BY <1>1, <1>4, <1>5, <2>1
<1>8. CASE ~IsDirectiveBlock(block) /\ ~(Len(block) < 2)
  <2>1. e > i /\ Len(block) >= 2
    BY <1>3, <1>4, <1>8
  <2>2. PICK body : body = SubSeq(block, 2, Len(block) - 1)
    OBVIOUS
  <2>3. body \in Seq(TextLines(Words))
    BY <1>1, <2>1, <2>2, CommentBody
  <2>4. block \in Seq(AnyLine)
    BY <1>4, ClosedAloneLines
  <2>5. PICK text \in Seq(TextLines(Words)) :
          /\ AllWords(text) = AllWords(body)
          /\ ReflowBlockComment(block) = Ends(block[1], text, Last(block))
    BY <2>1, <2>2, <2>3, <2>4, AllWordsAreVocabulary, ReflowBlockFacts
  <2>6. block = Ends(block[1], body, Last(block)) /\ block[1] \in ClosedAlone /\ Last(block) \in ClosedAlone
    BY <1>4, <2>1, <2>2, EndsOf
  <2>7. /\ text \in Seq(ClosedAlone) /\ text \in Seq(AnyLine) /\ body \in Seq(AnyLine)
        /\ block[1] \in AnyLine /\ Last(block) \in AnyLine
    BY <2>3, <2>5, <2>6, AllWordsAreVocabulary, TextLinesClosedAlone, ClosedAloneLines
  <2>8. Ends(block[1], text, Last(block)) \in Seq(ClosedAlone)
    BY <2>6, <2>7, EndsType
  <2>9. AllWords(Ends(block[1], text, Last(block))) = AllWords(Ends(block[1], body, Last(block)))
    BY <2>5, <2>7, EndsWords
  <2> QED
    BY <1>1, <1>5, <1>8, <2>5, <2>6, <2>8, <2>9
<1> QED
  BY <1>6, <1>7, <1>8

-----------------------------------------------------------------------------
(***************************************************************************)
(* The walk: what is written has the words of the lines behind it.         *)
(***************************************************************************)
SameWords(a, b) ==
  IF hoist THEN \A w : Count(w, AllWords(a)) = Count(w, AllWords(b)) ELSE AllWords(a) = AllWords(b)

Seen == SubSeq(lines, 1, i - 1)

WalkType ==
  /\ source \in Seq(ClosedAlone) /\ lines \in Seq(ClosedAlone) /\ out \in Seq(ClosedAlone)
  /\ i \in 1..(Len(lines) + 1)

WordsInv ==
  /\ WalkType
  /\ phase # "idle" => SameWords(lines, source)
  /\ phase = "walk" => AllWords(out) = AllWords(Seen)
  /\ phase = "done" => SameWords(out, source)

LEMMA FilesOfLines ==
  ASSUME NEW f \in Seq(ClosedAlone)
  PROVE  f \in Seq(AnyLine) /\ AllWords(f) \in Seq(Words)
  BY ClosedAloneLines, AllWordsType

(* A run of lines is written as lines with the same words.                 *)
LEMMA WalkOn ==
  ASSUME WalkType, phase = "walk", AllWords(out) = AllWords(Seen), i \in 1..Len(lines),
         NEW e \in i..Len(lines), NEW new \in Seq(ClosedAlone),
         AllWords(new) = AllWords(SubSeq(lines, i, e)),
         out' = Join(out, new), i' = e + 1, UNCHANGED <<source, mode, hoist, lines, callsMade, phase>>
  PROVE  WalkType' /\ AllWords(out') = AllWords(Seen')
<1>1. lines \in Seq(ClosedAlone) /\ out \in Seq(ClosedAlone) /\ source \in Seq(ClosedAlone)
  BY DEF WalkType
<1>2. PICK n, a, b : n = Len(lines) /\ a = SubSeq(lines, 1, i - 1) /\ b = SubSeq(lines, i, e)
  OBVIOUS
<1>3. n \in Nat /\ i \in 1..n /\ e \in i..n
  BY <1>1, <1>2
<1>4. a \in Seq(ClosedAlone) /\ b \in Seq(ClosedAlone) /\ SubSeq(lines, 1, e) = Join(a, b)
  BY <1>1, <1>2, RunOf
<1>5. a \in Seq(AnyLine) /\ b \in Seq(AnyLine) /\ out \in Seq(AnyLine) /\ new \in Seq(AnyLine)
  BY <1>1, <1>4, ClosedAloneLines
<1>6. Join(out, new) \in Seq(ClosedAlone)
  BY <1>1, JoinType
<1>7. e + 1 \in 1..(n + 1) /\ e + 1 - 1 = e
  BY <1>3
<1>8. AllWords(Join(out, new)) = AllWords(Join(a, b))
  <2>1. AllWords(Join(out, new)) = Join(AllWords(out), AllWords(new))
    BY <1>5, AllWordsJoin
  <2>2. AllWords(Join(a, b)) = Join(AllWords(a), AllWords(b))
    BY <1>5, AllWordsJoin
  <2>3. AllWords(a) = AllWords(out)
    BY <1>2 DEF Seen
  <2> QED
    BY <1>2, <2>1, <2>2, <2>3
<1>9. lines' = lines /\ source' = source
  OBVIOUS
<1>10. Seen' = Join(a, b)
  BY <1>4, <1>7, <1>9 DEF Seen
<1> QED
  BY <1>1, <1>2, <1>6, <1>7, <1>8, <1>9, <1>10 DEF WalkType

LEMMA OneLineOf ==
  ASSUME NEW X, NEW s \in Seq(X), NEW a \in 1..Len(s)
  PROVE  SubSeq(s, a, a) = <<s[a]>> /\ <<s[a]>> \in Seq(X)
<1>1. a \in a..Len(s) /\ s[a] \in X /\ a \in Int
  OBVIOUS
<1>2. SubSeq(s, a, a) \in Seq(X) /\ Len(SubSeq(s, a, a)) = a - a + 1 /\ \A k \in 1..(a - a + 1) : SubSeq(s, a, a)[k] = s[a + k - 1]
  BY <1>1, RunOf
<1>3. a - a + 1 = 1 /\ 1 \in 1..1 /\ a + 1 - 1 = a
  BY <1>1
<1>4. PICK t : t = SubSeq(s, a, a)
  OBVIOUS
<1>5. t \in Seq(X) /\ Len(t) = 1 /\ t[1] = s[a]
  BY <1>2, <1>3, <1>4
<1>6. <<s[a]>> \in Seq(X) /\ Len(<<s[a]>>) = 1 /\ <<s[a]>>[1] = s[a]
  BY <1>1, OneMember
<1>7. t = <<s[a]>>
  <2>1. \A k \in 1..Len(t) : t[k] = <<s[a]>>[k]
    <3>1. \A k \in 1..1 : k = 1
      OBVIOUS
    <3> QED
      BY <1>5, <1>6, <3>1
  <2> QED
    BY <1>5, <1>6, <2>1, SeqEqual
<1> QED
  BY <1>4, <1>6, <1>7

LEMMA CopyWords ==
  ASSUME WalkType, phase = "walk", AllWords(out) = AllWords(Seen), i \in 1..Len(lines), Copy
  PROVE  WalkType' /\ AllWords(out') = AllWords(Seen')
<1>1. lines \in Seq(ClosedAlone) /\ out \in Seq(ClosedAlone)
  BY DEF WalkType
<1>2. lines[i] \in ClosedAlone /\ i \in i..Len(lines)
  BY <1>1
<1>3. SubSeq(lines, i, i) = <<lines[i]>> /\ <<lines[i]>> \in Seq(ClosedAlone)
  BY <1>1, OneLineOf
<1>4. out' = Join(out, <<lines[i]>>)
  <2>1. out' = Append(out, lines[i])
    BY DEF Copy
  <2>2. Append(out, lines[i]) = Join(out, <<lines[i]>>)
    BY <1>1, <1>2, JoinOne
  <2> QED
    BY <2>1, <2>2
<1>5. i' = i + 1 /\ UNCHANGED <<source, mode, hoist, lines, callsMade, phase>>
  BY DEF Copy
<1> QED
  BY <1>2, <1>3, <1>4, <1>5, WalkOn

LEMMA BeginWords ==
  ASSUME NEW file \in Seq(ClosedAlone), source' \in Seq(ClosedAlone), SameWords(file, source)', BeginFile(file)
  PROVE  WordsInv'
<1>1. CASE mode' = "off"
  <2>1. phase' = "done" /\ out' = file /\ lines' = file /\ i' = 1
    BY <1>1 DEF BeginFile
  <2>2. WalkType'
    BY <2>1 DEF WalkType
  <2> QED
    BY <2>1, <2>2 DEF WordsInv, SameWords
<1>2. CASE mode' # "off"
  <2>1. phase' = "walk" /\ out' = <<>> /\ i' = 1 /\ lines' = IF hoist' THEN HoistInlineComments(file) ELSE file
    BY <1>2 DEF BeginFile
  <2>2. lines' \in Seq(ClosedAlone) /\ SameWords(lines, source)'
    <3>1. CASE hoist'
      <4>1. lines' = HoistInlineComments(file)
        BY <2>1, <3>1
      <4>2. lines' \in Seq(ClosedAlone) /\ \A w : Count(w, AllWords(lines')) = Count(w, AllWords(file))
        BY <4>1, HoistFacts
      <4>3. \A w : Count(w, AllWords(file)) = Count(w, AllWords(source'))
        BY <3>1 DEF SameWords
      <4> QED
        BY <3>1, <4>2, <4>3 DEF SameWords
    <3>2. CASE ~hoist'
      BY <2>1, <3>2 DEF SameWords
    <3> QED
      BY <3>1, <3>2
  <2>3. out' \in Seq(ClosedAlone) /\ Len(lines') \in Nat
    BY <2>1, <2>2, EmptySeq
  <2>4. WalkType'
    BY <2>1, <2>2, <2>3 DEF WalkType
  <2>5. Seen' = <<>>
    <3>1. SubSeq(lines', 1, 1 - 1) = <<>>
      BY SubSeqEmpty
    <3> QED
      BY <2>1, <3>1 DEF Seen
  <2> QED
    BY <2>1, <2>2, <2>4, <2>5 DEF WordsInv
<1> QED
  BY <1>1, <1>2

(***************************************************************************)
(* Every step keeps the invariant.                                         *)
(***************************************************************************)
LEMMA WordsInvStep ==
  ASSUME \A file \in Files : file \in Seq(ClosedAlone),
         WordsInv, [CommentsNext]_commentsVars
  PROVE  WordsInv'
<1>1. CASE Call
  <2>1. PICK file \in Files : source' = file /\ BeginFile(file)
    BY <1>1 DEF Call
  <2>2. SameWords(file, source)'
    BY <2>1 DEF SameWords
  <2> QED
    BY <2>1, <2>2, BeginWords
<1>2. CASE CallAgain
  <2>1. BeginFile(out) /\ source' = source /\ hoist' = hoist /\ phase = "done"
    BY <1>2 DEF CallAgain
  <2>2. PICK o : o = out
    OBVIOUS
  <2>3. o \in Seq(ClosedAlone) /\ source' \in Seq(ClosedAlone) /\ BeginFile(o)
    BY <2>1, <2>2 DEF WordsInv, WalkType
  <2>4. SameWords(o, source)'
    BY <2>1, <2>2 DEF WordsInv, SameWords
  <2> QED
    BY <2>3, <2>4, BeginWords
<1>3. ASSUME phase = "walk", i <= Len(lines) PROVE i \in 1..Len(lines) /\ AllWords(out) = AllWords(Seen) /\ WalkType
  <2>1. Len(lines) \in Nat /\ i \in 1..(Len(lines) + 1)
    BY DEF WordsInv, WalkType
  <2> QED
    BY <1>3, <2>1 DEF WordsInv
<1>4. ASSUME phase = "walk", UNCHANGED <<source, hoist, lines, phase>>, WalkType', AllWords(out') = AllWords(Seen')
      PROVE  WordsInv'
  <2>1. SameWords(lines, source)'
    BY <1>4 DEF WordsInv, SameWords
  <2> QED
    BY <1>4, <2>1 DEF WordsInv
<1>5. ASSUME phase = "walk", i <= Len(lines), Copy PROVE WordsInv'
  <2>1. WalkType' /\ AllWords(out') = AllWords(Seen')
    BY <1>3, <1>5, CopyWords
  <2>2. UNCHANGED <<source, hoist, lines, phase>>
    BY <1>5 DEF Copy
  <2> QED
    BY <1>4, <1>5, <2>1, <2>2
<1>6. CASE CopyRaw
  BY <1>5, <1>6 DEF CopyRaw
<1>7. CASE CopyLine
  BY <1>5, <1>7 DEF CopyLine
<1>8. CASE LineBlock
  <2>1. phase = "walk" /\ i <= Len(lines) /\ OpensLineBlock(lines[i]) /\ UNCHANGED <<source, mode, hoist, lines, callsMade, phase>>
    BY <1>8 DEF LineBlock
  <2>2. i \in 1..Len(lines) /\ AllWords(out) = AllWords(Seen) /\ WalkType
    BY <1>3, <2>1
  <2>3. lines \in Seq(AnyLine)
    BY <2>2, ClosedAloneLines DEF WalkType
  <2>4. PICK e, new : e = BlockEnd /\ new = LineBlockLines
    OBVIOUS
  <2>5. e \in i..Len(lines) /\ new \in Seq(LineComments) /\ AllWords(new) = AllWords(SubSeq(lines, i, e))
    BY <2>1, <2>2, <2>3, <2>4, LineBlockFacts
  <2>6. new \in Seq(ClosedAlone)
    BY <2>5, LineCommentsFacts, AllWordsAreVocabulary, TextLinesClosedAlone
  <2>7. out' = Join(out, new) /\ i' = e + 1
    BY <1>8, <2>4, LineBlockStep
  <2>8. WalkType' /\ AllWords(out') = AllWords(Seen')
    BY <2>1, <2>2, <2>5, <2>6, <2>7, WalkOn
  <2> QED
    BY <1>4, <2>1, <2>8
<1>9. CASE BlockComment
  <2>1. phase = "walk" /\ i <= Len(lines) /\ UNCHANGED <<source, mode, hoist, lines, callsMade, phase>>
    BY <1>9 DEF BlockComment
  <2>2. i \in 1..Len(lines) /\ AllWords(out) = AllWords(Seen) /\ WalkType
    BY <1>3, <2>1
  <2>3. lines \in Seq(ClosedAlone) /\ lines \in Seq(AnyLine)
    BY <2>2, ClosedAloneLines DEF WalkType
  <2>4. PICK e, new : e = CommentEnd /\ new = CommentLines
    OBVIOUS
  <2>5. e \in i..Len(lines) /\ new \in Seq(ClosedAlone) /\ AllWords(new) = AllWords(SubSeq(lines, i, e))
    BY <2>2, <2>3, <2>4, CommentEndFacts, BlockCommentFacts
  <2>6. out' = Join(out, new) /\ i' = e + 1
    BY <1>9, <2>4, BlockCommentStep
  <2>7. WalkType' /\ AllWords(out') = AllWords(Seen')
    BY <2>1, <2>2, <2>5, <2>6, WalkOn
  <2> QED
    BY <1>4, <2>1, <2>7
<1>10. CASE Finish
  <2>1. phase = "walk" /\ phase' = "done" /\ i > Len(lines) /\ UNCHANGED <<source, mode, hoist, lines, i, inRaw, out, callsMade>>
    BY <1>10 DEF Finish
  <2>2. Seen = lines
    <3>1. i \in 1..(Len(lines) + 1) /\ Len(lines) \in Nat /\ lines \in Seq(ClosedAlone)
      BY DEF WordsInv, WalkType
    <3>2. i - 1 = Len(lines)
      BY <2>1, <3>1
    <3> QED
      BY <3>1, <3>2, SubSeqFull DEF Seen
  <2>3. AllWords(out) = AllWords(lines) /\ SameWords(lines, source) /\ WalkType
    BY <2>1, <2>2 DEF WordsInv
  <2>4. WalkType'
    BY <2>1, <2>3 DEF WalkType
  <2> QED
    BY <2>1, <2>3, <2>4 DEF WordsInv, SameWords
<1>11. CASE UNCHANGED commentsVars
  <2>1. UNCHANGED <<source, mode, hoist, lines, i, out, phase>>
    BY <1>11 DEF commentsVars
  <2> QED
    BY <2>1 DEF WordsInv, WalkType, SameWords, Seen
<1> QED
  BY <1>1, <1>2, <1>6, <1>7, <1>8, <1>9, <1>10, <1>11 DEF CommentsNext

(***************************************************************************)
(* The comment stage loses, doubles and reorders no word; hoisting only    *)
(* moves them.                                                             *)
(***************************************************************************)
THEOREM NoWordLost ==
  ASSUME \A file \in Files : file \in Seq(ClosedAlone)
  PROVE  CommentsSpec => []WordsKept
<1>1. CommentsInit => WordsInv
  <2>1. SUFFICES ASSUME CommentsInit PROVE WordsInv
    OBVIOUS
  <2>2. <<>> \in Seq(ClosedAlone) /\ Len(<<>>) = 0
    BY EmptySeq
  <2> QED
    BY <2>1, <2>2 DEF CommentsInit, WordsInv, WalkType
<1>2. WordsInv /\ [CommentsNext]_commentsVars => WordsInv'
  BY WordsInvStep
<1>3. WordsInv => WordsKept
  BY DEF WordsInv, WordsKept, SameWords
<1> QED
  BY <1>1, <1>2, <1>3, PTL DEF CommentsSpec

-----------------------------------------------------------------------------
(***************************************************************************)
(* What Go makes of a line: its state at every word.                       *)
(***************************************************************************)
LexStates == {"code", "block", "line", Tick, Quote}

FileStates == {"code", "block", Tick}

LEMMA LexWordFacts ==
  ASSUME NEW w
  PROVE  /\ \A a \in LexStates : LexWord(a, w) \in LexStates
         /\ LexWord("line", w) = "line"
         /\ w # "*/" => LexWord("block", w) = "block"
         /\ LexWord("block", "*/") = "code"
         /\ LexWord("code", "//") = "line"
         /\ LexWord("code", "/*") = "block"
<1>1. ASSUME NEW a \in LexStates PROVE LexWord(a, w) \in LexStates
  <2>1. CASE a = "code"
    BY <2>1 DEF LexWord, LexStates, Tick, Quote
  <2>2. CASE a # "code"
    BY <2>2 DEF LexWord, LexStates, Tick, Quote
  <2> QED
    BY <2>1, <2>2
<1>2. LexWord("line", w) = "line"
  BY DEF LexWord, Tick, Quote
<1>3. w # "*/" => LexWord("block", w) = "block"
  BY DEF LexWord, Tick, Quote
<1>4. LexWord("block", "*/") = "code"
  BY DEF LexWord, Tick, Quote
<1>5. LexWord("code", "//") = "line"
  BY DEF LexWord, Tick, Quote
<1>6. LexWord("code", "/*") = "block"
  BY DEF LexWord, Tick, Quote
<1> QED
  BY <1>1, <1>2, <1>3, <1>4, <1>5, <1>6

IsLexed(state, toks, f) ==
  f = [n \in 0..Len(toks) |-> IF n = 0 THEN state ELSE LexWord(f[n - 1], toks[n])]

LEMMA LexedExists ==
  ASSUME NEW state \in LexStates, NEW toks \in Seq(Words)
  PROVE  \E f : IsLexed(state, toks, f)
<1>1. PICK n, A : n = Len(toks) /\ A = LexStates
  OBVIOUS
<1>2. PICK G : G = [q \in (1..n) \X A |-> LexWord(q[2], toks[q[1]])]
  OBVIOUS
<1>3. n \in Nat /\ state \in A
  BY <1>1
<1>4. \A k \in 1..n, a \in A : LexWord(a, toks[k]) \in A
  BY <1>1, LexWordFacts
<1>5. G \in [(1..n) \X A -> A]
  BY <1>2, <1>4
<1>6. PICK f : Steps(f, A, state, n, G)
  BY <1>3, <1>5, StepsExist
<1>7. f \in [0..n -> A] /\ f[0] = state /\ \A k \in 1..n : f[k] = G[<<k, f[k - 1]>>]
  BY <1>6 DEF Steps
<1>8. ASSUME NEW k \in 0..n PROVE f[k] = IF k = 0 THEN state ELSE LexWord(f[k - 1], toks[k])
  <2>1. CASE k = 0
    BY <1>7, <2>1
  <2>2. CASE k # 0
    <3>1. k \in 1..n /\ k - 1 \in 0..n
      BY <1>3, <2>2
    <3>2. f[k - 1] \in A
      BY <1>7, <3>1
    <3>3. G[<<k, f[k - 1]>>] = LexWord(f[k - 1], toks[k])
      BY <1>2, <3>1, <3>2
    <3> QED
      BY <1>7, <2>2, <3>1, <3>3
  <2> QED
    BY <2>1, <2>2
<1>9. f = [k \in 0..n |-> IF k = 0 THEN state ELSE LexWord(f[k - 1], toks[k])]
  BY <1>7, <1>8
<1> QED
  BY <1>1, <1>9 DEF IsLexed

LEMMA LexedFacts ==
  ASSUME NEW state \in LexStates, NEW toks \in Seq(Words), NEW f, f = Lexed(state, toks)
  PROVE  /\ f[0] = state
         /\ \A k \in 1..Len(toks) : f[k] = LexWord(f[k - 1], toks[k])
         /\ \A k \in 0..Len(toks) : f[k] \in LexStates
<1>1. PICK g : g = CHOOSE h : IsLexed(state, toks, h)
  OBVIOUS
<1>2. IsLexed(state, toks, g)
  <2>1. \E h : IsLexed(state, toks, h)
    BY LexedExists
  <2> QED
    BY <1>1, <2>1
<1>3. f = g
  BY <1>1 DEF Lexed, IsLexed
<1>4. PICK n : n = Len(toks)
  OBVIOUS
<1>5. n \in Nat
  BY <1>4
<1>6. f[0] = state /\ \A k \in 1..n : f[k] = LexWord(f[k - 1], toks[k])
  <2>1. g = [k \in 0..n |-> IF k = 0 THEN state ELSE LexWord(g[k - 1], toks[k])]
    BY <1>2, <1>4 DEF IsLexed
  <2>2. \A k \in 0..n : g[k] = IF k = 0 THEN state ELSE LexWord(g[k - 1], toks[k])
    BY <2>1
  <2>3. 0 \in 0..n /\ \A k \in 1..n : k \in 0..n /\ k # 0
    BY <1>5
  <2> QED
    BY <1>3, <2>2, <2>3
<1>7. PICK U : U = {k \in 0..n : f[k] \in LexStates}
  OBVIOUS
<1>8. 0 \in U
  BY <1>5, <1>6, <1>7
<1>9. ASSUME NEW k \in 0..n, k \in U, k < n PROVE k + 1 \in U
  <2>1. k + 1 \in 1..n /\ k + 1 - 1 = k
    BY <1>5, <1>9
  <2>2. f[k + 1] = LexWord(f[k], toks[k + 1])
    BY <1>6, <2>1
  <2>3. f[k] \in LexStates
    BY <1>7, <1>9
  <2>4. f[k + 1] \in LexStates
    BY <2>2, <2>3, LexWordFacts
  <2> QED
    BY <1>5, <1>7, <2>1, <2>4
<1>10. \A k \in 0..n : k \in U
  <2>1. \A k \in 0..n : k \in U /\ k < n => k + 1 \in U
    BY <1>9
  <2> QED
    BY <1>5, <1>8, <2>1, InductionUpTo
<1> QED
  BY <1>4, <1>6, <1>7, <1>10

(* A state that the words do not change from the first one on.             *)
LEMMA LexedStays ==
  ASSUME NEW state \in LexStates, NEW toks \in Seq(Words), NEW f, f = Lexed(state, toks),
         NEW j \in 0..Len(toks), NEW a, f[j] = a,
         \A k \in (j + 1)..Len(toks) : LexWord(a, toks[k]) = a
  PROVE  \A k \in j..Len(toks) : f[k] = a
<1>1. PICK n : n = Len(toks)
  OBVIOUS
<1>2. n \in Nat /\ j \in 0..n
  BY <1>1
<1>3. \A k \in 1..n : f[k] = LexWord(f[k - 1], toks[k])
  BY <1>1, LexedFacts
<1>4. PICK U : U = {k \in j..n : f[k] = a}
  OBVIOUS
<1>5. j \in U
  BY <1>2, <1>4
<1>6. ASSUME NEW k \in j..n, k \in U, k < n PROVE k + 1 \in U
  <2>1. k + 1 \in 1..n /\ k + 1 - 1 = k /\ k + 1 \in (j + 1)..n /\ k + 1 \in j..n
    BY <1>2, <1>6
  <2>2. f[k + 1] = LexWord(f[k], toks[k + 1]) /\ f[k] = a
    BY <1>3, <1>4, <1>6, <2>1
  <2>3. LexWord(a, toks[k + 1]) = a
    BY <1>1, <2>1
  <2> QED
    BY <1>4, <2>1, <2>2, <2>3
<1>7. \A k \in j..n : k \in U
  <2>1. \A k \in j..n : k \in U /\ k < n => k + 1 \in U
    BY <1>6
  <2>2. j \in Nat
    BY <1>2
  <2> QED
    BY <1>2, <1>5, <2>1, <2>2, InductionUpTo
<1> QED
  BY <1>1, <1>4, <1>7

LEMMA StateAfterFacts ==
  ASSUME NEW state \in FileStates, NEW l \in AnyLine
  PROVE  /\ StateAfter(state, l) \in FileStates
         /\ \A a \in FileStates : Lexed(state, Tokens(l))[Len(Tokens(l))] = a => StateAfter(state, l) = a
         /\ Lexed(state, Tokens(l))[Len(Tokens(l))] = "line" => StateAfter(state, l) = "code"
         /\ Lexed(state, Tokens(l))[Len(Tokens(l))] = Tick <=> StateAfter(state, l) = Tick
<1>1. PICK toks, x : toks = Tokens(l) /\ x = Lexed(state, toks)[Len(toks)]
  OBVIOUS
<1>2. x \in LexStates
  <2>1. toks \in Seq(Words) /\ state \in LexStates
    BY <1>1, TokensFacts DEF FileStates, LexStates
  <2>2. Len(toks) \in 0..Len(toks)
    BY <2>1
  <2> QED
    BY <1>1, <2>1, <2>2, LexedFacts
<1>3. StateAfter(state, l) = IF x \in {"line", Quote} THEN "code" ELSE x
  BY <1>1 DEF StateAfter
<1>4. /\ StateAfter(state, l) \in FileStates
      /\ \A a \in FileStates : x = a => StateAfter(state, l) = a
      /\ x = "line" => StateAfter(state, l) = "code"
      /\ x = Tick <=> StateAfter(state, l) = Tick
  BY <1>2, <1>3 DEF FileStates, LexStates, Tick, Quote
<1> QED
  BY <1>1, <1>4

-----------------------------------------------------------------------------
(***************************************************************************)
(* Lines that hold no code and leave the state as it is.                   *)
(***************************************************************************)
Silent(state, l) ==
  StateAfter(state, l) = state /\ ~HoldsCode(l, state) /\ ClosesLine(state, l)

LEMMA NoCode ==
  ASSUME NEW state, NEW l, NEW toks, toks = Tokens(l), toks # <<>> \/ state = "block",
         \A k \in DOMAIN toks : \/ Lexed(state, toks)[k - 1] \in {"block", "line"}
                                \/ toks[k] \in {"//", "/*", "*/", ""}
  PROVE  ~HoldsCode(l, state)
  BY Zenon DEF HoldsCode

LEMMA LineCommentIsSilent ==
  ASSUME NEW l \in AnyLine, l.mark = "//"
  PROVE  Silent("code", l)
<1>1. PICK toks, n, f : toks = Tokens(l) /\ n = Len(toks) /\ f = Lexed("code", toks)
  OBVIOUS
<1>2. toks \in Seq(Words) /\ toks # <<>> /\ toks[1] = "//"
  <2>1. l.mark # ""
    OBVIOUS
  <2> QED
    BY <1>1, <2>1, TokensFacts
<1>3. n \in Nat /\ 1 \in 1..n /\ 1 \in 0..n /\ n \in 1..n
  <2>1. n \in Nat /\ n # 0
    BY <1>1, <1>2, EmptySeq
  <2> QED
    BY <2>1
<1>4. "code" \in LexStates /\ "code" \in FileStates
  BY DEF LexStates, FileStates
<1>5. f[0] = "code" /\ f[1] = "line"
  <2>1. f[0] = "code" /\ \A k \in 1..n : f[k] = LexWord(f[k - 1], toks[k])
    BY <1>1, <1>2, <1>4, LexedFacts
  <2>2. f[1] = LexWord("code", "//")
    BY <1>2, <1>3, <2>1
  <2> QED
    BY <2>1, <2>2, LexWordFacts
<1>6. \A k \in 1..n : f[k] = "line"
  <2>1. \A k \in (1 + 1)..n : LexWord("line", toks[k]) = "line"
    BY LexWordFacts
  <2> QED
    BY <1>1, <1>2, <1>3, <1>4, <1>5, <2>1, LexedStays
<1>7. StateAfter("code", l) = "code"
  BY <1>1, <1>3, <1>4, <1>6, StateAfterFacts
<1>8. ~HoldsCode(l, "code")
  <2>1. ASSUME NEW k \in DOMAIN toks
        PROVE  f[k - 1] \in {"block", "line"} \/ toks[k] \in {"//", "/*", "*/", ""}
    <3>1. k \in 1..n
      BY <1>1, <1>2
    <3>2. CASE k = 1
      BY <1>2, <3>2
    <3>3. CASE k # 1
      <4>1. k - 1 \in 1..n
        BY <1>3, <3>1, <3>3
      <4>2. f[k - 1] = "line"
        BY <1>6, <4>1
      <4> QED
        BY <4>2
    <3> QED
      BY <3>2, <3>3
  <2> QED
    BY <1>1, <1>2, <2>1, NoCode
<1>9. ClosesLine("code", l)
  BY <1>7 DEF ClosesLine, Tick
<1> QED
  BY <1>7, <1>8, <1>9 DEF Silent

LEMMA TextIsSilent ==
  ASSUME NEW l \in AnyLine, "*/" \notin ToSet(Tokens(l))
  PROVE  Silent("block", l)
<1>1. PICK toks, n, f : toks = Tokens(l) /\ n = Len(toks) /\ f = Lexed("block", toks)
  OBVIOUS
<1>2. toks \in Seq(Words) /\ n \in Nat /\ DOMAIN toks = 1..n
  <2>1. toks \in Seq(Words)
    BY <1>1, TokensFacts
  <2> QED
    BY <1>1, <2>1
<1>3. \A k \in 1..n : toks[k] # "*/"
  BY <1>1, <1>2 DEF ToSet
<1>4. "block" \in LexStates /\ "block" \in FileStates
  BY DEF LexStates, FileStates
<1>5. \A k \in 0..n : f[k] = "block"
  <2>1. f[0] = "block" /\ 0 \in 0..n
    BY <1>1, <1>2, <1>4, LexedFacts
  <2>2. \A k \in (0 + 1)..n : LexWord("block", toks[k]) = "block"
    BY <1>3, LexWordFacts
  <2> QED
    BY <1>1, <1>2, <1>4, <2>1, <2>2, LexedStays
<1>6. StateAfter("block", l) = "block"
  <2>1. f[n] = "block"
    BY <1>2, <1>5
  <2> QED
    BY <1>1, <1>4, <2>1, StateAfterFacts
<1>7. ~HoldsCode(l, "block")
  <2>1. \A k \in DOMAIN toks : f[k - 1] \in {"block", "line"}
    <3>1. \A k \in 1..n : k - 1 \in 0..n
      BY <1>2
    <3> QED
      BY <1>2, <1>5, <3>1
  <2> QED
    BY <1>1, <2>1, NoCode
<1>8. ClosesLine("block", l)
  BY <1>1 DEF ClosesLine, Tick
<1> QED
  BY <1>6, <1>7, <1>8 DEF Silent

-----------------------------------------------------------------------------
(***************************************************************************)
(* What Go makes of a file, one line at a time.                            *)
(***************************************************************************)
IsStates(state, file, f) ==
  f = [n \in 0..Len(file) |-> IF n = 0 THEN state ELSE StateAfter(f[n - 1], file[n])]

LEMMA StatesFromExist ==
  ASSUME NEW state \in FileStates, NEW file \in Seq(AnyLine)
  PROVE  \E f : IsStates(state, file, f)
<1>1. PICK n, A : n = Len(file) /\ A = FileStates
  OBVIOUS
<1>2. PICK G : G = [q \in (1..n) \X A |-> StateAfter(q[2], file[q[1]])]
  OBVIOUS
<1>3. n \in Nat /\ state \in A /\ \A k \in 1..n : file[k] \in AnyLine
  BY <1>1
<1>4. \A k \in 1..n, a \in A : StateAfter(a, file[k]) \in A
  BY <1>1, <1>3, StateAfterFacts
<1>5. G \in [(1..n) \X A -> A]
  BY <1>2, <1>4
<1>6. PICK f : Steps(f, A, state, n, G)
  BY <1>3, <1>5, StepsExist
<1>7. f \in [0..n -> A] /\ f[0] = state /\ \A k \in 1..n : f[k] = G[<<k, f[k - 1]>>]
  BY <1>6 DEF Steps
<1>8. ASSUME NEW k \in 0..n PROVE f[k] = IF k = 0 THEN state ELSE StateAfter(f[k - 1], file[k])
  <2>1. CASE k = 0
    BY <1>7, <2>1
  <2>2. CASE k # 0
    <3>1. k \in 1..n /\ k - 1 \in 0..n
      BY <1>3, <2>2
    <3>2. f[k - 1] \in A
      BY <1>7, <3>1
    <3>3. G[<<k, f[k - 1]>>] = StateAfter(f[k - 1], file[k])
      BY <1>2, <3>1, <3>2
    <3> QED
      BY <1>7, <2>2, <3>1, <3>3
  <2> QED
    BY <2>1, <2>2
<1>9. f = [k \in 0..n |-> IF k = 0 THEN state ELSE StateAfter(f[k - 1], file[k])]
  BY <1>7, <1>8
<1> QED
  BY <1>1, <1>9 DEF IsStates

LEMMA StatesFromFacts ==
  ASSUME NEW state \in FileStates, NEW file \in Seq(AnyLine), NEW f, f = StatesFrom(state, file)
  PROVE  /\ f[0] = state
         /\ \A k \in 1..Len(file) : f[k] = StateAfter(f[k - 1], file[k])
         /\ \A k \in 0..Len(file) : f[k] \in FileStates
<1>1. PICK g : g = CHOOSE h : IsStates(state, file, h)
  OBVIOUS
<1>2. IsStates(state, file, g)
  <2>1. \E h : IsStates(state, file, h)
    BY StatesFromExist
  <2> QED
    BY <1>1, <2>1
<1>3. f = g
  BY <1>1 DEF StatesFrom, IsStates
<1>4. PICK n : n = Len(file)
  OBVIOUS
<1>5. n \in Nat /\ \A k \in 1..n : file[k] \in AnyLine
  BY <1>4
<1>6. f[0] = state /\ \A k \in 1..n : f[k] = StateAfter(f[k - 1], file[k])
  <2>1. g = [k \in 0..n |-> IF k = 0 THEN state ELSE StateAfter(g[k - 1], file[k])]
    BY <1>2, <1>4 DEF IsStates
  <2>2. \A k \in 0..n : g[k] = IF k = 0 THEN state ELSE StateAfter(g[k - 1], file[k])
    BY <2>1
  <2>3. 0 \in 0..n /\ \A k \in 1..n : k \in 0..n /\ k # 0
    BY <1>5
  <2> QED
    BY <1>3, <2>2, <2>3
<1>7. PICK U : U = {k \in 0..n : f[k] \in FileStates}
  OBVIOUS
<1>8. 0 \in U
  BY <1>5, <1>6, <1>7
<1>9. ASSUME NEW k \in 0..n, k \in U, k < n PROVE k + 1 \in U
  <2>1. k + 1 \in 1..n /\ k + 1 - 1 = k
    BY <1>5, <1>9
  <2>2. f[k + 1] = StateAfter(f[k], file[k + 1]) /\ file[k + 1] \in AnyLine
    BY <1>5, <1>6, <2>1
  <2>3. f[k] \in FileStates
    BY <1>7, <1>9
  <2>4. f[k + 1] \in FileStates
    BY <2>2, <2>3, StateAfterFacts
  <2> QED
    BY <1>5, <1>7, <2>1, <2>4
<1>10. \A k \in 0..n : k \in U
  <2>1. \A k \in 0..n : k \in U /\ k < n => k + 1 \in U
    BY <1>9
  <2> QED
    BY <1>5, <1>8, <2>1, InductionUpTo
<1> QED
  BY <1>4, <1>6, <1>7, <1>10

(* The state behind the last line, and the code of a line.                 *)
End(state, file) == StatesFrom(state, file)[Len(file)]

CodeOf(state, l) == IF HoldsCode(l, state) THEN <<l>> ELSE <<>>

CodePieces(state, file) == [k \in DOMAIN file |-> CodeOf(StatesFrom(state, file)[k - 1], file[k])]

LEMMA CodeFromPieces ==
  ASSUME NEW state, NEW file
  PROVE  CodeFrom(state, file) = Concat(CodePieces(state, file))
  BY Zenon DEF CodeFrom, CodePieces, CodeOf

LEMMA CodeOfType ==
  ASSUME NEW state, NEW l \in AnyLine
  PROVE  CodeOf(state, l) \in Seq(AnyLine)
<1>1. <<l>> \in Seq(AnyLine) /\ <<>> \in Seq(AnyLine)
  BY OneMember, EmptySeq
<1> QED
  BY <1>1 DEF CodeOf

LEMMA EmptyFile ==
  ASSUME NEW state \in FileStates
  PROVE  /\ End(state, <<>>) = state /\ CodeFrom(state, <<>>) = <<>>
         /\ OnOwnLines(state, <<>>)
<1>1. <<>> \in Seq(AnyLine) /\ Len(<<>>) = 0
  BY EmptySeq
<1>2. End(state, <<>>) = state
  BY <1>1, StatesFromFacts DEF End
<1>3. PICK s, m : s = <<>> /\ m = CodePieces(state, s)
  OBVIOUS
<1>4. DOMAIN s = {}
  BY <1>3
<1>5. DOMAIN m = {} /\ m = [k \in {} |-> 0]
  BY <1>3, <1>4 DEF CodePieces
<1>6. m = <<>>
  BY <1>5
<1>7. CodeFrom(state, <<>>) = <<>>
  BY <1>3, <1>6, CodeFromPieces, ConcatEmpty
<1>8. OnOwnLines(state, <<>>)
  <2>1. OnOwnLines(state, s)
    BY <1>4 DEF OnOwnLines
  <2> QED
    BY <1>3, <2>1
<1> QED
  BY <1>2, <1>7, <1>8

LEMMA FileAppend ==
  ASSUME NEW state \in FileStates, NEW file \in Seq(AnyLine), NEW l \in AnyLine
  PROVE  /\ End(state, file) \in FileStates
         /\ CodeFrom(state, file) \in Seq(AnyLine)
         /\ End(state, Append(file, l)) = StateAfter(End(state, file), l)
         /\ CodeFrom(state, Append(file, l)) = Join(CodeFrom(state, file), CodeOf(End(state, file), l))
         /\ OnOwnLines(state, Append(file, l)) <=> OnOwnLines(state, file) /\ ClosesLine(End(state, file), l)
<1>1. PICK n, t, f, g : /\ n = Len(file) /\ t = Append(file, l)
                        /\ f = StatesFrom(state, file) /\ g = StatesFrom(state, t)
  OBVIOUS
<1>2. /\ t \in Seq(AnyLine) /\ n \in Nat /\ Len(t) = n + 1
      /\ DOMAIN file = 1..n /\ DOMAIN t = 1..(n + 1)
      /\ \A k \in 1..n : t[k] = file[k]
      /\ t[n + 1] = l
  BY <1>1, AppendFacts
<1>3. \A k \in 1..n : file[k] \in AnyLine
  BY <1>1
<1>4. /\ f[0] = state /\ \A k \in 1..n : f[k] = StateAfter(f[k - 1], file[k])
      /\ \A k \in 0..n : f[k] \in FileStates
  BY <1>1, StatesFromFacts
<1>5. g[0] = state /\ \A k \in 1..(n + 1) : g[k] = StateAfter(g[k - 1], t[k])
  <2>1. g[0] = state /\ \A k \in 1..Len(t) : g[k] = StateAfter(g[k - 1], t[k])
    <3>1. t \in Seq(AnyLine) /\ g = StatesFrom(state, t)
      BY <1>1, <1>2
    <3> QED
      BY <3>1, StatesFromFacts
  <2> QED
    BY <1>2, <2>1
<1>6. \A k \in 0..n : f[k] = g[k]
  <2>1. \A k \in 1..n : k \in 1..(n + 1)
    BY <1>2
  <2>2. \A k \in 1..n : f[k - 1] = g[k - 1] => f[k] = g[k]
    BY <1>2, <1>4, <1>5, <2>1
  <2> QED
    <3>1. AlikeSteps(f, g, n)
      <4>1. f[0] = g[0]
        BY <1>4, <1>5
      <4> QED
        BY <2>2, <4>1 DEF AlikeSteps
    <3> QED
      BY <1>2, <3>1, SameSteps
<1>7. n \in 0..n /\ n + 1 \in 1..(n + 1) /\ n + 1 - 1 = n
  BY <1>2
<1>8. End(state, file) = f[n] /\ f[n] \in FileStates /\ g[n] = f[n]
  BY <1>1, <1>4, <1>6, <1>7 DEF End
<1>9. End(state, Append(file, l)) = StateAfter(f[n], l)
  <2>1. g[n + 1] = StateAfter(g[n], l)
    BY <1>2, <1>5, <1>7
  <2>2. End(state, t) = g[n + 1]
    BY <1>1, <1>2 DEF End
  <2> QED
    BY <1>1, <1>8, <2>1, <2>2
<1>10. PICK m, w, y : m = CodePieces(state, file) /\ w = CodePieces(state, t) /\ y = CodeOf(f[n], l)
  OBVIOUS
<1>11. m = [k \in 1..n |-> CodeOf(f[k - 1], file[k])]
  BY <1>1, <1>2, <1>10 DEF CodePieces
<1>12. w = [k \in 1..(n + 1) |-> CodeOf(g[k - 1], t[k])]
  BY <1>1, <1>2, <1>10 DEF CodePieces
<1>13. PICK L : L = Seq(AnyLine)
  OBVIOUS
<1>14. y \in L
  BY <1>10, <1>13, CodeOfType
<1>15. m \in Seq(L) /\ Len(m) = n
  <2>1. m \in [1..n -> L]
    <3>1. \A k \in 1..n : CodeOf(f[k - 1], file[k]) \in L
      BY <1>3, <1>13, CodeOfType
    <3> QED
      BY <1>11, <3>1
  <2> QED
    BY <1>2, <2>1, LenProperties
<1>16. w = Append(m, y)
  <2>1. PICK v : v = Append(m, y)
    OBVIOUS
  <2>2. /\ v \in Seq(L) /\ DOMAIN v = 1..(n + 1)
        /\ \A k \in 1..n : v[k] = m[k]
        /\ v[n + 1] = y
    BY <1>14, <1>15, <2>1, AppendFacts
  <2>3. v = [k \in 1..(n + 1) |-> v[k]]
    BY <2>2
  <2>4. ASSUME NEW k \in 1..(n + 1) PROVE v[k] = CodeOf(g[k - 1], t[k])
    <3>1. CASE k = n + 1
      BY <1>2, <1>7, <1>8, <1>10, <2>2, <3>1
    <3>2. CASE k # n + 1
      <4>1. k \in 1..n /\ k - 1 \in 0..n
        BY <1>2, <3>2
      <4>2. v[k] = CodeOf(f[k - 1], file[k])
        BY <1>11, <2>2, <4>1
      <4>3. f[k - 1] = g[k - 1] /\ file[k] = t[k]
        BY <1>2, <1>6, <4>1
      <4> QED
        BY <4>2, <4>3
    <3> QED
      BY <3>1, <3>2
  <2>5. v = w
    BY <1>12, <2>3, <2>4
  <2> QED
    BY <2>1, <2>5
<1>17. Concat(m) \in Seq(AnyLine) /\ Concat(Append(m, y)) = Join(Concat(m), y)
  <2>1. m \in Seq(Seq(AnyLine)) /\ y \in Seq(AnyLine)
    BY <1>13, <1>14, <1>15
  <2> QED
    BY <2>1, ConcatAppend
<1>18. CodeFrom(state, file) = Concat(m) /\ CodeFrom(state, t) = Concat(w)
  BY <1>10, CodeFromPieces
<1>19. OnOwnLines(state, t) <=> OnOwnLines(state, file) /\ ClosesLine(f[n], l)
  <2>1. OnOwnLines(state, t) <=> \A k \in 1..(n + 1) : ClosesLine(g[k - 1], t[k])
    BY <1>1, <1>2 DEF OnOwnLines
  <2>2. OnOwnLines(state, file) <=> \A k \in 1..n : ClosesLine(f[k - 1], file[k])
    BY <1>1, <1>2 DEF OnOwnLines
  <2>3. \A k \in 1..n : f[k - 1] = g[k - 1] /\ file[k] = t[k]
    <3>1. \A k \in 1..n : k - 1 \in 0..n
      BY <1>2
    <3> QED
      BY <1>2, <1>6, <3>1
  <2>4. g[n + 1 - 1] = f[n] /\ t[n + 1] = l
    BY <1>2, <1>7, <1>8
  <2>5. \A k \in 1..(n + 1) : k \in 1..n \/ k = n + 1
    BY <1>2
  <2>6. \A k \in 1..n : k \in 1..(n + 1)
    BY <1>2
  <2>7. (\A k \in 1..(n + 1) : ClosesLine(g[k - 1], t[k]))
          <=> (\A k \in 1..n : ClosesLine(g[k - 1], t[k])) /\ ClosesLine(g[n + 1 - 1], t[n + 1])
    <3>1. ASSUME \A k \in 1..(n + 1) : ClosesLine(g[k - 1], t[k])
          PROVE  (\A k \in 1..n : ClosesLine(g[k - 1], t[k])) /\ ClosesLine(g[n + 1 - 1], t[n + 1])
      BY <1>7, <2>6, <3>1
    <3>2. ASSUME \A k \in 1..n : ClosesLine(g[k - 1], t[k]), ClosesLine(g[n + 1 - 1], t[n + 1])
          PROVE  \A k \in 1..(n + 1) : ClosesLine(g[k - 1], t[k])
      <4> SUFFICES ASSUME NEW k \in 1..(n + 1) PROVE ClosesLine(g[k - 1], t[k])
        OBVIOUS
      <4>1. CASE k = n + 1
        <5>1. g[k - 1] = g[n + 1 - 1] /\ t[k] = t[n + 1]
          BY <1>2, <4>1
        <5>2. ClosesLine(g[n + 1 - 1], t[n + 1])
          BY <3>2
        <5> QED
          BY <5>1, <5>2, Zenon
      <4>2. CASE k \in 1..n
        BY <3>2, <4>2
      <4> QED
        BY <2>5, <4>1, <4>2
    <3> QED
      BY <3>1, <3>2
  <2>8. (\A k \in 1..n : ClosesLine(g[k - 1], t[k])) <=> (\A k \in 1..n : ClosesLine(f[k - 1], file[k]))
    BY <2>3
  <2>9. ClosesLine(g[n + 1 - 1], t[n + 1]) <=> ClosesLine(f[n], l)
    BY <2>4
  <2> QED
    BY <2>1, <2>2, <2>7, <2>8, <2>9, Zenon
<1> QED
  BY <1>1, <1>8, <1>9, <1>10, <1>16, <1>17, <1>18, <1>19

LEMMA EndType ==
  ASSUME NEW state \in FileStates, NEW file \in Seq(AnyLine)
  PROVE  End(state, file) \in FileStates /\ CodeFrom(state, file) \in Seq(AnyLine)
<1>1. Len(file) \in 0..Len(file)
  OBVIOUS
<1>2. End(state, file) \in FileStates
  BY <1>1, StatesFromFacts DEF End
<1>3. CASE file = <<>>
  BY <1>2, <1>3, EmptyFile, EmptySeq
<1>4. CASE file # <<>>
  <2>1. PICK t \in Seq(AnyLine), l \in AnyLine : file = Append(t, l)
    BY <1>4, SequenceEmptyOrAppend
  <2>2. /\ CodeFrom(state, file) = Join(CodeFrom(state, t), CodeOf(End(state, t), l))
        /\ CodeFrom(state, t) \in Seq(AnyLine)
    BY <2>1, FileAppend
  <2>3. CodeOf(End(state, t), l) \in Seq(AnyLine)
    BY CodeOfType
  <2> QED
    BY <1>2, <2>2, <2>3, JoinType
<1> QED
  BY <1>3, <1>4

LEMMA FileJoin ==
  ASSUME NEW state \in FileStates, NEW a \in Seq(AnyLine), NEW b \in Seq(AnyLine)
  PROVE  /\ End(state, Join(a, b)) = End(End(state, a), b)
         /\ CodeFrom(state, Join(a, b)) = Join(CodeFrom(state, a), CodeFrom(End(state, a), b))
         /\ OnOwnLines(state, Join(a, b)) <=> OnOwnLines(state, a) /\ OnOwnLines(End(state, a), b)
<1>1. PICK X, s : X = AnyLine /\ s = End(state, a)
  OBVIOUS
<1>2. a \in Seq(X) /\ b \in Seq(X) /\ s \in FileStates /\ CodeFrom(state, a) \in Seq(X)
  BY <1>1, EndType
<1>3. PICK P : P = {t \in Seq(X) : /\ End(state, Join(a, t)) = End(s, t)
                                   /\ CodeFrom(state, Join(a, t)) = Join(CodeFrom(state, a), CodeFrom(s, t))
                                   /\ OnOwnLines(state, Join(a, t)) <=> OnOwnLines(state, a) /\ OnOwnLines(s, t)}
  OBVIOUS
<1>4. <<>> \in P
  <2>1. Join(a, <<>>) = a /\ <<>> \in Seq(X) /\ Join(CodeFrom(state, a), <<>>) = CodeFrom(state, a)
    BY <1>2, JoinEmpty, EmptySeq
  <2>2. End(s, <<>>) = s /\ CodeFrom(s, <<>>) = <<>> /\ OnOwnLines(s, <<>>)
    BY <1>2, EmptyFile
  <2> QED
    BY <1>1, <1>3, <2>1, <2>2
<1>5. ASSUME NEW t \in Seq(X), NEW l \in X, t \in P PROVE Append(t, l) \in P
  <2>1. /\ Join(a, Append(t, l)) = Append(Join(a, t), l)
        /\ Join(a, t) \in Seq(X) /\ Append(t, l) \in Seq(X)
    BY <1>2, JoinAppend, JoinType, AppendFacts
  <2>2. PICK u, c, d : u = Join(a, t) /\ c = CodeFrom(s, t) /\ d = CodeOf(End(s, t), l)
    OBVIOUS
  <2>3. /\ End(state, u) = End(s, t)
        /\ CodeFrom(state, u) = Join(CodeFrom(state, a), c)
        /\ OnOwnLines(state, u) <=> OnOwnLines(state, a) /\ OnOwnLines(s, t)
    BY <1>3, <1>5, <2>2
  <2>4. u \in Seq(AnyLine) /\ t \in Seq(AnyLine) /\ l \in AnyLine
    BY <1>1, <2>1, <2>2
  <2>5. /\ End(state, Append(u, l)) = StateAfter(End(state, u), l)
        /\ CodeFrom(state, Append(u, l)) = Join(CodeFrom(state, u), CodeOf(End(state, u), l))
        /\ OnOwnLines(state, Append(u, l)) <=> OnOwnLines(state, u) /\ ClosesLine(End(state, u), l)
    BY <2>4, FileAppend
  <2>6. /\ End(s, Append(t, l)) = StateAfter(End(s, t), l)
        /\ CodeFrom(s, Append(t, l)) = Join(c, d)
        /\ OnOwnLines(s, Append(t, l)) <=> OnOwnLines(s, t) /\ ClosesLine(End(s, t), l)
    BY <1>2, <2>2, <2>4, FileAppend
  <2>7. c \in Seq(X) /\ d \in Seq(X)
    BY <1>1, <1>2, <2>2, <2>4, EndType, CodeOfType
  <2>8. Join(Join(CodeFrom(state, a), c), d) = Join(CodeFrom(state, a), Join(c, d))
    BY <1>2, <2>7, JoinAssoc
  <2>9. End(state, Join(a, Append(t, l))) = End(s, Append(t, l))
    BY <2>1, <2>2, <2>3, <2>5, <2>6
  <2>10. CodeFrom(state, Join(a, Append(t, l))) = Join(CodeFrom(state, a), CodeFrom(s, Append(t, l)))
    BY <2>1, <2>2, <2>3, <2>5, <2>6, <2>8
  <2>11. OnOwnLines(state, Join(a, Append(t, l))) <=> OnOwnLines(state, a) /\ OnOwnLines(s, Append(t, l))
    BY <2>1, <2>2, <2>3, <2>5, <2>6, Zenon
  <2> QED
    BY <1>3, <2>1, <2>9, <2>10, <2>11
<1>6. Seq(X) \subseteq P
  <2>1. \A t \in Seq(X), l \in X : t \in P => Append(t, l) \in P
    BY <1>5
  <2> QED
    BY <1>4, <2>1, SeqInduction
<1>7. b \in P
  BY <1>2, <1>6
<1> QED
  BY <1>1, <1>3, <1>7

(* Nothing happens over silent lines.                                      *)
Quiet(state, file) ==
  End(state, file) = state /\ CodeFrom(state, file) = <<>> /\ OnOwnLines(state, file)

LEMMA QuietAppend ==
  ASSUME NEW state \in FileStates, NEW file \in Seq(AnyLine), NEW l \in AnyLine,
         Quiet(state, file), Silent(state, l)
  PROVE  Quiet(state, Append(file, l))
<1>1. /\ End(state, file) = state /\ CodeFrom(state, file) = <<>> /\ OnOwnLines(state, file)
      /\ StateAfter(state, l) = state /\ ~HoldsCode(l, state) /\ ClosesLine(state, l)
  BY DEF Quiet, Silent
<1>2. /\ End(state, Append(file, l)) = StateAfter(End(state, file), l)
      /\ CodeFrom(state, Append(file, l)) = Join(CodeFrom(state, file), CodeOf(End(state, file), l))
      /\ OnOwnLines(state, Append(file, l)) <=> OnOwnLines(state, file) /\ ClosesLine(End(state, file), l)
  BY FileAppend
<1>3. CodeOf(state, l) = <<>>
  BY <1>1 DEF CodeOf
<1>4. Join(<<>>, <<>>) = <<>>
  <2>1. <<>> \in Seq(AnyLine)
    BY EmptySeq
  <2> QED
    BY <2>1, JoinEmpty
<1>5. End(state, Append(file, l)) = state
  BY <1>1, <1>2
<1>6. CodeFrom(state, Append(file, l)) = <<>>
  BY <1>1, <1>2, <1>3, <1>4
<1>7. OnOwnLines(state, Append(file, l))
  BY <1>1, <1>2
<1> QED
  BY <1>5, <1>6, <1>7 DEF Quiet

LEMMA QuietEmpty ==
  ASSUME NEW state \in FileStates
  PROVE  Quiet(state, <<>>)
  BY EmptyFile DEF Quiet

LEMMA QuietLines ==
  ASSUME NEW state \in FileStates, NEW Z, Z \subseteq AnyLine, \A l \in Z : Silent(state, l),
         NEW file \in Seq(Z)
  PROVE  Quiet(state, file)
<1>1. PICK P : P = {t \in Seq(Z) : Quiet(state, t)}
  OBVIOUS
<1>2. <<>> \in P
  BY <1>1, QuietEmpty, EmptySeq
<1>3. ASSUME NEW t \in Seq(Z), NEW l \in Z, t \in P PROVE Append(t, l) \in P
  <2>1. t \in Seq(AnyLine) /\ l \in AnyLine /\ Silent(state, l) /\ Quiet(state, t)
    BY <1>1, <1>3, SeqOfSubset
  <2>2. Quiet(state, Append(t, l))
    BY <2>1, QuietAppend
  <2>3. Append(t, l) \in Seq(Z)
    OBVIOUS
  <2> QED
    BY <1>1, <2>2, <2>3
<1>4. Seq(Z) \subseteq P
  <2>1. \A t \in Seq(Z), l \in Z : t \in P => Append(t, l) \in P
    BY <1>3
  <2> QED
    BY <1>2, <2>1, SeqInduction
<1> QED
  BY <1>1, <1>4

LEMMA StatesOfFiles == "code" \in FileStates /\ "block" \in FileStates /\ Tick \in FileStates
  BY DEF FileStates

LEMMA LineCommentsQuiet ==
  ASSUME NEW file \in Seq(LineComments)
  PROVE  Quiet("code", file)
<1>1. \A l \in LineComments : Silent("code", l)
  BY LineCommentsFacts, LineCommentIsSilent
<1> QED
  BY <1>1, LineCommentsFacts, StatesOfFiles, QuietLines

(* The words of a comment that is still open.                              *)
OpenWords == Words \ {"*/"}

LEMMA OpenWordsAreVocabulary == Vocabulary(OpenWords)
<1>1. {"-", "/", "//", "/*"} \subseteq Words
  <2>1. {"//", "/*"} \subseteq Marks
    BY DEF Marks
  <2> QED
    BY <2>1, CommentsAssumption
<1>2. "-" # "*/" /\ "/" # "*/" /\ "//" # "*/" /\ "/*" # "*/"
  OBVIOUS
<1> QED
  BY <1>1, <1>2 DEF Vocabulary, OpenWords

LEMMA NoClosingMark ==
  ASSUME NEW l \in AnyLine
  PROVE  "*/" \notin ToSet(Tokens(l)) <=> l \in TextLines(OpenWords)
<1>1. PICK toks, ws, close : toks = Tokens(l) /\ ws = l.words /\ close = "*/"
  OBVIOUS
<1>2. ws \in Seq(Words) /\ toks \in Seq(Words) /\ l.mark \in Marks /\ Len(ws) \in Nat
  <2>1. ws \in Seq(Words) /\ toks \in Seq(Words)
    BY <1>1, TokensFacts
  <2>2. l.mark \in Marks
    BY DEF AnyLine
  <2> QED
    BY <2>1, <2>2, LenProperties
<1>3. ToSet(toks) = ToSet(ws) \cup (IF l.mark = "" THEN {} ELSE {l.mark})
  <2>1. CASE l.mark = ""
    BY <1>1, <2>1, TokensFacts
  <2>2. CASE l.mark # ""
    <3>1. PICK h : h = <<l.mark>>
      OBVIOUS
    <3>2. l.mark \in Words /\ toks = Join(h, ws)
      BY <1>1, <2>2, <3>1, TokensFacts
    <3>3. h \in Seq(Words) /\ Len(h) = 1 /\ h[1] = l.mark
      BY <3>1, <3>2, OneMember
    <3>4. /\ Len(toks) = Len(h) + Len(ws)
          /\ \A k \in 1..(Len(h) + Len(ws)) : toks[k] = IF k <= Len(h) THEN h[k] ELSE ws[k - Len(h)]
      BY <1>2, <3>2, <3>3, ConcatProperties, JoinType DEF Join
    <3>5. PICK n : n = Len(ws)
      OBVIOUS
    <3>6. n \in Nat /\ DOMAIN toks = 1..(n + 1) /\ DOMAIN ws = 1..n
      BY <1>2, <3>3, <3>4, <3>5
    <3>7. toks[1] = l.mark /\ \A k \in 1..n : toks[k + 1] = ws[k]
      <4>1. \A k \in 1..(1 + n) : toks[k] = IF k <= 1 THEN h[k] ELSE ws[k - 1]
        BY <3>3, <3>4, <3>5
      <4>2. 1 \in 1..(1 + n) /\ \A k \in 1..n : k + 1 \in 1..(1 + n) /\ ~(k + 1 <= 1) /\ k + 1 - 1 = k
        BY <3>6
      <4> QED
        BY <3>3, <4>1, <4>2
    <3>8. ASSUME NEW x \in ToSet(toks) PROVE x \in ToSet(ws) \cup {l.mark}
      <4>1. PICK k \in 1..(n + 1) : x = toks[k]
        BY <3>6, <3>8 DEF ToSet
      <4>2. CASE k = 1
        BY <3>7, <4>1, <4>2
      <4>3. CASE k # 1
        <5>1. k - 1 \in 1..n /\ k - 1 + 1 = k
          BY <3>6, <4>3
        <5>2. x = ws[k - 1]
          BY <3>7, <4>1, <5>1
        <5> QED
          BY <3>6, <5>1, <5>2 DEF ToSet
      <4> QED
        BY <4>2, <4>3
    <3>9. ASSUME NEW x \in ToSet(ws) \cup {l.mark} PROVE x \in ToSet(toks)
      <4>1. CASE x = l.mark
        <5>1. 1 \in 1..(n + 1)
          BY <3>6
        <5> QED
          BY <3>6, <3>7, <4>1, <5>1 DEF ToSet
      <4>2. CASE x \in ToSet(ws)
        <5>1. PICK k \in 1..n : x = ws[k]
          BY <3>6, <4>2 DEF ToSet
        <5>2. k + 1 \in 1..(n + 1)
          BY <3>6
        <5> QED
          BY <3>6, <3>7, <5>1, <5>2 DEF ToSet
      <4> QED
        BY <3>9, <4>1, <4>2
    <3> QED
      BY <2>2, <3>8, <3>9
  <2> QED
    BY <2>1, <2>2
<1>4. close \notin ToSet(ws) <=> ws \in Seq(Words \ {close})
  <2>1. PICK n : n = Len(ws)
    OBVIOUS
  <2>2. n \in Nat /\ DOMAIN ws = 1..n /\ \A k \in 1..n : ws[k] \in Words
    BY <1>2, <2>1
  <2>3. ASSUME close \notin ToSet(ws) PROVE ws \in Seq(Words \ {close})
    <3>1. \A k \in 1..n : ws[k] \in Words \ {close}
      BY <2>2, <2>3 DEF ToSet
    <3> QED
      BY <1>2, <2>1, <3>1
  <2>4. ASSUME ws \in Seq(Words \ {close}) PROVE close \notin ToSet(ws)
    <3>1. \A k \in 1..n : ws[k] # close
      BY <2>1, <2>4
    <3> QED
      BY <2>2, <3>1 DEF ToSet
  <2> QED
    BY <2>3, <2>4
<1>5. l \in TextLines(OpenWords) <=> l.mark # close /\ ws \in Seq(Words \ {close})
  <2>1. l \in TextLines(OpenWords) <=> l.mark \in Marks \ {"*/"} /\ l.words \in Seq(Words \ {"*/"})
    BY DEF AnyLine, TextLines, LinesOf, OpenWords
  <2> QED
    BY <1>1, <1>2, <2>1
<1>6. close \notin ToSet(toks) <=> l.mark # close /\ close \notin ToSet(ws)
  <2>1. close # ""
    BY <1>1
  <2> QED
    BY <1>3, <2>1
<1> QED
  BY <1>1, <1>4, <1>5, <1>6

LEMMA TextQuiet ==
  ASSUME NEW text \in Seq(TextLines(OpenWords))
  PROVE  Quiet("block", text)
<1>1. TextLines(OpenWords) \subseteq AnyLine
  BY OpenWordsAreVocabulary, TextLinesFacts
<1>2. \A l \in TextLines(OpenWords) : Silent("block", l)
  BY <1>1, NoClosingMark, TextIsSilent
<1> QED
  BY <1>1, <1>2, StatesOfFiles, QuietLines

(* The lines before a closing mark, where no comment is left open but by a *)
(* line that is nothing but its start.                                     *)
NotEnds == {l \in AnyLine : ~IsBlockEnd(l)}

LEMMA OpenBody ==
  ASSUME NEW body \in Seq(NotEnds), OnOwnLines("block", body)
  PROVE  body \in Seq(TextLines(OpenWords)) /\ Quiet("block", body)
<1>1. NotEnds \subseteq AnyLine /\ Seq(NotEnds) \subseteq Seq(AnyLine)
  <2>1. NotEnds \subseteq AnyLine
    BY DEF NotEnds
  <2> QED
    BY <2>1, SeqOfSubset
<1>2. PICK P, T : /\ T = TextLines(OpenWords)
                  /\ P = {t \in Seq(NotEnds) : OnOwnLines("block", t) => t \in Seq(T)}
  OBVIOUS
<1>3. <<>> \in P
  BY <1>2, EmptySeq
<1>4. ASSUME NEW t \in Seq(NotEnds), NEW l \in NotEnds, t \in P PROVE Append(t, l) \in P
  <2>1. t \in Seq(AnyLine) /\ l \in AnyLine /\ ~IsBlockEnd(l) /\ Append(t, l) \in Seq(NotEnds)
    BY <1>1 DEF NotEnds
  <2>2. ASSUME OnOwnLines("block", Append(t, l)) PROVE Append(t, l) \in Seq(T)
    <3>1. OnOwnLines("block", t) /\ ClosesLine(End("block", t), l)
      BY <2>1, <2>2, StatesOfFiles, FileAppend
    <3>2. t \in Seq(T)
      BY <1>2, <1>4, <3>1
    <3>3. End("block", t) = "block"
      BY <1>2, <3>2, TextQuiet DEF Quiet
    <3>4. "*/" \notin ToSet(Tokens(l))
      BY <2>1, <3>1, <3>3 DEF ClosesLine
    <3>5. l \in T
      BY <1>2, <2>1, <3>4, NoClosingMark
    <3> QED
      BY <3>2, <3>5
  <2> QED
    BY <1>2, <2>1, <2>2
<1>5. Seq(NotEnds) \subseteq P
  <2>1. \A t \in Seq(NotEnds), l \in NotEnds : t \in P => Append(t, l) \in P
    BY <1>4
  <2> QED
    BY <1>3, <2>1, SeqInduction
<1>6. body \in Seq(T)
  BY <1>2, <1>5
<1> QED
  BY <1>2, <1>6, TextQuiet

(***************************************************************************)
(* A block comment holds no code, whatever the text in it, and behind its  *)
(* closing mark is code again.                                             *)
(***************************************************************************)
LEMMA BlockStartFacts ==
  ASSUME NEW l \in AnyLine, IsBlockStart(l)
  PROVE  StateAfter("code", l) = "block" /\ ~HoldsCode(l, "code") /\ ClosesLine("code", l)
<1>1. PICK toks, f : toks = Tokens(l) /\ f = Lexed("code", toks)
  OBVIOUS
<1>2. toks \in Seq(Words) /\ Len(toks) = 1 /\ toks[1] = "/*" /\ DOMAIN toks = 1..1 /\ toks # <<>>
  <2>1. l.mark = "/*" /\ l.words = <<>>
    BY DEF IsBlockStart
  <2>2. l.mark # ""
    BY <2>1
  <2>3. toks \in Seq(Words) /\ toks = Join(<<l.mark>>, l.words) /\ toks # <<>> /\ toks[1] = l.mark /\ l.mark \in Words
    BY <1>1, <2>2, TokensFacts
  <2>4. <<l.mark>> \in Seq(Words) /\ Len(<<l.mark>>) = 1
    BY <2>3, OneMember
  <2>5. Join(<<l.mark>>, <<>>) = <<l.mark>>
    BY <2>4, JoinEmpty
  <2>6. Len(toks) = 1
    BY <2>1, <2>3, <2>4, <2>5
  <2> QED
    BY <2>1, <2>3, <2>6
<1>3. "code" \in LexStates /\ "code" \in FileStates /\ "block" \in FileStates
  BY DEF LexStates, FileStates
<1>4. f[1] = "block" /\ f[0] = "code"
  <2>1. f[0] = "code" /\ \A k \in 1..Len(toks) : f[k] = LexWord(f[k - 1], toks[k])
    BY <1>1, <1>2, <1>3, LexedFacts
  <2>2. 1 \in 1..1 /\ 1 - 1 = 0
    OBVIOUS
  <2>3. f[1] = LexWord("code", "/*")
    BY <1>2, <2>1, <2>2
  <2> QED
    BY <2>1, <2>3, LexWordFacts
<1>5. StateAfter("code", l) = "block"
  BY <1>1, <1>2, <1>3, <1>4, StateAfterFacts
<1>6. ~HoldsCode(l, "code")
  <2>1. ASSUME NEW k \in DOMAIN toks
        PROVE  Lexed("code", toks)[k - 1] \in {"block", "line"} \/ toks[k] \in {"//", "/*", "*/", ""}
    <3>1. k = 1
      BY <1>2
    <3> QED
      BY <1>2, <3>1, Zenon
  <2> QED
    BY <1>1, <1>2, <2>1, NoCode
<1>7. ClosesLine("code", l)
  BY DEF ClosesLine, Tick
<1> QED
  BY <1>5, <1>6, <1>7

LEMMA BlockEndFacts ==
  ASSUME NEW l \in AnyLine, IsBlockEnd(l)
  PROVE  StateAfter("block", l) = "code" /\ ~HoldsCode(l, "block") /\ ClosesLine("block", l)
<1>1. PICK toks, f : toks = Tokens(l) /\ f = Lexed("block", toks)
  OBVIOUS
<1>2. toks \in Seq(Words) /\ Len(toks) = 1 /\ toks[1] = "*/" /\ DOMAIN toks = 1..1 /\ toks # <<>>
  <2>1. l.mark = "*/" /\ l.words = <<>>
    BY DEF IsBlockEnd
  <2>2. l.mark # ""
    BY <2>1
  <2>3. toks \in Seq(Words) /\ toks = Join(<<l.mark>>, l.words) /\ toks # <<>> /\ toks[1] = l.mark /\ l.mark \in Words
    BY <1>1, <2>2, TokensFacts
  <2>4. <<l.mark>> \in Seq(Words) /\ Len(<<l.mark>>) = 1
    BY <2>3, OneMember
  <2>5. Join(<<l.mark>>, <<>>) = <<l.mark>>
    BY <2>4, JoinEmpty
  <2>6. Len(toks) = 1
    BY <2>1, <2>3, <2>4, <2>5
  <2> QED
    BY <2>1, <2>3, <2>6
<1>3. "block" \in LexStates /\ "code" \in FileStates /\ "block" \in FileStates
  BY DEF LexStates, FileStates
<1>4. f[1] = "code" /\ f[0] = "block"
  <2>1. f[0] = "block" /\ \A k \in 1..Len(toks) : f[k] = LexWord(f[k - 1], toks[k])
    BY <1>1, <1>2, <1>3, LexedFacts
  <2>2. 1 \in 1..1 /\ 1 - 1 = 0
    OBVIOUS
  <2>3. f[1] = LexWord("block", "*/")
    BY <1>2, <2>1, <2>2
  <2> QED
    BY <2>1, <2>3, LexWordFacts
<1>5. StateAfter("block", l) = "code"
  BY <1>1, <1>2, <1>3, <1>4, StateAfterFacts
<1>6. ~HoldsCode(l, "block")
  <2>1. ASSUME NEW k \in DOMAIN toks
        PROVE  Lexed("block", toks)[k - 1] \in {"block", "line"} \/ toks[k] \in {"//", "/*", "*/", ""}
    <3>1. k = 1
      BY <1>2
    <3> QED
      BY <1>2, <3>1, Zenon
  <2> QED
    BY <1>1, <1>2, <2>1, NoCode
<1>7. ClosesLine("block", l)
  BY DEF ClosesLine, Tick
<1> QED
  BY <1>5, <1>6, <1>7

(* What a block comment is: nothing of it is code.                         *)
Comment(file, end) ==
  End("code", file) = end /\ CodeFrom("code", file) = <<>> /\ OnOwnLines("code", file)

LEMMA OneStart ==
  ASSUME NEW first \in AnyLine, IsBlockStart(first)
  PROVE  Comment(<<first>>, "block") /\ <<first>> \in Seq(AnyLine)
<1>1. <<>> \in Seq(AnyLine) /\ Append(<<>>, first) = <<first>> /\ <<first>> \in Seq(AnyLine)
  BY EmptySeq, AppendToEmpty, OneMember
<1>2. /\ End("code", Append(<<>>, first)) = StateAfter(End("code", <<>>), first)
      /\ CodeFrom("code", Append(<<>>, first)) = Join(CodeFrom("code", <<>>), CodeOf(End("code", <<>>), first))
      /\ OnOwnLines("code", Append(<<>>, first)) <=> OnOwnLines("code", <<>>) /\ ClosesLine(End("code", <<>>), first)
  BY <1>1, StatesOfFiles, FileAppend
<1>3. End("code", <<>>) = "code" /\ CodeFrom("code", <<>>) = <<>> /\ OnOwnLines("code", <<>>)
  BY StatesOfFiles, EmptyFile
<1>4. CodeOf("code", first) = <<>>
  BY BlockStartFacts DEF CodeOf
<1>5. Join(<<>>, <<>>) = <<>>
  BY <1>1, JoinEmpty
<1>6. End("code", <<first>>) = "block"
  BY <1>1, <1>2, <1>3, BlockStartFacts
<1>7. CodeFrom("code", <<first>>) = <<>>
  BY <1>1, <1>2, <1>3, <1>4, <1>5
<1>8. OnOwnLines("code", <<first>>)
  BY <1>1, <1>2, <1>3, BlockStartFacts
<1> QED
  BY <1>1, <1>6, <1>7, <1>8 DEF Comment

LEMMA CommentOf ==
  ASSUME NEW first \in AnyLine, IsBlockStart(first), NEW last \in AnyLine,
         ClosesLine("block", last), NEW text \in Seq(TextLines(OpenWords))
  PROVE  Comment(Ends(first, text, last), IF IsBlockEnd(last) THEN "code" ELSE "block")
<1>1. PICK a, b : a = <<first>> /\ b = Append(text, last)
  OBVIOUS
<1>2. a \in Seq(AnyLine) /\ Comment(a, "block")
  BY <1>1, OneStart
<1>3. text \in Seq(AnyLine) /\ b \in Seq(AnyLine) /\ Quiet("block", text)
  <2>1. text \in Seq(AnyLine)
    BY OpenWordsAreVocabulary, TextLinesFacts
  <2> QED
    BY <1>1, <2>1, TextQuiet
<1>4. StateAfter("block", last) = (IF IsBlockEnd(last) THEN "code" ELSE "block") /\ ~HoldsCode(last, "block")
  <2>1. CASE IsBlockEnd(last)
    BY <2>1, BlockEndFacts
  <2>2. CASE ~IsBlockEnd(last)
    <3>1. "*/" \notin ToSet(Tokens(last))
      BY <2>2 DEF ClosesLine
    <3> QED
      BY <2>2, <3>1, TextIsSilent DEF Silent
  <2> QED
    BY <2>1, <2>2
<1>5. Join(<<>>, <<>>) = <<>>
  <2>1. <<>> \in Seq(AnyLine)
    BY EmptySeq
  <2> QED
    BY <2>1, JoinEmpty
<1>6. End("block", b) = (IF IsBlockEnd(last) THEN "code" ELSE "block") /\ CodeFrom("block", b) = <<>> /\ OnOwnLines("block", b)
  <2>1. /\ End("block", b) = StateAfter(End("block", text), last)
        /\ CodeFrom("block", b) = Join(CodeFrom("block", text), CodeOf(End("block", text), last))
        /\ OnOwnLines("block", b) <=> OnOwnLines("block", text) /\ ClosesLine(End("block", text), last)
    BY <1>1, <1>3, StatesOfFiles, FileAppend
  <2>2. End("block", text) = "block" /\ CodeFrom("block", text) = <<>> /\ OnOwnLines("block", text)
    BY <1>3 DEF Quiet
  <2>3. CodeOf("block", last) = <<>>
    BY <1>4 DEF CodeOf
  <2>4. End("block", b) = (IF IsBlockEnd(last) THEN "code" ELSE "block")
    BY <1>4, <2>1, <2>2
  <2>5. CodeFrom("block", b) = <<>>
    BY <1>5, <2>1, <2>2, <2>3
  <2>6. OnOwnLines("block", b)
    BY <2>1, <2>2
  <2> QED
    BY <2>4, <2>5, <2>6
<1>7. End("code", a) = "block" /\ CodeFrom("code", a) = <<>> /\ OnOwnLines("code", a)
  BY <1>2 DEF Comment
<1>8. /\ End("code", Join(a, b)) = End(End("code", a), b)
      /\ CodeFrom("code", Join(a, b)) = Join(CodeFrom("code", a), CodeFrom(End("code", a), b))
      /\ OnOwnLines("code", Join(a, b)) <=> OnOwnLines("code", a) /\ OnOwnLines(End("code", a), b)
  BY <1>2, <1>3, StatesOfFiles, FileJoin
<1>9. Ends(first, text, last) = Join(a, b)
  BY <1>1 DEF Ends
<1>10. End("code", Join(a, b)) = IF IsBlockEnd(last) THEN "code" ELSE "block"
  BY <1>6, <1>7, <1>8
<1>11. CodeFrom("code", Join(a, b)) = <<>>
  BY <1>5, <1>6, <1>7, <1>8
<1>12. OnOwnLines("code", Join(a, b))
  BY <1>6, <1>7, <1>8
<1> QED
  BY <1>9, <1>10, <1>11, <1>12 DEF Comment

(* The other way round: what is between the ends of a block comment is     *)
(* text, if no line of it leaves the comment.                              *)
LEMMA BodyOf ==
  ASSUME NEW first \in AnyLine, IsBlockStart(first), NEW last \in AnyLine, NEW body \in Seq(NotEnds),
         OnOwnLines("code", Ends(first, body, last))
  PROVE  body \in Seq(TextLines(OpenWords)) /\ ClosesLine("block", last)
<1>1. PICK a, b : a = <<first>> /\ b = Append(body, last)
  OBVIOUS
<1>2. a \in Seq(AnyLine) /\ End("code", a) = "block"
  BY <1>1, OneStart DEF Comment
<1>3. body \in Seq(AnyLine) /\ b \in Seq(AnyLine)
  <2>1. NotEnds \subseteq AnyLine
    BY DEF NotEnds
  <2>2. body \in Seq(AnyLine)
    BY <2>1, SeqOfSubset
  <2> QED
    BY <1>1, <2>2
<1>4. OnOwnLines("block", b)
  <2>1. OnOwnLines("code", Join(a, b))
    BY <1>1 DEF Ends
  <2> QED
    BY <1>2, <1>3, <2>1, StatesOfFiles, FileJoin
<1>5. OnOwnLines("block", body) /\ ClosesLine(End("block", body), last)
  BY <1>1, <1>3, <1>4, StatesOfFiles, FileAppend
<1>6. body \in Seq(TextLines(OpenWords)) /\ End("block", body) = "block"
  BY <1>5, OpenBody DEF Quiet
<1> QED
  BY <1>5, <1>6

LEMMA OwnPrefix ==
  ASSUME NEW state \in FileStates, NEW file \in Seq(AnyLine), OnOwnLines(state, file), NEW b \in 1..Len(file)
  PROVE  OnOwnLines(state, SubSeq(file, 1, b))
<1>1. PICK n : n = Len(file)
  OBVIOUS
<1>2. n \in Nat /\ b \in 1..n
  BY <1>1
<1>3. CASE b = n
  <2>1. SubSeq(file, 1, Len(file)) = file
    BY SubSeqFull
  <2> QED
    BY <1>1, <1>3, <2>1
<1>4. CASE b # n
  <2>1. b + 1 \in 1..n /\ n \in (b + 1)..n /\ b + 1 - 1 = b
    BY <1>2, <1>4
  <2>2. PICK p, q : p = SubSeq(file, 1, b) /\ q = SubSeq(file, b + 1, n)
    OBVIOUS
  <2>3. p \in Seq(AnyLine) /\ q \in Seq(AnyLine) /\ SubSeq(file, 1, n) = Join(p, q)
    <3>1. /\ SubSeq(file, 1, b + 1 - 1) \in Seq(AnyLine) /\ SubSeq(file, b + 1, n) \in Seq(AnyLine)
          /\ SubSeq(file, 1, n) = Join(SubSeq(file, 1, b + 1 - 1), SubSeq(file, b + 1, n))
      BY <1>1, <2>1, RunOf
    <3> QED
      BY <2>1, <2>2, <3>1
  <2>4. file = Join(p, q)
    BY <1>1, <2>3, SubSeqFull
  <2>5. OnOwnLines(state, p)
    BY <2>3, <2>4, FileJoin
  <2> QED
    BY <2>2, <2>5
<1> QED
  BY <1>3, <1>4

-----------------------------------------------------------------------------
(***************************************************************************)
(* The walk: what is written is the code of the lines behind it, and       *)
(* leaves off in the same state.                                           *)
(***************************************************************************)
StateHere == IF inRaw THEN Tick ELSE "code"

CodeType ==
  /\ lines \in Seq(AnyLine) /\ out \in Seq(AnyLine)
  /\ i \in 1..(Len(lines) + 1) /\ inRaw \in BOOLEAN
  /\ OnOwnLines("code", lines) /\ OnOwnLines("code", out)

SameCode ==
  CodeFrom("code", out) = CodeFrom("code", Seen) /\ End("code", out) = End("code", Seen)

CodeWalk ==
  /\ CodeType /\ SameCode
  /\ i <= Len(lines) => End("code", Seen) = StateHere

CodeInv ==
  ~hoist /\ phase # "idle" =>
    /\ CodeType
    /\ CodeLines(lines) = CodeLines(source)
    /\ phase = "walk" => CodeWalk
    /\ phase = "done" => CodeLines(out) = CodeLines(source)

LEMMA StateHereType == StateHere \in FileStates
  BY StatesOfFiles DEF StateHere

(* A run of lines is written as lines that hold the same code.             *)
LEMMA CodeOn ==
  ASSUME CodeWalk, i \in 1..Len(lines), NEW e \in i..Len(lines),
         NEW new \in Seq(AnyLine), NEW block, block = SubSeq(lines, i, e),
         End(StateHere, new) = End(StateHere, block),
         CodeFrom(StateHere, new) = CodeFrom(StateHere, block),
         OnOwnLines(StateHere, new),
         out' = Join(out, new), i' = e + 1, lines' = lines, inRaw' \in BOOLEAN,
         e = Len(lines) \/ End(StateHere, block) = StateHere'
  PROVE  CodeWalk'
<1>1. PICK n, a, st : n = Len(lines) /\ a = SubSeq(lines, 1, i - 1) /\ st = StateHere
  OBVIOUS
<1>2. lines \in Seq(AnyLine) /\ out \in Seq(AnyLine) /\ st \in FileStates
  BY <1>1, StateHereType DEF CodeWalk, CodeType
<1>3. n \in Nat /\ i \in 1..n /\ e \in i..n
  BY <1>1, <1>2
<1>4. a \in Seq(AnyLine) /\ block \in Seq(AnyLine) /\ SubSeq(lines, 1, e) = Join(a, block)
  BY <1>1, <1>2, RunOf
<1>5. e + 1 \in 1..(n + 1) /\ e + 1 - 1 = e /\ (e + 1 <= n => e # n)
  BY <1>3
<1>6. /\ OnOwnLines("code", lines) /\ OnOwnLines("code", out)
      /\ CodeFrom("code", out) = CodeFrom("code", a)
      /\ End("code", out) = st /\ End("code", a) = st
  <2>1. i <= Len(lines)
    BY <1>1, <1>3
  <2> QED
    BY <1>1, <2>1 DEF CodeWalk, CodeType, SameCode, Seen
<1>7. PICK u, v : u = Join(out, new) /\ v = Join(a, block)
  OBVIOUS
<1>8. /\ End("code", u) = End(st, new)
      /\ CodeFrom("code", u) = Join(CodeFrom("code", out), CodeFrom(st, new))
      /\ OnOwnLines("code", u) <=> OnOwnLines("code", out) /\ OnOwnLines(st, new)
  BY <1>2, <1>6, <1>7, StatesOfFiles, FileJoin
<1>9. /\ End("code", v) = End(st, block)
      /\ CodeFrom("code", v) = Join(CodeFrom("code", a), CodeFrom(st, block))
  <2>1. /\ End("code", Join(a, block)) = End(End("code", a), block)
        /\ CodeFrom("code", Join(a, block)) = Join(CodeFrom("code", a), CodeFrom(End("code", a), block))
    BY <1>4, StatesOfFiles, FileJoin
  <2> QED
    BY <1>6, <1>7, <2>1
<1>10. u \in Seq(AnyLine)
  BY <1>2, <1>7, JoinType
<1>11. CodeFrom("code", u) = CodeFrom("code", v) /\ End("code", u) = End("code", v)
  BY <1>1, <1>6, <1>8, <1>9
<1>12. OnOwnLines("code", u)
  BY <1>1, <1>6, <1>8
<1>13. Seen' = v /\ out' = u
  BY <1>4, <1>5, <1>7 DEF Seen
<1>14. CodeType'
  BY <1>1, <1>2, <1>5, <1>6, <1>10, <1>12, <1>13 DEF CodeType
<1>15. SameCode'
  BY <1>11, <1>13 DEF SameCode
<1>16. i' <= Len(lines') => End("code", Seen') = StateHere'
  BY <1>1, <1>5, <1>9, <1>13
<1> QED
  BY <1>14, <1>15, <1>16 DEF CodeWalk

(* The code seen up to i, and whatever run of lines comes next.            *)
LEMMA RunOwn ==
  ASSUME CodeWalk, i \in 1..Len(lines), NEW e \in i..Len(lines)
  PROVE  SubSeq(lines, i, e) \in Seq(AnyLine) /\ OnOwnLines(StateHere, SubSeq(lines, i, e))
<1>1. PICK n, a, b : n = Len(lines) /\ a = SubSeq(lines, 1, i - 1) /\ b = SubSeq(lines, i, e)
  OBVIOUS
<1>2. lines \in Seq(AnyLine) /\ OnOwnLines("code", lines)
  BY DEF CodeWalk, CodeType
<1>3. n \in Nat /\ i \in 1..n /\ e \in i..n /\ e \in 1..n
  <2>1. n \in Nat /\ i \in 1..n /\ e \in i..n
    BY <1>1, <1>2
  <2> QED
    BY <2>1
<1>4. a \in Seq(AnyLine) /\ b \in Seq(AnyLine) /\ SubSeq(lines, 1, e) = Join(a, b)
  BY <1>1, <1>2, RunOf
<1>5. OnOwnLines("code", Join(a, b))
  BY <1>1, <1>2, <1>3, <1>4, StatesOfFiles, OwnPrefix
<1>6. End("code", a) = StateHere
  <2>1. i <= Len(lines)
    BY <1>1, <1>3
  <2> QED
    BY <1>1, <2>1 DEF CodeWalk, Seen
<1>7. OnOwnLines(StateHere, b)
  BY <1>4, <1>5, <1>6, StatesOfFiles, FileJoin
<1> QED
  BY <1>1, <1>4, <1>7

LEMMA EndOfOne ==
  ASSUME NEW state \in FileStates, NEW l \in AnyLine
  PROVE  /\ <<l>> \in Seq(AnyLine)
         /\ End(state, <<l>>) = StateAfter(state, l)
         /\ OnOwnLines(state, <<l>>) <=> ClosesLine(state, l)
<1>1. <<>> \in Seq(AnyLine) /\ Append(<<>>, l) = <<l>> /\ <<l>> \in Seq(AnyLine)
  BY EmptySeq, AppendToEmpty, OneMember
<1>2. /\ End(state, Append(<<>>, l)) = StateAfter(End(state, <<>>), l)
      /\ OnOwnLines(state, Append(<<>>, l)) <=> OnOwnLines(state, <<>>) /\ ClosesLine(End(state, <<>>), l)
  BY <1>1, FileAppend
<1>3. End(state, <<>>) = state /\ OnOwnLines(state, <<>>)
  BY EmptyFile
<1> QED
  BY <1>1, <1>2, <1>3

(***************************************************************************)
(* A line that is copied: RawStringStateAfterLine finds the state the next *)
(* one starts in, as no line of code leaves a comment open.                *)
(***************************************************************************)
LEMMA CopyCode ==
  ASSUME CodeWalk, i \in 1..Len(lines), Copy, inRaw \/ ~IsBlockStart(lines[i])
  PROVE  CodeWalk'
<1>1. PICK l, st : l = lines[i] /\ st = StateHere
  OBVIOUS
<1>2. /\ lines \in Seq(AnyLine) /\ out \in Seq(AnyLine) /\ l \in AnyLine /\ inRaw \in BOOLEAN
      /\ st \in FileStates /\ i \in i..Len(lines)
  BY <1>1, StateHereType DEF CodeWalk, CodeType
<1>3. SubSeq(lines, i, i) = <<l>> /\ <<l>> \in Seq(AnyLine)
  BY <1>1, <1>2, OneLineOf
<1>4. OnOwnLines(st, <<l>>)
  BY <1>1, <1>2, <1>3, RunOwn
<1>5. ClosesLine(st, l) /\ End(st, <<l>>) = StateAfter(st, l)
  BY <1>2, <1>4, EndOfOne
<1>6. StateAfter(st, l) # "block" /\ StateAfter(st, l) \in FileStates
  <2>1. CASE inRaw
    <3>1. st = Tick
      BY <1>1, <2>1 DEF StateHere
    <3> QED
      BY <1>2, <1>5, <3>1, StateAfterFacts DEF ClosesLine
  <2>2. CASE ~inRaw
    <3>1. st = "code" /\ ~IsBlockStart(l)
      BY <1>1, <2>2 DEF StateHere
    <3> QED
      BY <1>2, <1>5, <3>1, StateAfterFacts DEF ClosesLine
  <2> QED
    BY <2>1, <2>2
<1>7. inRaw' = (Lexed(st, Tokens(l))[Len(Tokens(l))] = Tick)
  BY <1>1, Zenon DEF Copy, RawStringStateAfterLine, StateHere
<1>8. inRaw' <=> StateAfter(st, l) = Tick
  BY <1>2, <1>7, StateAfterFacts
<1>9. inRaw' \in BOOLEAN
  BY <1>7
<1>10. StateAfter(st, l) = StateHere'
  <2>1. StateAfter(st, l) \in {"code", Tick}
    BY <1>6 DEF FileStates
  <2>2. "code" # Tick
    BY DEF Tick
  <2>3. StateHere' = IF inRaw' THEN Tick ELSE "code"
    BY DEF StateHere
  <2> QED
    BY <1>8, <2>1, <2>2, <2>3
<1>11. out' = Join(out, <<l>>)
  <2>1. out' = Append(out, l)
    BY <1>1 DEF Copy
  <2> QED
    BY <1>2, <2>1, JoinOne
<1>12. i' = i + 1 /\ lines' = lines
  BY DEF Copy
<1> QED
  BY <1>1, <1>2, <1>3, <1>4, <1>5, <1>9, <1>10, <1>11, <1>12, CodeOn

LEMMA LineBlockCode ==
  ASSUME CodeWalk, i \in 1..Len(lines), LineBlock
  PROVE  CodeWalk'
<1>1. PICK e, new, block : e = BlockEnd /\ new = LineBlockLines /\ block = SubSeq(lines, i, e)
  OBVIOUS
<1>2. lines \in Seq(AnyLine) /\ OpensLineBlock(lines[i]) /\ ~inRaw /\ UNCHANGED <<lines, inRaw>> /\ inRaw \in BOOLEAN
  BY DEF LineBlock, CodeWalk, CodeType
<1>3. e \in i..Len(lines) /\ block \in Seq(LineComments) /\ new \in Seq(LineComments)
  BY <1>1, <1>2, LineBlockFacts
<1>4. new \in Seq(AnyLine)
  BY <1>3, LineCommentsFacts
<1>5. StateHere = "code" /\ StateHere' = "code"
  BY <1>2 DEF StateHere
<1>6. Quiet("code", new) /\ Quiet("code", block)
  BY <1>3, LineCommentsQuiet
<1>7. /\ End(StateHere, new) = End(StateHere, block)
      /\ CodeFrom(StateHere, new) = CodeFrom(StateHere, block)
      /\ OnOwnLines(StateHere, new)
      /\ End(StateHere, block) = StateHere'
  BY <1>5, <1>6 DEF Quiet
<1>8. out' = Join(out, new) /\ i' = e + 1
  BY <1>1, LineBlockStep
<1> QED
  BY <1>1, <1>2, <1>3, <1>4, <1>7, <1>8, CodeOn

(* The lines between the ends of the block that starts at i.               *)
LEMMA BodyLines ==
  ASSUME lines \in Seq(AnyLine), i \in 1..Len(lines), NEW e, e = CommentEnd, e > i
  PROVE  /\ SubSeq(lines, i, e) \in Seq(AnyLine) /\ Len(SubSeq(lines, i, e)) >= 2
         /\ SubSeq(SubSeq(lines, i, e), 2, Len(SubSeq(lines, i, e)) - 1) \in Seq(NotEnds)
         /\ SubSeq(lines, i, e)[1] = lines[i] /\ Last(SubSeq(lines, i, e)) = lines[e]
<1>1. PICK n, block, m : n = Len(lines) /\ block = SubSeq(lines, i, e) /\ m = Len(block)
  OBVIOUS
<1>2. n \in Nat /\ i \in 1..n /\ \A k \in 1..n : lines[k] \in AnyLine
  BY <1>1
<1>3. e \in i..n /\ i \in Nat /\ e \in Nat /\ \A k \in (i + 1)..(e - 1) : ~IsBlockEnd(lines[k])
  <2>1. e \in i..n /\ \A k \in (i + 1)..(e - 1) : ~IsBlockEnd(lines[k])
    BY <1>1, CommentEndFacts
  <2> QED
    BY <1>2, <2>1
<1>4. block \in Seq(AnyLine) /\ m = e - i + 1 /\ \A k \in 1..(e - i + 1) : block[k] = lines[i + k - 1]
  BY <1>1, <1>3, RunOf
<1>5. m >= 2 /\ m \in Nat
  BY <1>3, <1>4
<1>6. \A k \in 2..(m - 1) : block[k] \in NotEnds
  <2> SUFFICES ASSUME NEW k \in 2..(m - 1) PROVE block[k] \in NotEnds
    OBVIOUS
  <2>1. k \in 1..(e - i + 1) /\ i + k - 1 \in (i + 1)..(e - 1) /\ i + k - 1 \in 1..n
    BY <1>2, <1>3, <1>4
  <2>2. block[k] = lines[i + k - 1] /\ ~IsBlockEnd(lines[i + k - 1]) /\ lines[i + k - 1] \in AnyLine
    BY <1>2, <1>3, <1>4, <2>1
  <2> QED
    BY <2>2 DEF NotEnds
<1>7. SubSeq(block, 2, m - 1) \in Seq(NotEnds)
  <2>1. 2 \in Int /\ m - 1 \in Int
    BY <1>5
  <2> QED
    BY <1>6, <2>1, SubSeqProperties
<1>8. block[1] = lines[i] /\ block[m] = lines[e]
  <2>1. 1 \in 1..(e - i + 1) /\ i + 1 - 1 = i /\ m \in 1..(e - i + 1) /\ i + m - 1 = e
    BY <1>2, <1>3, <1>4
  <2>2. block[1] = lines[i + 1 - 1] /\ block[m] = lines[i + m - 1]
    BY <1>4, <2>1
  <2> QED
    BY <2>1, <2>2
<1>9. Last(block) = block[m]
  BY <1>1 DEF Last
<1> QED
  BY <1>1, <1>4, <1>5, <1>7, <1>8, <1>9

LEMMA BlockCommentCode ==
  ASSUME CodeWalk, i \in 1..Len(lines), BlockComment
  PROVE  CodeWalk'
<1>1. PICK e, new, block : e = CommentEnd /\ new = CommentLines /\ block = SubSeq(lines, i, e)
  OBVIOUS
<1>2. lines \in Seq(AnyLine) /\ IsBlockStart(lines[i]) /\ ~inRaw /\ UNCHANGED <<lines, inRaw>> /\ inRaw \in BOOLEAN
  BY DEF BlockComment, CodeWalk, CodeType
<1>3. e \in i..Len(lines) /\ (e = Len(lines) \/ IsBlockEnd(lines[e])) /\ e \in Nat /\ i \in Nat
  <2>1. Len(lines) \in Nat /\ e \in i..Len(lines) /\ (e = Len(lines) \/ IsBlockEnd(lines[e]))
    BY <1>1, <1>2, CommentEndFacts
  <2> QED
    BY <2>1
<1>4. StateHere = "code" /\ StateHere' = "code"
  BY <1>2 DEF StateHere
<1>5. block \in Seq(AnyLine) /\ OnOwnLines("code", block)
  BY <1>1, <1>3, <1>4, RunOwn
<1>6. out' = Join(out, new) /\ i' = e + 1
  BY <1>1, BlockCommentStep
<1>7. new = IF IsDirectiveBlock(block) THEN block ELSE ReflowBlockComment(block)
  BY <1>1 DEF CommentLines
<1>8. SUFFICES /\ new \in Seq(AnyLine)
               /\ End("code", new) = End("code", block)
               /\ CodeFrom("code", new) = CodeFrom("code", block)
               /\ OnOwnLines("code", new)
               /\ e = Len(lines) \/ End("code", block) = "code"
  BY <1>1, <1>2, <1>3, <1>4, <1>6, CodeOn
<1>9. CASE e = i
  <2>1. Len(block) < 2
    <3>1. Len(block) = e - i + 1
      BY <1>1, <1>2, <1>3, RunOf
    <3> QED
      BY <1>3, <1>9, <3>1
  <2>2. new = block
    BY <1>7, <2>1 DEF ReflowBlockComment
  <2>3. e = Len(lines)
    <3>1. "/*" # "*/"
      OBVIOUS
    <3> QED
      BY <1>2, <1>3, <1>9, <3>1 DEF IsBlockStart, IsBlockEnd
  <2> QED
    BY <1>5, <2>2, <2>3
<1>10. CASE e # i
  <2>1. e > i
    BY <1>3, <1>10
  <2>2. PICK first, body, last : /\ first = block[1] /\ last = Last(block)
                                 /\ body = SubSeq(block, 2, Len(block) - 1)
    OBVIOUS
  <2>3. Len(block) >= 2 /\ body \in Seq(NotEnds) /\ first = lines[i] /\ last = lines[e]
    BY <1>1, <1>2, <2>1, <2>2, BodyLines
  <2>4. block = Ends(first, body, last) /\ first \in AnyLine /\ last \in AnyLine
    <3>1. Len(block) >= 2
      BY <2>3
    <3>2. /\ Last(block) \in AnyLine /\ block[1] \in AnyLine
          /\ block = Ends(block[1], SubSeq(block, 2, Len(block) - 1), Last(block))
      BY <1>5, <3>1, EndsOf
    <3> QED
      BY <2>2, <3>2
  <2>5. IsBlockStart(first)
    BY <1>2, <2>3
  <2>6. body \in Seq(TextLines(OpenWords)) /\ ClosesLine("block", last)
    BY <1>5, <2>3, <2>4, <2>5, BodyOf
  <2>7. PICK end : end = IF IsBlockEnd(last) THEN "code" ELSE "block"
    OBVIOUS
  <2>8. ASSUME NEW text \in Seq(TextLines(OpenWords)) PROVE Comment(Ends(first, text, last), end)
    BY <2>4, <2>5, <2>6, <2>7, CommentOf
  <2>9. \E text \in Seq(TextLines(OpenWords)) : new = Ends(first, text, last)
    <3>1. CASE IsDirectiveBlock(block)
      BY <1>7, <2>4, <2>6, <3>1
    <3>2. CASE ~IsDirectiveBlock(block)
      <4>1. SubSeq(block, 2, Len(block) - 1) \in Seq(TextLines(OpenWords))
        BY <2>2, <2>6
      <4>2. \E text \in Seq(TextLines(OpenWords)) :
              /\ AllWords(text) = AllWords(SubSeq(block, 2, Len(block) - 1))
              /\ ReflowBlockComment(block) = Ends(block[1], text, Last(block))
        BY <1>5, <2>3, <4>1, OpenWordsAreVocabulary, ReflowBlockFacts
      <4> QED
        BY <1>7, <2>2, <3>2, <4>2
    <3> QED
      BY <3>1, <3>2
  <2>10. Comment(new, end) /\ Comment(block, end)
    BY <2>4, <2>6, <2>8, <2>9
  <2>11. new \in Seq(AnyLine)
    <3>1. PICK text \in Seq(TextLines(OpenWords)) : new = Ends(first, text, last)
      BY <2>9
    <3>2. text \in Seq(AnyLine)
      BY OpenWordsAreVocabulary, TextLinesFacts
    <3> QED
      BY <2>4, <3>1, <3>2, EndsType
  <2>12. e = Len(lines) \/ end = "code"
    BY <1>3, <2>3, <2>7
  <2> QED
    BY <2>10, <2>11, <2>12 DEF Comment
<1> QED
  BY <1>9, <1>10

LEMMA BeginCode ==
  ASSUME NEW file \in Seq(AnyLine), OnOwnLines("code", file),
         CodeLines(file) = CodeLines(source'), ~hoist', BeginFile(file)
  PROVE  CodeInv'
<1>1. <<>> \in Seq(AnyLine) /\ Len(<<>>) = 0 /\ Len(file) \in Nat
  BY EmptySeq
<1>2. i' = 1 /\ inRaw' = FALSE
  BY DEF BeginFile
<1>3. lines' = file
  BY DEF BeginFile
<1>4. CASE mode' = "off"
  <2>1. phase' = "done" /\ out' = file
    BY <1>4 DEF BeginFile
  <2>2. CodeType'
    <3>1. 1 \in 1..(Len(file) + 1) /\ FALSE \in BOOLEAN
      BY <1>1
    <3>2. i' \in 1..(Len(lines') + 1) /\ inRaw' \in BOOLEAN
      BY <1>2, <1>3, <3>1
    <3> QED
      BY <1>3, <2>1, <3>2 DEF CodeType
  <2> QED
    BY <1>3, <2>1, <2>2 DEF CodeInv
<1>5. CASE mode' # "off"
  <2>1. phase' = "walk" /\ out' = <<>>
    BY <1>5 DEF BeginFile
  <2>2. /\ End("code", <<>>) = "code" /\ CodeFrom("code", <<>>) = <<>> /\ OnOwnLines("code", <<>>)
    BY StatesOfFiles, EmptyFile
  <2>3. CodeType'
    <3>1. 1 \in 1..(Len(file) + 1) /\ FALSE \in BOOLEAN
      BY <1>1
    <3>2. i' \in 1..(Len(lines') + 1) /\ inRaw' \in BOOLEAN
      BY <1>2, <1>3, <3>1
    <3> QED
      BY <1>1, <1>3, <2>1, <2>2, <3>2 DEF CodeType
  <2>4. Seen' = <<>>
    <3>1. SubSeq(lines', 1, 1 - 1) = <<>>
      BY SubSeqEmpty
    <3> QED
      BY <1>2, <3>1 DEF Seen
  <2>5. SameCode'
    BY <2>1, <2>4 DEF SameCode
  <2>6. End("code", Seen') = StateHere'
    BY <1>2, <2>2, <2>4 DEF StateHere
  <2> QED
    BY <1>3, <2>1, <2>3, <2>5, <2>6 DEF CodeInv, CodeWalk
<1> QED
  BY <1>4, <1>5

LEMMA CodeInvStep ==
  ASSUME \A file \in Files : OnOwnLines("code", file),
         CodeInv, [CommentsNext]_commentsVars
  PROVE  CodeInv'
<1> SUFFICES ASSUME ~hoist' PROVE CodeInv'
  BY DEF CodeInv
<1>1. CASE Call
  <2>1. PICK file \in Files : source' = file /\ BeginFile(file)
    BY <1>1 DEF Call
  <2>2. file \in Seq(AnyLine) /\ OnOwnLines("code", file)
    BY CommentsAssumption
  <2>3. CodeLines(file) = CodeLines(source')
    BY <2>1
  <2> QED
    BY <2>1, <2>2, <2>3, BeginCode
<1>2. CASE CallAgain
  <2>1. BeginFile(out) /\ source' = source /\ hoist' = hoist /\ phase = "done"
    BY <1>2 DEF CallAgain
  <2>2. PICK o : o = out
    OBVIOUS
  <2>3. CodeType /\ CodeLines(out) = CodeLines(source)
    BY <2>1 DEF CodeInv
  <2>4. o \in Seq(AnyLine) /\ OnOwnLines("code", o) /\ BeginFile(o)
    BY <2>1, <2>2, <2>3 DEF CodeType
  <2>5. CodeLines(o) = CodeLines(source')
    BY <2>1, <2>2, <2>3
  <2> QED
    BY <2>4, <2>5, BeginCode
<1>3. ASSUME phase = "walk", hoist' = hoist, i <= Len(lines) PROVE CodeWalk /\ i \in 1..Len(lines) /\ CodeLines(lines) = CodeLines(source)
  <2>1. CodeWalk /\ CodeLines(lines) = CodeLines(source)
    BY <1>3 DEF CodeInv
  <2>2. Len(lines) \in Nat /\ i \in 1..(Len(lines) + 1)
    BY <2>1 DEF CodeWalk, CodeType
  <2> QED
    BY <1>3, <2>1, <2>2
<1>4. ASSUME phase = "walk", i <= Len(lines), UNCHANGED <<source, hoist, lines, phase>>, CodeWalk'
      PROVE  CodeInv'
  <2>1. CodeLines(lines) = CodeLines(source)
    BY <1>3, <1>4
  <2> QED
    BY <1>4, <2>1 DEF CodeInv, CodeWalk
<1>5. ASSUME phase = "walk", i <= Len(lines), Copy, inRaw \/ ~IsBlockStart(lines[i]) PROVE CodeInv'
  <2>1. UNCHANGED <<source, hoist, lines, phase>>
    BY <1>5 DEF Copy
  <2>2. CodeWalk /\ i \in 1..Len(lines)
    BY <1>3, <1>5, <2>1
  <2>3. CodeWalk'
    BY <1>5, <2>2, CopyCode
  <2> QED
    BY <1>4, <1>5, <2>1, <2>3
<1>6. CASE CopyRaw
  BY <1>5, <1>6 DEF CopyRaw
<1>7. CASE CopyLine
  BY <1>5, <1>7 DEF CopyLine
<1>8. CASE LineBlock
  <2>1. phase = "walk" /\ i <= Len(lines) /\ UNCHANGED <<source, hoist, lines, phase>>
    BY <1>8 DEF LineBlock
  <2>2. CodeWalk /\ i \in 1..Len(lines)
    BY <1>3, <2>1
  <2>3. CodeWalk'
    BY <1>8, <2>2, LineBlockCode
  <2> QED
    BY <1>4, <2>1, <2>3
<1>9. CASE BlockComment
  <2>1. phase = "walk" /\ i <= Len(lines) /\ UNCHANGED <<source, hoist, lines, phase>>
    BY <1>9 DEF BlockComment
  <2>2. CodeWalk /\ i \in 1..Len(lines)
    BY <1>3, <2>1
  <2>3. CodeWalk'
    BY <1>9, <2>2, BlockCommentCode
  <2> QED
    BY <1>4, <2>1, <2>3
<1>10. CASE Finish
  <2>1. phase = "walk" /\ phase' = "done" /\ i > Len(lines) /\ UNCHANGED <<source, mode, hoist, lines, i, inRaw, out, callsMade>>
    BY <1>10 DEF Finish
  <2>2. CodeWalk /\ CodeLines(lines) = CodeLines(source)
    BY <2>1 DEF CodeInv
  <2>3. Seen = lines
    <3>1. i \in 1..(Len(lines) + 1) /\ Len(lines) \in Nat /\ lines \in Seq(AnyLine)
      BY <2>2 DEF CodeWalk, CodeType
    <3>2. i - 1 = Len(lines)
      BY <2>1, <3>1
    <3> QED
      BY <3>1, <3>2, SubSeqFull DEF Seen
  <2>4. CodeLines(out) = CodeLines(source)
    BY <2>2, <2>3 DEF CodeWalk, SameCode, CodeLines
  <2>5. CodeType'
    BY <2>1, <2>2 DEF CodeWalk, CodeType
  <2> QED
    BY <2>1, <2>2, <2>4, <2>5 DEF CodeInv
<1>11. CASE UNCHANGED commentsVars
  <2>1. UNCHANGED <<source, hoist, lines, i, inRaw, out, phase>>
    BY <1>11 DEF commentsVars
  <2> QED
    BY <2>1 DEF CodeInv, CodeType, CodeWalk, SameCode, Seen, StateHere
<1> QED
  BY <1>1, <1>2, <1>6, <1>7, <1>8, <1>9, <1>10, <1>11 DEF CommentsNext

(***************************************************************************)
(* The comment stage changes no line of code and no line of a raw string,  *)
(* if comments stand on lines of their own.                                *)
(***************************************************************************)
THEOREM NoCodeTouched ==
  ASSUME \A file \in Files : OnOwnLines("code", file)
  PROVE  CommentsSpec => []CodeKept
<1>1. CommentsInit => CodeInv
  BY DEF CommentsInit, CodeInv
<1>2. CodeInv /\ [CommentsNext]_commentsVars => CodeInv'
  BY CodeInvStep
<1>3. CodeInv => CodeKept
  BY DEF CodeInv, CodeKept
<1> QED
  BY <1>1, <1>2, <1>3, PTL DEF CommentsSpec
=============================================================================
