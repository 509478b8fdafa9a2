--------------------------- MODULE FormatGlobals ---------------------------
(***************************************************************************)
(* The package variables of the call packers                               *)
(* (formatter/compact_call_formatter.go) and the mutex that guards them,   *)
(* used by any number of goroutines.                                       *)
(*                                                                         *)
(* The helpers that pack a call read their limits, targets and options     *)
(* from package variables.  Each exported entry point takes the mutex,     *)
(* assigns the variables it knows of, works, and puts some of them back;   *)
(* the mutex is released by a deferred call, also if a helper panics, but  *)
(* nothing is put back then.  One exported helper, the one for composite   *)
(* literals, reads the variables without the mutex.                        *)
(*                                                                         *)
(* The text that is formatted is left out: what a call returns depends on  *)
(* the values it reads.  "fallback" stands for the three variables of the  *)
(* fallback for calls that are no targets, assigned one after the other.   *)
(***************************************************************************)
EXTENDS Integers, Sequences, SequencesExt

CONSTANTS
  Threads,
  Requests,        \* [op, set]: an entry point and the settings it is given
  DefaultTargets,  \* defaultTargets()
  MaxCalls,        \* bound: the calls begun by all threads
  Nobody,
  NoCall

Vars == {"limit", "tab", "fallback", "skipGofmt", "targets"}

Ops == {"file", "default", "greedy", "packed", "literal"}

NoTargets == {}

ASSUME GlobalsAssumption ==
  /\ Nobody \notin Threads
  /\ NoCall \notin Requests
  /\ MaxCalls \in Nat
  /\ \A c \in Requests : c.op \in Ops /\ DOMAIN c.set = Vars

VARIABLES
  mu,        \* formatGlobalsMu: its holder
  globals,   \* the package variables
  call,      \* the request of each thread
  pc,        \* "idle", "lock", "assign", "work", "restore" or "unlock"
  todo,      \* the variables a thread has still to assign or to put back
  old,       \* the variables as saved by the thread
  read,      \* the values the call has read, by variable
  calls,     \* calls begun
  entry      \* observer: the variables when the mutex was taken last

vars == <<mu, globals, call, pc, todo, old, read, calls, entry>>

-----------------------------------------------------------------------------
(***************************************************************************)
(* The settings a constructor makes of a configuration: a limit that is    *)
(* not positive and an empty list of targets give way to the defaults.     *)
(***************************************************************************)
NewCompactCallFormatter(set) ==
  [set EXCEPT !.limit   = IF @ <= 0 THEN 80 ELSE @,
              !.tab     = IF @ <= 0 THEN 8 ELSE @,
              !.targets = IF @ = NoTargets THEN DefaultTargets ELSE @]

(***************************************************************************)
(* What each entry point assigns after taking the mutex, in this order,    *)
(* and the values.                                                         *)
(***************************************************************************)
Assigned(c) ==
  CASE c.op = "file"    -> <<"limit", "tab", "fallback", "skipGofmt", "targets">>
    [] c.op = "default" -> <<"limit", "tab", "targets">>
    [] c.op = "greedy"  -> <<"limit", "tab", "targets">>
    [] c.op = "packed"  -> <<"limit", "tab">>
    [] c.op = "literal" -> <<>>

Setting(c) ==
  CASE c.op = "file"    -> NewCompactCallFormatter(c.set)
    [] c.op = "default" -> [c.set EXCEPT !.limit = 80, !.tab = 8, !.targets = DefaultTargets]
    [] c.op = "greedy"  -> [c.set EXCEPT !.targets = DefaultTargets]
    [] OTHER            -> c.set

\* Mutant: the targets are not put back.
RestoredLimits(c) == IF c.op \in {"greedy", "packed"} THEN <<"limit", "tab">> ELSE <<>>

Restored(c) == IF c.op \in {"greedy", "packed"} THEN Assigned(c) ELSE <<>>

Guarded(c) == c.op # "literal"

ReadVars(c) ==
  CASE c.op \in {"file", "default"}   -> Vars
    [] c.op = "greedy"                -> {"limit", "tab", "targets"}
    [] c.op \in {"packed", "literal"} -> {"limit", "tab"}

-----------------------------------------------------------------------------
Nothing == [v \in Vars |-> {}]

(***************************************************************************)
(* The variables as the package is initialised.                            *)
(***************************************************************************)
Initial ==
  [limit |-> 80, tab |-> 8, fallback |-> FALSE, skipGofmt |-> FALSE, targets |-> NoTargets]

Init ==
  /\ mu = Nobody
  /\ globals = Initial
  /\ call = [t \in Threads |-> NoCall]
  /\ pc = [t \in Threads |-> "idle"]
  /\ todo = [t \in Threads |-> <<>>]
  /\ old = [t \in Threads |-> Initial]
  /\ read = [t \in Threads |-> Nothing]
  /\ calls = 0
  /\ entry = Initial

Goto(t, label) == pc' = [pc EXCEPT ![t] = label]

Begin(t) ==
  /\ pc[t] = "idle"
  /\ calls < MaxCalls
  /\ calls' = calls + 1
  /\ \E c \in Requests :
       /\ call' = [call EXCEPT ![t] = c]
       /\ Goto(t, IF Guarded(c) THEN "lock" ELSE "work")
  /\ UNCHANGED <<mu, globals, todo, old, read, entry>>

\* Mutant: the mutex is not waited for.
LockAnyway(t) ==
  /\ pc[t] = "lock"
  /\ mu' = t
  /\ entry' = globals
  /\ old' = [old EXCEPT ![t] = IF Restored(call[t]) # <<>> THEN globals ELSE @]
  /\ todo' = [todo EXCEPT ![t] = Assigned(call[t])]
  /\ Goto(t, "assign")
  /\ UNCHANGED <<globals, call, read, calls>>

(***************************************************************************)
(* The mutex is taken, and the packers save what they are going to assign. *)
(***************************************************************************)
Lock(t) ==
  /\ pc[t] = "lock"
  /\ mu = Nobody
  /\ mu' = t
  /\ entry' = globals
  /\ old' = [old EXCEPT ![t] = IF Restored(call[t]) # <<>> THEN globals ELSE @]
  /\ todo' = [todo EXCEPT ![t] = Assigned(call[t])]
  /\ Goto(t, "assign")
  /\ UNCHANGED <<globals, call, read, calls>>

(***************************************************************************)
(* One assignment; a formatter does not assign a limit that is not         *)
(* positive.                                                               *)
(***************************************************************************)
Assign(t) ==
  /\ pc[t] = "assign"
  /\ todo[t] # <<>>
  /\ LET v == Head(todo[t])
         x == Setting(call[t])[v]
         skipped == call[t].op = "file" /\ v \in {"limit", "tab"} /\ x <= 0
     IN  globals' = [globals EXCEPT ![v] = IF skipped THEN @ ELSE x]
  /\ todo' = [todo EXCEPT ![t] = Tail(@)]
  /\ UNCHANGED <<mu, call, pc, old, read, calls, entry>>

StartWork(t) ==
  /\ pc[t] = "assign"
  /\ todo[t] = <<>>
  /\ Goto(t, "work")
  /\ UNCHANGED <<mu, globals, call, todo, old, read, calls, entry>>

(***************************************************************************)
(* A helper reads a variable.  Reads that show nothing new are left out.   *)
(***************************************************************************)
Read(t) ==
  /\ pc[t] = "work"
  /\ \E v \in ReadVars(call[t]) :
       /\ globals[v] \notin read[t][v]
       /\ read' = [read EXCEPT ![t][v] = @ \cup {globals[v]}]
  /\ UNCHANGED <<mu, globals, call, pc, todo, old, calls, entry>>

(***************************************************************************)
(* The call returns and its local variables are gone.                      *)
(***************************************************************************)
Return(t) ==
  /\ call' = [call EXCEPT ![t] = NoCall]
  /\ read' = [read EXCEPT ![t] = Nothing]
  /\ old' = [old EXCEPT ![t] = Initial]
  /\ Goto(t, "idle")

EndWork(t) ==
  /\ pc[t] = "work"
  /\ IF Guarded(call[t])
       THEN /\ todo' = [todo EXCEPT ![t] = Restored(call[t])]
            /\ Goto(t, "restore")
            /\ UNCHANGED <<call, read, old>>
       ELSE /\ Return(t)
            /\ UNCHANGED todo
  /\ UNCHANGED <<mu, globals, calls, entry>>

(***************************************************************************)
(* A helper panics: the deferred unlock runs, the assignments behind the   *)
(* call of the helper do not.                                              *)
(***************************************************************************)
Panic(t) ==
  /\ pc[t] = "work"
  /\ Guarded(call[t])
  /\ Goto(t, "unlock")
  /\ UNCHANGED <<mu, globals, call, todo, old, read, calls, entry>>

Restore(t) ==
  /\ pc[t] = "restore"
  /\ todo[t] # <<>>
  /\ globals' = [globals EXCEPT ![Head(todo[t])] = old[t][Head(todo[t])]]
  /\ todo' = [todo EXCEPT ![t] = Tail(@)]
  /\ UNCHANGED <<mu, call, pc, old, read, calls, entry>>

\* Mutant: the mutex stays taken after a panic.
UnlockOnReturn(t) ==
  /\ pc[t] = "restore"
  /\ todo[t] = <<>>
  /\ mu' = Nobody
  /\ entry' = Initial
  /\ Return(t)
  /\ UNCHANGED <<globals, todo, calls>>

Unlock(t) ==
  /\ \/ pc[t] = "restore" /\ todo[t] = <<>>
     \/ pc[t] = "unlock"
  /\ mu' = Nobody
  /\ entry' = Initial
  /\ Return(t)
  /\ UNCHANGED <<globals, todo, calls>>

Work(t) ==
  Assign(t) \/ StartWork(t) \/ Read(t) \/ EndWork(t) \/ Panic(t) \/ Restore(t) \/ Unlock(t)

Next == \E t \in Threads : Begin(t) \/ Lock(t) \/ Work(t)

(***************************************************************************)
(* A goroutine that can run is run, and sync.Mutex hands itself to a       *)
(* waiter that others keep overtaking: a thread that finds it free again   *)
(* and again takes it at last.  Nobody has to make a call.                 *)
(***************************************************************************)
Spec ==
  /\ Init
  /\ [][Next]_vars
  /\ \A t \in Threads : WF_vars(Work(t)) /\ SF_vars(Lock(t))

-----------------------------------------------------------------------------
(***************************************************************************)
(* A call works with the settings it was given, whatever other calls run   *)
(* at the same time, ran before or broke off: of the variables it assigns  *)
(* it reads no other value, and of the others only the one it found.       *)
(***************************************************************************)
With(c, g, names) == [v \in Vars |-> IF v \in ToSet(names) THEN Setting(c)[v] ELSE g[v]]

OwnSettings ==
  \A t \in Threads, v \in Vars :
    mu = t => read[t][v] \subseteq {With(call[t], entry, Assigned(call[t]))[v]}

(***************************************************************************)
(* Every call returns: nobody keeps the mutex, also after a panic.         *)
(***************************************************************************)
EveryCallReturns == \A t \in Threads : (pc[t] # "idle") ~> (pc[t] = "idle")

(***************************************************************************)
(* Guarded calls are serial (SerialCalls).                                 *)
(***************************************************************************)
Serial ==
  INSTANCE SerialCalls
    WITH Calls    <- Requests,
         Left     <- LAMBDA c, g : IF Restored(c) = <<>> THEN {With(c, g, Assigned(c))}
                                   ELSE {g, With(c, g, Assigned(c))},
         standing <- IF mu = Nobody THEN globals ELSE entry,
         pending  <- call

Implements == Serial!Spec
=============================================================================
