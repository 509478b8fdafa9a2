---------------------------- MODULE SerialCalls ----------------------------
(***************************************************************************)
(* What the mutex of the package variables promises: a guarded call takes  *)
(* place in one step, from the settings that stand between calls to those  *)
(* it leaves.  Calls that do not take the mutex change nothing.            *)
(***************************************************************************)
CONSTANTS
  Threads,
  Calls,            \* the calls a thread may make
  NoCall,
  Initial,          \* the settings at the start
  Guarded(_),       \* call: it takes the mutex
  Left(_, _)        \* call, standing settings: the settings it may leave

VARIABLES
  standing,         \* the settings between guarded calls
  pending           \* the call each thread is making

vars == <<standing, pending>>

Init ==
  /\ standing = Initial
  /\ pending = [t \in Threads |-> NoCall]

Begin(t) ==
  /\ pending[t] = NoCall
  /\ \E c \in Calls : pending' = [pending EXCEPT ![t] = c]
  /\ UNCHANGED standing

GuardedCall(t) ==
  /\ pending[t] # NoCall
  /\ Guarded(pending[t])
  /\ standing' \in Left(pending[t], standing)
  /\ pending' = [pending EXCEPT ![t] = NoCall]

UnguardedCall(t) ==
  /\ pending[t] # NoCall
  /\ ~Guarded(pending[t])
  /\ pending' = [pending EXCEPT ![t] = NoCall]
  /\ UNCHANGED standing

Next == \E t \in Threads : Begin(t) \/ GuardedCall(t) \/ UnguardedCall(t)

Spec == Init /\ [][Next]_vars
=============================================================================
