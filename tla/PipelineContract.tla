-------------------------- MODULE PipelineContract --------------------------
(***************************************************************************)
(* What Pipeline.Format promises about one call, with no word on stages,   *)
(* registries, recorded states or the order of the work: the text the call *)
(* returns is a function of its input and of the number of passes allowed. *)
(***************************************************************************)
EXTENDS Integers

CONSTANTS
  Inputs,        \* texts a call may be made with
  Modes,         \* pipelines: records with a field limit, the passes allowed
  Pass(_, _),    \* mode, text: the text after one pass
  Less(_, _)     \* bytes.Compare

VARIABLES
  mode,          \* the configuration of the call
  doc,           \* its input while it is busy, then its result
  busy           \* the call has not returned

vars == <<mode, doc, busy>>

Orbit(m, x, n) ==
  LET o[k \in 0..n] == IF k = 0 THEN x ELSE Pass(m, o[k - 1])
  IN  o

(***************************************************************************)
(* A text settles within n passes when some text comes up twice; from then *)
(* on passes go round a cycle, which is a single text in the good case.    *)
(***************************************************************************)
Settles(m, x, n) ==
  LET o == Orbit(m, x, n)
  IN  \E i, j \in 0..n : i < j /\ o[i] = o[j]

Reachable(m, x, n) == {Orbit(m, x, n)[k] : k \in 0..n}

Least(texts) == CHOOSE t \in texts : \A u \in texts : u = t \/ Less(t, u)

(***************************************************************************)
(* The result: the least text of the cycle, or the last text if there were *)
(* not enough passes to see a cycle.  A single pass looks for none.        *)
(***************************************************************************)
Answer(m, x) ==
  LET last == Orbit(m, x, m.limit)[m.limit]
  IN  IF m.limit > 1 /\ Settles(m, x, m.limit)
        THEN Least(Reachable(m, last, m.limit))
        ELSE last

Init ==
  /\ mode \in Modes
  /\ doc \in Inputs
  /\ busy = FALSE

Call ==
  /\ ~busy
  /\ busy' = TRUE
  /\ mode' \in Modes
  /\ doc' \in Inputs

Return ==
  /\ busy
  /\ busy' = FALSE
  /\ doc' = Answer(mode, doc)
  /\ UNCHANGED mode

Next == Call \/ Return

Spec == Init /\ [][Next]_vars
=============================================================================
