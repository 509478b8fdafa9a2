-------------------------- MODULE RewriteContract --------------------------
(***************************************************************************)
(* What a formatting stage promises the pipeline about one call: a text is *)
(* replaced finitely often; a replacement parses if the text it replaces   *)
(* does, and it is within the limits, which are measured from the input;   *)
(* after the end of the call nothing changes.                              *)
(***************************************************************************)
EXTENDS Integers, Sequences

CONSTANTS
  Inputs,       \* texts a call may be made with
  Parses(_)     \* the parser reports no syntax error

VARIABLES
  limits,       \* [maxOutputBytes, maxBytesIncrease], zero for no limit
  input,        \* the text of the call
  doc,          \* the text now
  fuel,         \* replacements left
  open          \* the call has not returned

vars == <<limits, input, doc, fuel, open>>

WithinLimits(t) ==
  /\ limits.maxOutputBytes = 0 \/ Len(t) <= limits.maxOutputBytes
  /\ limits.maxBytesIncrease = 0 \/ Len(t) <= Len(input) + limits.maxBytesIncrease

Init ==
  /\ input \in Inputs
  /\ doc = input
  /\ fuel \in Nat \ {0}
  /\ open = TRUE

(***************************************************************************)
(* A replacement may be the last thing the call does.                      *)
(***************************************************************************)
Replace ==
  /\ open
  /\ fuel > 0
  /\ fuel' = fuel - 1
  /\ Parses(doc) => Parses(doc')
  /\ WithinLimits(doc')
  /\ open' \in BOOLEAN
  /\ UNCHANGED <<limits, input>>

Return ==
  /\ open
  /\ open' = FALSE
  /\ UNCHANGED <<limits, input, doc, fuel>>

Next == Replace \/ Return

Spec == Init /\ [][Next]_vars
=============================================================================
