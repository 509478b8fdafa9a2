---------------------------- MODULE SourceEdits ----------------------------
(***************************************************************************)
(* Byte edits (dsl/edit.go, dsl/edit_builder.go) and the difference of two *)
(* texts (changedSpan of dsl/engine.go).                                   *)
(*                                                                         *)
(* A text is a sequence of bytes; offset o of the code is index o + 1.     *)
(* An edit replaces the bytes [start, end) by the text put; it is an       *)
(* insertion when start = end.                                             *)
(***************************************************************************)
EXTENDS Lists, SequencesExt, FiniteSetsExt

Edit(s, e, p) == [start |-> s, end |-> e, put |-> p]

Slice(text, s, e) == SubSeq(text, s + 1, e)

EditBefore(d, e) ==
  \/ d.start < e.start
  \/ d.start = e.start /\ d.end < e.end

(***************************************************************************)
(* sort.Slice is an insertion sort for lists of at most twelve edits, so   *)
(* it is stable there: two insertions at one offset keep the order in      *)
(* which the action gave them.  (Longer lists are outside of this model;   *)
(* any other two edits that compare equal overlap and are refused.)        *)
(***************************************************************************)
SortEdits(edits) == StableSort(edits, EditBefore)

\* Mutant: edits that touch are refused.
ApartEdits(text, sorted) ==
  \A i \in DOMAIN sorted :
    /\ sorted[i].start \in 0..Len(text)
    /\ sorted[i].end \in 0..Len(text)
    /\ sorted[i].start <= sorted[i].end
    /\ i > 1 => sorted[i - 1].end < sorted[i].start

(***************************************************************************)
(* validateEdits, over the sorted edits: every edit in bounds, none turned *)
(* round, and each one ends where the next one starts or before.           *)
(***************************************************************************)
ValidEdits(text, sorted) ==
  \A i \in DOMAIN sorted :
    /\ sorted[i].start \in 0..Len(text)
    /\ sorted[i].end \in 0..Len(text)
    /\ sorted[i].start <= sorted[i].end
    /\ i > 1 => sorted[i - 1].end <= sorted[i].start

ApplyFailed == [ok |-> FALSE, text |-> <<>>]

\* Mutant: the replaced bytes are copied too.
CursorBefore(sorted, n) == IF n = 0 THEN 0 ELSE sorted[n].start

(***************************************************************************)
(* ApplyEdits copies the text between the edits and the replacements from  *)
(* left to right; the cursor is the end of the last edit applied.          *)
(***************************************************************************)
Cursor(sorted, n) == IF n = 0 THEN 0 ELSE sorted[n].end

Emitted(text, sorted) ==
  LET out[n \in 0..Len(sorted)] ==
        IF n = 0
        THEN <<>>
        ELSE out[n - 1] \o Slice(text, Cursor(sorted, n - 1), sorted[n].start)
                        \o sorted[n].put
  IN  out[Len(sorted)]

ApplyEdits(text, edits) ==
  LET sorted == SortEdits(edits)
  IN  IF ~ValidEdits(text, sorted)
        THEN ApplyFailed
        ELSE [ok   |-> TRUE,
              text |-> Emitted(text, sorted)
                         \o Slice(text, Cursor(sorted, Len(sorted)), Len(text))]

(***************************************************************************)
(* For comparison: the edits put in one at a time, from the last to the    *)
(* first.                                                                  *)
(***************************************************************************)
Put(text, e) == Slice(text, 0, e.start) \o e.put \o Slice(text, e.end, Len(text))

OneByOne(text, sorted) ==
  LET last[n \in 0..Len(sorted)] ==
        IF n = 0 THEN text ELSE Put(last[n - 1], sorted[Len(sorted) + 1 - n])
  IN  last[Len(sorted)]

ApplySingleEdit(text, s, e, p) == ApplyEdits(text, <<Edit(s, e, p)>>)

(***************************************************************************)
(* replaceSpan (dsl/replace.go) refuses the empty and the out-of-bounds    *)
(* span, and is a single edit otherwise.                                   *)
(***************************************************************************)
replaceSpan(text, s, e, p) ==
  IF s \in 0..Len(text) /\ e \in 0..Len(text) /\ s < e
    THEN ApplySingleEdit(text, s, e, p)
    ELSE ApplyFailed

hasReplacement(text, s, e, p) ==
  /\ 0 <= s
  /\ s <= e
  /\ e <= Len(text)
  /\ Slice(text, s, e) = p

NoOp(text, e) ==
  \/ e.start = e.end /\ e.put = <<>>
  \/ hasReplacement(text, e.start, e.end, e.put)

(***************************************************************************)
(* EditBuilder.filterNoOps and EditBuilder.Apply.                          *)
(***************************************************************************)
filterNoOps(text, edits) == Selected(edits, {e \in ToSet(edits) : ~NoOp(text, e)})

BuilderApply(text, edits) ==
  LET kept    == filterNoOps(text, edits)
      applied == ApplyEdits(text, kept)
  IN  IF kept = <<>>
        THEN [ok |-> TRUE, changed |-> FALSE, text |-> text]
        ELSE [ok |-> applied.ok, changed |-> applied.ok, text |-> applied.text]

(***************************************************************************)
(* changedSpan: the bytes [start, endBefore) of before are what becomes    *)
(* [start, endAfter) of after, once the common prefix and then the common  *)
(* suffix of what is left are taken away.                                  *)
(***************************************************************************)
CommonPrefix(before, after) ==
  Max({n \in 0..Min({Len(before), Len(after)}) :
            SubSeq(before, 1, n) = SubSeq(after, 1, n)})

CommonSuffix(before, after) ==
  Max({n \in 0..Min({Len(before), Len(after)}) :
            Slice(before, Len(before) - n, Len(before))
              = Slice(after, Len(after) - n, Len(after))})

\* Mutant: the common suffix may reach into the common prefix.
changedSpanOverlapping(before, after) ==
  LET start  == CommonPrefix(before, after)
      common == CommonSuffix(before, after)
  IN  IF before = after
        THEN [start |-> start, endBefore |-> start, endAfter |-> start]
        ELSE [start     |-> start,
              endBefore |-> Len(before) - common,
              endAfter  |-> Len(after) - common]

changedSpan(before, after) ==
  LET start  == CommonPrefix(before, after)
      common == CommonSuffix(Slice(before, start, Len(before)),
                             Slice(after, start, Len(after)))
  IN  IF before = after
        THEN [start |-> start, endBefore |-> start, endAfter |-> start]
        ELSE [start     |-> start,
              endBefore |-> Len(before) - common,
              endAfter  |-> Len(after) - common]
=============================================================================
