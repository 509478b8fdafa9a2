---------------------------- MODULE EditBuilder ----------------------------
(***************************************************************************)
(* The life of an EditBuilder (dsl/edit_builder.go): an action of the rule *)
(* engine collects replacements, insertions and deletions in any order     *)
(* against one text, then applies them in one validated pass.              *)
(***************************************************************************)
EXTENDS SourceEdits

CONSTANTS
  Sources,     \* the texts a builder may be used on
  Contents,    \* the texts it may put in
  MaxEdits     \* bound on the number of edits collected

ASSUME TextsAssumption ==
  \A t \in Sources \cup Contents : t \in Seq(ToSet(t))

VARIABLES
  src,         \* the text the offsets refer to
  edits,       \* the edits collected so far
  result       \* what Apply returned, or NotApplied

builderVars == <<src, edits, result>>

NotApplied == [ok |-> TRUE, changed |-> FALSE, text |-> <<>>, done |-> FALSE]

Spans == {p \in (0..Len(src)) \X (0..Len(src)) : p[1] <= p[2]}

BuilderInit ==
  /\ src \in Sources
  /\ edits = <<>>
  /\ result = NotApplied

Collect(e) ==
  /\ ~result.done
  /\ Len(edits) < MaxEdits
  /\ edits' = Append(edits, e)
  /\ UNCHANGED <<src, result>>

Replace ==
  \E p \in Spans, c \in Contents \ {<<>>} :
    p[1] < p[2] /\ Collect(Edit(p[1], p[2], c))

Insert == \E pos \in 0..Len(src), c \in Contents : Collect(Edit(pos, pos, c))

Delete == \E p \in Spans : p[1] < p[2] /\ Collect(Edit(p[1], p[2], <<>>))

Apply ==
  /\ ~result.done
  /\ LET r == BuilderApply(src, edits)
     IN  result' = [ok |-> r.ok, changed |-> r.changed, text |-> r.text, done |-> TRUE]
  /\ UNCHANGED <<src, edits>>

BuilderNext == Replace \/ Insert \/ Delete \/ Apply

BuilderSpec == BuilderInit /\ [][BuilderNext]_builderVars

-----------------------------------------------------------------------------
Kept == filterNoOps(src, edits)

(***************************************************************************)
(* Two edits conflict when they replace a common byte, or one inserts      *)
(* strictly inside what the other replaces.                                *)
(***************************************************************************)
Conflict(d, e) ==
  /\ d.start < e.end /\ e.start < d.end
  /\ d.start = d.end => e.start < d.start
  /\ e.start = e.end => d.start < e.start

(***************************************************************************)
(* ApplyEdits refuses a list exactly when two of its edits conflict, in    *)
(* whatever order they were collected: comparing only neighbours of the    *)
(* sorted list misses no pair.                                             *)
(***************************************************************************)
RefusesExactlyConflicts ==
  result.done =>
    (result.ok <=> \A i, j \in DOMAIN Kept : i # j => ~Conflict(Kept[i], Kept[j]))

(***************************************************************************)
(* The single left-to-right pass gives what applying the edits one at a    *)
(* time from the last to the first gives, where no edit moves the bytes    *)
(* another one refers to: offsets never slip.                              *)
(***************************************************************************)
AppliesAsIfOneByOne ==
  result.done /\ result.ok => result.text = OneByOne(src, SortEdits(Kept))

(***************************************************************************)
(* changedSpan of the result is a correct and smallest difference: putting *)
(* its bytes of the result into the source gives the result, no shorter    *)
(* span of the source would do, and it never begins before the first edit. *)
(* (It may end behind the last one: among equal bytes the difference       *)
(* slides to the right.)                                                   *)
(***************************************************************************)
Patch(s, c, e) ==
  Slice(src, 0, s) \o Slice(result.text, s, c) \o Slice(src, e, Len(src))

ChangedSpanExact ==
  result.done /\ result.ok =>
    LET d == changedSpan(src, result.text)
    IN  /\ Patch(d.start, d.endAfter, d.endBefore) = result.text
        /\ \A p \in Spans, c \in 0..Len(result.text) :
             p[1] <= c /\ Patch(p[1], c, p[2]) = result.text
               => p[2] - p[1] >= d.endBefore - d.start
        /\ result.changed => d.start >= Min({Kept[i].start : i \in DOMAIN Kept})
=============================================================================
