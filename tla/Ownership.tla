----------------------------- MODULE Ownership -----------------------------
(***************************************************************************)
(* Stage ownership (formatter/ownership_registry.go, ownership_policy.go,  *)
(* ast/owned_spans.go): before a stage runs, the pipeline asks every stage *)
(* which spans of the current text it owns, and forbids the stage to edit  *)
(* the spans owned by the stages that run after it.                        *)
(*                                                                         *)
(* The operators are the registry's methods.  The state machine is the     *)
(* loop of BuildOwnershipRegistry, one action per way a turn can go.       *)
(***************************************************************************)
EXTENDS OffsetSpans

CONSTANTS
  Stages,     \* the pipeline: a sequence of stage names, NoFormatter, Unowning
  TextLen,    \* the length of the text the registry is built for
  Provides,   \* Provides[name]: the span lists the stage may own in the text
  NoName      \* the empty stage name

ASSUME StagesAssumption ==
  /\ Stages \in Seq(ToSet(Stages))
  /\ NoName \notin ToSet(Stages)
  /\ \A i, j \in DOMAIN Stages : Stages[i] = Stages[j] => i = j

ASSUME SpansAssumption ==
  /\ TextLen \in Nat
  /\ \A name \in ToSet(Stages) : Provides[name] \subseteq Seq(SpansOf(TextLen))

newOwnershipRegistry ==
  [allOwned |-> EmptySpanSet, byStage |-> <<>>, stageList |-> <<>>]

(***************************************************************************)
(* add: a name that is known already keeps its place in the stage list and *)
(* gains the spans, a new one is appended.                                 *)
(***************************************************************************)
add(reg, name, spans) ==
  LET known == name \in DOMAIN reg.byStage
      all   == IF known THEN SpanSetUnion(reg.byStage[name], spans) ELSE spans
  IN  [allOwned  |-> SpanSetUnion(reg.allOwned, all),
       byStage   |-> [n \in DOMAIN reg.byStage \cup {name} |->
                        IF n = name THEN all ELSE reg.byStage[n]],
       stageList |-> IF known THEN reg.stageList ELSE Append(reg.stageList, name)]

UnionOf(reg, names) ==
  LET upTo[n \in 0..Len(names)] ==
        IF n = 0 THEN EmptySpanSet
                 ELSE SpanSetUnion(upTo[n - 1], reg.byStage[names[n]])
  IN  upTo[Len(names)]

AllOwnedExcept(reg, name) ==
  IF name = NoName
    THEN reg.allOwned
    ELSE UnionOf(reg, Selected(reg.stageList, ToSet(reg.stageList) \ {name}))

\* Mutant: a stage's own spans are forbidden to it.
AllOwnedFrom(reg, name) ==
  LET idx == SelectInSeq(reg.stageList, LAMBDA n : n = name)
  IN  IF name = NoName \/ idx = 0
        THEN reg.allOwned
        ELSE UnionOf(reg, SubSeq(reg.stageList, idx, Len(reg.stageList)))

(***************************************************************************)
(* AllOwnedAfter: what the stages listed after the first entry of this     *)
(* name own; everything when the name is empty or not listed.              *)
(***************************************************************************)
AllOwnedAfter(reg, name) ==
  LET idx == SelectInSeq(reg.stageList, LAMBDA n : n = name)
  IN  IF name = NoName \/ idx = 0
        THEN reg.allOwned
        ELSE UnionOf(reg, SubSeq(reg.stageList, idx + 1, Len(reg.stageList)))

(***************************************************************************)
(* OwnershipPolicy.ForbiddenSpans.  The policy's empty name is the one of  *)
(* AllOwnedAfter, and a pipeline without ownership has no registry.        *)
(***************************************************************************)
ForbiddenSpans(reg, name) ==
  IF name = NoName THEN reg.allOwned ELSE AllOwnedAfter(reg, name)

-----------------------------------------------------------------------------
VARIABLES
  reg,        \* the registry under construction
  turn,       \* the stage the loop is at
  declared    \* observer: the raw span list each stage visited so far gave

vars == <<reg, turn, declared>>

Init ==
  /\ reg = newOwnershipRegistry
  /\ turn = 1
  /\ declared = <<>>

(***************************************************************************)
(* A stage without a formatter, or whose formatter declares no ownership,  *)
(* is passed over and does not enter the stage list.                       *)
(***************************************************************************)
SkipStage ==
  /\ turn <= Len(Stages)
  /\ Provides[Stages[turn]] = {}
  /\ declared' = Append(declared, <<>>)
  /\ turn' = turn + 1
  /\ UNCHANGED reg

AddStage ==
  /\ turn <= Len(Stages)
  /\ \E raw \in Provides[Stages[turn]] :
       /\ reg' = add(reg, Stages[turn], NewOffsetSpanSet(raw))
       /\ declared' = Append(declared, raw)
  /\ turn' = turn + 1

Next == SkipStage \/ AddStage

Spec == Init /\ [][Next]_vars

-----------------------------------------------------------------------------
DeclaredOffsets(positions) ==
  UNION {Offsets(declared[i]) : i \in positions \cap DOMAIN declared}

(***************************************************************************)
(* The two queries of a span set built by any sequence of merges answer    *)
(* exactly for the bytes that were declared: an edit is refused when it    *)
(* touches an owned byte (or inserts in front of one) and only then.       *)
(***************************************************************************)
QueriesExact ==
  LET owned == DeclaredOffsets(DOMAIN declared)
  IN  \A s, e \in 0..TextLen : s <= e =>
        (editOverlapsForbidden(reg.allOwned, s, e)
           <=> IF s = e THEN s \in owned ELSE (s .. (e - 1)) \cap owned # {})

(***************************************************************************)
(* Directional ownership: a stage that is in the list may touch any byte   *)
(* except those declared by the stages that run after it, also when spans  *)
(* of earlier and later stages overlap and have been merged in allOwned.   *)
(* A stage that owns nothing is not in the list: it is unknown to the      *)
(* registry and is kept away from every owned byte, those of earlier       *)
(* stages included.  AllOwnedExcept leaves out the stage's own bytes only. *)
(***************************************************************************)
ForbidsExactlyLater ==
  \A i \in 1..(turn - 1) :
    /\ Offsets(ForbiddenSpans(reg, Stages[i]))
         = IF Stages[i] \in DOMAIN reg.byStage
             THEN DeclaredOffsets((i + 1)..Len(Stages))
             ELSE DeclaredOffsets(DOMAIN declared)
    /\ Offsets(AllOwnedExcept(reg, Stages[i])) = DeclaredOffsets(DOMAIN declared \ {i})
=============================================================================
