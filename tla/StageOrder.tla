----------------------------- MODULE StageOrder -----------------------------
(***************************************************************************)
(* StageOrder (formatter/stage.go): Kahn's algorithm over the stages and   *)
(* the stages each of them requires, with a queue of the stages that are   *)
(* ready.  A stage may name a requirement twice; each mention counts.      *)
(***************************************************************************)
EXTENDS Lists, SequencesExt

CONSTANTS
  StageLists,     \* sequences of [name, requires]
  NoName          \* the empty name

VARIABLES
  stages,     \* the argument
  inDegree,   \* name to the requirements not met yet
  ready,      \* names whose requirements are all met, first in first out
  out,        \* names in the order found
  sorting,    \* "check", "sort", "done" or "error"
  why         \* the error: "empty", "duplicate", "missing", "cycle" or "none"

sortVars == <<stages, inDegree, ready, out, sorting, why>>

NameAt(s) == stages[s].name

Names == {NameAt(s) : s \in DOMAIN stages}

order == [s \in DOMAIN stages |-> NameAt(s)]

stageMap == [n \in Names |-> CHOOSE st \in ToSet(stages) : st.name = n]

\* Mutant: a requirement named twice is counted once.
MentionsOnce(n, req) == IF req \in ToSet(stageMap[n].requires) THEN 1 ELSE 0

(***************************************************************************)
(* How often a stage requires another: its share in the in-degree, and the *)
(* number of times it stands among the dependents.                         *)
(***************************************************************************)
Mentions(n, req) ==
  Cardinality({j \in DOMAIN stageMap[n].requires : stageMap[n].requires[j] = req})

SortInit ==
  /\ stages \in StageLists
  /\ inDegree = <<>>
  /\ ready = <<>>
  /\ out = <<>>
  /\ sorting = "check"
  /\ why = "none"

Fail(reason) ==
  /\ sorting' = "error"
  /\ why' = reason
  /\ UNCHANGED <<stages, inDegree, ready, out>>

(***************************************************************************)
(* buildStageMap: the first stage that has no name or a name seen before.  *)
(***************************************************************************)
Unnamed(s) == NameAt(s) = NoName

Repeated(s) == \E r \in 1..(s - 1) : NameAt(r) = NameAt(s)

BadName ==
  /\ sorting = "check"
  /\ \E s \in DOMAIN stages :
       /\ Unnamed(s) \/ Repeated(s)
       /\ \A r \in 1..(s - 1) : ~Unnamed(r) /\ ~Repeated(r)
       /\ Fail(IF Unnamed(s) THEN "empty" ELSE "duplicate")

NamesOK == \A s \in DOMAIN stages : ~Unnamed(s) /\ ~Repeated(s)

(***************************************************************************)
(* buildDependencies.                                                      *)
(***************************************************************************)
MissingRequirement ==
  /\ sorting = "check"
  /\ NamesOK
  /\ \E s \in DOMAIN stages : ~(ToSet(stages[s].requires) \subseteq Names)
  /\ Fail("missing")

(***************************************************************************)
(* buildDependencies and initialReady.                                     *)
(***************************************************************************)
Start ==
  /\ sorting = "check"
  /\ NamesOK
  /\ \A s \in DOMAIN stages : ToSet(stages[s].requires) \subseteq Names
  /\ inDegree' = [n \in Names |-> Len(stageMap[n].requires)]
  /\ ready' = Selected(order, {n \in Names : stageMap[n].requires = <<>>})
  /\ sorting' = "sort"
  /\ UNCHANGED <<stages, out, why>>

(***************************************************************************)
(* One turn of the loop: the dependents of a stage stand in the order of   *)
(* the list, and become ready with the last of their requirements.         *)
(***************************************************************************)
Pop ==
  /\ sorting = "sort"
  /\ ready # <<>>
  /\ LET name == Head(ready)
         met  == {n \in Names : /\ Mentions(n, name) > 0
                                /\ inDegree[n] = Mentions(n, name)}
     IN  /\ out' = Append(out, name)
         /\ inDegree' = [n \in Names |-> inDegree[n] - Mentions(n, name)]
         /\ ready' = Tail(ready) \o Selected(order, met)
  /\ UNCHANGED <<stages, sorting, why>>

Return ==
  /\ sorting = "sort"
  /\ ready = <<>>
  /\ Len(out) = Len(stages)
  /\ sorting' = "done"
  /\ UNCHANGED <<stages, inDegree, ready, out, why>>

CycleFound ==
  /\ sorting = "sort"
  /\ ready = <<>>
  /\ Len(out) # Len(stages)
  /\ Fail("cycle")

Returned == sorting \in {"done", "error"} /\ UNCHANGED sortVars

SortNext ==
  \/ BadName
  \/ MissingRequirement
  \/ Start
  \/ Pop
  \/ Return
  \/ CycleFound
  \/ Returned

SortSpec == SortInit /\ [][SortNext]_sortVars

-----------------------------------------------------------------------------
Requires(n) == ToSet(stageMap[n].requires)

(***************************************************************************)
(* The order returned has every stage once, each behind all it requires.   *)
(***************************************************************************)
InOrder(list) ==
  \A x \in DOMAIN list : Requires(list[x]) \subseteq {list[y] : y \in 1..(x - 1)}

OrderIsTopological ==
  sorting = "done" =>
    /\ ToSet(out) = Names
    /\ IsInjective(out)
    /\ InOrder(out)

(***************************************************************************)
(* A cycle is reported only if no order of the stages respects what they   *)
(* require.                                                                *)
(***************************************************************************)
Orders == {f \in [1..Len(stages) -> Names] : IsInjective(f)}

CycleIsReal == why = "cycle" => \A f \in Orders : ~InOrder(f)

(***************************************************************************)
(* The two together: a list that can be put in order is, and only a list   *)
(* that cannot is refused as a cycle, also when a requirement is named     *)
(* twice or stages stand before what they require.                         *)
(***************************************************************************)
SortedUnlessCyclic == OrderIsTopological /\ CycleIsReal
=============================================================================
