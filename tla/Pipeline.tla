------------------------------ MODULE Pipeline ------------------------------
(***************************************************************************)
(* Pipeline.Format (formatter/pipeline.go), called any number of times on  *)
(* the same stages: the fixpoint search over full passes, the run of the   *)
(* stages inside a pass with the ownership registry each of them is given, *)
(* and gofmt after the pass.                                               *)
(*                                                                         *)
(* A stage formatter keeps the registry it was last given between calls;   *)
(* it is the only state that outlives a call.  gofmt, the order of byte    *)
(* strings, the registry of a text and what the stages do are parameters.  *)
(***************************************************************************)
EXTENDS Integers, Sequences, SequencesExt

CONSTANTS
  Inputs,              \* texts given to Format
  Configs,             \* [maxIterations, owned]: MaxPipelineIterations and
                       \* UseOwnershipRegistry
  StageLists,          \* sequences of [present, aware, ...]: has a formatter,
                       \* the formatter is OwnershipAware
  MaxCalls,            \* bound: the calls made on one list of stages
  Less(_, _),          \* bytes.Compare
  Gofmt(_),            \* [ok, text]: formatstd.Source
  BuildRegistry(_),    \* the registry of a text
  FormatFile(_, _, _), \* stage, text, registry it holds: the stage's output
  NoRegistry

ASSUME PipelineAssumption ==
  /\ MaxCalls \in Nat
  /\ \A c \in Configs : c.maxIterations \in Int /\ c.owned \in BOOLEAN
  /\ \A list \in StageLists : Len(list) \in Nat /\ DOMAIN list = 1..Len(list)

VARIABLES
  stages,     \* the stages, fixed
  regs,       \* the registry held by each stage's formatter
  cfg,        \* the configuration of the call
  src,        \* the text the call was made with
  out,        \* the text now
  before,     \* the text at the start of the pass
  states,     \* the texts recorded in this call, in order
  iter,       \* passes completed
  si,         \* the stage the pass is at
  pc,         \* "idle", "stages" or "gofmt"
  log         \* observer: the calls that have returned

vars == <<stages, regs, cfg, src, out, before, states, iter, si, pc, log>>

maxIters(c) == IF c.maxIterations <= 0 THEN 1 ELSE c.maxIterations

(***************************************************************************)
(* gofmt is kept only if it accepts the text.                              *)
(***************************************************************************)
Normalized(t) == IF Gofmt(t).ok THEN Gofmt(t).text ELSE t

minByteState(list) ==
  LET best[k \in 1..Len(list)] ==
        IF k = 1 THEN list[1]
        ELSE IF Less(list[k], best[k - 1]) THEN list[k] ELSE best[k - 1]
  IN  best[Len(list)]

Init ==
  /\ stages \in StageLists
  /\ regs = [s \in DOMAIN stages |-> NoRegistry]
  /\ cfg \in Configs
  /\ src \in Inputs
  /\ out = src
  /\ before = src
  /\ states = <<>>
  /\ iter = 0
  /\ si = 1
  /\ pc = "idle"
  /\ log = <<>>

-----------------------------------------------------------------------------
Call ==
  /\ pc = "idle"
  /\ Len(log) < MaxCalls
  /\ cfg' \in Configs
  /\ src' \in Inputs
  /\ out' = src'
  /\ before' = src'
  /\ states' = <<src'>>
  /\ iter' = 0
  /\ si' = 1
  /\ pc' = "stages"
  /\ UNCHANGED <<stages, regs, log>>

\* Mutant: the loop does not move on from a stage without a formatter.
StuckOnStage ==
  /\ pc = "stages"
  /\ si <= Len(stages)
  /\ ~stages[si].present
  /\ UNCHANGED vars

SkipStage ==
  /\ pc = "stages"
  /\ si <= Len(stages)
  /\ ~stages[si].present
  /\ si' = si + 1
  /\ UNCHANGED <<stages, regs, cfg, src, out, before, states, iter, pc, log>>

(***************************************************************************)
(* The registry is built over the text as the stages before have left it,  *)
(* or taken away when ownership is off.                                    *)
(***************************************************************************)
NewRegistry(s, t) ==
  IF ~stages[s].aware THEN regs[s]
  ELSE IF cfg.owned THEN BuildRegistry(t)
  ELSE NoRegistry

RunStage ==
  /\ pc = "stages"
  /\ si <= Len(stages)
  /\ stages[si].present
  /\ regs' = [regs EXCEPT ![si] = NewRegistry(si, out)]
  /\ out' = FormatFile(stages[si], out, regs'[si])
  /\ si' = si + 1
  /\ UNCHANGED <<stages, cfg, src, before, states, iter, pc, log>>

StagesDone ==
  /\ pc = "stages"
  /\ si > Len(stages)
  /\ out' = Normalized(out)
  /\ pc' = "gofmt"
  /\ UNCHANGED <<stages, regs, cfg, src, before, states, iter, si, log>>

-----------------------------------------------------------------------------
(***************************************************************************)
(* What follows a pass.  Each way to return records the call.              *)
(***************************************************************************)
Return(result, seen, how) ==
  /\ out' = result
  /\ pc' = "idle"
  /\ log' = Append(log, [cfg |-> cfg, in |-> src, out |-> result,
                         states |-> seen, how |-> how])
  /\ UNCHANGED <<stages, regs, cfg, src, before, states, iter, si>>

SinglePassDone ==
  /\ pc = "gofmt"
  /\ maxIters(cfg) = 1
  /\ Return(out, states, "single")

FixpointReached ==
  /\ pc = "gofmt"
  /\ maxIters(cfg) > 1
  /\ out = before
  /\ Return(out, states, "fixpoint")

\* Mutant: the first text of the cycle is left out.
CycleWithoutEntry ==
  /\ pc = "gofmt"
  /\ maxIters(cfg) > 1
  /\ out # before
  /\ out \in ToSet(states)
  /\ LET idx == SelectInSeq(states, LAMBDA s : s = out)
     IN  Return(minByteState(SubSeq(states, idx + 1, Len(states))), states, "cycle")

\* Mutant: the texts on the way to the cycle are taken for a part of it.
CycleWithTail ==
  /\ pc = "gofmt"
  /\ maxIters(cfg) > 1
  /\ out # before
  /\ out \in ToSet(states)
  /\ Return(minByteState(states), states, "cycle")

CycleDetected ==
  /\ pc = "gofmt"
  /\ maxIters(cfg) > 1
  /\ out # before
  /\ out \in ToSet(states)
  /\ LET idx == SelectInSeq(states, LAMBDA s : s = out)
     IN  Return(minByteState(SubSeq(states, idx, Len(states))), states, "cycle")

NewState ==
  /\ pc = "gofmt"
  /\ maxIters(cfg) > 1
  /\ out # before
  /\ out \notin ToSet(states)

\* Mutant: one pass more than allowed.
NextPassOnceMore ==
  /\ NewState
  /\ iter + 1 <= maxIters(cfg)
  /\ states' = Append(states, out)
  /\ iter' = iter + 1
  /\ before' = out
  /\ si' = 1
  /\ pc' = "stages"
  /\ UNCHANGED <<stages, regs, cfg, src, out, log>>

NextPass ==
  /\ NewState
  /\ iter + 1 < maxIters(cfg)
  /\ states' = Append(states, out)
  /\ iter' = iter + 1
  /\ before' = out
  /\ si' = 1
  /\ pc' = "stages"
  /\ UNCHANGED <<stages, regs, cfg, src, out, log>>

OutOfPasses ==
  /\ NewState
  /\ iter + 1 >= maxIters(cfg)
  /\ Return(out, Append(states, out), "exhausted")

Work ==
  \/ SkipStage
  \/ RunStage
  \/ StagesDone
  \/ SinglePassDone
  \/ FixpointReached
  \/ CycleDetected
  \/ NextPass
  \/ OutOfPasses

Next == Call \/ Work

(***************************************************************************)
(* The goroutine of a call runs until the call returns; nobody has to make *)
(* a call.                                                                 *)
(***************************************************************************)
Spec == Init /\ [][Next]_vars /\ WF_vars(Work)

-----------------------------------------------------------------------------
(***************************************************************************)
(* One pass as a function of the text alone: what the stages and gofmt do  *)
(* when each stage holds the registry of the very text it is given.        *)
(***************************************************************************)
Staged(s, owned, t) ==
  IF ~s.present THEN t
  ELSE FormatFile(s, t, IF s.aware /\ owned THEN BuildRegistry(t) ELSE NoRegistry)

Through(list, owned, t, n) ==
  LET text[k \in 0..n] == IF k = 0 THEN t ELSE Staged(list[k], owned, text[k - 1])
  IN  text[n]

Pass(list, owned, t) == Normalized(Through(list, owned, t, Len(list)))

Settled(c) == c.how \in {"fixpoint", "cycle"}

(***************************************************************************)
(* Idempotence: formatting the result of a call that settled gives it back *)
(* unchanged, when at least as many passes are allowed and also if stages  *)
(* fight.                                                                  *)
(***************************************************************************)
SettledIsIdempotent ==
  \A i, j \in DOMAIN log :
    /\ Settled(log[i])
    /\ log[j].in = log[i].out
    /\ log[j].cfg.owned = log[i].cfg.owned
    /\ log[j].cfg.maxIterations >= log[i].cfg.maxIterations
    => Settled(log[j]) /\ log[j].out = log[j].in

(***************************************************************************)
(* A cycle has one representative: two calls that settle and have met a    *)
(* text in common return the same text, whichever member of the cycle each *)
(* of them entered it by.                                                  *)
(***************************************************************************)
SameCycleSameResult ==
  \A i, j \in DOMAIN log :
    /\ Settled(log[i]) /\ Settled(log[j])
    /\ log[i].cfg.owned = log[j].cfg.owned
    /\ ToSet(log[i].states) \cap ToSet(log[j].states) # {}
    => log[i].out = log[j].out

(***************************************************************************)
(* Every call returns: a fixpoint, a cycle or the end of the passes always *)
(* comes.                                                                  *)
(***************************************************************************)
EveryCallReturns == (pc # "idle") ~> (pc = "idle")

(***************************************************************************)
(* The search implements its closed form (PipelineContract).               *)
(***************************************************************************)
Mode(c, list) == [limit |-> maxIters(c), owned |-> c.owned, stages |-> list]

Contract ==
  INSTANCE PipelineContract
    WITH Modes <- {Mode(c, list) : c \in Configs, list \in StageLists},
         Pass  <- LAMBDA m, t : Pass(m.stages, m.owned, t),
         mode  <- Mode(cfg, stages),
         doc   <- IF pc = "idle" THEN out ELSE src,
         busy  <- pc # "idle"

Implements == Contract!Spec
=============================================================================
