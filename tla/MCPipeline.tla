----------------------------- MODULE MCPipeline -----------------------------
(***************************************************************************)
(* Texts are numbers, in the order of bytes.Compare.  Text 4 is text 1 not *)
(* yet gofmt'ed, and gofmt cannot parse text 3.                            *)
(*                                                                         *)
(* The first stage is any function of the text that takes 4 for 1: with    *)
(* the others it gives every shape of orbit from a fixpoint to a cycle of  *)
(* three.  The second has no formatter.  The third is ownership aware: it  *)
(* turns 2 into 3 where it may, and leaves the text alone where a later    *)
(* stage owns it; a registry of another text misleads it into text 1.      *)
(***************************************************************************)
EXTENDS Pipeline

Texts == 1..4

MCLess(t, u) == t < u

MCGofmt(t) == IF t = 3 THEN [ok |-> FALSE, text |-> 0]
              ELSE [ok |-> TRUE, text |-> IF t = 4 THEN 1 ELSE t]

MCBuildRegistry(t) == t

MCFormatFile(stage, t, registry) ==
  IF registry = NoRegistry THEN stage.free[t]
  ELSE IF registry = t THEN stage.bound[t]
  ELSE 1

AnyStage(table) == [present |-> TRUE, aware |-> FALSE, free |-> table, bound |-> table]

NoStage == [present |-> FALSE, aware |-> FALSE, free |-> <<>>, bound |-> <<>>]

AwareStage ==
  [present |-> TRUE, aware |-> TRUE, free |-> <<1, 3, 3, 4>>, bound |-> <<1, 2, 3, 4>>]

MCStageLists ==
  {<<AnyStage(f), NoStage, AwareStage>> : f \in {g \in [1..4 -> Texts] : g[4] = g[1]}}

MCConfigs == [maxIterations : {0, 2, 3}, owned : BOOLEAN]
=============================================================================
