CONSTANTS
  Inputs <- AtomicInputs
  RuleLists <- AtomicRuleLists
  Configs <- MCConfigs
  Forbiddens <- MCForbiddens
  NodeTypes = {"File", "CallExpr", "Ident"}
  MinIters = 2
  IterCap = 5
  Parses <- MCParses
  Nodes <- MCNodes
  Matches <- MCMatches
  Target <- MCTarget
  ExecuteEdits <- MCExecuteEdits
  Execute <- MCExecute
SPECIFICATION Spec
INVARIANTS
  AtomicNotBroken
