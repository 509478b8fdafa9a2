CONSTANTS
  Inputs <- MCInputs
  RuleLists <- MCRuleLists
  Configs <- MCConfigs
  Forbiddens <- MCForbiddens
  NodeTypes = {"File", "CallExpr", "Ident"}
  MinIters = 2
  IterCap = 5
  Parses <- MCParses
  Nodes <- MCNodes
  Matches <- MCMatches
  Target <- MCTarget
  ExecuteEdits <- MCExecuteEdits
  Execute <- MCExecute
SPECIFICATION Spec
INVARIANTS
  ParseSafe
  FirstByOrderAndPriority
  StableIsNormalForm
  NoTextTwice
  OwnedSurviveFirstRewrite
PROPERTIES
  RankFalls
  Implements
