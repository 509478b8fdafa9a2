CONSTANTS
  Inputs = {1, 2, 3, 4}
  Configs <- MCConfigs
  StageLists <- MCStageLists
  MaxCalls = 2
  Less <- MCLess
  Gofmt <- MCGofmt
  BuildRegistry <- MCBuildRegistry
  FormatFile <- MCFormatFile
  NoRegistry = NoRegistry
SPECIFICATION Spec
INVARIANTS
  SettledIsIdempotent
  SameCycleSameResult
PROPERTIES
  EveryCallReturns
  Implements
CHECK_DEADLOCK FALSE
