CONSTANTS
  Paths <- MCPaths
  Disks <- MCDisks
  Format <- MCFormat
  PartsOf <- MCPartsOf
  Empty = 0
  Missing = Missing
  Nothing = Nothing
  Files <- MCFiles
  Configs <- MCConfigs
SPECIFICATION ToolsSpec
INVARIANTS
  FilesWhole
  DamageIsTold
  CheckForetellsWrite
  WriteIsComplete
CHECK_DEADLOCK FALSE
