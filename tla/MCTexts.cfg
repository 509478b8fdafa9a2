CONSTANTS
  Stages <- MCStages
  TextLen = 4
  Provides <- MCProvides
  NoName = NoName
  a = a
  b = b
  Sources <- MCSources
  Contents <- MCContents
  MaxEdits = 3
  Words <- AnyWord
  Files <- MCFiles
  Modes = {"prose", "overflow", "off"}
  Hoists = {TRUE, FALSE}
  ColumnLimit = 12
  TabStop = 4
  GluedDirectives = {"go:x"}
  SpacedDirectives = {"nolint:x"}
  RulerWords = {"-", "---", "-------"}
  FenceWords = {"~~~"}
  TableWords = {"|"}
  NumberWords = {"1."}
  CgoWords = {"#include"}
SPECIFICATION PartsSpec
INVARIANTS
  QueriesExact
  ForbidsExactlyLater
  RefusesExactlyConflicts
  AppliesAsIfOneByOne
  ChangedSpanExact
  CodeKept
  WordsKept
  Settles
CHECK_DEADLOCK FALSE
