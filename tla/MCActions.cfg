CONSTANTS
  Texts <- MCTexts
  Gaps <- MCGaps
  ExtraIfErr = TRUE
  Limit = 20
  Passes = 2
SPECIFICATION PartsSpec
INVARIANTS
  BatchMatchesRules
  SecondPassChangesNothing
  QuietPassSettles
  SameProgram
  OnlyPunctuationOverflows
PROPERTIES
  CommentsStayAttached
CHECK_DEADLOCK FALSE
