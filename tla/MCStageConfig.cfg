CONSTANTS
  Jobs <- MCJobs
  RuleSets = {"default", "expression-only", "expression-compat", "odd"}
  StageLists <- MCStageLists
  NoName = ""
SPECIFICATION PartsSpec
INVARIANTS
  PlanSaysWhatRuns
  AcceptedMeansUnderstood
  LogStageOwnsWhatItFormats
  ArgumentsHaveOneEditor
  SortedUnlessCyclic
CHECK_DEADLOCK FALSE
