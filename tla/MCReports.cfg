SPECIFICATION ReportsSpec
CONSTANTS
    Corpora <- MCCorpora
    Configs <- MCConfigs
    DefaultDirs = {"vendor", "testdata"}
    AdoptionDirs = {"gen"}
    AdoptionSuffixes = {".pb.go"}
    MaxExamples = 2
CHECK_DEADLOCK FALSE
INVARIANTS
    NoNewOverflowMissed
    RedactedButDistinct
    SnippetsBelong
