SPECIFICATION CommentsSpec
CONSTANTS
    Words <- AnyWord
    Files <- AnyFiles
    Modes = {"prose", "overflow", "off"}
    Hoists = {TRUE, FALSE}
    ColumnLimit = 12
    TabStop = 4
    GluedDirectives = {"go:x"}
    SpacedDirectives = {"nolint:x"}
    RulerWords = {"-", "---", "-------"}
    FenceWords = {"~~~"}
    TableWords = {"|"}
    NumberWords = {"1."}
    CgoWords = {"#include"}
CHECK_DEADLOCK FALSE
INVARIANTS
    CodeKept
