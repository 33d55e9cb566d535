SPECIFICATION Spec
CONSTANTS
    Char = {"p", "q", "r", "x", " ", "#"}
    Typed = {"x"}
    Scenarios <- MCScenarios
INVARIANTS NothingUnsolvedIsSaved AutoMergeIsThreeWay
PROPERTIES SolvedBlocksAreKept EditingKeepsTheRest
CHECK_DEADLOCK FALSE
