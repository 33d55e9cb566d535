CONSTANTS
    Text = {"p", "q", "r"}
    Scenarios <- MCScenarios
SPECIFICATION Spec
CHECK_DEADLOCK FALSE
INVARIANTS EachLineOnce AlignBCKeepsBAndC EqualLinesAreFlagged TwoSidesAreAligned
PROPERTY TrimKeepsMatches
