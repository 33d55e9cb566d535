CONSTANTS
    Text = {"p", "q", "r"}
    Scenarios <- MCScenarios
SPECIFICATION Spec
CHECK_DEADLOCK FALSE
INVARIANT LinesAreInSequence
