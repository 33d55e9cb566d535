SPECIFICATION Spec
CONSTANTS
    Sources = {"f"}
    Results = {"g"}
    Folder = "d"
CHECK_DEADLOCK FALSE
INVARIANTS
    EditsAreKnown
    LossIsAskedFor
    WritesTheNamedFile
