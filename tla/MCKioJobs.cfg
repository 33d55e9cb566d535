SPECIFICATION Spec
CONSTANTS
    Ops = {"stat", "list"}
    Files = {"f"}
    MaxJobs = 2
    MaxDepth = 4
INVARIANTS
    WaitsForItsJob
    ComparesWholeFiles
    NothingRunsOn
PROPERTIES
    CallsReturn
