SPECIFICATION Spec
CONSTANTS
    N = 3
    Last <- MCLast
    Files = {2, 3}
    FolderInA = {1}
    NamedFiles = {}
    UserOps <- MCUserOps
    DefaultOps <- MCDefaultOps
    ScanOp = "eMergeABToDest"
    Assigned <- MCAssigned
    AssignedAll <- MCAssignedAll
    Views <- MCViews
INVARIANTS
    SimulationStaysSimulation
