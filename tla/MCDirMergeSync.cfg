SPECIFICATION Spec
CONSTANTS
    N = 2
    Last <- MCLast
    Files = {2}
    FolderInA = {1}
    NamedFiles = {2}
    UserOps <- MCUserOps
    DefaultOps <- MCDefaultOps
    ScanOp = "eMergeToAB"
    Assigned <- MCAssigned
    AssignedAll <- MCAssignedAll
    Views <- MCViews
INVARIANTS
    IInv
PROPERTIES
    MergeContinueReturns
