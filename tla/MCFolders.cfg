SPECIFICATION Spec
CONSTANTS
    Parent <- MCParent
    Windows <- MCWindows
    Trees <- MCTrees
    Latest = 2
    MaxSteps <- MCMaxSteps
    Shows <- MCShows
INVARIANTS
    ProposalKeepsBothFolders
    SyncProposalMakesFoldersSame
    ProposalIsThreeWayMerge
    FolderEqualityIsRight
CHECK_DEADLOCK FALSE
