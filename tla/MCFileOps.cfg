SPECIFICATION Spec
CONSTANTS
    DestRoot = "D"
    Items <- MCItems
    DirLinks = {"linkToFolder"}
    FileLinks = {"linkToFile"}
    InitialFs <- MCInitialFs
    Settings <- MCSettings
    Operations <- MCOperations
    MaxFaults = 1
    MaxCommands = 2
CHECK_DEADLOCK FALSE
PROPERTIES
    BackupsKeepContents
    ChangesOnlyItsDestination
    SuccessMeansDone
