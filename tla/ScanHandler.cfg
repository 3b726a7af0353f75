CONSTANTS
    Files <- MCFiles
    Requests <- MCRequests
    Configs <- AllConfigs
    ExitCodes <- MCExitCodes
    MaxPolls = 2
SPECIFICATION FairHandlerSpec
INVARIANTS
    HandlerInv
    NilMeansScanned
PROPERTIES
    KeepsPromise
    NothingStaysBehind
CHECK_DEADLOCK FALSE
