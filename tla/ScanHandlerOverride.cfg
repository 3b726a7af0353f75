CONSTANTS
    Files <- MCFiles
    Requests <- MCRequests
    Configs <- AllConfigs
    ExitCodes <- MCExitCodes
    MaxPolls = 2
SPECIFICATION HandlerSpec
INVARIANT OverrideIsUsed
CHECK_DEADLOCK FALSE
