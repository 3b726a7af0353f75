CONSTANTS
    Tokens <- MCTokens
    Configurations <- MCConfigurations
    Webhooks <- MCWebhooks
SPECIFICATION IntakeSpec
INVARIANTS
    IntakeInv
    DecisionIsOrderFree
    ReferenceAgrees
    CredentialsAgree
CHECK_DEADLOCK FALSE
