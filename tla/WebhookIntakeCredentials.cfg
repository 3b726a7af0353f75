CONSTANTS
    Tokens <- MCTokens
    Configurations <- MCConfigurations
    Webhooks <- MCWebhooks
SPECIFICATION IntakeSpec
INVARIANT CredentialsAreComplete
CHECK_DEADLOCK FALSE
