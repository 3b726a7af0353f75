CONSTANTS
    Tokens <- MCTokens
    Configurations <- MCConfigurations
    Webhooks <- MCWebhooks
SPECIFICATION IntakeSpec
INVARIANT UnprovenIsRejected
CHECK_DEADLOCK FALSE
