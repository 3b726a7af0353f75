CONSTANTS
    Tokens <- MCTokens
    Configurations <- MCConfigurations
    Webhooks <- MCWebhooks
SPECIFICATION IntakeSpec
INVARIANT PortIsPartOfRegistry
CHECK_DEADLOCK FALSE
