CONSTANTS
    Tokens <- MCTokens
    Configurations <- MCConfigurations
    Webhooks <- MCWebhooks
SPECIFICATION IntakeSpec
INVARIANT MissingFieldsAreRefused
CHECK_DEADLOCK FALSE
