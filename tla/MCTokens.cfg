SPECIFICATION FairSpec
CONSTANTS
    LoginSafetyMargin = 2
    LoginRetryBackoff = 6
    DefaultLoginRefresh = 120
    TokenPollInterval = 12
    Latency = 1
    StartDelay = 24
    Lives <- MCLives
    Overlap = 40
    Never = Never
    MaxFaults = 3
    MaxRotations = 2
    MaxRestarts = 1
INVARIANTS
    TypeOK
    LoginOutlivesRetries
    FileOutlivesPolls
PROPERTY TokenComesBack
