SPECIFICATION FairSpec
CONSTANTS
    job = job
    s1 = s1
    s2 = s2
    s3 = s3
    s4 = s4
    Specs = {s1, s2, s3, s4}
    Stores <- MCStores
    Bad = {s2, s3}
    AutoRevert = {s3}
    NoSpec = NoSpec
    Limits <- Scenarios
    MaxTerminalUpdates = 0
INVARIANT TypeOK
PROPERTIES
    KnownFailedHeld
    RevertReplacesFailed
    RolledBack
