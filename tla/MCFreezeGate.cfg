SPECIFICATION FairSpec
CONSTANTS
    safe = safe
    path = path
    Jobs = {safe}
    Paths = {path}
    Slug <- SafeSlug
    Own <- OwnSafe
    None = None
    Never = 9
    MaxStale = 1
    Retention = 1
    Limits <- Scenarios
INVARIANT TypeOK
PROPERTIES
    ViewMissesNothing
    CasTellsRaces
    FreezeTakesEffect
    ResumesWhenBusy
CHECK_DEADLOCK FALSE
