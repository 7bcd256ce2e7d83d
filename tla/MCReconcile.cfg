SPECIFICATION MCFairSpec
CONSTANTS
    Jobs = {j1}
    Specs = {s1, s2}
    Absent = Absent
    Checkers = {poll, tick}
    Limits <- MCLimits
    MaxTerminalUpdates = 0
INVARIANTS
    TypeOK
    PublishedIsCurrent
    DriftIsOwned
PROPERTIES
    NoBlindOverwrite
    Converges
CHECK_DEADLOCK FALSE
