SPECIFICATION FairSpec
CONSTANTS
    Jobs = {j1, j2}
    Refs = {r1, r2}
    Ops = {REGISTER}
    Bodies = {b1, b2}
    MaxStamp = 4
    MaxTerminalUpdates = 1
    NoIntent = NoIntent
INVARIANTS
    TypeOK
    OneRowPerUpdateID
    OnePendingPerJob
    InFlightRowStays
    TerminalBounded
PROPERTIES
    ImplementsIntents
    PendingIsSettled
CHECK_DEADLOCK FALSE
