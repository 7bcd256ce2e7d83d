SPECIFICATION Spec
CONSTANTS
    Jobs = {j1}
    Specs = {s1, s2}
    Absent = Absent
    Checkers = {poll, tick}
    Limits <- UndisturbedLimits
    MaxTerminalUpdates = 2
PROPERTY SupersededByNewer
CHECK_DEADLOCK FALSE
