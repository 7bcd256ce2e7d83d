SPECIFICATION Spec
CONSTANTS
    job = job
    Specs = {s1}
    Absent = Absent
    Untagged = Untagged
    None = None
    Grace = 4
    Retention = 0
    Faults = {}
    MaxTime = 9
    Never = 99
    QuietAfter = 4
    MaxCommits = 2
    MaxEdits = 0
    MaxFreezes = 1
    MaxFaults = 0
    MaxCrashes = 0
    MaxTroubles = 1
    MaxTerminalUpdates = 0
INVARIANT HeldNotSpent
CHECK_DEADLOCK FALSE
