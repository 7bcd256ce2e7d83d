SPECIFICATION Spec
CONSTANTS
    job = job
    Specs = {s1}
    Absent = Absent
    Untagged = Untagged
    None = None
    Grace = 1
    Retention = 0
    Faults = {}
    MaxTime = 4
    Never = 99
    QuietAfter = 3
    MaxCommits = 3
    MaxEdits = 0
    MaxFreezes = 0
    MaxFaults = 0
    MaxCrashes = 0
    MaxTroubles = 0
    MaxTerminalUpdates = 0
PROPERTY RemovedAtHead
CHECK_DEADLOCK FALSE
