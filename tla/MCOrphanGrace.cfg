SPECIFICATION Spec
CONSTANTS
    job = job
    Specs = {s1}
    Absent = Absent
    Untagged = Untagged
    None = None
    Grace = 3
    Retention = 1
    Faults = {"list", "parse", "info", "register", "deregister"}
    MaxTime = 13
    Never = 99
    QuietAfter = 3
    MaxCommits = 3
    MaxEdits = 1
    MaxFreezes = 1
    MaxFaults = 1
    MaxCrashes = 1
    MaxTroubles = 2
    MaxTerminalUpdates = 0
INVARIANTS
    TypeOK
    GraceHeld
    OrphanGoes
PROPERTY OnlyRemovedFromRepo
CHECK_DEADLOCK FALSE
