SPECIFICATION FairSpec
CONSTANTS
    MaxCommits = 3
    MaxFaults = 2
    MaxReclones = 1
    MaxBroken = 1
INVARIANTS
    TypeOK
    FilesCoverCommit
PROPERTIES
    NewestIsChecked
    TriggerIsEnough
