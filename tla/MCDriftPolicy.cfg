SPECIFICATION FairSpec
CONSTANTS
    Leaves <- MCLeaves
    Values = {"a", "b", "on", "off", "true", "unset", "none", "image-only", "full", "odd"}
    Place <- MCPlace
    Owner <- MCOwner
    Absent = Absent
    Settings <- PolicySettings
    MaxPlanDiffObjectDepth = 2
    ImageFields = {"image", "Image"}
    OwnKeys = {"gitops_managed", "gitops_update_policy"}
    WrappedOwnKeys = {"Meta[gitops_managed]", "Meta[gitops_update_policy]"}
    Whole = "Whole"
INVARIANT TypeOK
PROPERTIES
    PolicyBoundsChange
    OptInHoldsBacklog
    StopIsTheOperators
    PermittedDriftGoes
    LogCatchesUp
CHECK_DEADLOCK FALSE
