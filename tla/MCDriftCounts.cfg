SPECIFICATION Spec
CONSTANTS
    Leaves <- MCLeaves
    Values = {"a", "b", "on", "off", "true", "unset", "none", "image-only", "full", "odd"}
    Place <- MCPlace
    Owner <- MCOwner
    Absent = Absent
    Settings <- CountSettings
    MaxPlanDiffObjectDepth = 2
    ImageFields = {"image", "Image"}
    OwnKeys = {"gitops_managed", "gitops_update_policy"}
    WrappedOwnKeys = {"Meta[gitops_managed]", "Meta[gitops_update_policy]"}
    Whole = "Whole"
PROPERTY RegisterConverges
CHECK_DEADLOCK FALSE
