CONSTANTS
    Reserved <- MCReserved
    DefaultData <- MCDefaultData
    Versions <- MCVersions
    Configs <- MCConfigs
    Specs <- OneSpec
    Edits <- NoEdits
    NoVersion = NoVersion
    DeleteStorage = TRUE
    NameIsNamespace = FALSE
    WorkloadLag = FALSE
    MaxEdits = 0
    MaxFaults = 1
SPECIFICATION Spec
INVARIANTS
    ClaimsGoWithFinalizer
