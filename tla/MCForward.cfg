CONSTANTS
    Reserved <- MCReserved
    DefaultData <- MCDefaultData
    Versions <- MCVersions
    Configs <- ForwardConfigs
    Specs <- ForwardSpecs
    Edits <- ForwardEdits
    NoVersion = NoVersion
    DeleteStorage = TRUE
    NameIsNamespace = FALSE
    WorkloadLag = TRUE
    MaxEdits = 2
    MaxFaults = 1
SPECIFICATION Spec
INVARIANTS
    TypeOK
    SettledApplied
PROPERTIES
    RecordedSizeIsInZk
    RecordIsApplied
    ClaimsKeptForAskedBookies
