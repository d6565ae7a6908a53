CONSTANTS
    Reserved <- MCReserved
    DefaultData <- MCDefaultData
    Versions <- MCVersions
    Configs <- MCConfigs
    Specs <- ScaledSpecs
    Edits <- ScaledEdits
    NoVersion = NoVersion
    DeleteStorage = TRUE
    NameIsNamespace = FALSE
    WorkloadLag = FALSE
    MaxEdits = 2
    MaxFaults = 1
SPECIFICATION Spec
INVARIANTS
    CleanGoodbye
    ReclaimedUnlessFailed
PROPERTIES
    UsesMetadata
