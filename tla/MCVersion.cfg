CONSTANTS
    Reserved <- MCReserved
    DefaultData <- MCDefaultData
    Versions <- MCVersions
    Configs <- MCConfigs
    Specs <- OneSpec
    Edits <- VersionEdits
    NoVersion = NoVersion
    DeleteStorage = FALSE
    NameIsNamespace = FALSE
    WorkloadLag = FALSE
    MaxEdits = 2
    MaxFaults = 0
SPECIFICATION Spec
INVARIANTS
    BookiesRunTheVersion
