CONSTANTS
    Reserved <- MCReserved
    DefaultData <- MCDefaultData
    Versions <- MCVersions
    Configs <- MCConfigs
    Specs <- LoneSpecs
    Edits <- WaveringEdits
    NoVersion = NoVersion
    DeleteStorage = FALSE
    NameIsNamespace = FALSE
    WorkloadLag = FALSE
    MaxEdits = 2
    MaxFaults = 1
SPECIFICATION FairSpec
PROPERTIES
    ReplicasConverge
    DeletionCompletes
