CONSTANTS
    Sizes <- MCSizes
    Late <- AllButCreate
    MaxUpdates = 3
    MaxFaults = 2
SPECIFICATION FairSpec
PROPERTIES
    ImplementsMetadata
    DeletionSucceeds
    FinishedUpdateStays
CHECK_DEADLOCK FALSE
