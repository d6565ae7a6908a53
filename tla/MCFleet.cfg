CONSTANTS
    Keys <- Neighbours
    MaxEdits = 1
    MaxFaults = 1
    MaxCrashes = 1
SPECIFICATION FairSpec
INVARIANTS
    ServicesAreOwn
PROPERTIES
    EveryClusterServed
CHECK_DEADLOCK FALSE
