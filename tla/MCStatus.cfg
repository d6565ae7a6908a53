CONSTANTS
    MaxSize = 1
    Recovery = 1
    PodLag = FALSE
    MaxEdits = 1
    MaxFlips = 1
    MaxFaults = 1
SPECIFICATION FairSpec
INVARIANTS
    CountsAreTrue
PROPERTIES
    CountsConverge
CHECK_DEADLOCK FALSE
