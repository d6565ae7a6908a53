CONSTANTS
    OwnLabels = TRUE
    PodLabels = FALSE
    MaxFaults = 1
    MaxReplaced = 2
    MaxRemoved = 1
SPECIFICATION Spec
INVARIANTS
    
    ClaimsFoundUnlessFailed
CHECK_DEADLOCK FALSE
