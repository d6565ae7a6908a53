CONSTANTS
    OwnLabels = TRUE
    PodLabels = FALSE
    MaxFaults = 0
    MaxReplaced = 0
    MaxRemoved = 0
SPECIFICATION Spec
INVARIANTS
    AllPodsTerminated
CHECK_DEADLOCK FALSE
