CONSTANTS
    Specs <- BaseSpec
    Edits <- LiveEdits
    MaxEdits = 3
    MaxFaults = 2
    MaxRestarts = 1
SPECIFICATION FairSpec
INVARIANTS
    UpdatedAsCreated
PROPERTIES
    BookiesRollOut
CHECK_DEADLOCK FALSE
