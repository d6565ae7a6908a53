CONSTANTS
    Manifests <- SomeManifests
    MaxEdits = 2
    MaxCrashes = 1
SPECIFICATION FairSpec
INVARIANTS
    SpecFollowsManifest
PROPERTIES
    DeletionGetsThrough
CHECK_DEADLOCK FALSE
