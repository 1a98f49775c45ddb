SPECIFICATION Spec
CONSTANTS
    NoVersion = NoVersion
    NoSts = NoSts
    NoObject = NoObject
    Targets <- PatchTargets
    FirstTargets <- PatchTargets
    DefaultVersion <- V4_2
    AdoptedVersion <- V3_9
    MaxReplicas = 2
    MaxEdits = 1
    MaxFaults = 0
    EditDuringUpgrade = FALSE
    QueueReverts = FALSE
PROPERTY WipesOnlyWhenDecided
CHECK_DEADLOCK FALSE
