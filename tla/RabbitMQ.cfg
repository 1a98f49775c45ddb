SPECIFICATION FairSpec
CONSTANTS
    NoVersion = NoVersion
    NoSts = NoSts
    NoObject = NoObject
    Targets <- MajorTargets
    FirstTargets <- Minor39
    DefaultVersion <- V4_2
    AdoptedVersion <- V3_9
    MaxReplicas = 2
    MaxEdits = 1
    MaxFaults = 1
    EditDuringUpgrade = FALSE
    QueueReverts = FALSE
INVARIANTS BrokerReadsOwnFormat LegacyClientsHaveProxy MigrationEmptiesVolumes NoMirroringOn4x
PROPERTIES NoPartialWipe WipesOnlyWhenDecided UpgradeCompletes
CHECK_DEADLOCK FALSE
