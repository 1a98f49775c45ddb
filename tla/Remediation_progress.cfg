SPECIFICATION FairSpec
CONSTANTS
    Workers = {w1}
    Remediators = {r1}
    NoRemediator = none
    Homes <- ByHostname
    MaxPVC = 1
    MaxPods = 2
    MaxSnrs = 1
    Budgets <- JustStall
PROPERTIES CommittedCleanupEnds StaleRecordsCollected DeletionEnds ConsentIsActedOn
CHECK_DEADLOCK FALSE
