SPECIFICATION Spec
CONSTANTS
    Workers = {w1}
    Remediators = {r1}
    NoRemediator = none
    Homes <- AllHomes
    MaxPVC = 2
    MaxPods = 2
    MaxSnrs = 2
    Budgets <- NodesPodsEdits
 
PROPERTIES ConsentAtCommit FencedBeforeCommit NeverKillsElsewhere DeletedAfterRelease
CHECK_DEADLOCK FALSE
