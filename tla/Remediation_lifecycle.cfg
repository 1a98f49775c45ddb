SPECIFICATION Spec
CONSTANTS
    Workers = {w1}
    Remediators = {r1, r2}
    NoRemediator = none
    Homes <- ByHostname
    MaxPVC = 1
    MaxPods = 1
    MaxSnrs = 1
    Budgets <- JustLifecycle
INVARIANTS RecordOutlivesDeletion FinalizerHeldUntilClean
CHECK_DEADLOCK FALSE
SYMMETRY Symmetry
