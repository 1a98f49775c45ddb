SPECIFICATION Spec
CONSTANTS
    Workers = {w1, w2}
    Remediators = {r1}
    NoRemediator = none
    Homes <- ByHostname
    MaxPVC = 1
    MaxPods = 1
    MaxSnrs = 1
    Budgets <- JustOverlap
INVARIANTS OnlyRecordedPodsKilled 
SYMMETRY Symmetry
