SPECIFICATION Spec
CONSTANTS
    Workers = {w1}
    Remediators = {r1}
    NoRemediator = none
    Homes <- AllHomes
    MaxPVC = 1
    MaxPods = 1
    MaxSnrs = 2
    Budgets <- JustFencing
PROPERTY FencedUntilToken
