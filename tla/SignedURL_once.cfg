SPECIFICATION Spec
CONSTANTS
    Requests = {r1, r2}
    Tokens = {t1}
    Targets = {x1}
    Lifetimes <- MCLifetimes
    OneHour <- MCOneHour
    MaxTime = 2
    Faults = {}
SYMMETRY Symmetry
INVARIANTS OneTimeUse
CHECK_DEADLOCK FALSE
