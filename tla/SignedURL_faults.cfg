SPECIFICATION FairSpec
CONSTANTS
    Requests = {r1, r2}
    Tokens = {t1}
    Targets = {x1, x2}
    Lifetimes <- MCLifetimes
    OneHour <- MCOneHour
    MaxTime = 2
    Faults = {"db", "ack", "crash"}
INVARIANTS TypeOK ReuseNeedsOverlap NoLateArrival
PROPERTIES OnlyUploadsConsume TokenEventuallyGone ImplementsCapability
CHECK_DEADLOCK FALSE
