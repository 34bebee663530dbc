SPECIFICATION DurabilitySpec
CONSTANTS
    Requests = {r1, r2, r3}
    Buckets = {b1}
    Keys = {k1, k2}
    NoFile = NoFile
    Partial = Partial
    Faults = {"db", "crash"}
SYMMETRY Symmetry
INVARIANTS DamageExplained ServedUnlessLost DeletedRowsStayDeleted OrphansExplained
CHECK_DEADLOCK FALSE
