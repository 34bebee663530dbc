SPECIFICATION Spec
CONSTANTS
    Requests = {r1, r2, r3}
    Buckets = {b1}
    Keys = {k1}
    NoFile = NoFile
    Partial = Partial
    Faults = {"crash"}
SYMMETRY Symmetry
INVARIANTS StoredObjectsDownload
CHECK_DEADLOCK FALSE
