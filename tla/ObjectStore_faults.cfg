SPECIFICATION Spec
CONSTANTS
    Requests = {r1, r2, r3, r4}
    Buckets = {b1}
    Keys = {k1}
    NoFile = NoFile
    Partial = Partial
    Faults = {"db", "ack", "fs", "crash"}
SYMMETRY Symmetry
INVARIANTS TypeOK RowsHaveBlobs ServedBytes DeletedStaysDeleted FailedUploadInvisible
PROPERTIES NoRowLost ImplementsVersionedStore
CHECK_DEADLOCK FALSE
