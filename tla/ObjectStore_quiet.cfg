SPECIFICATION FairSpec
CONSTANTS
    Requests = {r1, r2, r3}
    Buckets = {b1}
    Keys = {k1}
    NoFile = NoFile
    Partial = Partial
    Faults = {}
INVARIANTS StoredObjectsDownload
PROPERTIES ReplacedBlobRemoved BrokenRowGoes
CHECK_DEADLOCK FALSE
