SPECIFICATION Spec
CONSTANTS
    Requests = {r1, r2, r3}
    Admin = Admin
    Clerk = Clerk
    NewEmails = {e1}
    BucketNames = {b1}
    AnyBucket = AnyBucket
    Elsewhere = Elsewhere
    Scopes <- MCScopes
    Nobody = Nobody
    Asks = {"login", "createUser", "grant", "createBucket", "listBuckets", "getBucket", "createKey", "listKeys", "deleteKey", "upload"}
    Grantable = {"upload"}
    TokenLife = 1
    KeyLives = {0}
    MaxTime = 1
    Faults = {"db", "ack", "crash"}
SYMMETRY Symmetry
INVARIANTS TypeOK OneOwner GrantsReachTokens LetInByRight DeletedKeyRefused ReadsCurrent
PROPERTIES ImplementsCapability
CHECK_DEADLOCK FALSE
