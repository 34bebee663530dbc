SPECIFICATION Spec
CONSTANTS
    Servers = {s1, s2}
    NumFiles = 2
    Releases = {1, 2}
    Emails = {admin, other}
    Normal = admin
    NormalForm <- MCDistinct
    Blank = Blank
    Blanks = blanks
    Passwords = {short, long}
    TooLong = {long}
    Faults = {"db", "ack", "crash", "fs"}
SYMMETRY Symmetry
INVARIANTS TypeOK RecordedMeansExecuted NoSeedBeforeSchema OneSeeder ReadyOnlyAfterUpload
