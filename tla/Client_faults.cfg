SPECIFICATION Spec
CONSTANTS
    Commands = {c1, c2, c3}
    Files = {f1, f2}
    Keys = {k1}
    Base <- MCBase
    Asks = {"login", "logout", "upload", "download", "delete", "sign"}
    Flag = Flag
    NoFile = NoFile
    Empty = Empty
    Torn = Torn
    Faults = {"net", "disk", "kill", "server"}
SYMMETRY Symmetry
INVARIANTS TypeOK SessionIntact LoginLasts AnsweredEffectsLast DownloadWhole TornExplained
CHECK_DEADLOCK FALSE
