SPECIFICATION FairSpec
CONSTANTS
    Servers = {s1, s2}
    NumFiles = 2
    Releases = {2}
    Emails = {Admin, admin, blanks}
    Normal = admin
    NormalForm <- MCNormalForm
    Blank = Blank
    Blanks = blanks
    Passwords = {short, long}
    TooLong = {long}
    Faults = {}
PROPERTIES AdminReadyInTheEnd EveryServerComesUp
