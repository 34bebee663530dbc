SPECIFICATION Spec
CONSTANTS
    Servers = {s1}
    NumFiles = 1
    Releases = {1}
    Emails = {admin}
    Normal = admin
    NormalForm <- MCDistinct
    Blank = Blank
    Blanks = blanks
    Passwords = {short}
    TooLong = {long}
    Faults = {"crash"}
INVARIANTS AdminSeeded
