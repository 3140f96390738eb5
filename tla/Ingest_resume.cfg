SPECIFICATION FairSpec
CONSTANTS
    Syms = {s1}
    NoSym = NoSym
    Rows = {b1, b2}
    MaxDay = 4
    Holidays = {2}
    StartDays = {1, 3}
    PageLimit = 2
    MaxFaults = 1
PROPERTY
    ServedIsStored
