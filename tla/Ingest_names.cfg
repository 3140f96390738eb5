SPECIFICATION Spec
CONSTANTS
    Syms = {s1, s2}
    NoSym = NoSym
    Rows = {b1, b2}
    MaxDay = 4
    Holidays = {2}
    StartDays = {1}
    PageLimit = 2
    MaxFaults = 1
SYMMETRY Symmetry
INVARIANTS
    TypeOK
    BarCommitsDay
PROPERTIES
    RangeComplete
