SPECIFICATION Spec
CONSTANTS
    MaxDay = 3
    LastSlot = 5
    FirstWeekday = 4
    Months <- SaturdayMonths
    WINDOW_OPEN = 1
    EOD_TIME = 1
    SCREENER_TIME = 2
    FAST_MODE_TIME = 3
    HASTE_MODE_TIME = 3
    WINDOW_CLOSE = 4
    MaxLag = 2
    MaxFaults = 0
PROPERTY OncePerDay
CHECK_DEADLOCK FALSE
