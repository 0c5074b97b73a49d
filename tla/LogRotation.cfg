SPECIFICATION Spec
CONSTANTS
    MaxEntries = 6
    Sizes = {1, 2, 4}
    MaxSize = 3
    MaxBackups = 3
    Faults = TRUE
    MaxCrashes = 2
INVARIANTS
    NoGap
    SizeKept
PROPERTIES
    OnlyOldestDropped
CHECK_DEADLOCK FALSE
