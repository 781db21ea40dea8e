SPECIFICATION LockSpec
CONSTANTS
    Sessions = {s1, s2}
    Unheld = Unheld
    Nobody = Nobody
    MaxTrackedBoots = 1
    MaxClock = 3
    MaxVersion = 3
SYMMETRY Symmetry
INVARIANTS
    FreshCopyCoversHolder
    NoPreImportHolder
PROPERTY
    HandoverIsSafe
CHECK_DEADLOCK FALSE
