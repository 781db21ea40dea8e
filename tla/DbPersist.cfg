SPECIFICATION FairSpec
CONSTANTS
    Revs = {r1, r2}
    Bodies = {b1, b2}
    Nothing = Nothing
    NotLoaded = NotLoaded
    MaxFails = 2
INVARIANT
    AckedSurvives
PROPERTIES
    KeepsBodies
    GetsToDisk
CHECK_DEADLOCK FALSE
