SPECIFICATION Spec
CONSTANTS
    Devices = {d1}
    Resumes = {r1, r2}
    None = None
    MaxSends = 2
    MaxQueue = 2
    MaxJobs = 1
    MaxFaults = 3
    CanNavigate = TRUE
SYMMETRY Symmetry
PROPERTIES
    ClaimSparesOwnSend
    UnansweredIsRemembered
CHECK_DEADLOCK FALSE
