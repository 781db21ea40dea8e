SPECIFICATION SpecInterrupted
CONSTANTS
    Devices = {d1, d2}
    Resumes = {r1}
    None = None
    MaxSends = 3
    MaxQueue = 2
    MaxJobs = 0
    MaxFaults = 0
    CanNavigate = FALSE
SYMMETRY Symmetry
INVARIANTS
    NoResurrection
    OneReRunPerTombstone
CHECK_DEADLOCK FALSE
