SPECIFICATION Spec
CONSTANTS
    MaxJobs = 2
    MaxDeaths = 1
INVARIANTS
    LiveKeepsEntry
    GuardHasPoller
    
    FailureShownOnce
CHECK_DEADLOCK FALSE
