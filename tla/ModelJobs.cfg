SPECIFICATION FairSpec
CONSTANTS
    j1 = j1
    j2 = j2
    j3 = j3
    c1 = c1
    c2 = c2
    NoJob = NoJob
    r1 = r1
    Jobs = {j1, j2}
    Chats = {c1}
    ChatOf <- SameChat
    MainJobs = {j1, j2}
    AnswerLen <- ShortAndLong
    Readers = {r1}
    MaxRetained = 1
    MaxRestarts = 1
    DiskMayFail = TRUE
INVARIANTS
    DoneIsComplete
    EndedStreamIsWhole
    OneMainPerChat
PROPERTIES
    RotationSparesUnclaimed
    WaitsEnd
    ImplementsStore
CHECK_DEADLOCK FALSE
