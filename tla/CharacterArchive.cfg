SPECIFICATION Spec
CONSTANTS
    k1 = k1
    k2 = k2
    Chats = {k1, k2}
    MaxEdits = 1
    MaxRows = 2
    MaxRestarts = 1
    MaxReloads = 1
    MaxSnapshots = 1
    NotLoaded = NotLoaded
INVARIANTS TypeOK HoldsSaved SnapshotResolves
PROPERTIES ActivationIsAccepted
CHECK_DEADLOCK FALSE
