SPECIFICATION Spec
CONSTANTS
    Assets = {a1}
    OldAssets = {a1}
    NewAssets = {a1}
    Chats = {}
    Versions = {v1, v2}
    NoVersion = NoVersion
    None = None
    MaxImports = 1
    MaxFaults = 2
INVARIANT PlanIsStaged
PROPERTIES ImplementsDataImport RefusalOutlivesRestart ReplacesAsConfirmed WorkEnds
CHECK_DEADLOCK FALSE
