SPECIFICATION ImportSpec
CONSTANTS
    Assets = {a1, a2}
    OldAssets = {a1}
    NewAssets = {a1, a2}
    Chats = {c1}
    Versions = {v1}
    NoVersion = NoVersion
    None = None
    MaxImports = 2
    MaxFaults = 2
INVARIANTS AckedSurvives OldPagesStayOut
PROPERTIES ImportedStays
CHECK_DEADLOCK FALSE
