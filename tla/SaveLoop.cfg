SPECIFICATION Spec
CONSTANTS
    Roots = {r1}
    Blocks = {b1}
    Plugins = {}
    Chars = {c1}
    NoChar = NoChar
    MaxEdits = 2
    MaxForeign = 1
    MaxUnseen = 1
    MaxFaults = 1
INVARIANT EditsAccounted
PROPERTIES NeverReverts RebaseKeepsEdits EditsGetSaved
CHECK_DEADLOCK FALSE
