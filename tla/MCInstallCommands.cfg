CONSTANTS
    Root = root
    Members = {}
    Owners = {o1, o2}
    Versions = {v1, v2}
    None = None
    Torn = Torn
    Fallback = FALSE
    Waiting = {w}
    Modes = {"replace", "online"}
    LateErrors = TRUE
    MaxFaults = 1
SYMMETRY Symmetry
SPECIFICATION AlikeSpec

INVARIANTS NoStaleEdit
PROPERTIES ReportIsTrue
