CONSTANTS
    Root = root
    Members = {}
    Owners = {o1, o2}
    Versions = {v1}
    None = None
    Torn = Torn
    Fallback = FALSE
    Waiting = {w}
    Modes = {"online", "frozen"}
    LateErrors = TRUE
    MaxFaults = 2
SPECIFICATION FairAlikeSpec
PROPERTIES InstallSettles
