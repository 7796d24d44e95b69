CONSTANTS
    Root = root
    Members = {}
    Owners = {o1, o2}
    Versions = {v1}
    None = None
    Torn = Torn
    Fallback = FALSE
    Waiting = {w}
    Modes = {"add"}
    LateErrors = FALSE
    MaxFaults = 1
SPECIFICATION FairAlikeSpec
CHECK_DEADLOCK FALSE
PROPERTIES RecoveryCompletes
