CONSTANTS
    Root = root
    Members = {m1}
    Owners = {o1, o2}
    Versions = {v1, v2}
    None = None
    Torn = Torn
    Fallback = TRUE
    Waiting = {w}
    Modes = {"add", "frozen"}
    LateErrors = FALSE
    MaxFaults = 1
SYMMETRY Symmetry
SPECIFICATION AlikeSpec
CONSTRAINT NoQueue
INVARIANTS IInv CommitKeepsTrees
PROPERTIES AllOrNothing
