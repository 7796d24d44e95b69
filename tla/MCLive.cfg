SPECIFICATION HostFairSpec
CONSTANTS
    Projects = {p1, p2}
    Readers = {r1}
    Cleaners = {c1}
    Digests = {d1}
    Owners = {o1, o2, o3}
    None = None
    TornRemovals = FALSE
    Recreation = FALSE
    MaxFaults = 1
    Tools = {t1}
    Commands = {k1}
    Invokers = {i1}
    Exes = {e1}
    Foreign = Foreign
    MaxStarts = 2
    MaxToolFaults = 1
    MaxEdits = 0
    Processes = {a1, a2}
    FirstProcess = a1
    MaxLeaseFaults = 1
    Descendants = {x1}
    Limit = 1
    Turn = 1
    MaxWritten = 1
    MaxScriptFaults = 1
    Runs = {"r1"}
    Objects = {"dir", "file"}
    MaxKids = 1
    MaxFilters = 2
    MaxRunFaults = 1
CHECK_DEADLOCK FALSE
INVARIANTS
    CoordinatorOutlivesJournal
    HeldCopiesStay
PROPERTIES
    
    ToolsSettle
    DeadLeaveNothing
    ManagedRunEnds
    OrphansEnd
