SPECIFICATION HostSpec
CONSTANTS
    Projects = {p1, p2}
    Readers = {r1}
    Cleaners = {c1}
    Digests = {d1, d2}
    Owners = {o1, o2, o3}
    None = None
    TornRemovals = TRUE
    Recreation = TRUE
    MaxFaults = 2
    Runs = {"u1", "u2"}
    Objects = {"dir", "file"}
    MaxKids = 1
    MaxFilters = 2
    MaxScripts = 3
    MaxStops = 1
    MaxStartupEdits = 1
SYMMETRY Symmetry
INVARIANTS
    TreesStay
    ReadersSeeCommitted
    NothingLeaks
    NetworkStaysDenied
    AuthorityIsExact
    CleanupIsPossible
PROPERTIES
    StartupFilesStay
