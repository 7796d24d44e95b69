SPECIFICATION HostSpec
CONSTANTS
    None = None
    Tools = {t1, t2}
    Commands = {c1, c2}
    Invokers = {i1}
    Exes = {e1}
    Foreign = Foreign
    MaxStarts = 2
    MaxFaults = 2
    MaxEdits = 1
    Claimers = {q1, q2}
    MaxDeaths = 2
    MaxCommands = 2
    Torn = Torn
    Outage = Outage
    Rejected = Rejected
    Minimum = 2
    Endpoints = 2
    MaxUpgradeFaults = 2
    Descendants = {x1}
    Limit = 2
    Turn = 1
    MaxWritten = 2
    MaxScriptFaults = 2
SYMMETRY Symmetry
CHECK_DEADLOCK FALSE
INVARIANTS
    ToolsAreWhole
    LaunchersFollowCatalog
    ToolReportIsTrue
    RootIsClaimable
    ResolutionIsExact
    RecoveryIsCached
    
    UpgradeReportIsTrue
    RunIsAccounted
PROPERTIES
    UserFilesStay
    CatalogIsAtomic
    ResolutionIsStable
