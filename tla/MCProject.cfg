SPECIFICATION HostSpec
CONSTANTS
    Catalog <- SmallCatalog
    CopiedRecord <- SmallCopied
    Projects <- SmallProjectSet
    Hosts = {"unix", "windows"}
    Origins = {"npmjs", "mirror"}
    MaxEdits = 2
    MaxCommands = 2
    MaxChanges = 1
    MaxInstalls = 2
    Platforms = {"linux", "darwin"}
    MaxImportChanges = 1
    MaxImports = 3
CHECK_DEADLOCK FALSE
INVARIANTS
    
    ReplayReproduces
    StageIsSound
    HooksAreSound
    ImportIsFaithful
PROPERTIES
    PinsHold
    
