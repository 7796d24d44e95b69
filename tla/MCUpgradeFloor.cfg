SPECIFICATION Spec
CONSTANTS
    Artifacts <- SmallArtifacts
    None = None
    Torn = Torn
    Minimum = 2
    Outage = Outage
    Rejected = Rejected
    Endpoints = 2
    MaxFaults = 2
INVARIANT FloorIsRetained
