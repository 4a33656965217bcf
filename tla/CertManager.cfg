SPECIFICATION Spec
CONSTANTS
    d1 = d1
    d2 = d2
    p1 = p1
    None = None
    Domains <- MCDomains
    Pems <- MCPems
    LocalConfig <- MCLocal
    Configs <- MCConfigs
    MaxEdits = 1
    MaxIssued = 3
    MaxCrashes = 1
INVARIANTS ServesOnlyPairs AcmeFollowsConfig MaterialFollowsConfig KernelCatchesUp
SYMMETRY MCSymmetry
CHECK_DEADLOCK FALSE
