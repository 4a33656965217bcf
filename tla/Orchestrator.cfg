SPECIFICATION FairSpec
CONSTANTS
    Nodes = {n1}
    Instances = {i1, i2}
    Main = main
    Syncs = {s1}
    None = None
    MaxEdits = 3
    MaxSyncs = 2
    MaxFaults = 1
INVARIANTS NoOrphans Routed
PROPERTIES RemovedNodesLeave ShutdownEnds AssignedNodesServe
CHECK_DEADLOCK FALSE
