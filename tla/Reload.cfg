SPECIFICATION Spec
CONSTANTS
    u = u
    w = w
    broken = broken
    base = base
    d = d
    None = None
    Unset = Unset
    Panels <- MCPanels
    Environment <- MCEnvironment
    BaseDir = base
    Content <- MCContent
    PanelNodes = {1, 2}
    Nodes <- MCNodes
    Versions = {1, 2, 3, 4, 5, 6}
    Invalid = {4}
    Misfits = {5, 6}
    Nameless = {6}
    Serving <- MCServing
    Room <- MCRoom
    Health <- MCHealth
    MaxWrites = 2
    MaxSignals = 1
    MaxFailures = 2
INVARIANTS RoundsDisjoint ExitHasReason NodesApart
PROPERTIES StopHonoured LastWriteTakesEffect DirsStay
CHECK_DEADLOCK FALSE
