SPECIFICATION PushNodeSpec
CONSTANTS
    a = a
    b = b
    Absent = Absent
    Nil = Nil
    UserIds = {1, 2}
    Uuids <- MCUuids
    KernelFaults = {"prepare", "recreate"}
    Content <- MCContent
    Unrunnable = {}
    Malformed = {}
    Pulls = {1, 2}
    ETags = TRUE
    RequestFaults = {}
    StartLists <- MCStartLists
    PanelLists <- Lists
    MaxEdits = 2
    MaxFaults = 0
    MaxRenewals = 1
    EventsCap = 1
    StatusCap = 1
    FullSyncOnConnect = TRUE
    Deltas = TRUE
    MaxFlaps = 0
    MaxMoves = 0
INVARIANTS SingleFlight NoStrangerAdmitted
