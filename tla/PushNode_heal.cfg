SPECIFICATION FairPushNodeSpec
CONSTANTS
    a = a
    b = b
    Absent = Absent
    Nil = Nil
    UserIds = {1}
    Uuids <- MCOneUuid
    KernelFaults = {"start"}
    Content <- MCContent
    Unrunnable = {}
    Malformed = {}
    Pulls = {1}
    ETags = TRUE
    RequestFaults = {"config"}
    StartLists <- MCSomeUsers
    PanelLists <- MCSomeUsers
    MaxEdits = 2
    MaxFaults = 1
    MaxRenewals = 0
    EventsCap = 1
    StatusCap = 1
    FullSyncOnConnect = TRUE
    Deltas = FALSE
    MaxFlaps = 1
    MaxMoves = 1

PROPERTY PollingHealsConfig
