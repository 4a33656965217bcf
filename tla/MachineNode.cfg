SPECIFICATION FairMachineSpec
CONSTANTS
    a = a
    b = b
    Absent = Absent
    Nil = Nil
    UserIds = {1}
    Uuids <- MCUuids
    KernelFaults = {}
    Content <- MCContent
    Unrunnable = {}
    Malformed = {}
    Pulls = {1, 2}
    ETags = TRUE
    RequestFaults = {"users"}
    StartLists <- MCSomeUsers
    PanelLists <- MCSomeUsers
    MaxEdits = 2
    MaxFaults = 1
    MaxRenewals = 1
    StatusCap = 1
    FullSyncOnConnect = TRUE
    Deltas = TRUE
    MaxFlaps = 1
PROPERTY ConnectedConverges
CHECK_DEADLOCK FALSE
