SPECIFICATION FairSpec
CONSTANTS
    a = a
    b = b
    Absent = Absent
    Nil = Nil
    UserIds = {1}
    Uuids <- MCUuids
    KernelFaults = {"prepare", "recreate"}
    Content <- MCContent
    Unrunnable = {4}
    Malformed = {6}
    Pulls = {1, 2}
    ETags = TRUE
    RequestFaults = {"config"}
    StartLists <- MCStartLists
    PanelLists <- Lists
    MaxEdits = 5
    MaxFaults = 1
    MaxRenewals = 2
INVARIANTS KernelInStep RenewalNotLost
PROPERTIES ConfigNeverRegresses Converges
