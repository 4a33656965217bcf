SPECIFICATION XraySpec
CONSTANTS
    a = a
    b = b
    Absent = Absent
    UserIds = {1, 2}
    Uuids <- MCUuids
    DeviceLimits = {0, 1}
    Managed = {1}
    StartFails = TRUE
    Overtaken = FALSE
    Configs = {1, 2}
    MaxFailures = 1
    MaxRenewals = 1
SYMMETRY MCSymmetry
INVARIANT AccountsInStep
PROPERTIES RevokedAtOnce StaysUp
