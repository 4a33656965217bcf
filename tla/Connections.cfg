SPECIFICATION Spec
CONSTANTS
    a = a
    Conns = {c1, c2}
    Addresses = {1, 2}
    Users = {1}
    Uuids <- MCUuids
    UserLists <- MCUserLists
    Absent = Absent
    None = None
    MaxUpdates = 1
    MaxReports = 1
    MaxRestarts = 1
SYMMETRY MCSymmetry
INVARIANTS CountsMatch OwnDeviceAdmitted LimiterShared BucketsCurrent
CHECK_DEADLOCK FALSE
