SPECIFICATION FairReports
CONSTANTS
    Users = {u1}
    Devices = {1}
    WireCap = 1
    MaxServed = 2
    MaxRestarts = 1
    MaxFaults = 1
    MaxMoves = 3
    MaxFlaps = 1
INVARIANTS AccountedOnce NeverOvercharged
PROPERTIES EventuallyBilled DevicesReported
CHECK_DEADLOCK FALSE
