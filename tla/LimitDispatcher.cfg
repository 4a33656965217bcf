SPECIFICATION Spec
CONSTANTS
    c1 = c1
    c2 = c2
    c3 = c3
    None = None
    Conns <- MCConns
    IPs = {1, 2}
    Limits = {0, 1, 2}
SYMMETRY MCSymmetry
INVARIANTS ConnCountExact RefsExact NoPhantomDevices
PROPERTY ConnectedDeviceAdmitted
CHECK_DEADLOCK FALSE
