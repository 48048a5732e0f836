SPECIFICATION Spec
CONSTANTS
    Ifaces = {"mobile", "ppp"}
    Order <- MCOrder
    Check = "check"
    Devices <- MCDevices
    Tty <- MCTty
    Net <- MCNet
    Option <- MCOption
    RealPath <- MCRealPath
    Nobody = "nobody"
    None = "none"
    MaxStarts = 2
    Movable = {"m1"}
    MaxPlugs = 2
    MaxSignals = 1
    MaxFaults = 1
INVARIANT Exclusive
PROPERTY Ends
CHECK_DEADLOCK FALSE
