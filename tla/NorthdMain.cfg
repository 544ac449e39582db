SPECIFICATION NorthdMainFairSpec
CHECK_DEADLOCK FALSE
CONSTANTS
    Hypervisors = {h1, h2}
    Northds = {n1, n2}
    Nobody = Nobody
    MaxNbCfg = 2
    MaxSbFails = 1
    MaxNdFaults = 1
PROPERTY WaitIsBarrier
PROPERTY WaitsEnd
