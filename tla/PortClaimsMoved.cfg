SPECIFICATION Spec
CONSTANTS
    NTypes = 1
    Cfgs = {}
    MaxSeqno = 0
    Ports = {p1, p2}
    Earlier = {p1}
    MaxFlight = 2
    MaxIface = 1
    MaxBind = 1
    MaxOther = 1
    MaxSbFails = 0
    MaxOvsFails = 0
    MaxDrops = 0
    MaxForced = 0
    MaxEvents = 3
INVARIANT OnlyWhereRequested
