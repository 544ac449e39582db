SPECIFICATION FairSpec
CONSTANTS
    NTypes = 1
    Cfgs = {}
    MaxSeqno = 0
    Ports = {p1}
    Earlier = {}
    MaxFlight = 2
    MaxIface = 2
    MaxBind = 1
    MaxOther = 1
    MaxSbFails = 1
    MaxOvsFails = 1
    MaxDrops = 1
    MaxForced = 1
    MaxEvents = 4
INVARIANT UpOnlyIfInstalled
INVARIANT InstalledIsBound
INVARIANT HandedOver
PROPERTY PortComesUp
