SPECIFICATION FairSpec
CONSTANTS
    NTypes = 2
    Cfgs = {}
    MaxSeqno = 0
    Tables = {"lflow"}
    Zones = {"z1"}
    TlvStates = {"ours"}
    WaitTimes = {0, 1}
    MaxDrops = 0
    MaxErrors = 1
    MaxRaces = 0
    MaxVer = 1
    MaxNb = 0
    MaxIf = 0
    MaxCond = 0
PROPERTY FlowsConverge
PROPERTY ZonesSettle
