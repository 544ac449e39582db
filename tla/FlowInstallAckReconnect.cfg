SPECIFICATION Spec
CONSTANTS
    NTypes = 2
    Cfgs = {}
    MaxSeqno = 0
    Tables = {"lflow"}
    Zones = {}
    TlvStates = {"ours"}
    WaitTimes = {0}
    MaxDrops = 1
    MaxErrors = 0
    MaxRaces = 0
    MaxVer = 2
    MaxNb = 1
    MaxIf = 1
    MaxCond = 0
INVARIANT AckOnlyInstalled
