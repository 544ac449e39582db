SPECIFICATION LoopSpec
CONSTANTS
    NTypes = 2
    Cfgs = {}
    MaxSeqno = 0
    Tables = {"lflow"}
    Zones = {}
    TlvStates = {"ours"}
    WaitTimes = {0}
    MaxDrops = 0
    MaxErrors = 0
    MaxRaces = 0
    MaxVer = 1
    MaxNb = 1
    MaxIf = 1
    MaxCond = 1
INVARIANT AckOnlyInstalled
INVARIANT UpdatesContiguous
PROPERTY NbCfgReported
