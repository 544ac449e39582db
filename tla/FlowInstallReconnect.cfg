SPECIFICATION Spec
CONSTANTS
    NTypes = 2
    Cfgs = {}
    MaxSeqno = 0
    Tables = {"lflow"}
    Zones = {"z1"}
    TlvStates = {"ours", "free", "unsupported"}
    WaitTimes = {0, 1}
    MaxDrops = 1
    MaxErrors = 0
    MaxRaces = 1
    MaxVer = 2
    MaxNb = 0
    MaxIf = 0
    MaxCond = 0
INVARIANT WaitHonoured
INVARIANT FlushedBeforeCommit
INVARIANT SwitchNeverMixed
INVARIANT GeneveOnlyIfMapped
PROPERTY FlowsOnlyReplaced
