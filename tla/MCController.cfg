SPECIFICATION MCSpec
SYMMETRY Symmetry
CHECK_DEADLOCK FALSE
CONSTANTS
    Explored = {"flows", "seqno", "mac", "aging", "queues", "lflow", "binding", "portsec"}
    Unused = Unused
    Uuids = {u1, u2}
    Matches = {m1, m2}
    MaxFlows = 3
    Out = Out
    None = None
    NTypes = 2
    Cfgs = {1, 2, 3}
    MaxSeqno = 4
    McDps = {d1, d2}
    McThresholds = {0, 1}
    MaxMcRows = 2
    MaxMcChanges = 4
    AgConfigs <- MCAgConfigs
    MaxAgBusy = 1
    MaxAgReply = 1
    MaxAgModes = 1
    PqChassis = {"c1", "c2"}
    PqMacs = {"m1", "m2"}
    PqKinds = {"mb", "fdb", "vport"}
    BufferDepth = 2
    MaxPqPackets = 4
    MaxPqFails = 2
    LoFlows <- MCFlows
    LoSets = {"s1", "s2"}
    LoIps = {"a", "b"}
    LoPorts <- MCPorts
    LoLb <- MCLb
    LoHazards = {}
    MaxLoChanges = 2
    RdPorts <- MCRdPorts
    RdRows <- MCRdRows
    RdIfaces = {"i1", "i2"}
    RdIds = {"p", "c", "none"}
    MaxRdChanges = 3
    RdStart <- MCRdStart
    RdHazards = {}
    PsEntries <- MCEntries
INVARIANT SeqnosRight
INVARIANT InstalledRight
INVARIANT MacCacheRight
INVARIANT AgingRight
INVARIANT QueuesRight
 
INVARIANT BindingsRight
INVARIANT PortSecRight
