SPECIFICATION MCSpec
SYMMETRY Symmetry
CHECK_DEADLOCK FALSE
CONSTANTS
    Explored = {"ipam", "ports", "lb", "expr", "acl", "switch", "router", "nat"}
    Unused = Unused
    IpamPorts = {p1, p2, p3}
    IpamSpecs <- MCIpamSpecs
    IpamTotal = 4
    IpamExcluded = {}
    MacSpace = 6
    MaxIpamChanges = 2
    MaxIpamFails = 1
    KpDps <- MCKpDps
    KpPorts <- MCKpPorts
    KpSpecs <- MCKpSpecs
    KpDpReqs = {0, 1}
    KpDpKeys <- MCKpDpKeys
    KpPortKeys <- MCKpPortKeys
    MaxKpFdb = 1
    MaxKpChanges = 3
    MaxKpFails = 1
    LbRows = {l1, l2}
    LbRouters = {r1, r2}
    LbSwitches = {s1}
    LbIps = {i1}
    MaxLbChanges = 5
    ExSyms <- MCSyms
    ExTerms <- MCTerms
    ExPorts = {10, 11}
    ExPackets <- MCPackets
    MaxExOps = 2
    MaxAcls = 3
    AclTiers = 1
    AclConfigs <- MCAcls
    MaxAclEvents = 5
    SwScenarios <- MCSwitches
    SwFrameMacs = {"ma", "mb", "gw", "x", "bcast"}
    MaxSwChanges = 3
    Routers <- MCRouters
    RtAddresses = {"h1", "f1", "f2", "g2b"}
    RtMacs = {"mx"}
    MaxRtChanges = 2
    NatConfigs <- MCNats
    NatTargets = {"x1", "x2", "v", "e1", "h2"}
    MaxNatConns = 2
    MaxNatPackets = 4
INVARIANT IpamRight
INVARIANT KeysRight
INVARIANT LbRight
INVARIANT ExprRight
 
INVARIANT FramesRight
INVARIANT RoutesRight
INVARIANT NatRight
