SPECIFICATION MCFairSpec
CHECK_DEADLOCK FALSE
CONSTANTS
    Explored = {"bfd", "health", "ha"}
    Unused = Unused
    AZs = {a1, a2}
    Switches = {t1}
    MinKey = 1
    MaxKey = 2
    MaxIcCfg = 2
    MaxIcFaults = 1
    Zones = {a1, a2}
    IpPrefixes = {p}
    MaxPortKey = 2
    MaxIpUser = 2
    MaxIpFails = 1
    Detect = 2
    MaxBfdLost = 1
    MaxBfdUser = 3
    MaxBfdFaults = 1
    MaxBfdEvents = 3
    McGroups = {"g1", "g2", "g3"}
    McSizes = {1, 2}
    DefaultSize = 3
    McKeys = {1, 2, 3, 4, 5}
    MaxMcEvents = 4
    HcChassis = {"c1", "c2"}
    SuccessCount = 1
    FailureCount = 2
    MaxHcEvents = 3
    MaxHcLate = 1
    HaChassis = {"g1", "g2", "c1"}
    HaRank <- MCHaRank
    HaConfigs <- MCHaConfigs
    HaNone = "none"
    MaxHaEvents = 2
    MaxHaFails = 1
    NbClients = {c1, c2}
    NbTopics = {"ls", "lr", "lsp", "addresses", "lrp", "mirror", "meter", "fwd_group", "pg", "ha_group", "dhcp", "acl", "qos", "policy", "ls_lb", "lr_lb", "mirrors", "nat", "route", "static_mac", "ha_chassis", "lb_add"}
    NbKeys = {1, 2}
    NbVals = {1, 2}
    MaxNbCmds = 3
PROPERTY BfdRight
PROPERTY HealthRight
PROPERTY HaRight
