--------------------------- MODULE MCNorthd ---------------------------
(***************************************************************************)
(* From the Northbound database to logical flows and OpenFlow matches, for *)
(* TLC: dynamic addresses, datapaths and ports with their keys, the flows  *)
(* of load balancers, the compiler of match expressions, and the logical   *)
(* pipelines: the flows that ovn-northd writes for ACLs, switch ports,     *)
(* routers and NAT, and what becomes of packets.                           *)
(*                                                                         *)
(* They share nothing here, so a behavior exercises one of them: part says *)
(* which, and the variables of the others keep the value Unused.           *)
(***************************************************************************)
EXTENDS Ipam, NorthdPorts, LbLflows, Expr, AclPipeline, SwitchPorts,
        RouterPipeline, NatPipeline

CONSTANTS
    Explored,       \* the components of this run
    Unused          \* model value
VARIABLE part

Parts == {"ipam", "ports", "lb", "expr", "acl", "switch", "router", "nat"}

-----------------------------------------------------------------------------
(* Values of the constants                                                 *)

\* Nothing in Ipam tells ports apart but their order, which is any.
Symmetry == Permutations(IpamPorts)

\* What a port may have in addresses: dynamic, nothing, a dynamic MAC with an
\* address of its own or of another port's, static, a MAC of its own, IPv6.
DynamicSpec == [NoAddrs EXCEPT !.kind = "dynamic"]
MCIpamSpecs ==
    {DynamicSpec, NoAddrs, [DynamicSpec EXCEPT !.ip = 1], [DynamicSpec EXCEPT !.ip = 2],
     [NoAddrs EXCEPT !.kind = "static", !.mac = 1, !.ip = 1],
     [DynamicSpec EXCEPT !.mac = OtherMac], [DynamicSpec EXCEPT !.ip6 = 99]}

\* A port, one that asks for key 1 and has QoS, a container with QoS.
PortSpec(r, c, t, q) == [req |-> r, child |-> c, tagreq |-> t, qos |-> q]
MCKpDps == <<"s1", "s2">>
MCKpPorts == <<"p1", "p2">>
MCKpSpecs ==
    {PortSpec(0, FALSE, -1, FALSE), PortSpec(1, FALSE, -1, TRUE), PortSpec(0, TRUE, 0, TRUE)}
MCKpDpKeys == [plain |-> 2, vxlan |-> 1]
MCKpPortKeys == [plain |-> 2, vxlan |-> 1]

\* A nominal protocol, the predicate and the port that need it, a register and
\* a flag in it, and the string field inport.
Const(v) == [value |-> v, masked |-> FALSE, mask |-> {}, as |-> FALSE]
MaskedConst(v, m) == [value |-> v, masked |-> TRUE, mask |-> m, as |-> FALSE]
SetConst(v) == [value |-> v, masked |-> FALSE, mask |-> {}, as |-> TRUE]
FieldRef(s, o, n) == [sym |-> s, ofs |-> o, n |-> n]
Compare(f, op, cs) == [k |-> "cmp", f |-> f, op |-> op, cs |-> cs]
Symbol(w, lv, r, cr, pre, pred, par, o) ==
    [width |-> w, level |-> lv, rank |-> r, cross |-> cr, pre |-> pre, pred |-> pred,
     parent |-> par, ofs |-> o]
NonZero(s) == Compare(FieldRef(s, 0, 1), "!=", <<Const({})>>)
MCSyms ==
    [proto |-> Symbol(1, "nominal", 5, TRUE, NoText, NoText, NoName, 0),
     tcp |-> Symbol(1, "nominal", 8, FALSE, NoText,
                 Compare(FieldRef("proto", 0, 1), "==", <<Const({0})>>), NoName, 0),
     tdst |-> Symbol(2, "ordinal", 9, FALSE, NonZero("tcp"), NoText, NoName, 0),
     reg |-> Symbol(3, "ordinal", 6, FALSE, NoText, NoText, NoName, 0),
     flag |-> Symbol(1, "ordinal", 2, FALSE, NoText, NoText, "reg", 2),
     inport |-> Symbol(0, "nominal", 3, FALSE, NoText, NoText, NoName, 0)]
Reg == FieldRef("reg", 0, 3)
MCTerms ==
    {Compare(Reg, "!=", <<SetConst({0, 2}), SetConst({1})>>),
     Compare(Reg, "==", <<MaskedConst({}, {0}), MaskedConst({2}, {1, 2}), Const({0, 1})>>),
     [k |-> "range", f |-> Reg, r1 |-> "<", c1 |-> Const({0}), r2 |-> "<=", c2 |-> Const({0, 2})],
     Compare(FieldRef("tdst", 0, 2), "==", <<Const({0}), Const({0, 1})>>),
     NonZero("flag"),
     Compare(FieldRef("inport", 0, 0), "==", <<Const({10}), Const({11}), Const({12})>>),
     [k |-> "cond", port |-> 10]}
\* A packet of another protocol has no TCP port.
MCPackets ==
    {p \in [proto : SUBSET {0}, tdst : SUBSET {0, 1}, reg : SUBSET {0, 1, 2}, inport : {{10}, {11}}] :
       p.proto = {} => p.tdst = {}}

\* ACLs: stateful ones over two tiers, one of them logged; after load
\* balancing; with stateless and multicast traffic; with a default of drop.
Acl(d, p, m, a, t, af, l) ==
    [dir |-> d, pri |-> p, match |-> m, action |-> a, tier |-> t, afterlb |-> af, label |-> l,
     log |-> FALSE]
Logged(r) == [r EXCEPT !.log = r.label # 0]
TieredAcls ==
    {Acl("from", 1, {"tcp"}, "allow-related", 0, FALSE, 0),
     Acl("from", 2, AclIpKinds, "drop", 0, FALSE, 0),
     Acl("to", 2, {"tcp"}, "allow-related", 1, FALSE, 1),
     Acl("to", 1, AclIpKinds, "reject", 0, FALSE, 0),
     Acl("to", 3, {"tcp", "mcast"}, "pass", 0, FALSE, 0)}
MixedAcls ==
    {Acl("from", 1, {"tcp"}, "drop", 0, TRUE, 0),
     Acl("to", 1, {"tcp"}, "allow-related", 0, FALSE, 1),
     Acl("from", 3, {"mcast", "err"}, "allow-stateless", 0, FALSE, 0),
     Acl("to", 3, {"mcast", "toobig"}, "allow", 0, FALSE, 0)}
AclSwitch(lb, drop, peer, rules) == [lb |-> lb, drop |-> drop, peer |-> peer, rules |-> rules]
MCAcls ==
    {AclSwitch(FALSE, FALSE, "b", {Logged(r) : r \in TieredAcls}),
     AclSwitch(TRUE, FALSE, "r", MixedAcls), AclSwitch(FALSE, TRUE, "b", MixedAcls)}
\* An ACL of tier 1 and a connection that tier 0 of the other direction allows.
LaterTierAcls ==
    {AclSwitch(FALSE, FALSE, "b", {Acl("from", 1, {"tcp"}, "allow-related", 0, FALSE, 0),
                                   Acl("to", 1, {"tcp"}, "reject", 1, FALSE, 0)})}

\* Switches: DNS and DHCP; l2-only ports behind a router that broadcasts ARP;
\* a localnet port with external and virtual ports; a VTEP gateway.
Lsp(t, mac, ip) ==
    [type |-> t, enabled |-> TRUE, mac |-> mac, ip |-> ip, unknown |-> FALSE, ps |-> {}, l2 |-> FALSE,
     srcmac |-> NoAddress, up |-> TRUE, dhcp |-> FALSE, proxy |-> FALSE, queue |-> FALSE,
     learns |-> FALSE, parents |-> {}]
Scenario(fixed, choice, pt, dns, ba, up) ==
    [fixed |-> fixed, choice |-> choice, passthru |-> pt, dns |-> dns, bcast_arp |-> ba,
     check_up |-> up, l3dgw |-> FALSE, lrp |-> TRUE, cr |-> FALSE, monitored |-> {}]
ToRouter == "r" :> [Lsp("router", NoAddress, NoAddress) EXCEPT !.proxy = TRUE]
NoProxy == "r" :> Lsp("router", NoAddress, NoAddress)
PortA == Lsp("", "ma", "ia")
PortB == Lsp("", "mb", "ib")
Anyone(t) == [Lsp(t, NoAddress, NoAddress) EXCEPT !.unknown = TRUE]
MCSwitches ==
    {[Scenario(ToRouter,
        ("a" :> {PortA, [PortA EXCEPT !.enabled = FALSE], [PortA EXCEPT !.ps = {"ma"}],
                 [PortA EXCEPT !.up = FALSE, !.dhcp = TRUE]})
        @@ ("b" :> {PortB, Anyone("")}), FALSE, TRUE, FALSE, TRUE) EXCEPT !.cr = TRUE, !.monitored = {"b"}],
     [Scenario(ToRouter,
        ("b" :> {Anyone(""), [Anyone("") EXCEPT !.l2 = TRUE],
                 [Anyone("") EXCEPT !.l2 = TRUE, !.srcmac = "mb"]})
        @@ ("a" :> {PortA, [PortA EXCEPT !.up = FALSE]}), TRUE, FALSE, TRUE, FALSE) EXCEPT !.lrp = FALSE],
     Scenario(NoProxy @@ ("ln" :> Anyone("localnet")),
        ("a" :> {PortA, [Lsp("external", "ma", "ia") EXCEPT !.dhcp = TRUE]})
        @@ ("v" :> {[Lsp("virtual", "mv", "iv") EXCEPT !.parents = {"a"}]}), FALSE, FALSE, FALSE, TRUE),
     Scenario(ToRouter @@ ("ln" :> Anyone("localnet")),
        ("a" :> {PortA, [PortA EXCEPT !.queue = TRUE]})
        @@ ("ln" :> {[Anyone("localnet") EXCEPT !.learns = TRUE]}), FALSE, FALSE, TRUE, TRUE),
     Scenario(ToRouter @@ ("vt" :> Anyone("vtep")),
        ("a" :> {PortA, [PortA EXCEPT !.ps = {"ma"}], [Lsp("localport", "ma", "ia") EXCEPT !.up = FALSE]}),
        FALSE, TRUE, FALSE, TRUE)}

\* Routers: a distributed gateway port with routes of several lengths, ECMP
\* under BFD and a discard route; a gateway router with symmetric ECMP and an
\* MTU; policies, source routes, a second route table and a disabled port.
Lrp(mac, ip, net) ==
    [mac |-> mac, ip |-> ip, net |-> net, plen |-> 24, enabled |-> TRUE, gw |-> FALSE, table |-> 0,
     mtu |-> FALSE, ra |-> FALSE]
InnerPort == Lrp("m1", "r1", {"r1", "h1"})
OuterPort == Lrp("m2", "r2", {"r2", "g2a", "g2b"})
ThirdPort == Lrp("m3", "r3", {"r3", "g3"})
Route(prefix, plen, nh) ==
    [prefix |-> prefix, plen |-> plen, src |-> FALSE, nexthop |-> nh, outport |-> NoPort,
     table |-> 0, bfd |-> FALSE, sym |-> FALSE, conn |-> FALSE]
Default(nh) == Route({"f1", "f2", "h1", "g2a", "g2b", "r1", "r2"}, 0, nh)
RoutePolicy(pri, dst, action, nhs) ==
    [pri |-> pri, dst |-> dst, action |-> action, nexthops |-> nhs, bfd |-> nhs]
Router(ports, routes, pols, learn, gw) ==
    [ports |-> ports, routes |-> routes, policies |-> pols,
     lsps |-> {[ip |-> "h1", mac |-> "mh", port |-> "p1"]}, learn |-> learn, gwrouter |-> gw]
MCRouters ==
    {Router([p1 |-> InnerPort, p2 |-> [OuterPort EXCEPT !.gw = TRUE]],
        {[Default("g2a") EXCEPT !.bfd = TRUE], [Default("g2b") EXCEPT !.bfd = TRUE],
         Route({"f2"}, 24, "discard"), Route({"f1", "h1"}, 16, "g2b"), Route({"f1"}, 24, "nowhere"),
         Route({"h1"}, 24, "g2b")}, {}, TRUE, FALSE),
     Router([p1 |-> InnerPort, p2 |-> [OuterPort EXCEPT !.mtu = TRUE], p3 |-> ThirdPort],
        {[Default("g2a") EXCEPT !.sym = TRUE], [Default("g3") EXCEPT !.sym = TRUE, !.bfd = TRUE]},
        {}, FALSE, TRUE),
     Router([p1 |-> [InnerPort EXCEPT !.table = 1, !.ra = TRUE], p2 |-> OuterPort,
             p3 |-> [ThirdPort EXCEPT !.enabled = FALSE]],
        {[Default("g2a") EXCEPT !.table = 1], Default("g2b"),
         [Route({"h1"}, 24, "g2b") EXCEPT !.src = TRUE], Route({"f2"}, 24, "g3"),
         [Route({"f1"}, 16, "g2b") EXCEPT !.conn = TRUE]},
        {RoutePolicy(20, {"f2"}, "reroute", {"g2a", "g2b"}), RoutePolicy(9, {"f2"}, "drop", {}),
         RoutePolicy(10, {"g2b"}, "reroute", {"g2a"}), RoutePolicy(5, {"g2a"}, "allow", {})},
        TRUE, FALSE)}

\* NAT rules and load balancers on gateway routers, distributed routers and
\* distributed routers with a common zone.
NoForce == [dnat |-> "none", lb |-> "none", router |-> FALSE]
NatRule(t, x, l, d) ==
    [type |-> t, ext |-> x, log |-> l, plen |-> IF Cardinality(l) = 1 THEN 32 ELSE 24, dist |-> d,
     stateless |-> FALSE, mode |-> "any", exts |-> {}]
NatRouter(k, ns, ls, f) == [kind |-> k, nats |-> ns, lbs |-> ls, force |-> f]
Snat == NatRule("snat", "x1", {"h1", "h2"}, FALSE)
Floating(d) == NatRule("dnat_and_snat", "x2", {"h2"}, d)
Balanced(s) == [vip |-> "v", backends |-> {"h1", "h2"}, skip |-> s]
NatKinds == {"gw", "dist", "czone"}
MCNats ==
    {NatRouter(k, {Snat, Floating(d)}, {}, NoForce) : k \in {"dist", "czone"}, d \in BOOLEAN}
    \cup {NatRouter("gw", {Snat, Floating(FALSE)}, {}, NoForce)}
    \cup {NatRouter(k, {Snat, NatRule("dnat", "x2", {"h2"}, FALSE)}, {}, NoForce) : k \in NatKinds}
    \cup {NatRouter(k, {Snat, [Floating(TRUE) EXCEPT !.stateless = TRUE]}, {}, NoForce) :
             k \in {"dist", "czone"}}
    \cup {NatRouter(k, {[Snat EXCEPT !.mode = m, !.exts = {"e1"}]}, {}, NoForce) :
             k \in NatKinds, m \in {"allowed", "exempted"}}
    \cup {NatRouter(k, {Snat}, {Balanced(FALSE)}, NoForce) : k \in NatKinds}
    \cup {NatRouter("gw", {Snat}, {Balanced(TRUE)}, NoForce),
          NatRouter("gw", {}, {Balanced(FALSE)}, [NoForce EXCEPT !.lb = "f"]),
          NatRouter("gw", {Snat}, {Balanced(FALSE)}, [NoForce EXCEPT !.lb = "f"]),
          NatRouter("gw", {}, {Balanced(FALSE)}, [NoForce EXCEPT !.router = TRUE]),
          NatRouter("gw", {Floating(FALSE)}, {}, [NoForce EXCEPT !.dnat = "f"])}
\* A load balancer with skip_snat behind a distributed gateway port.
SkipSnatNats == {NatRouter("dist", {Snat}, {Balanced(TRUE)}, NoForce)}

-----------------------------------------------------------------------------
IpamIs(chosen) ==
    IF chosen THEN IpamInit
    ELSE /\ ipspec = Unused /\ ipdyn = Unused /\ ipconf = Unused /\ iporder = Unused
         /\ ippend = Unused /\ ipn = Unused
PortsIs(chosen) ==
    IF chosen THEN NorthdPortsInit
    ELSE /\ kpdp = Unused /\ kpport = Unused /\ kpsbdp = Unused /\ kppb = Unused
         /\ kpfdb = Unused /\ kpmode = Unused /\ kppend = Unused /\ kpn = Unused
LbIs(chosen) ==
    IF chosen THEN LbLflowsInit
    ELSE /\ lbnb = Unused /\ lbseen = Unused /\ lbdps = Unused /\ lbrec = Unused
         /\ lbtab = Unused /\ lbsb = Unused /\ lbchanges = Unused
ExprIs(chosen) ==
    IF chosen THEN ExInit
    ELSE /\ text = Unused /\ exOps = Unused

AclIs(chosen) ==
    IF chosen THEN AclInit
    ELSE /\ acls = Unused /\ aclcfg = Unused /\ aclct = Unused /\ aclpass = Unused
         /\ aclevents = Unused
SwitchIs(chosen) ==
    IF chosen THEN SwitchPortsInit
    ELSE /\ scen = Unused /\ nbports = Unused /\ oldports = Unused /\ built = Unused
         /\ builtod = Unused /\ l2built = Unused /\ groups = Unused /\ fdb = Unused
         /\ learning = Unused /\ additional = Unused /\ swtracked = Unused /\ swn = Unused
RouterIs(chosen) ==
    IF chosen THEN RouterPipelineInit
    ELSE /\ router = Unused /\ bfddown = Unused /\ macs = Unused /\ replies = Unused
         /\ rtn = Unused
NatIs(chosen) ==
    IF chosen THEN NatPipelineInit
    ELSE /\ natconf = Unused /\ natct = Unused /\ natconns = Unused /\ natlast = Unused
         /\ natn = Unused

MCInit ==
    /\ part \in Explored
    /\ IpamIs(part = "ipam") /\ PortsIs(part = "ports")
    /\ LbIs(part = "lb") /\ ExprIs(part = "expr")
    /\ AclIs(part = "acl") /\ SwitchIs(part = "switch")
    /\ RouterIs(part = "router") /\ NatIs(part = "nat")

Rests(p) ==
    CASE p = "ipam" -> UNCHANGED ipvars
      [] p = "ports" -> UNCHANGED kpvars
      [] p = "lb" -> UNCHANGED lbVars
      [] p = "expr" -> UNCHANGED exVars
      [] p = "acl" -> UNCHANGED aclVars
      [] p = "switch" -> UNCHANGED swvars
      [] p = "router" -> UNCHANGED rtvars
      [] p = "nat" -> UNCHANGED natvars
Alone(p) == part = p /\ UNCHANGED part /\ \A q \in Parts \ {p} : Rests(q)

MCNext ==
    \/ Alone("ipam") /\ IpamNext
    \/ Alone("ports") /\ NorthdPortsNext
    \/ Alone("lb") /\ LbLflowsNext
    \/ Alone("expr") /\ ExNext
    \/ Alone("acl") /\ AclNext
    \/ Alone("switch") /\ SwitchPortsNext
    \/ Alone("router") /\ RouterPipelineNext
    \/ Alone("nat") /\ NatPipelineNext

vars == <<part, ipvars, kpvars, lbVars, exVars, aclVars, swvars, rtvars, natvars>>
MCSpec == MCInit /\ [][MCNext]_vars

-----------------------------------------------------------------------------
(***************************************************************************)
(* The properties of the components, each on the behaviors of its own.     *)
(***************************************************************************)

\* ipam.c, northd.c: a few runs after the last change no two dynamic ports share
\* an address, all are in the subnet, a port without one finds the subnet full,
\* and nothing changes any more - except for a port that asks for the last
\* address of the subnet, which northd.c:1573 accepts and 1553 refuses: it gets
\* another address in every run.
IpamRight == part = "ipam" => AddressesSettle
\* northd.c build_ports(), build_datapaths(): no two ports of a datapath and no
\* two datapaths ever share a key, and a few runs after the last change or
\* failed transaction each has one, unless all are used up, and the queue it
\* asks for.
KeysRight == part = "ports" => PortsSettle
\* en-lb-data.c, en-lr-stateful.c, lflow-mgr.c: changes of load balancers
\* handled one by one lose no logical flow of a recomputation that is made from
\* the load balancers or from the records of the switches.  The flows and VIP
\* addresses of the routers' records are not compared: en-lr-stateful.c:257-262
\* takes away addresses that another load balancer still uses.
LbRight == part = "lb" => LbFlowsComplete
\* expr.c: the matches an expression is compiled to, conjunctions included,
\* match exactly the packets for which the expression is true.
ExprRight == part = "expr" => ExprMatchesExactly
\* northd.c: when every change of the ports was handled, each frame is
\* delivered, answered or dropped as the configuration says.  Floods are compared
\* without the ports whose "enabled" an incremental change left the groups behind
\* on (northd.c:16888-16954).
FramesRight == part = "switch" => FramesAsConfigured
\* northd.c: each packet that a router gets goes where its routes, policies and
\* BFD sessions determine, source routes of the main table seen from a port of
\* another table left aside (build_route_match() gives them a lower priority);
\* with ECMP symmetric reply in the main table a reply leaves by the route its
\* connection came in.
RoutesRight == part = "router" => RoutedAsConfigured /\ RepliesSymmetric
\* northd.c build_lrouter_nat_defrag_and_lb(): a connection through NAT or a
\* load balancer gets its answers, from the address it was opened to, on a
\* gateway router and on a distributed one whose load balancers do not skip SNAT
\* (replies of those are not translated back, northd.c:11272-11274).
NatRight == part = "nat" => NatTransparent
==============================================================================
