-------------------------- MODULE RouterPipeline ---------------------------
(***************************************************************************)
(* The routing stages of a logical router: the flows ovn-northd builds     *)
(* from its ports, static routes, policies and BFD sessions                *)
(* (northd/northd.c), and a packet's way through them, with the neighbours *)
(* the router learns and the connections of symmetric ECMP replies.  The   *)
(* stages of NAT and load balancing are in NatPipeline.                    *)
(*                                                                         *)
(* An address is a model value; a network or prefix is the set of its      *)
(* addresses with a length; IPv4 only, IPv6 is built alike.  A router is   *)
(*   ports:    name -> [mac, ip, net, plen, enabled, gw, table, mtu, ra]   *)
(*             (gw: a distributed gateway port; table: options:route_table)*)
(*   routes:   {[prefix, plen, src, nexthop, outport, table, bfd, sym,     *)
(*             conn]} (src: policy src-ip; sym: ecmp_symmetric_reply;      *)
(*             conn: options:origin=connected)                             *)
(*   policies: {[pri, dst, action, nexthops, bfd]}                         *)
(*   lsps:     {[ip, mac, port]}, known addresses beyond port              *)
(*   options:  learn (always_learn_from_arp_request), gwrouter (chassis).  *)
(***************************************************************************)
EXTENDS Lflow

CONSTANTS Routers, RtAddresses, RtMacs, MaxRtChanges

VARIABLES router,    \* the configuration
          bfddown,   \* next hops whose NB BFD session is down
          macs,      \* MAC_Binding rows: <<port, ip, mac>>
          replies,   \* ct entries of ECMP replies: <<local, remote, port, mac>>
          rtn
rtvars == <<router, bfddown, macs, replies, rtn>>

NoPort == "no-port"
NoEth == "no-eth"
NoGroup == <<"none">>
Names == DOMAIN router.ports
Port(p) == router.ports[p]
RtOwnIps == {Port(p).ip : p \in Names}
RtDrop(stage, pri, match) == Flow(stage, pri, match, NoLoad, "drop")
RtNext(stage, pri, match) == Flow(stage, pri, match, NoLoad, "next")
RtIpKinds == {"ip", "tcp", "echo", "echo_rep", "bfd", "error"}

(***************************************************************************)
(* Admission, neighbours, packets for the router.                          *)
(***************************************************************************)
build_adm_ctrl_flows_for_lrouter == RtDrop("admission", 100, {[vlan |-> {TRUE}], [eth_src |-> {"bcast"}]})
build_gateway_mtu_flow(stage, p, match, load) ==
    Flow(stage, 50, match, IF Port(p).mtu THEN [larger |-> Move("big")] @@ load ELSE load, "next")
build_adm_ctrl_flows_for_lrouter_port(p) ==
    IF ~Port(p).enabled THEN {}
    ELSE build_gateway_mtu_flow("admission", p, {[eth_dst |-> {"bcast"}, inport |-> {p}]}, NoLoad)
         \cup build_gateway_mtu_flow("admission", p,
                {[eth_dst |-> {Port(p).mac}, inport |-> {p}] @@ IF Port(p).gw THEN [resident |-> {TRUE}] ELSE <<>>}, NoLoad)

build_neigh_learning_flows_for_lrouter ==
    Flow("lookup_neigh", 100, {[kind |-> {"arp_rep"}]}, [known_ip |-> Val(TRUE)], "lookup_arp")
    \cup Flow("lookup_neigh", 0, Always, [known |-> Val(TRUE)], "next")
    \cup RtNext("learn_neigh", 100, {[known |-> {TRUE}]} \cup IF router.learn THEN {} ELSE {[known_ip |-> {FALSE}]})
    \cup Flow("learn_neigh", 90, {[kind |-> {"arp_req", "arp_rep"}]}, NoLoad, "put_arp")
build_neigh_learning_flows_for_lrouter_port(p) ==
    LET m == [kind |-> {"arp_req"}, inport |-> {p}, src |-> Port(p).net] @@ IF Port(p).gw THEN [resident |-> {TRUE}] ELSE <<>>
    IN  (IF router.learn THEN {} ELSE Flow("lookup_neigh", 110, {[dst |-> {Port(p).ip}] @@ m}, [known_ip |-> Val(TRUE)], "lookup_arp"))
        \cup Flow("lookup_neigh", 100, {m}, NoLoad, IF router.learn THEN "lookup_arp" ELSE "lookup_arp_ip")

build_misc_local_traffic_drop_flows_for_lrouter ==
    RtDrop("ip_input", 100, {[kind |-> RtIpKinds, src |-> {"loopback", "mcast"}], [kind |-> RtIpKinds, dst |-> {"loopback"}]})
    \cup RtDrop("ip_input", 85, {[kind |-> {"arp_req", "arp_rep"}]})
    \cup RtNext("ip_input", 84, {[kind |-> {"rs"}]})
    \cup RtDrop("ip_input", 82, {[kind |-> RtIpKinds, dst |-> {"mcast"}]})
    \cup RtDrop("ip_input", 50, {[eth_dst |-> {"bcast"}]})
    \cup RtDrop("ip_input", 30, {[kind |-> RtIpKinds, ttl |-> {0, 1}]})
    \cup RtNext("ip_input", 0, Always)
\* has_bfd: a BFD session of the router uses the port.
HasBfd(p) == \E r \in router.routes : r.bfd /\ r.nexthop \in Port(p).net
build_lrouter_bfd_flows(p) ==
    IF ~HasBfd(p) THEN {} ELSE
    RtNext("ip_input", 110, {[kind |-> {"bfd"}, src |-> {Port(p).ip}]})
    \cup Flow("ip_input", 110, {[kind |-> {"bfd"}, dst |-> {Port(p).ip}]}, NoLoad, "bfd")
Swap == [src |-> Move("dst"), dst |-> Move("src"), ttl |-> Val(3)]
build_lrouter_arp_flow(p) ==
    Flow("ip_input", 90, {[inport |-> {p}, kind |-> {"arp_req"}, dst |-> {Port(p).ip}, src |-> Port(p).net]
                          @@ IF Port(p).gw THEN [resident |-> {TRUE}] ELSE <<>>}, NoLoad, "reply_arp")
\* Errors for connection attempts only without gateway ports.
LrouterRejects(p) ==
    IF router.gwrouter \/ \E q \in Names : Port(q).gw THEN {}
    ELSE Flow("ip_input", 80, {[kind |-> {"tcp"}, dst |-> {Port(p).ip}]}, [kind |-> Val("error")] @@ Swap, "next")
         \cup Flow("ip_input", 70, {[kind |-> RtIpKinds, dst |-> {Port(p).ip}]}, [kind |-> Val("error")] @@ Swap, "next")
build_lrouter_ipv4_ip_input(p) ==
    RtDrop("ip_input", 100, {[kind |-> RtIpKinds, src |-> {Port(p).ip}, eloop |-> {FALSE}]})
    \cup Flow("ip_input", 90, {[dst |-> {Port(p).ip}, kind |-> {"echo"}]}, [kind |-> Val("echo_rep")] @@ Swap, "next")
    \cup build_lrouter_bfd_flows(p)
    \cup Flow("ip_input", 31, {[inport |-> {p}, kind |-> RtIpKinds, ttl |-> {0, 1}]}, NoLoad, "reply_ttl")
    \cup build_lrouter_arp_flow(p) \cup LrouterRejects(p)
build_lrouter_drop_own_dest(p) == RtDrop("ip_input", 60, {[kind |-> RtIpKinds, dst |-> {Port(p).ip}]})

build_ND_RA_flows_for_lrouter == RtNext("ra_opts", 0, Always) \cup RtNext("ra_rsp", 0, Always)
build_ND_RA_flows_for_lrouter_port(p) ==
    IF ~Port(p).ra THEN {}
    ELSE Flow("ra_opts", 50, {[inport |-> {p}, kind |-> {"rs"}]}, [kind |-> Val("ra")], "next")
         \cup Flow("ra_rsp", 50, {[inport |-> {p}, kind |-> {"ra"}]}, NoLoad, "reply_ra")

(***************************************************************************)
(* Routes.                                                                 *)
(***************************************************************************)
find_lrp_member_ip(p, ip) == ip \in Port(p).net
\* The output port of a route, or NoPort.
find_static_route_outport(r) ==
    IF r.outport # NoPort THEN IF r.outport \in Names THEN r.outport ELSE NoPort
    ELSE IF \E p \in Names : find_lrp_member_ip(p, r.nexthop)
    THEN CHOOSE p \in Names : find_lrp_member_ip(p, r.nexthop) ELSE NoPort
Discard(r) == r.nexthop = "discard"
\* The routes that are used: those with an output port and no failed BFD session.
parsed_routes_add ==
    {r \in router.routes :
        /\ Discard(r) \/ find_static_route_outport(r) # NoPort
        /\ ~(r.bfd /\ r.nexthop \in bfddown)}
RouteKey(r) == <<r.prefix, r.plen, r.src, r.table>>
GroupOf(r) == {s \in parsed_routes_add : RouteKey(s) = RouteKey(r)}
\* ecmp_groups_find(), ecmp_groups_add(), unique_routes_remove(): routes of the
\* same prefix form a group, and so does one with a symmetric reply.
ecmp_groups == {GroupOf(r) : r \in {s \in parsed_routes_add : Cardinality(GroupOf(s)) > 1 \/ s.sym}}
unique_routes == {r \in parsed_routes_add : GroupOf(r) \notin ecmp_groups}

build_route_table_lflow(p) ==
    IF Port(p).table = 0 THEN {} ELSE Flow("routing_pre", 100, {[inport |-> {p}]}, [rtable |-> Val(Port(p).table)], "next")
build_ip_routing_pre_flows_for_lrouter == Flow("routing_pre", 0, Always, [rtable |-> Val(0)], "next")

STATIC == 1
CONNECTED == 2
\* Mutant: the offset of a connected route is forgotten.
RoutePriorityFlat(plen, src, ofs) == plen * 3 + IF src THEN 0 ELSE STATIC
RoutePriority(plen, src, ofs) == plen * 3 + IF src THEN 0 ELSE ofs
build_route_match(table, prefix, src, ofs) ==
    [kind |-> RtIpKinds] @@ (IF src THEN [src |-> prefix] ELSE [dst |-> prefix])
    @@ IF table # 0 \/ (~src /\ ofs = STATIC) THEN [rtable |-> {table}] ELSE <<>>
\* add_route(): gateway "" sends to the destination itself.  BFD packets keep their TTL.
add_route(p, prefix, plen, gateway, src, table, ofs) ==
    LET m == build_route_match(table, prefix, src, ofs)
        pri == RoutePriority(plen, src, ofs)
        load == [gid |-> Val(NoGroup), nexthop |-> IF gateway = "" THEN Move("dst") ELSE Val(gateway), outport |-> Val(p), eth_src |-> Val(Port(p).mac)]
    IN  Flow("routing", pri, {m}, load, "ttl")
        \cup IF HasBfd(p) THEN Flow("routing", pri + 1, {[m EXCEPT !.kind = {"bfd"}]}, load, "next") ELSE {}
Offset(r) == IF r.conn THEN CONNECTED ELSE STATIC
build_static_route_flow(r) ==
    IF Discard(r) THEN RtDrop("routing", RoutePriority(r.plen, r.src, Offset(r)), {build_route_match(r.table, r.prefix, r.src, Offset(r))})
    ELSE add_route(find_static_route_outport(r), r.prefix, r.plen, r.nexthop, r.src, r.table, Offset(r))
build_ip_routing_flows_for_lrp(p) == add_route(p, Port(p).net, Port(p).plen, "", FALSE, 0, CONNECTED)

\* The match of outgoing packets names the route table, which routing_pre sets
\* later: only replies to the main table's routes are tracked.
add_ecmp_symmetric_reply_flows(r, match) ==
    LET p == find_static_route_outport(r)
        arrived == [inport |-> {p}, kind |-> RtIpKinds] @@ IF r.src THEN [dst |-> r.prefix] ELSE [src |-> r.prefix]
    IN  Flow("defrag", 100, {arrived}, NoLoad, "ct_next") \cup Flow("defrag", 100, {match}, NoLoad, "ct_next")
        \cup Flow("ecmp_stateful", 100, {[tracked |-> {TRUE}, rpl |-> {FALSE}] @@ arrived}, NoLoad, "ct_commit")
        \cup Flow("routing", 10300, {[rpl |-> {TRUE}, ctport |-> {p}] @@ match}, [outport |-> Val(p), eth_src |-> Val(Port(p).mac)], "ttl")
        \cup RtNext("policy", 65535, {[rpl |-> {TRUE}, ctport |-> {p}]})
        \cup Flow("arp_resolve", 200, {[rpl |-> {TRUE}, ctport |-> {p}]}, [eth_dst |-> Move("cteth")], "next")
RouteGroup(r) == <<"route">> \o RouteKey(r)
build_ecmp_route_flow(g) ==
    LET r == CHOOSE r \in g : TRUE
        match == build_route_match(r.table, r.prefix, r.src, Offset(r))
    IN  Flow("routing", RoutePriority(r.plen, r.src, Offset(r)), {match}, [gid |-> Val(RouteGroup(r)), mids |-> Val({<<s.nexthop, s.outport>> : s \in g})], "select_ttl")
        \cup UNION {LET p == find_static_route_outport(s)
                    IN  IF Discard(s) THEN {}
                        ELSE Flow("routing_ecmp", 100, {[gid |-> {RouteGroup(r)}, mid |-> {<<s.nexthop, s.outport>>}]},
                                  [nexthop |-> Val(s.nexthop), outport |-> Val(p), eth_src |-> Val(Port(p).mac)], "next")
                             \cup IF router.gwrouter /\ s.sym THEN add_ecmp_symmetric_reply_flows(s, match) ELSE {} : s \in g}
build_static_route_flows_for_lrouter ==
    RtNext("routing_ecmp", 150, {[gid |-> {NoGroup}]})
    \cup UNION {build_route_table_lflow(p) : p \in Names}
    \cup UNION {build_ecmp_route_flow(g) : g \in ecmp_groups} \cup UNION {build_static_route_flow(r) : r \in unique_routes}
build_mcast_lookup_flows_for_lrouter == RtDrop("routing", 10550, {[kind |-> {"rs", "ra"}]})

(***************************************************************************)
(* Policies.                                                               *)
(***************************************************************************)
check_bfd_state(pol, nh) == ~(nh \in pol.bfd /\ nh \in bfddown)
get_outport_for_routing_policy_nexthop(nh) ==
    IF \E p \in Names : find_lrp_member_ip(p, nh) THEN CHOOSE p \in Names : find_lrp_member_ip(p, nh) ELSE NoPort
PolicyGroup(pol) == <<"policy", pol.pri>>
PolicyMatch(pol) == [kind |-> RtIpKinds, dst |-> pol.dst]
Reroute(nh) ==
    LET p == get_outport_for_routing_policy_nexthop(nh)
    IN  [nexthop |-> Val(nh), outport |-> Val(p), eth_src |-> Val(Port(p).mac)]
build_routing_policy_flow(pol) ==
    CASE pol.action = "drop"    -> RtDrop("policy", pol.pri, {PolicyMatch(pol)})
      [] pol.action = "allow"   -> Flow("policy", pol.pri, {PolicyMatch(pol)}, [gid |-> Val(NoGroup)], "next")
      [] pol.action = "reroute" -> LET nh == CHOOSE n \in pol.nexthops : TRUE
                                   IN  IF get_outport_for_routing_policy_nexthop(nh) = NoPort \/ ~check_bfd_state(pol, nh) THEN {}
                                       ELSE Flow("policy", pol.pri, {PolicyMatch(pol)}, [gid |-> Val(NoGroup)] @@ Reroute(nh), "next")
build_ecmp_routing_policy_flows(pol) ==
    LET valid == {nh \in pol.nexthops : check_bfd_state(pol, nh)}
    IN  IF (\E nh \in pol.nexthops : get_outport_for_routing_policy_nexthop(nh) = NoPort) \/ valid = {} THEN {}
        ELSE Flow("policy", pol.pri, {PolicyMatch(pol)}, [gid |-> Val(PolicyGroup(pol)), mids |-> Val({<<nh, NoPort>> : nh \in valid})], "select")
             \cup UNION {Flow("policy_ecmp", 100, {[gid |-> {PolicyGroup(pol)}, mid |-> {<<nh, NoPort>>}]}, Reroute(nh), "next") : nh \in valid}
build_ingress_policy_flows_for_lrouter ==
    Flow("policy", 0, Always, [gid |-> Val(NoGroup)], "next")
    \cup RtNext("policy_ecmp", 150, {[gid |-> {NoGroup}]})
    \cup UNION {IF pol.action = "reroute" /\ Cardinality(pol.nexthops) > 1 THEN build_ecmp_routing_policy_flows(pol)
                ELSE build_routing_policy_flow(pol) : pol \in router.policies}

(***************************************************************************)
(* Next hop to MAC address, length, gateway, delivery.                     *)
(***************************************************************************)
build_arp_resolve_flows_for_lrouter == Flow("arp_resolve", 1, {[kind |-> RtIpKinds]}, NoLoad, "get_arp")
build_arp_resolve_flows_for_lsp(l) == Flow("arp_resolve", 100, {[outport |-> {l.port}, nexthop |-> {l.ip}]}, [eth_dst |-> Val(l.mac)], "next")

create_icmp_need_frag_lflow(p, stage, pri, match) ==
    Flow(stage, pri, {[inport |-> {p}, kind |-> RtIpKinds, larger |-> {TRUE}, eloop |-> {FALSE}] @@ match},
         [eloop |-> Val(TRUE), larger |-> Val(FALSE), big |-> Val(FALSE), eth_dst |-> Val(Port(p).mac), kind |-> Val("error"),
          dst |-> Move("src"), src |-> Val(Port(p).ip), ttl |-> Val(3)], "restart")
build_check_pkt_len_flows_for_lrp(p) ==
    IF ~Port(p).mtu THEN {}
    ELSE build_gateway_mtu_flow("chk_len", p, {[outport |-> {p}]}, NoLoad)
         \cup create_icmp_need_frag_lflow(p, "ip_input", 150, <<>>)
         \cup UNION {create_icmp_need_frag_lflow(q, "larger", 150, [outport |-> {p}]) : q \in Names \ {p}}
build_check_pkt_len_flows_for_lrouter == RtNext("chk_len", 0, Always) \cup RtNext("larger", 0, Always)

\* outport = the chassisredirect port: the gateway chassis continues.
build_gateway_redirect_flows_for_lrouter ==
    RtNext("gw_redirect", 0, Always)
    \cup UNION {Flow("gw_redirect", 50, {[outport |-> {p}]}, [redirect |-> Val(TRUE)], "next") : p \in {q \in Names : Port(q).gw}}
build_arp_request_flows_for_lrouter ==
    Flow("arp_request", 100, {[eth_dst |-> {NoEth}, kind |-> RtIpKinds]}, NoLoad, "arp")
    \cup Flow("arp_request", 0, Always, NoLoad, "output")
build_egress_delivery_flows_for_lrouter_port(p) ==
    IF ~Port(p).enabled THEN {} ELSE Flow("delivery", 100, {[outport |-> {p}]}, NoLoad, "sent")

build_lswitch_and_lrouter_iterate_by_lr ==
    build_adm_ctrl_flows_for_lrouter \cup build_neigh_learning_flows_for_lrouter \cup build_ND_RA_flows_for_lrouter
    \cup build_ip_routing_pre_flows_for_lrouter \cup build_static_route_flows_for_lrouter \cup build_mcast_lookup_flows_for_lrouter
    \cup build_ingress_policy_flows_for_lrouter \cup build_arp_resolve_flows_for_lrouter \cup build_check_pkt_len_flows_for_lrouter
    \cup build_gateway_redirect_flows_for_lrouter \cup build_arp_request_flows_for_lrouter \cup build_misc_local_traffic_drop_flows_for_lrouter
    \cup RtNext("defrag", 0, Always) \cup RtNext("ecmp_stateful", 0, Always)
build_lswitch_and_lrouter_iterate_by_lrp(p) ==
    build_adm_ctrl_flows_for_lrouter_port(p) \cup build_neigh_learning_flows_for_lrouter_port(p) \cup build_ip_routing_flows_for_lrp(p)
    \cup build_ND_RA_flows_for_lrouter_port(p) \cup build_egress_delivery_flows_for_lrouter_port(p) \cup build_lrouter_ipv4_ip_input(p)
    \cup build_check_pkt_len_flows_for_lrp(p) \cup build_lrouter_drop_own_dest(p)
RouterFlows ==
    build_lswitch_and_lrouter_iterate_by_lr \cup UNION {build_lswitch_and_lrouter_iterate_by_lrp(p) : p \in Names}
    \cup UNION {build_arp_resolve_flows_for_lsp(l) : l \in router.lsps}
RtOrder == <<"admission", "lookup_neigh", "learn_neigh", "ip_input", "defrag", "ecmp_stateful", "ra_opts", "ra_rsp", "routing_pre",
             "routing", "routing_ecmp", "policy", "policy_ecmp", "arp_resolve", "chk_len", "larger", "gw_redirect", "arp_request", "delivery">>
RouterTables == ByStage(RouterFlows, RtOrder)

(***************************************************************************)
(* A packet in the pipeline.                                               *)
(***************************************************************************)
RtPacket(p, kind, eth_src, eth_dst, src, dst, ttl, big, resident) ==
    [stage |-> "admission", inport |-> p, outport |-> NoPort, kind |-> kind, eth_src |-> eth_src, eth_dst |-> eth_dst,
     src |-> src, dst |-> dst, ttl |-> ttl, big |-> big, larger |-> FALSE, resident |-> resident, vlan |-> FALSE, known |-> FALSE,
     known_ip |-> FALSE, rtable |-> 0, gid |-> NoGroup, mid |-> <<"none", NoPort>>, mids |-> {}, nexthop |-> "none", eloop |-> FALSE,
     redirect |-> FALSE, sender |-> eth_src, tracked |-> FALSE, rpl |-> FALSE, ctport |-> NoPort, cteth |-> NoEth]

\* The connection a packet is a reply of, and what ct_next finds of it.
ReplyOf(f) == {c \in replies : c[1] = f.src /\ c[2] = f.dst}
ct_next(f) ==
    LET hit == CHOOSE c \in ReplyOf(f) : TRUE
    IN  IF ReplyOf(f) = {} THEN [f EXCEPT !.tracked = TRUE]
        ELSE [f EXCEPT !.tracked = TRUE, !.rpl = TRUE, !.ctport = hit[3], !.cteth = hit[4]]

RtDropped == [what |-> "drop"]
RtLost == [end |-> RtDropped, learn |-> FALSE, commit |-> FALSE]
Binding(p, ip) == {b \in macs : b[1] = p /\ b[2] = ip}

RECURSIVE RtTrace(_, _)
RtTrace(flows, f) ==
    LET hits == TableLookup(flows, f)
        go(g) == RtTrace(flows, [g EXCEPT !.stage = NextStage(RtOrder, g.stage)])
        answer(what, g) == {[RtLost EXCEPT !.end = [what |-> what, port |-> g.inport, mac |-> g.sender]]}
        ttl(g) == [g EXCEPT !.ttl = @ - 1]
    IN  IF hits = {} THEN {RtLost}
        ELSE UNION {LET g == Load(f, h.load)
           IN  CASE h.then = "next"          -> go(g)
                 [] h.then = "drop"          -> {RtLost}
                 [] h.then = "lookup_arp"    -> go([g EXCEPT !.known = <<g.inport, g.src, g.sender>> \in macs])
                 [] h.then = "lookup_arp_ip" -> go([g EXCEPT !.known = <<g.inport, g.src, g.sender>> \in macs, !.known_ip = Binding(g.inport, g.src) # {}])
                 [] h.then = "put_arp"       -> {[r EXCEPT !.learn = TRUE] : r \in go(g)}
                 [] h.then = "ct_next"       -> go(ct_next(g))
                 [] h.then = "ct_commit"     -> {[r EXCEPT !.commit = TRUE] : r \in go(g)}
                 [] h.then = "ttl"           -> go(ttl(g))
                 [] h.then = "select"        -> UNION {go([g EXCEPT !.mid = m]) : m \in g.mids}
                 [] h.then = "select_ttl"    -> UNION {go([ttl(g) EXCEPT !.mid = m]) : m \in g.mids}
                 [] h.then = "get_arp"       -> go([g EXCEPT !.eth_dst = IF Binding(g.outport, g.nexthop) = {} THEN NoEth
                                                                         ELSE (CHOOSE b \in Binding(g.outport, g.nexthop) : TRUE)[3]])
                 [] h.then = "restart"       -> RtTrace(flows, [g EXCEPT !.stage = "admission"])
                 [] h.then = "output"        -> go(g)
                 [] h.then = "arp"           -> {[RtLost EXCEPT !.end = [what |-> "arp", port |-> g.outport, ip |-> g.nexthop]]}
                 [] h.then = "sent"          -> {[RtLost EXCEPT !.end = [what |-> "sent", port |-> g.outport, mac |-> g.eth_dst, ttl |-> g.ttl,
                                                                         kind |-> g.kind, dst |-> g.dst]]}
                 [] OTHER                    -> answer(h.then, g) : h \in hits}

(***************************************************************************)
(* What the configuration asks for (ovn-nb(5)).                            *)
(***************************************************************************)
\* The routes of a packet with route table t: connected networks, the static
\* routes of that table, and the main table's that are said to be connected.
Connected == {[prefix |-> Port(p).net, plen |-> Port(p).plen, src |-> FALSE, nexthop |-> "", outport |-> p, rank |-> 2] : p \in Names}
Usable(t) ==
    {r \in router.routes :
        /\ r.table = t \/ (r.table = 0 /\ r.conn /\ ~r.src)
        /\ ~(r.bfd /\ r.nexthop \in bfddown)
        /\ Discard(r) \/ r.outport \in Names \/ (r.outport = NoPort /\ \E p \in Names : r.nexthop \in Port(p).net)}
Candidates(t, src, dst) ==
    {r \in Connected \cup {[prefix |-> r.prefix, plen |-> r.plen, src |-> r.src, nexthop |-> r.nexthop, outport |-> r.outport, rank |-> IF r.src THEN 0 ELSE IF r.conn THEN 2 ELSE 1] : r \in Usable(t)} :
        (IF r.src THEN src ELSE dst) \in r.prefix}
\* The longest prefix, connected before destination before source routes.
Best(c) == {r \in c : \A s \in c : s.plen < r.plen \/ (s.plen = r.plen /\ s.rank <= r.rank)}
\* Where a route leads: the port and the next hop.
Hop(r, dst) ==
    [port |-> IF r.outport # NoPort THEN r.outport ELSE CHOOSE p \in Names : r.nexthop \in Port(p).net, ip |-> IF r.nexthop = "" THEN dst ELSE r.nexthop]
\* The policy that decides: of those that can be followed, the one of the highest priority.
Followed(dst) ==
    LET live(pol) == \E nh \in pol.nexthops : ~(nh \in pol.bfd /\ nh \in bfddown)
        local(pol) == \A nh \in pol.nexthops : \E p \in Names : nh \in Port(p).net
        able == {pol \in router.policies : dst \in pol.dst /\ (pol.action = "reroute" => live(pol) /\ local(pol))}
    IN  {pol \in able : \A q \in able : q.pri <= pol.pri}
Hops(t, src, dst) ==
    LET best == Best(Candidates(t, src, dst))
        pols == Followed(dst)
        routed == {IF r.nexthop = "discard" THEN RtDropped ELSE Hop(r, dst) : r \in best}
    IN  IF best = {} THEN {RtDropped}
        ELSE IF pols = {} THEN routed
        ELSE UNION {CASE pol.action = "drop"  -> {RtDropped}
                      [] pol.action = "allow" -> routed
                      [] OTHER -> {[port |-> CHOOSE p \in Names : nh \in Port(p).net, ip |-> nh] : nh \in {n \in pol.nexthops : ~(n \in pol.bfd /\ n \in bfddown)}}
                           \cup (IF RtDropped \in routed THEN {RtDropped} ELSE {}) : pol \in pols}
Reaches(h, kind, ttl, dst) ==
    IF h = RtDropped \/ ~Port(h.port).enabled THEN RtDropped
    ELSE LET mac == {l.mac : l \in {l \in router.lsps : l.port = h.port /\ l.ip = h.ip}}
             learned == {b[3] : b \in Binding(h.port, h.ip)}
         IN  IF mac \cup learned = {} THEN [what |-> "arp", port |-> h.port, ip |-> h.ip]
             ELSE [what |-> "sent", port |-> h.port, mac |-> CHOOSE m \in (IF mac # {} THEN mac ELSE learned) : TRUE, ttl |-> ttl, kind |-> kind, dst |-> dst]
Routed(f, kind, src, dst, ttl) ==
    LET ends == {Reaches(h, kind, ttl - 1, dst) : h \in Hops(Port(f.inport).table, src, dst)}
    IN  ends
Gateways == {p \in Names : Port(p).gw}
RtWanted(f) ==
    LET c == Port(f.inport)
        reply(what) == {[what |-> what, port |-> f.inport, mac |-> f.eth_src]}
    IN  IF ~c.enabled \/ f.eth_src = "bcast" \/ f.eth_dst \notin {c.mac, "bcast"} \/ (f.eth_dst # "bcast" /\ c.gw /\ ~f.resident) THEN {RtDropped}
        ELSE IF f.kind = "arp_req" THEN IF f.dst = c.ip /\ f.src \in c.net /\ (c.gw => f.resident) THEN reply("reply_arp") ELSE {RtDropped}
        ELSE IF f.kind = "arp_rep" THEN {RtDropped}
        ELSE IF f.kind = "rs" THEN IF c.ra THEN reply("reply_ra") ELSE {RtDropped}
        ELSE IF f.big /\ c.mtu /\ f.src \notin {"loopback", "mcast"} /\ f.dst # "loopback" THEN Routed(f, "error", c.ip, f.src, 3)
        ELSE IF f.src \in {"loopback", "mcast"} \cup RtOwnIps \/ f.dst \in {"loopback", "mcast"} THEN {RtDropped}
        ELSE IF f.dst \in RtOwnIps THEN IF f.kind = "echo" THEN Routed(f, "echo_rep", f.dst, f.src, 3)
                                          ELSE IF Gateways = {} /\ ~router.gwrouter THEN Routed(f, "error", f.dst, f.src, 3) ELSE {RtDropped}
        ELSE IF f.eth_dst = "bcast" THEN {RtDropped}
        ELSE IF f.ttl <= 1 THEN reply("reply_ttl")
        ELSE Routed(f, f.kind, f.src, f.dst, f.ttl)

(***************************************************************************)
(* Behaviour: BFD sessions change, neighbours are learned, connections of  *)
(* symmetric replies are committed.                                        *)
(***************************************************************************)
RtStep == /\ rtn < MaxRtChanges
          /\ rtn' = rtn + 1
          /\ UNCHANGED router
BfdChange(nh) ==
    /\ RtStep
    /\ bfddown' = IF nh \in bfddown THEN bfddown \ {nh} ELSE bfddown \cup {nh}
    /\ UNCHANGED <<macs, replies>>
LearnNeighbour(flows, f) ==
    /\ <<f.inport, f.src, f.eth_src>> \notin macs
    /\ \E r \in RtTrace(flows, f) : r.learn
    /\ RtStep
    /\ macs' = (macs \ Binding(f.inport, f.src)) \cup {<<f.inport, f.src, f.eth_src>>}
    /\ UNCHANGED <<bfddown, replies>>
CommitReply(flows, f) ==
    /\ <<f.dst, f.src, f.inport, f.eth_src>> \notin replies
    /\ \E r \in RtTrace(flows, f) : r.commit
    /\ RtStep
    /\ replies' = {c \in replies : ~(c[1] = f.dst /\ c[2] = f.src)} \cup {<<f.dst, f.src, f.inport, f.eth_src>>}
    /\ UNCHANGED <<bfddown, macs>>

RouterPipelineInit ==
    /\ router \in Routers
    /\ bfddown = {} /\ macs = {} /\ replies = {} /\ rtn = 0
BfdHops == {r.nexthop : r \in {r \in router.routes : r.bfd}} \cup UNION {pol.bfd : pol \in router.policies}
\* ARP packets into port p, and the hosts of its network that may send them.
Arps(p, sources) ==
    {RtPacket(p, k, m, IF k = "arp_req" THEN "bcast" ELSE Port(p).mac, src, dst, 2, FALSE, res) :
               k \in {"arp_req", "arp_rep"}, m \in RtMacs, src \in sources, dst \in {Port(p).ip, "elsewhere"}, res \in BOOLEAN}
Hosts(p) == Port(p).net \ {Port(p).ip}
\* Two hosts, the sender and the receiver.
RtPairs == {h \in RtAddresses \X RtAddresses : h[1] # h[2]}
RouterPipelineNext ==
    \/ \E nh \in BfdHops : BfdChange(nh)
    \/ rtn < MaxRtChanges /\ LET flows == RouterTables IN \E p \in Names : \E f \in Arps(p, Hosts(p)) : LearnNeighbour(flows, f)
    \/ rtn < MaxRtChanges /\ LET flows == RouterTables IN
          \E p \in Names, h \in RtPairs, m \in RtMacs : CommitReply(flows, RtPacket(p, "ip", m, Port(p).mac, h[1], h[2], 2, FALSE, TRUE))
RouterPipelineSpec == RouterPipelineInit /\ [][RouterPipelineNext]_rtvars

RouterPipelineTypeOK ==
    /\ bfddown \subseteq BfdHops
    /\ \A b \in macs : b[1] \in Names /\ b[2] \in Hosts(b[1]) /\ b[3] \in RtMacs
    /\ \A c \in replies : c[3] \in Names /\ c[4] \in RtMacs

\* Packets into port p.
PacketsInto(p) ==
    LET mac == CHOOSE m \in RtMacs : TRUE
        here == IF Gateways = {} THEN {TRUE} ELSE BOOLEAN
        size == IF \A q \in Names : ~Port(q).mtu THEN {FALSE} ELSE BOOLEAN
    IN  {RtPacket(p, "ip", mac, Port(p).mac, h[1], h[2], 2, big, res) : h \in RtPairs, big \in size, res \in here}
        \cup {RtPacket(p, k, mac, Port(p).mac, src, dst, 2, FALSE, TRUE) : k \in {"ip", "tcp", "echo"}, src \in RtAddresses, dst \in RtOwnIps \cup {"mcast"}}
        \cup {RtPacket(p, "echo", mac, Port(p).mac, src, Port(p).ip, 1, FALSE, TRUE) : src \in RtAddresses}
        \cup {RtPacket(p, "ip", mac, d, src, "f1", 1, FALSE, TRUE) : d \in {Port(p).mac, "bcast", "other"}, src \in RtAddresses \cup RtOwnIps \cup {"loopback"}}
        \cup {RtPacket(p, "rs", mac, "bcast", "other", "mcast", 2, FALSE, TRUE)} \cup Arps(p, RtAddresses)
\* A packet that leaves the router through a port with gateway_mtu and is too large for it.
TooLarge(f, e) == f.big /\ e.what \in {"sent", "arp"} /\ Port(e.port).mtu
MainSourceRoute(f) == Port(f.inport).table # 0 /\ \E r \in router.routes : r.src /\ r.table = 0 /\ f.src \in r.prefix

\* Every packet is answered, dropped or sent to the port and neighbour that the
\* routes, policies and BFD sessions determine, over an ECMP group exactly to
\* its live members, with its TTL decremented once; an unknown neighbour is
\* asked for.  Left out: replies of symmetric connections (RepliesSymmetric),
\* packets an output port refuses (TooLarge), and source routes of the main
\* table (RouteTablesSeparate).
RoutedAsConfigured ==
    LET flows == RouterTables
    IN  \A p \in Names : \A f \in PacketsInto(p) :
            (ReplyOf(f) = {} /\ ~MainSourceRoute(f)) =>
                LET got == {r.end : r \in RtTrace(flows, f)}
                    wanted == RtWanted(f)
                IN  IF \E e \in wanted : TooLarge(f, e)
                    THEN got \subseteq wanted \cup Routed(f, "error", Port(f.inport).ip, f.src, 3)
                    ELSE got = wanted

\* The reply of a connection that came in over a symmetric ECMP route of the
\* main table leaves by the port and to the neighbour it came from, whatever
\* became of the routes' order, as long as the route is in use.
RepliesSymmetric ==
    LET flows == RouterTables
    IN  \A c \in replies, p \in Names :
            LET f == RtPacket(p, "ip", CHOOSE m \in RtMacs : TRUE, Port(p).mac, c[1], c[2], 2, FALSE, TRUE)
            IN  (/\ Port(p).enabled /\ Port(c[3]).enabled /\ c[1] \notin RtOwnIps \cup {"mcast"} /\ c[2] \notin RtOwnIps \cup {"mcast"}
                 /\ \E r \in parsed_routes_add : r.sym /\ find_static_route_outport(r) = c[3] /\ c[2] \in r.prefix /\ r.table = 0 /\ Port(p).table = 0)
                => \A r \in RtTrace(flows, f) : r.end.what = "sent" /\ r.end.port = c[3] /\ r.end.mac = c[4]

\* "When a Logical Router Port has a configured value in options:route_table,
\* only static routes with the same routing table value are considered."
RouteTablesSeparate ==
    LET flows == RouterTables
    IN  \A p \in Names : \A f \in PacketsInto(p) :
            (Port(p).table # 0 /\ f.kind = "ip" /\ f.ttl = 2 /\ ~f.big /\ ReplyOf(f) = {}) => {r.end : r \in RtTrace(flows, f)} = RtWanted(f)
=============================================================================
