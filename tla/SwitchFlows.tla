---------------------------- MODULE SwitchFlows ----------------------------
(***************************************************************************)
(* The layer 2 stages of a logical switch: the logical flows that          *)
(* ovn-northd builds (northd/northd.c), each from the arguments its        *)
(* builder reads, and how a frame goes through them.  ACLs, load balancing *)
(* and NAT between them are in AclPipeline and NatPipeline.                *)
(*                                                                         *)
(* A port is [type, enabled, mac, ip, unknown, ps, l2, srcmac, up, dhcp,   *)
(* proxy, queue, learns, parents]:                                         *)
(* ps: port_security, a set of MACs ("bad": an element without address);   *)
(* l2, srcmac: external_ids l2-port and pf9-l2port-src-mac;                *)
(* queue: its binding has a qdisc_queue_id; learns: localnet_learn_fdb.    *)
(* Multicast snooping is off (Multicast has its groups), IPv6 is left out, *)
(* and bind_vport() of a virtual port has no effect here.                  *)
(***************************************************************************)
EXTENDS Lflow

GatewayMac == "gw"
GatewayIp == "igw"
ProxiedIp == "iproxy"   \* in the arp_proxy option of the router port
Mcast == {"bcast", "mc"}
NoAddress == "none"
CrPort == "cr-r"        \* the chassis-resident port of the router port

lsp_is_enabled(c) == c.enabled
n_ps_addrs(c) == Cardinality(c.ps \ {"bad"})
lsp_can_be_inc_processed(c) == c.type = "" /\ ~c.unknown /\ ~c.queue

is_vif_lsp(c) == c.type \in {"", "virtual"}
port_is_l2_only_port(c) == is_vif_lsp(c) /\ c.unknown /\ c.ps = {} /\ c.l2
port_is_fdb_learning_vif(c) == is_vif_lsp(c) /\ c.unknown /\ n_ps_addrs(c) = 0

(***************************************************************************)
(* Flows of the switch.  od: [unknown, routers, localnets, mixed, dns,     *)
(* passthru, vtep, proxy, lrp, cr, l3dgw, bcast_arp], mixed: it has ports  *)
(* that are not router ports; proxy: has_arp_proxy_port; lrp: the peer of  *)
(* the router port is enabled; cr: the router port has a chassis-resident  *)
(* port (centralize_routing); l3dgw: its peer is a distributed gateway.    *)
(***************************************************************************)
DropBit == [bit |-> Val(TRUE)]

build_lswitch_lflows_admission_control(od) ==
    Flow("check_sec", 105, {[proto |-> {"toobig"}, tunnel_rx |-> {TRUE}]}, NoLoad, "drop")
    \cup (IF od.passthru THEN {} ELSE Flow("check_sec", 100, {[vlan |-> {TRUE}]}, NoLoad, "drop"))
    \cup Flow("check_sec", 100, {[src |-> Mcast]}, NoLoad, "drop")
    \cup Flow("check_sec", 50, Always, NoLoad, "check_in")
    \cup Flow("apply_sec", 50, {[bit |-> {TRUE}]}, NoLoad, "drop")
    \cup Flow("apply_sec", 0, Always, NoLoad, "next")

build_lswitch_learn_fdb_od ==
    Flow("lookup_fdb", 0, Always, NoLoad, "next")
    \cup Flow("put_fdb", 0, Always, NoLoad, "next")
    \cup Flow("l2_lkup", 0, Always, NoLoad, "get_fdb")

build_lswitch_output_port_sec_od ==
    Flow("out_check", 100, {[dst |-> Mcast]}, [bit |-> Val(FALSE)], "next")
    \cup Flow("out_check", 0, Always, NoLoad, "check_out")
    \cup Flow("out_apply", 50, {[bit |-> {TRUE}]}, NoLoad, "drop")
    \cup Flow("out_apply", 0, Always, NoLoad, "output")

build_vtep_hairpin(od) ==
    IF ~od.vtep THEN {}
    ELSE Flow("hairpin", 1000, {[ramp |-> {TRUE}]}, NoLoad, "goto_lkup")
         \cup (IF od.l3dgw THEN Flow("hairpin", 2000, {[ramp |-> {TRUE}, resident |-> {TRUE}]}, NoLoad, "next") ELSE {})
         \cup Flow("arp_rsp", 65535, {[ramp |-> {TRUE}, proto |-> {"arp_req"}]}, [loopback |-> Val(TRUE)], "next")

build_lswitch_dhcp_and_dns_defaults ==
    UNION {Flow(s, 0, Always, NoLoad, "next") : s \in {"hairpin", "arp_rsp", "dhcp_opts", "dhcp_rsp", "dns", "dns_rsp", "external"}}

build_lswitch_dns_lookup_and_response(od) ==
    IF ~od.dns THEN {}
    ELSE Flow("dns", 100, {[proto |-> {"dns"}]}, NoLoad, "lookup")
         \cup Flow("dns_rsp", 100, {[proto |-> {"dns"}, found |-> {TRUE}]}, NoLoad, "reply")

build_lswitch_destination_lookup_bmcast(od) ==
    (IF od.bcast_arp THEN {} ELSE Flow("l2_lkup", 72, {[dst |-> Mcast, proto |-> {"arp_req"}]}, [outport |-> Val("FLOOD_L2")], "output"))
    \cup Flow("l2_lkup", 70, {[dst |-> Mcast]}, [outport |-> Val("FLOOD")], "output")
    \cup Flow("l2_lkup", 110, {[dst |-> {"svc"}, proto |-> {"ip"}]}, NoLoad, "handle_svc_check")

build_lswitch_lflows_l2_unknown(od) ==
    (IF od.unknown THEN Flow("l2_unknown", 50, {[outport |-> {"none"}]}, [outport |-> Val("UNKNOWN")], "output")
     ELSE Flow("l2_unknown", 50, {[outport |-> {"none"}]}, NoLoad, "drop"))
    \cup Flow("l2_unknown", 0, Always, NoLoad, "output")

build_lswitch_and_lrouter_iterate_by_ls(od) ==
    build_lswitch_lflows_admission_control(od) \cup build_lswitch_learn_fdb_od \cup build_lswitch_output_port_sec_od
    \cup build_vtep_hairpin(od) \cup build_lswitch_dhcp_and_dns_defaults \cup build_lswitch_dns_lookup_and_response(od)
    \cup build_lswitch_destination_lookup_bmcast(od) \cup build_lswitch_lflows_l2_unknown(od)

(***************************************************************************)
(* Flows of a port p with configuration c; migrating: its Port_Binding has *)
(* an additional chassis.                                                  *)
(***************************************************************************)
QueuedPort(p, c, od) ==
    LET localnet == IF c.type = "localnet" THEN {p} ELSE od.localnets
    IN  Flow("check_sec", 70, {[inport |-> {p}]}, NoLoad, "check_in")
        \cup UNION {Flow("out_apply", IF q = p THEN 100 ELSE 110,
                          {IF q = p THEN [outport |-> {q}] ELSE [outport |-> {q}, inport |-> {p}]}, NoLoad, "output") : q \in localnet}
build_lswitch_port_sec_op(p, c, od) ==
    IF c.type = "external" THEN {}
    ELSE IF ~lsp_is_enabled(c)
    THEN Flow("check_sec", 100, {[inport |-> {p}]}, DropBit, "next")
         \cup Flow("l2_unknown", 50, {[outport |-> {p}]}, NoLoad, "drop")
    ELSE IF c.type = "vtep" THEN Flow("check_sec", 70, {[inport |-> {p}]}, [ramp |-> Val(TRUE)], "goto_hairpin")
    ELSE IF c.queue THEN QueuedPort(p, c, od)
    ELSE IF c.type = "router" THEN Flow("check_sec", 70, {[inport |-> {p}]}, [rport |-> Val(TRUE)], "next")
    ELSE {}

build_lswitch_learn_fdb_op(p, c, migrating) ==
    IF migrating \/ n_ps_addrs(c) > 0 \/ ~c.unknown \/ ~(c.type = "" \/ (c.type = "localnet" /\ c.learns)) THEN {}
    ELSE Flow("lookup_fdb", 100, {[inport |-> {p}]}, NoLoad, "lookup_fdb")
         \cup Flow("put_fdb", 100, {[inport |-> {p}, lkup |-> {FALSE}]}, NoLoad, "put_fdb")

add_known_mac_spoofing_prevention(p, c, od) ==
    IF ~port_is_fdb_learning_vif(c) \/ od.routers = {} THEN {}
    ELSE Flow("check_sec", 110, {[inport |-> {p}, src |-> {GatewayMac}]}, DropBit, "next")
         \cup Flow("apply_sec", 110, {[inport |-> {p}, bit |-> {TRUE}]}, NoLoad, "drop")

build_lswitch_arp_nd_responder_skip_local(p, c, od) ==
    IF c.type # "localnet" \/ od.proxy THEN {} ELSE Flow("arp_rsp", 100, {[inport |-> {p}]}, NoLoad, "next")

\* parents: those of the virtual parents that are ports of the switch.
VirtualResponder(c, parents) ==
    UNION {Flow("arp_rsp", 100, {[inport |-> {v}, proto |-> {"arp_req"}, spa |-> {c.ip}, tpa |-> {c.ip}],
                                 [inport |-> {v}, proto |-> {"arp_rep"}, spa |-> {c.ip}]}, NoLoad, "next") : v \in parents}
KnownResponder(p, c) ==
    IF c.ip = NoAddress THEN {}
    ELSE Flow("arp_rsp", 50, {[proto |-> {"arp_req"}, tpa |-> {c.ip}]}, NoLoad, "reply")
         \cup Flow("arp_rsp", 100, {[proto |-> {"arp_req"}, tpa |-> {c.ip}, inport |-> {p}]}, NoLoad, "next")
ProxyResponder(c) ==
    IF c.type # "router" \/ ~c.proxy THEN {}
    ELSE Flow("arp_rsp", 30, {[rport |-> {FALSE}, proto |-> {"arp_req"}, tpa |-> {ProxiedIp}]}, NoLoad, "reply")
\* check_lsp_is_up: NB_Global.options:ignore_lsp_down is false.
build_lswitch_arp_nd_responder_known_ips(p, c, od, parents, check_lsp_is_up) ==
    IF c.type = "virtual" THEN VirtualResponder(c, parents)
    ELSE IF (check_lsp_is_up /\ ~c.up /\ c.type \notin {"router", "localport"}) \/ c.type = "external" \/ c.unknown \/ od.passthru THEN {}
    ELSE KnownResponder(p, c) \cup ProxyResponder(c)

\* The options of a port c, for requests that arrive at port q.
build_dhcpv4_options_flows(c, q) ==
    LET m == [inport |-> {q}, src |-> {c.mac}, proto |-> {"dhcp"}]
             @@ IF c.type = "external" THEN [resident |-> {TRUE}] ELSE <<>>
    IN  Flow("dhcp_opts", 100, {m}, NoLoad, "lookup")
        \cup Flow("dhcp_rsp", 100, {[found |-> {TRUE}] @@ m}, NoLoad, "reply")
build_lswitch_dhcp_options_and_response(p, c, od) ==
    IF ~lsp_is_enabled(c) \/ c.type = "router" \/ ~c.dhcp THEN {}
    ELSE UNION {build_dhcpv4_options_flows(c, q) : q \in IF c.type = "external" THEN od.localnets ELSE {p}}

build_drop_arp_nd_flows_for_unbound_router_ports(c, q) ==
    LET m == [inport |-> {q}, src |-> {c.mac}, resident |-> {FALSE}]
    IN  Flow("external", 100, {[proto |-> {"arp_req"}, tpa |-> {GatewayIp}] @@ m}, NoLoad, "drop")
        \cup Flow("external", 100, {[dst |-> {GatewayMac}] @@ m}, NoLoad, "drop")
build_lswitch_external_port(p, c, od) ==
    IF c.type # "external" \/ od.routers = {} THEN {}
    ELSE UNION {build_drop_arp_nd_flows_for_unbound_router_ports(c, q) : q \in od.localnets}

\* ARP requests for the addresses of the router go to it, and to the other ports.
\* Elsewhere than on the gateway chassis a chassis-resident port leads to it.
build_lswitch_rport_arp_req_flow(od) ==
    LET m == [proto |-> {"arp_req"}, tpa |-> {GatewayIp}]
        to(e, port) == Flow("l2_lkup", 80, {e @@ m}, [outport |-> Val("FLOOD_L2")],
                            IF od.mixed THEN "clone_" \o port ELSE port)
    IN  IF ~od.cr THEN to(<<>>, "router")
        ELSE to([resident |-> {TRUE}], "router") \cup to([resident |-> {FALSE}], "cr_port")
build_lswitch_rport_arp_req_self_orig_flow ==
    Flow("l2_lkup", 75, {[src |-> {GatewayMac}, dst |-> {"bcast"}, proto |-> {"arp_req"}]}, [outport |-> Val("FLOOD_L2")], "output")
build_lswitch_rport_arp_req_flows(od) ==
    IF ~od.lrp THEN {}
    ELSE build_lswitch_rport_arp_req_flow(od) \cup IF od.mixed THEN build_lswitch_rport_arp_req_self_orig_flow ELSE {}

build_lswitch_ip_unicast_lookup(p, c, od) ==
    LET act(m, q) == IF lsp_is_enabled(c) THEN Flow("l2_lkup", 50, {m}, [outport |-> Val(q)], "output")
                     ELSE Flow("l2_lkup", 50, {m}, NoLoad, "drop")
        gw == [dst |-> {GatewayMac}]
        here == [resident |-> {TRUE}] @@ gw
    IN  IF c.type = "external" \/ (c.type # "router" /\ c.mac = NoAddress) THEN {}
        ELSE IF c.type # "router" THEN act([dst |-> {c.mac}], p)
        ELSE build_lswitch_rport_arp_req_flows(od)
             \cup (IF od.l3dgw /\ od.localnets # {} THEN act(here, p)
                   ELSE IF od.cr THEN act(here, p) \cup act([resident |-> {FALSE}] @@ gw, CrPort)
                   ELSE act(gw, p))

build_lswitch_and_lrouter_iterate_by_lsp(p, c, od, parents, migrating, check_lsp_is_up) ==
    build_lswitch_port_sec_op(p, c, od) \cup build_lswitch_learn_fdb_op(p, c, migrating)
    \cup add_known_mac_spoofing_prevention(p, c, od) \cup build_lswitch_arp_nd_responder_skip_local(p, c, od)
    \cup build_lswitch_arp_nd_responder_known_ips(p, c, od, parents, check_lsp_is_up) \cup build_lswitch_dhcp_options_and_response(p, c, od)
    \cup build_lswitch_external_port(p, c, od) \cup build_lswitch_ip_unicast_lookup(p, c, od)

\* Only of a full build, and without a reference of the port.
add_minimal_portsec_bypass(p) ==
    Flow("check_sec", 100, {[inport |-> {p}]}, NoLoad, "next")
    \cup Flow("apply_sec", 100, {[inport |-> {p}]}, NoLoad, "next")
    \cup Flow("out_check", 100, {[outport |-> {p}]}, NoLoad, "next")
    \cup Flow("out_apply", 100, {[outport |-> {p}]}, NoLoad, "output")
add_l2only_flood_all(p, Macs) ==
    Flow("l2_lkup", 120, {[inport |-> {p}, dst |-> Macs \ Mcast]}, [outport |-> Val("FLOOD_L2")], "output")
add_l2only_mac_spoofing_prevention(p, c, Macs) ==
    IF c.srcmac = NoAddress THEN {}
    ELSE Flow("check_sec", 110, {[inport |-> {p}, src |-> Macs \ {c.srcmac}]}, DropBit, "next")
         \cup Flow("check_sec", 110, {[inport |-> {p}, proto |-> {"arp_req", "arp_rep"}, sha |-> Macs \ {c.srcmac}]}, DropBit, "next")
         \cup Flow("apply_sec", 110, {[inport |-> {p}, bit |-> {TRUE}]}, NoLoad, "drop")
L2OnlyFlows(p, c, Macs) ==
    IF ~port_is_l2_only_port(c) THEN {}
    ELSE add_minimal_portsec_bypass(p) \cup add_l2only_flood_all(p, Macs) \cup add_l2only_mac_spoofing_prevention(p, c, Macs)

(***************************************************************************)
(* Multicast groups.                                                       *)
(***************************************************************************)
build_mcast_groups(ports) ==
    LET on == {p \in DOMAIN ports : lsp_is_enabled(ports[p])}
    IN  [FLOOD |-> on, FLOOD_L2 |-> {p \in on : ports[p].type # "router"}, UNKNOWN |-> {p \in on : ports[p].unknown}]
=============================================================================
