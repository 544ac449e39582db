----------------------------- MODULE NatPipeline -----------------------------
(***************************************************************************)
(* NAT and load balancing of a logical router: the flows ovn-northd builds *)
(* from the NAT rules and load balancers (northd/northd.c), the connection *)
(* tracking zones they use on every chassis, and a packet's way through    *)
(* the router, the gateway chassis and the external network.               *)
(*                                                                         *)
(* Hosts h1 and h2 are behind the ports in1 and in2, on the chassis c1 and *)
(* c2; e1 and e2 are external, behind port ext, whose address is r.  IPv4. *)
(* A configuration is                                                      *)
(*   kind:  "gw" (a gateway router), "dist" (a distributed gateway port)   *)
(*          or "czone" (the same with use_common_zone);                    *)
(*   nats:  {[type, ext, log, plen, dist, stateless, mode, exts]}; log is  *)
(*          a set of hosts, dist: external_mac and logical_port are given, *)
(*          mode and exts: allowed_ext_ips, exempted_ext_ips or neither;   *)
(*   lbs:   {[vip, backends, skip]};                                       *)
(*   force: [dnat, lb, router], the force_snat options of a gateway router.*)
(***************************************************************************)
EXTENDS Lflow, FiniteSetsExt

CONSTANTS NatConfigs,     \* the configurations
          NatTargets,     \* what hosts open connections to
          MaxNatConns, MaxNatPackets

VARIABLES natconf,        \* the configuration
          natct,          \* conntrack: {[zone, orig, repl, seen, mark]}
          natconns,       \* connections: <<[client, sent, at, got, answered]>>
          natlast,        \* the last packet: [conn, way, got]
          natn            \* packets so far
natvars == <<natconf, natct, natconns, natlast, natn>>

Inside == {"h1", "h2"}
Outside == {"e1", "e2"}
InPort(h) == CASE h = "h1" -> "in1" [] h = "h2" -> "in2"
IsGw == natconf.kind = "gw"
lrouter_use_common_zone == natconf.kind = "czone"
ChassisOf(h) == IF IsGw THEN "gw" ELSE CASE h = "h1" -> "c1" [] h = "h2" -> "c2"
Unset == "none"
ExtIps == {n.ext : n \in natconf.nats}
Vips == {l.vip : l \in natconf.lbs}
NatNext(stage, pri, match) == Flow(stage, pri, match, NoLoad, <<"next">>)
NatDrop(stage, pri, match) == Flow(stage, pri, match, NoLoad, <<"drop">>)
Resident == [at |-> {"gw"}]                        \* is_chassis_resident(cr-ext)
ResidentLport(n) == [at |-> {ChassisOf(h) : h \in n.log}]

(***************************************************************************)
(* The flows of a NAT rule.                                                *)
(***************************************************************************)
lrouter_dnat_and_snat_is_stateless(n) == n.stateless /\ n.type = "dnat_and_snat"
\* distributed_nat of lrouter_check_nat_entry().
Distributed(n) == ~IsGw /\ n.type = "dnat_and_snat" /\ n.dist
\* Rules that are not for one address, or that both allow and exempt, are ignored.
lrouter_check_nat_entry(n) == n.type = "snat" \/ Cardinality(n.log) = 1
Snats(n) == n.type \in {"snat", "dnat_and_snat"}
Dnats(n) == n.type \in {"dnat", "dnat_and_snat"}
Central(n) == IF Distributed(n) THEN <<>> ELSE Resident

build_lrouter_in_unsnat_match(n) ==
    [dst |-> {n.ext}] @@ IF IsGw THEN <<>> ELSE [inport |-> {"ext"}] @@ Central(n)
build_lrouter_in_unsnat_stateless_flow(n) ==
    NatNext("unsnat", IF IsGw THEN 90 ELSE 100, {build_lrouter_in_unsnat_match(n)})
build_lrouter_in_unsnat_in_czone_flow(n) ==
    LET m == build_lrouter_in_unsnat_match(n)
    IN  Flow("unsnat", 100, {m @@ [loopback |-> {FALSE}]}, NoLoad, <<"ct", "dnat">>)
        \cup Flow("unsnat", 100, {m @@ [loopback |-> {TRUE}, snatzone |-> {TRUE}]}, NoLoad, <<"ct", "snat">>)
build_lrouter_in_unsnat_flow(n) ==
    Flow("unsnat", IF IsGw THEN 90 ELSE 100, {build_lrouter_in_unsnat_match(n)}, NoLoad, <<"ct", "snat">>)

\* allowed_ext_ips restricts the match, exempted_ext_ips adds a flow above it.
lrouter_nat_add_ext_ip_match(n, m, is_src) ==
    LET f == IF is_src THEN "src" ELSE "dst"
        pri == IF is_src THEN 102 ELSE n.plen + 3 + IF IsGw THEN 0 ELSE 128
    IN  [match |-> IF n.mode = "allowed" THEN m @@ (f :> n.exts) ELSE m,
         exempt |-> IF n.mode = "exempted"
                    THEN NatNext(IF is_src THEN "dnat" ELSE "snat", pri, {m @@ (f :> n.exts)}) ELSE {}]

build_lrouter_in_dnat_flow(n) ==
    LET m == lrouter_nat_add_ext_ip_match(n,
                 [dst |-> {n.ext}] @@ IF IsGw THEN <<>> ELSE [inport |-> {"ext"}] @@ Central(n), TRUE)
        load == IF IsGw THEN [forcednat |-> Val(natconf.force.dnat # Unset), loopback |-> Val(TRUE)] ELSE NoLoad
        log == CHOOSE h \in n.log : TRUE
    IN  IF ~Dnats(n) THEN {}
        ELSE m.exempt \cup
             IF lrouter_dnat_and_snat_is_stateless(n)
             THEN Flow("dnat", 100, {m.match}, [dst |-> Val(log)] @@ load, <<"next">>)
             ELSE Flow("dnat", 100, {m.match}, load, <<"ct_dnat", log>>)

build_lrouter_out_undnat_flow(n) ==
    LET m == [src |-> n.log, outport |-> {"ext"}] @@ Central(n)
    IN  IF IsGw \/ ~Dnats(n) THEN {}
        ELSE Flow("undnat", 100, {m}, NoLoad,
                  IF lrouter_dnat_and_snat_is_stateless(n) THEN <<"next">> ELSE <<"ct", "dnat">>)
build_lrouter_out_is_dnat_local(n) ==
    IF ~lrouter_use_common_zone THEN {}
    ELSE Flow("check_dnat_local", 50,
              {[dst |-> {n.ext}] @@ IF Distributed(n) THEN ResidentLport(n) ELSE Resident}, [local |-> Val(TRUE)], <<"next">>)

build_lrouter_out_snat_match(n, reverse) ==
    LET m == IF reverse THEN [dst |-> n.log] ELSE [src |-> n.log]
        port == IF reverse THEN [inport |-> {"ext"}] ELSE [outport |-> {"ext"}]
        where == IF Distributed(n) THEN ResidentLport(n) ELSE Resident
    IN  lrouter_nat_add_ext_ip_match(n, m @@ IF IsGw THEN <<>> ELSE port @@ where, reverse)
SnatPriority(n) == n.plen + 1 + IF IsGw THEN 0 ELSE 128
NotReply(m) == {m @@ [trk |-> {FALSE}], m @@ [rpl |-> {FALSE}]}
build_lrouter_out_snat_stateless_flow(n) ==
    LET m == build_lrouter_out_snat_match(n, FALSE)
    IN  m.exempt \cup Flow("snat", SnatPriority(n), {m.match}, [src |-> Val(n.ext)], <<"next">>)
build_lrouter_out_snat_in_czone_flow(n) ==
    LET m == build_lrouter_out_snat_match(n, FALSE)
    IN  m.exempt
        \cup Flow("snat", SnatPriority(n), NotReply(m.match), NoLoad, <<"ct_snat", "dnat", n.ext>>)
        \cup Flow("snat", SnatPriority(n) + 1, NotReply(m.match @@ [local |-> {TRUE}]), [local |-> Val(FALSE)],
                  <<"ct_snat", "snat", n.ext>>)
\* As build_lrouter_out_snat_flow(), without the state of the connection.
SnatAlways(n) ==
    LET m == build_lrouter_out_snat_match(n, FALSE)
    IN  m.exempt \cup Flow("snat", SnatPriority(n), {m.match}, NoLoad, <<"ct_snat", "snat", n.ext>>)
\* Connections into a SNAT network are tracked, for their replies to keep their source.
build_lrouter_out_snat_flow(n) ==
    LET m == build_lrouter_out_snat_match(n, FALSE)
        r == build_lrouter_out_snat_match(n, TRUE)
    IN  m.exempt
        \cup Flow("snat", SnatPriority(n), NotReply(m.match), NoLoad, <<"ct_snat", "snat", n.ext>>)
        \cup IF n.type # "snat" \/ IsGw THEN {}
             ELSE Flow("post_undnat", 70, NotReply(m.match), NoLoad, <<"ct_next", "snat">>)
                  \cup r.exempt
                  \cup Flow("snat", SnatPriority(n), {r.match}, NoLoad, <<"ct", "snat">>)
                  \cup Flow("post_snat", SnatPriority(n), {r.match @@ [new |-> {TRUE}]}, NoLoad, <<"ct_commit", "snat">>)

\* eth.src of a distributed rule is its external_mac: the packet stays on the
\* chassis of the logical port, every other one goes to the gateway chassis.
build_gateway_redirect_flows_for_nat ==
    (IF IsGw THEN {} ELSE Flow("gw_redirect", 50, {[outport |-> {"ext"}]}, NoLoad, <<"redirect">>))
    \cup NatNext("gw_redirect", 0, Always)
NatRedirect(n) ==
    IF ~Distributed(n) THEN {}
    ELSE NatNext("gw_redirect", 100, {[src |-> n.log, outport |-> {"ext"}] @@ ResidentLport(n)})
\* Translated addresses seen on the external port are not sent back to it.
NatArpResolve(n) == IF IsGw THEN {} ELSE NatDrop("arp_resolve", 150, {[inport |-> {"ext"}, outport |-> {"ext"}, dst |-> {n.ext}]})
NatEgressLoop(n) ==
    IF IsGw THEN {}
    ELSE Flow("egr_loop", 100, {[dst |-> {n.ext}, outport |-> {"ext"}]
                                @@ IF Distributed(n) THEN ResidentLport(n) ELSE Resident}, NoLoad, <<"loop">>)

build_lrouter_nat_flows(n) ==
    IF ~lrouter_check_nat_entry(n) THEN {}
    ELSE (IF ~Snats(n) THEN {}
          ELSE IF lrouter_dnat_and_snat_is_stateless(n)
          THEN build_lrouter_in_unsnat_stateless_flow(n) \cup build_lrouter_out_snat_stateless_flow(n)
          ELSE IF lrouter_use_common_zone
          THEN build_lrouter_in_unsnat_in_czone_flow(n) \cup build_lrouter_out_snat_in_czone_flow(n)
          ELSE build_lrouter_in_unsnat_flow(n) \cup build_lrouter_out_snat_flow(n))
         \cup build_lrouter_in_dnat_flow(n) \cup build_lrouter_out_undnat_flow(n)
         \cup build_lrouter_out_is_dnat_local(n)
         \cup NatRedirect(n) \cup NatArpResolve(n) \cup NatEgressLoop(n)

(***************************************************************************)
(* Load balancers.  A connection to the VIP goes to a backend, ct_lb_mark; *)
(* the type says what is noted for the SNAT stage.                         *)
(***************************************************************************)
LbType(l) == IF l.skip THEN "skip" ELSE IF natconf.force.lb # Unset \/ natconf.force.router THEN "force" ELSE "normal"
LbFlags(t) == (IF t = "skip" THEN [skip |-> Val(TRUE)] ELSE <<>>) @@ (IF t = "force" THEN [forcelb |-> Val(TRUE)] ELSE <<>>)
build_lrouter_defrag_flows_for_lb(l) == Flow("defrag", 100, {[dst |-> {l.vip}]}, NoLoad, <<"ct", "dnat">>)
LbNew(l, m) == Flow("dnat", 120, {[new |-> {TRUE}, dst |-> {l.vip}] @@ m}, LbFlags(LbType(l)), <<"ct_lb", l.backends, LbType(l)>>)
build_gw_lrouter_nat_flows_for_lb(l) == LbNew(l, <<>>)
\* Replies of the backends go through the gateway chassis, where they are tracked.
build_distr_lrouter_nat_flows_for_lb(l) ==
    LET back == [src |-> l.backends, sp |-> {0}]
        then == IF LbType(l) = "normal" THEN <<"ct", "dnat">> ELSE <<"next">>
    IN  LbNew(l, Resident)
        \cup Flow("gw_redirect", 200, {back @@ [outport |-> {"ext"}]}, NoLoad, <<"redirect">>)
        \cup Flow("undnat", 120, {back @@ [inport |-> {"ext"}] @@ Resident, back @@ [outport |-> {"ext"}] @@ Resident},
                  LbFlags(LbType(l)), then)
build_lrouter_flows_for_lb(l) ==
    build_lrouter_defrag_flows_for_lb(l)
    \cup (IF IsGw THEN build_gw_lrouter_nat_flows_for_lb(l) ELSE build_distr_lrouter_nat_flows_for_lb(l))
    \cup IF l.skip THEN NatNext("snat", 120, {[skip |-> {TRUE}]}) ELSE {}
\* Packets of connections that are balanced already.
LbEstablished ==
    IF natconf.lbs = {} THEN {}
    ELSE Flow("dnat", 70, {[est |-> {TRUE}, rpl |-> {FALSE}, mark |-> {"skip"}]}, LbFlags("skip"), <<"next">>)
         \cup Flow("dnat", 70, {[est |-> {TRUE}, rpl |-> {FALSE}, mark |-> {"force"}]}, LbFlags("force"), <<"next">>)
         \cup NatNext("dnat", 50, {[est |-> {TRUE}, rpl |-> {FALSE}, mark |-> {"normal", "skip", "force"}]})
build_lrouter_force_snat_flows(ip, flag) ==
    IF ip = Unset THEN {}
    ELSE Flow("unsnat", 110, {[dst |-> {ip}]}, NoLoad, <<"ct", "snat">>)
         \cup Flow("snat", 100, {flag :> {TRUE}}, NoLoad, <<"ct_snat", "snat", ip>>)
PortIp(port) == IF port = "ext" THEN "r" ELSE CASE port = "in1" -> "r1" [] port = "in2" -> "r2"
build_lrouter_force_snat_flows_op(port) ==
    IF ~natconf.force.router THEN {}
    ELSE Flow("unsnat", 110, {[inport |-> {port}, dst |-> {PortIp(port)}]}, NoLoad, <<"ct", "snat">>)
         \cup Flow("snat", 110, {[forcelb |-> {TRUE}, outport |-> {port}]}, NoLoad, <<"ct_snat", "snat", PortIp(port)>>)

build_lr_nat_defrag_and_lb_default_flows ==
    UNION {NatNext(s, 0, Always) : s \in {"unsnat", "defrag", "dnat", "arp_resolve", "undnat", "post_undnat", "snat", "post_snat", "egr_loop"}}
    \cup Flow("check_dnat_local", 0, Always, [local |-> Val(FALSE)], <<"next">>)
build_lrouter_nat_defrag_and_lb ==
    UNION {build_lrouter_nat_flows(n) : n \in natconf.nats}
    \cup LbEstablished
    \cup (IF IsGw /\ (natconf.nats # {} \/ natconf.lbs # {})
          THEN Flow("undnat", 50, Always, [loopback |-> Val(TRUE)], <<"ct", "dnat">>)
               \cup Flow("post_undnat", 50, {[new |-> {TRUE}]}, NoLoad, <<"ct_commit", "dnat">>)
               \cup build_lrouter_force_snat_flows(natconf.force.dnat, "forcednat")
               \cup build_lrouter_force_snat_flows(natconf.force.lb, "forcelb") ELSE {})
    \cup IF lrouter_use_common_zone /\ natconf.nats # {}
         THEN Flow("check_dnat_local", 50, {[mark |-> {"normal", "skip", "force"}]}, [local |-> Val(TRUE)], <<"next">>) ELSE {}
RouterIps == {"r", "r1", "r2"}
UsedIps == {n.ext : n \in {m \in natconf.nats : Snats(m)}} \cup Vips \cup {natconf.force.dnat, natconf.force.lb}
\* Packets for the router itself, unless they may still be translated.
build_lrouter_drop_own_nat_ips ==
    (IF natconf.force.router THEN {} ELSE NatDrop("ip_input", 60, {[dst |-> RouterIps \ UsedIps]}))
    \cup NatDrop("arp_resolve", 2, {[dst |-> RouterIps \cap UsedIps]})
\* Replies to SNATed connections of the router may have its own address.
build_lrouter_ingress_flow(n) ==
    IF IsGw \/ n.type # "snat" THEN {} ELSE NatNext("ip_input", 120, {[inport |-> {"ext"}, src |-> {n.ext}]})
IpInput ==
    UNION {build_lrouter_ingress_flow(n) : n \in natconf.nats} \cup build_lrouter_drop_own_nat_ips
    \cup NatDrop("ip_input", 100, {[src |-> RouterIps, eloop |-> {FALSE}]})
    \cup NatNext("ip_input", 0, Always)
Routes ==
    UNION {Flow("routing", 30, {[dst |-> {h, PortIp(InPort(h))}]}, [outport |-> Val(InPort(h))], <<"next">>) : h \in Inside}
    \cup Flow("routing", 1, Always, [outport |-> Val("ext")], <<"next">>)
NatFlows ==
    IpInput \cup build_lr_nat_defrag_and_lb_default_flows \cup build_lrouter_nat_defrag_and_lb
    \cup UNION {build_lrouter_flows_for_lb(l) : l \in natconf.lbs}
    \cup UNION {build_lrouter_force_snat_flows_op(p) : p \in {"in1", "in2", "ext"}}
    \cup Routes \cup build_gateway_redirect_flows_for_nat

\* The chassis that answer ARP requests for an address on the external network.
build_lrouter_port_nat_arp_nd_flow(n) == IF Distributed(n) THEN ResidentLport(n).at ELSE {"gw"}
build_lrouter_ipv4_ip_input_for_lbnats(ip) ==
    UNION {build_lrouter_port_nat_arp_nd_flow(n) : n \in {m \in natconf.nats : m.ext = ip}}
    \cup IF ip \in Vips \cup {"r", natconf.force.dnat, natconf.force.lb} THEN {"gw"} ELSE {}

(***************************************************************************)
(* Connection tracking: lookup by tuple in either direction, translation   *)
(* as committed, a free port when the translated tuple is taken.           *)
(***************************************************************************)
Tuple(p) == <<p.src, p.sp, p.dst, p.dp>>
Rev(t) == <<t[3], t[4], t[1], t[2]>>
WithTuple(p, t) == [p EXCEPT !.src = t[1], !.sp = t[2], !.dst = t[3], !.dp = t[4]]
Fresh(p) == [p EXCEPT !.trk = FALSE, !.new = FALSE, !.est = FALSE, !.rpl = FALSE, !.mark = "no", !.zone = "no"]
InZone(S, z) == {e \in S.ct : e.zone = <<S.p.at, z>>}
\* ct(table, zone [, nat]): a packet translated by a connection of the zone (p.zone)
\* belongs to it.
Track(S, z, nat) ==
    LET t == Tuple(S.p)
        orig == {e \in InZone(S, z) : e.orig = t}
        repl == {e \in InZone(S, z) : e.repl = t}
        known(e, to, r) ==
            [S EXCEPT !.p = [WithTuple(@, IF nat THEN to ELSE t) EXCEPT !.zone = IF nat /\ to # t THEN z ELSE "no",
                                !.trk = TRUE, !.new = ~(e.seen \/ r), !.est = e.seen \/ r, !.rpl = r, !.mark = e.mark],
                      !.ct = IF r THEN (@ \ {e}) \cup {[e EXCEPT !.seen = TRUE]} ELSE @]
    IN  IF S.p.zone = z THEN S
        ELSE IF orig # {} THEN LET e == CHOOSE x \in orig : TRUE IN known(e, Rev(e.repl), FALSE)
        ELSE IF repl # {} THEN LET e == CHOOSE x \in repl : TRUE IN known(e, Rev(e.orig), TRUE)
        ELSE [S EXCEPT !.p = [Fresh(@) EXCEPT !.trk = TRUE, !.new = TRUE]]
Known(S, z) == S.p.zone = z \/ \E e \in InZone(S, z) : Tuple(S.p) \in {e.orig, e.repl}
\* ct(commit, nat): a committed connection keeps its translation.
Commit(S, z, to, mark) ==
    LET taken(k) == \E e \in InZone(S, z) : e.repl = Rev([to EXCEPT ![2] = k])
        port == IF taken(to[2]) THEN CHOOSE k \in 11 .. 19 : ~taken(k) /\ \A j \in 11 .. k - 1 : taken(j) ELSE to[2]
        e == [zone |-> <<S.p.at, z>>, orig |-> Tuple(S.p), repl |-> Rev([to EXCEPT ![2] = port]), seen |-> FALSE, mark |-> mark]
    IN  Track(IF Known(S, z) THEN S ELSE [S EXCEPT !.ct = @ \cup {e}], z, TRUE)

(***************************************************************************)
(* A packet's way.  The result is a set of [ct, host, tuple].              *)
(***************************************************************************)
NatStages == <<"ip_input", "unsnat", "defrag", "dnat", "routing", "arp_resolve", "gw_redirect",
               "check_dnat_local", "undnat", "post_undnat", "snat", "post_snat", "egr_loop", "delivery">>
NewPacket(t, inport, at) ==
    [stage |-> "ip_input", src |-> t[1], sp |-> t[2], dst |-> t[3], dp |-> t[4], inport |-> inport, outport |-> Unset,
     at |-> at, loopback |-> FALSE, snatzone |-> FALSE, eloop |-> FALSE, local |-> FALSE, forcednat |-> FALSE,
     forcelb |-> FALSE, skip |-> FALSE, trk |-> FALSE, new |-> FALSE, est |-> FALSE, rpl |-> FALSE, mark |-> "no", zone |-> "no"]
Arrived(S, host) == {[ct |-> S.ct, host |-> host, tuple |-> Tuple(S.p)]}
\* A packet that changes chassis is tunnelled: flags and tracking state are lost.
Redirected(p) ==
    IF p.at = "gw" THEN p
    ELSE [NewPacket(Tuple(p), p.inport, "gw") EXCEPT !.stage = p.stage, !.outport = p.outport]
Looped(p) ==
    [NewPacket(Tuple(p), p.outport, p.at) EXCEPT !.loopback = TRUE, !.eloop = TRUE, !.snatzone = p.local]

RECURSIVE NatTrace(_, _, _)
NatTrace(flows, S, fuel) ==
    LET p == S.p
        on(q) == [q EXCEPT !.stage = NextStage(NatStages, q.stage)]
        go(T) == NatTrace(flows, [T EXCEPT !.p = on(@)], fuel)
        run(f) ==
            LET T == [S EXCEPT !.p = Load(p, f.load)]
                act == f.then
            IN  CASE act[1] = "next" -> go(T)
                  [] act[1] = "drop" -> Arrived(T, "lost")
                  [] act[1] = "ct" -> go(Track(T, act[2], TRUE))
                  [] act[1] = "ct_next" -> go(Track(T, act[2], FALSE))
                  [] act[1] = "ct_commit" -> go([T EXCEPT !.ct = Commit(T, act[2], Tuple(T.p), "no").ct])
                  [] act[1] = "ct_dnat" -> go(Commit(T, "dnat", [Tuple(T.p) EXCEPT ![3] = act[2]], "no"))
                  [] act[1] = "ct_snat" -> go(Commit(T, act[2], [Tuple(T.p) EXCEPT ![1] = act[3]], "no"))
                  [] act[1] = "ct_lb" -> UNION {go(Commit(T, "dnat", [Tuple(T.p) EXCEPT ![3] = b], act[3])) : b \in act[2]}
                  [] act[1] = "redirect" -> go([T EXCEPT !.p = Redirected(@)])
                  [] act[1] = "loop" -> NatTrace(flows, [T EXCEPT !.p = Looped(@)], fuel - 1)
    IN  IF fuel = 0 THEN Arrived(S, "lost")
        ELSE IF p.stage # "delivery" THEN UNION {run(f) : f \in TableLookup(flows, p)}
        ELSE IF p.outport # "ext"
        THEN Arrived(S, IF p.dst \in Inside /\ p.outport = InPort(p.dst) THEN p.dst ELSE "lost")
        ELSE IF p.dst \in Outside THEN Arrived(S, p.dst)
        ELSE LET who == build_lrouter_ipv4_ip_input_for_lbnats(p.dst) \ {p.at}
             IN  IF who = {} THEN Arrived(S, "lost")
                 ELSE UNION {NatTrace(flows, [S EXCEPT !.p = NewPacket(Tuple(p), "ext", c)], fuel - 1) : c \in who}
\* A host sends a packet to the router, or to the external network.
SentBy(flows, h, t) ==
    LET start(port, at) == NatTrace(flows, [p |-> NewPacket(t, port, at), ct |-> natct], 5)
    IN  IF h \in Inside THEN start(InPort(h), ChassisOf(h))
        ELSE UNION {start("ext", c) : c \in build_lrouter_ipv4_ip_input_for_lbnats(t[3])}

(***************************************************************************)
(* Hosts.                                                                  *)
(***************************************************************************)
NatPacket(i, way, got) ==
    /\ natlast' = [conn |-> i, way |-> way, got |-> <<got.host, got.tuple>>]
    /\ natct' = got.ct
    /\ natn' = natn + 1
    /\ UNCHANGED natconf
\* Host h opens a connection to the service at address d, from a port of its own.
Open(flows, h, d) ==
    LET port == 1 + Cardinality({i \in DOMAIN natconns : natconns[i].client = h})
        t == <<h, port, d, 0>>
    IN  /\ natn < MaxNatPackets /\ Len(natconns) < MaxNatConns
        /\ h # d
        /\ \E got \in SentBy(flows, h, t) :
              /\ NatPacket(Len(natconns) + 1, "open", got)
              /\ natconns' = Append(natconns, [client |-> h, sent |-> t, at |-> got.host, got |-> got.tuple, answered |-> FALSE])
\* The server that got the connection answers it.
Answer(flows, i) ==
    /\ natn < MaxNatPackets
    /\ natconns[i].at # "lost" /\ natconns[i].got[1] # natconns[i].at
    /\ \E got \in SentBy(flows, natconns[i].at, Rev(natconns[i].got)) : NatPacket(i, "answer", got)
    /\ natconns' = [natconns EXCEPT ![i].answered = TRUE]
Resend(flows, i) ==
    /\ natn < MaxNatPackets
    /\ natconns[i].at # "lost"
    /\ \E got \in SentBy(flows, natconns[i].client, natconns[i].sent) : NatPacket(i, "resend", got)
    /\ UNCHANGED natconns

NatPipelineInit ==
    /\ natconf \in NatConfigs
    /\ natct = {} /\ natconns = <<>> /\ natn = 0
    /\ natlast = [conn |-> 0, way |-> "none", got |-> <<>>]
NatPipelineNext ==
    natn < MaxNatPackets /\ LET flows == ByStage(NatFlows, NatStages) IN
        \/ \E h \in Inside \cup Outside, d \in NatTargets : Open(flows, h, d)
        \/ \E i \in DOMAIN natconns : Answer(flows, i)
        \/ \E i \in DOMAIN natconns : Resend(flows, i)
NatPipelineSpec == NatPipelineInit /\ [][NatPipelineNext]_natvars

(***************************************************************************)
(* Properties.                                                             *)
(***************************************************************************)
NatPipelineTypeOK ==
    /\ natconf \in NatConfigs /\ natn \in 0 .. MaxNatPackets
    /\ natlast.way \in {"none", "open", "answer", "resend"}
    /\ \A e \in natct : e.zone[1] \in {"gw", "c1", "c2"} /\ e.zone[2] \in {"dnat", "snat"}
    /\ \A i \in DOMAIN natconns : natconns[i].at \in Inside \cup Outside \cup {"lost"}

\* Which rules are for a peer: allowed and exempted external addresses.
ForPeer(n, e) == (n.mode = "allowed" => e \in n.exts) /\ (n.mode = "exempted" => e \notin n.exts)
\* The servers that may get a connection of host h to address d.
Servers(h, d) ==
    IF d \in Vips THEN UNION {l.backends : l \in {m \in natconf.lbs : m.vip = d}}
    ELSE IF d \in ExtIps THEN UNION {n.log : n \in {m \in natconf.nats : Dnats(m) /\ m.ext = d}}
    ELSE {d}
\* A host's address may be seen outside only if no rule translates it.
Hidden(h, e) == \E n \in natconf.nats : Snats(n) /\ h \in n.log /\ ForPeer(n, e)
FlaggedLb(d) == \E l \in natconf.lbs : l.vip = d /\ LbType(l) # "normal"
\* Translation is transparent: a connection reaches a server its address
\* stands for; all its packets reach the same server from the same address;
\* the answers reach the client from the address it called; and no private
\* address that a rule translates is seen outside.  (Of a connection that is
\* balanced with forced or skipped SNAT, a packet repeated before the first answer is
\* new and has the backend's address already: no flow gives it the flag.)
NatTransparent ==
    natlast.way # "none" =>
    LET c == natconns[natlast.conn]
        h == c.client
        d == c.sent[3]
    IN  /\ natlast.way = "open" =>
              /\ c.at \in Servers(h, d) \cup IF d \in Outside \cup Inside THEN {} ELSE {"lost"}
              /\ c.at \in Outside => (c.got[1] # h <=> Hidden(h, c.at))
        /\ natlast.way = "answer" => natlast.got = <<h, Rev(c.sent)>>
        /\ natlast.way = "resend" => natlast.got = <<c.at, c.got>> \/ (~c.answered /\ FlaggedLb(d))

\* The answers of a load balancer's backends come from its VIP, on gateway
\* routers and on routers with a distributed gateway port.
BalancedRepliesUndnatted ==
    natlast.way = "answer" /\ natconns[natlast.conn].sent[3] \in Vips
    => natlast.got = <<natconns[natlast.conn].client, Rev(natconns[natlast.conn].sent)>>
==============================================================================
