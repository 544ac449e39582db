---------------------------- MODULE SwitchPorts ----------------------------
(***************************************************************************)
(* The ports of one logical switch while users change them: ovn-northd     *)
(* follows incrementally (ls_handle_lsp_changes(),                         *)
(* northd_handle_sb_port_binding_changes(),                                *)
(* lflow_handle_northd_port_changes()) or starts over, chassis learn MAC   *)
(* addresses into the FDB, a port migrates between chassis.  Whatever the  *)
(* history, a frame must go where the configuration says.                  *)
(*                                                                         *)
(* A port that is deleted and created again is another port; tunnel keys,  *)
(* whose change also deletes FDB rows, are in NorthdPorts.  The chassis    *)
(* have the flows of the Southbound database at once.                      *)
(***************************************************************************)
EXTENDS SwitchFlows

CONSTANTS SwScenarios,   \* the switches to start from: fixed and changing ports, options
          SwFrameMacs,   \* the addresses frames carry
          MaxSwChanges   \* changes by users and chassis

VARIABLES scen,      \* the scenario
          nbports,   \* Logical_Switch_Port rows: name -> configuration
          oldports,  \* ports that were deleted
          built,     \* name -> what the flows of the port were built from (lflow_ref)
          builtod,   \* what the flows without a reference were built from
          l2built,   \* name -> configuration the L2-only flows were built from
          groups,    \* Multicast_Group rows
          fdb,       \* FDB rows: <<mac, port>>
          learning,  \* put_fdb entries pinctrl has not written
          additional,\* ports whose Port_Binding has an additional_chassis
          swtracked, \* changes ovn-northd has not processed
          swn
swvars == <<scen, nbports, oldports, built, builtod, l2built, groups, fdb, learning, additional, swtracked, swn>>

OdOf(ports) ==
    [unknown |-> \E p \in DOMAIN ports : ports[p].unknown, routers |-> {p \in DOMAIN ports : ports[p].type = "router"},
     localnets |-> {p \in DOMAIN ports : ports[p].type = "localnet"},
     mixed |-> \E p \in DOMAIN ports : ports[p].type # "router", dns |-> scen.dns, passthru |-> scen.passthru,
     vtep |-> \E p \in DOMAIN ports : ports[p].type = "vtep", l3dgw |-> scen.l3dgw, bcast_arp |-> scen.bcast_arp,
     proxy |-> \E p \in DOMAIN ports : ports[p].type = "router" /\ ports[p].proxy, lrp |-> scen.lrp, cr |-> scen.cr]
Built(p, ports) ==
    [c |-> ports[p], od |-> OdOf(ports), parents |-> ports[p].parents \cap DOMAIN ports, migrating |-> p \in additional]

(***************************************************************************)
(* A frame in the pipeline.                                                *)
(***************************************************************************)
SwFlows ==
    build_lswitch_and_lrouter_iterate_by_ls(builtod)
    \cup UNION {build_lswitch_and_lrouter_iterate_by_lsp(p, built[p].c, built[p].od, built[p].parents, built[p].migrating, scen.check_up) : p \in DOMAIN built}
    \cup UNION {L2OnlyFlows(p, l2built[p], SwFrameMacs) : p \in DOMAIN l2built}
SwOrder == <<"check_sec", "apply_sec", "lookup_fdb", "put_fdb", "hairpin", "arp_rsp", "dhcp_opts", "dhcp_rsp", "dns",
             "dns_rsp", "external", "l2_lkup", "l2_unknown", "out_check", "out_apply">>

\* The port security tables of the chassis, by MAC (see PortSec).
check_port_sec(p, mac) == n_ps_addrs(built[p].c) > 0 /\ mac \notin built[p].c.ps

Lost == [to |-> {}, reply |-> FALSE, learn |-> FALSE]

RECURSIVE SwTrace(_, _)
\* output: to every member of the multicast group, or to the port, through
\* the egress pipeline; never back to the input port without flags.loopback.
SwOutput(flows, f, ports) ==
    [Lost EXCEPT !.to = {q \in ports \ (IF f.loopback THEN {} ELSE {f.inport}) :
                            \E r \in SwTrace(flows, [f EXCEPT !.stage = "out_check", !.outport = q, !.bit = FALSE]) : r.to # {}}]
Members(o) == IF o \in DOMAIN groups THEN groups[o] ELSE IF o = CrPort THEN built["r"].od.routers ELSE {o}
SwTrace(flows, f) ==
    UNION {LET g == Load(f, h.load)
               next(e) == SwTrace(flows, [e EXCEPT !.stage = NextStage(SwOrder, e.stage)])
           IN  CASE h.then = "next"         -> next(g)
                 [] h.then \in {"drop", "handle_svc_check"} -> {Lost}
                 [] h.then = "reply"        -> {[Lost EXCEPT !.reply = TRUE]}
                 [] h.then = "check_in"     -> next([g EXCEPT !.bit = check_port_sec(g.inport, g.src)])
                 [] h.then = "check_out"    -> next([g EXCEPT !.bit = check_port_sec(g.outport, g.dst)])
                 [] h.then = "lookup"       -> next([g EXCEPT !.found = TRUE])
                 [] h.then = "lookup_fdb"   -> next([g EXCEPT !.lkup = <<g.src, g.inport>> \in fdb])
                 [] h.then = "put_fdb"      -> {[r EXCEPT !.learn = TRUE] : r \in next(g)}
                 [] h.then = "get_fdb"      -> next([g EXCEPT !.outport = IF \E e \in fdb : e[1] = g.dst
                                                                          THEN (CHOOSE e \in fdb : e[1] = g.dst)[2] ELSE "none"])
                 [] h.then = "goto_hairpin" -> SwTrace(flows, [g EXCEPT !.stage = "hairpin"])
                 [] h.then = "goto_lkup"    -> SwTrace(flows, [g EXCEPT !.stage = "l2_lkup"])
                 [] h.then \in {"clone_router", "clone_cr_port"} -> {SwOutput(flows, g, built["r"].od.routers \cup Members(g.outport))}
                 [] h.then \in {"router", "cr_port"} -> {SwOutput(flows, g, built["r"].od.routers)}
                 [] h.then = "output"       -> IF f.stage = "out_apply" THEN {[Lost EXCEPT !.to = {g.outport}]}
                                               ELSE {SwOutput(flows, g, Members(g.outport))} :
           h \in TableLookup(flows, f)}

Frame(p, src, dst, proto, ip, resident) ==
    [stage |-> "check_sec", inport |-> p, outport |-> "none", src |-> src, dst |-> dst, proto |-> proto, sha |-> src,
     spa |-> "other", tpa |-> ip, vlan |-> proto = "tagged", tunnel_rx |-> proto = "toobig", bit |-> FALSE, lkup |-> TRUE,
     rport |-> FALSE, ramp |-> FALSE, loopback |-> FALSE, resident |-> resident, found |-> FALSE]
\* The frames of the property: requests are broadcast, the rest is sent to one
\* address.  What an L2-only port may send with a multicast source is not
\* defined: the flow that drops it and the bypass have the same priority.
Sources(p) == IF port_is_l2_only_port(nbports[p]) THEN SwFrameMacs \ Mcast ELSE SwFrameMacs
FramesFrom(p) ==
    {Frame(p, src, "bcast", "arp_req", ip, res) : src \in SwFrameMacs \ Mcast, res \in BOOLEAN,
        ip \in {GatewayIp, ProxiedIp, "other"} \cup {nbports[q].ip : q \in DOMAIN nbports}}
    \cup {Frame(p, src, dst, "ip", "other", res) : src \in Sources(p), dst \in SwFrameMacs, res \in BOOLEAN}
    \cup {Frame(p, src, "bcast", proto, "other", res) : src \in SwFrameMacs \ Mcast, proto \in {"dhcp", "dns", "tagged", "toobig"}, res \in BOOLEAN}

(***************************************************************************)
(* What the configuration asks for.                                        *)
(***************************************************************************)
Enabled == {p \in DOMAIN nbports : nbports[p].enabled}
L2Ports == {p \in Enabled : nbports[p].type # "router"}
Admits(p, mac) == n_ps_addrs(nbports[p]) = 0 \/ mac \in nbports[p].ps
Accepted(f) ==
    LET c == nbports[f.inport]
    IN  /\ c.enabled
        /\ f.src \notin Mcast
        /\ f.proto # "toobig"
        /\ f.proto # "tagged" \/ scen.passthru
        /\ c.type \in {"router", "vtep"} \/ Admits(f.inport, f.src)
        /\ ~(port_is_fdb_learning_vif(c) /\ OdOf(nbports).routers # {} /\ f.src = GatewayMac)
        /\ ~(port_is_l2_only_port(c) /\ c.srcmac # NoAddress /\ f.src # c.srcmac)
\* Requests from outside are for the hosts there, unless ARP is proxied.
Asks(p) == nbports[p].type # "vtep" /\ (nbports[p].type = "localnet" => OdOf(nbports).proxy)
Answers(q, f) ==
    LET c == nbports[q]
    IN  /\ q # f.inport /\ f.proto = "arp_req" /\ f.tpa = c.ip /\ c.ip # NoAddress /\ Asks(f.inport)
        /\ c.type \notin {"virtual", "external"} /\ ~c.unknown /\ ~scen.passthru
        /\ c.up \/ ~scen.check_up \/ c.type \in {"router", "localport"}
Proxies(q, f) ==
    /\ q # f.inport /\ nbports[q].type = "router" /\ nbports[q].proxy /\ ~scen.passthru /\ f.proto = "arp_req" /\ f.tpa = ProxiedIp
    /\ Asks(f.inport) /\ nbports[f.inport].type # "router"
Serves(q, f) ==
    LET c == nbports[q]
    IN  /\ f.proto = "dhcp" /\ c.dhcp /\ c.enabled /\ f.src = c.mac /\ c.type # "router"
        /\ IF c.type = "external" THEN nbports[f.inport].type = "localnet" /\ f.resident ELSE q = f.inport
\* The gateway answers for an external port only where the port resides.
Elsewhere(f) ==
    \E q \in DOMAIN nbports :
        /\ nbports[q].type = "external" /\ nbports[f.inport].type = "localnet" /\ OdOf(nbports).routers # {}
        /\ f.src = nbports[q].mac /\ ~f.resident
        /\ f.dst = GatewayMac \/ (f.proto = "arp_req" /\ f.tpa = GatewayIp)
Owner(mac) == {q \in DOMAIN nbports : nbports[q].type # "external" /\ (nbports[q].mac = mac \/ (nbports[q].type = "router" /\ mac = GatewayMac))}
SwWanted(f) ==
    LET to == IF f.dst \in Mcast
              THEN IF /\ f.proto = "arp_req" /\ (~scen.bcast_arp \/ (f.src = GatewayMac /\ scen.lrp))
                       /\ ~(f.tpa = GatewayIp /\ scen.lrp)
                   THEN L2Ports ELSE Enabled
              ELSE IF port_is_l2_only_port(nbports[f.inport]) THEN L2Ports
              ELSE IF Owner(f.dst) # {} THEN Owner(f.dst) \cap Enabled
              ELSE IF \E e \in fdb : e[1] = f.dst THEN {e[2] : e \in {x \in fdb : x[1] = f.dst}} \cap Enabled
              ELSE {q \in Enabled : nbports[q].unknown}
    IN  IF ~Accepted(f) \/ Elsewhere(f) THEN Lost
        ELSE IF (\E q \in DOMAIN nbports : Answers(q, f) \/ Proxies(q, f) \/ Serves(q, f)) \/ (f.proto = "dns" /\ scen.dns /\ nbports[f.inport].type # "vtep")
        THEN [Lost EXCEPT !.reply = TRUE]
        ELSE [Lost EXCEPT !.to = {q \in to \ {f.inport} : f.dst \in Mcast \/ port_is_l2_only_port(nbports[q]) \/ Admits(q, f.dst)}]

(***************************************************************************)
(* Users and chassis.                                                      *)
(***************************************************************************)
Tracked(t) == /\ swn < MaxSwChanges
              /\ swn' = swn + 1
              /\ swtracked' = t
SwUnchanged == UNCHANGED <<scen, built, builtod, l2built, groups>>

CreateSwPort(p, c) ==
    /\ p \notin DOMAIN nbports \cup oldports
    /\ Tracked([swtracked EXCEPT !.nb = TRUE])
    /\ nbports' = (p :> c) @@ nbports
    /\ UNCHANGED <<oldports, fdb, learning, additional>> /\ SwUnchanged
SetSwPort(p, c) ==
    /\ p \in DOMAIN nbports /\ nbports[p] # c
    /\ Tracked([swtracked EXCEPT !.nb = TRUE])
    /\ nbports' = [nbports EXCEPT ![p] = c]
    /\ UNCHANGED <<oldports, fdb, learning, additional>> /\ SwUnchanged
DeleteSwPort(p) ==
    /\ p \in DOMAIN nbports /\ p \in DOMAIN scen.choice
    /\ Tracked([swtracked EXCEPT !.nb = TRUE])
    /\ nbports' = [q \in DOMAIN nbports \ {p} |-> nbports[q]]
    /\ oldports' = oldports \cup {p}
    /\ UNCHANGED <<fdb, learning, additional>> /\ SwUnchanged

\* Neutron requests a second chassis, or gives one up; the binding follows.
Migrate(p) ==
    /\ p \in DOMAIN built /\ built[p].c.type = ""
    /\ Tracked([swtracked EXCEPT !.pb = @ \cup {p}])
    /\ additional' = IF p \in additional THEN additional \ {p} ELSE additional \cup {p}
    /\ UNCHANGED <<nbports, oldports, fdb, learning>> /\ SwUnchanged

\* A frame with this source reaches put_fdb on the chassis of the port.
LearnSwMac(flows, p, mac) ==
    /\ p \in DOMAIN nbports \cap DOMAIN built /\ <<mac, p>> \notin learning
    /\ \E r \in SwTrace(flows, Frame(p, mac, "mc", "ip", "other", TRUE)) : r.learn
    /\ Tracked(swtracked)
    /\ learning' = learning \cup {<<mac, p>>}
    /\ UNCHANGED <<nbports, oldports, fdb, additional>> /\ SwUnchanged
run_put_fdb(e) ==
    /\ e \in learning
    /\ learning' = learning \ {e}
    /\ fdb' = {x \in fdb : x[1] # e[1]} \cup {e}
    /\ swtracked' = [swtracked EXCEPT !.fdb = @ \/ fdb' # fdb]
    /\ UNCHANGED <<nbports, oldports, additional, swn>> /\ SwUnchanged

(***************************************************************************)
(* ovn-northd.                                                             *)
(***************************************************************************)
\* What the flows of a port are looked up by: the row as last processed.
Op(p) == built[p].c
Created == DOMAIN nbports \ DOMAIN built
Deleted == DOMAIN built \ DOMAIN nbports
SwChanged == {p \in DOMAIN nbports \cap DOMAIN built : nbports[p] # Op(p)}
\* check_lsp_changes_other_than_up().
OnlyUp(p) == [nbports[p] EXCEPT !.up = Op(p).up] = Op(p)

ls_handle_lsp_changes ==
    /\ \A p \in Created : lsp_can_be_inc_processed(nbports[p])
    /\ \A p \in Deleted : lsp_can_be_inc_processed(Op(p))
    /\ (SwChanged \cup Deleted) \cap scen.monitored = {}
    /\ \A p \in SwChanged : lsp_can_be_inc_processed(Op(p)) /\ lsp_can_be_inc_processed(nbports[p])

\* Mutant: the flows of a router port are not rebuilt with the switch's.
UpdatedRows == ((swtracked.pb \cup IF scen.check_up THEN SwChanged ELSE {p \in SwChanged : ~OnlyUp(p)}) \ Deleted)

OnlyRouters(ports) == OdOf(ports).routers # {} /\ ~OdOf(ports).mixed
\* trk_lsps->updated: the rows changed, the bindings that gained or lost a
\* chassis, and the router ports when the switch gains its first or loses its
\* last other port.  Deletion wins.
Updated ==
    ((swtracked.pb \cup IF scen.check_up THEN SwChanged ELSE {p \in SwChanged : ~OnlyUp(p)}) \ Deleted)
    \cup IF OnlyRouters([p \in DOMAIN built |-> Op(p)]) # OnlyRouters(nbports) THEN OdOf(nbports).routers ELSE {}

\* Rows of ports that are mid-migration go, and one row of each deleted port
\* (delete_fdb_entry() deletes the first it finds).
FdbAfter ==
    LET kept == {e \in fdb : e[2] \notin swtracked.pb \cap additional}
    IN  {kept \ one : one \in {s \in SUBSET {e \in kept : e[2] \in Deleted} :
            \A p \in Deleted : Cardinality({e \in s : e[2] = p}) = IF \E e \in kept : e[2] = p THEN 1 ELSE 0}}

NorthdIncremental ==
    /\ swtracked.nb \/ swtracked.pb # {}
    /\ ~swtracked.fdb /\ ls_handle_lsp_changes
    /\ built' = [p \in DOMAIN nbports |-> IF p \in Created \cup Updated THEN Built(p, nbports) ELSE built[p]]
    /\ groups' = [FLOOD |-> (groups.FLOOD \cup Created) \ Deleted, FLOOD_L2 |-> (groups.FLOOD_L2 \cup Created) \ Deleted,
                  UNKNOWN |-> groups.UNKNOWN \ Deleted]
    /\ fdb' \in FdbAfter
    /\ additional' = additional \ Deleted
    /\ swtracked' = [nb |-> FALSE, pb |-> {}, fdb |-> fdb' # fdb]
    /\ UNCHANGED <<scen, nbports, oldports, builtod, l2built, learning, swn>>

\* A change of FDB has no handler: en_northd recomputes, and no handler of its
\* other inputs runs.
NorthdRecompute ==
    /\ swtracked.fdb \/ (swtracked.nb /\ ~ls_handle_lsp_changes)
    /\ LET rows == IF swtracked.fdb THEN {fdb} ELSE {{e \in fdb : e[2] \notin swtracked.pb \cap additional}}
       IN  \E r \in rows : fdb' = {e \in r : e[2] \in DOMAIN nbports}
    /\ built' = [p \in DOMAIN nbports |-> Built(p, nbports)]
    /\ builtod' = OdOf(nbports)
    /\ l2built' = nbports
    /\ groups' = build_mcast_groups(nbports)
    /\ additional' = additional \cap DOMAIN nbports
    /\ swtracked' = [nb |-> FALSE, pb |-> {}, fdb |-> fdb' # fdb]
    /\ UNCHANGED <<scen, nbports, oldports, learning, swn>>

SwitchPortsInit ==
    /\ scen \in SwScenarios
    /\ nbports = scen.fixed
    /\ oldports = {} /\ additional = {} /\ fdb = {} /\ learning = {} /\ swn = 0
    /\ built = [p \in DOMAIN nbports |-> Built(p, nbports)]
    /\ builtod = OdOf(nbports)
    /\ l2built = nbports
    /\ groups = build_mcast_groups(nbports)
    /\ swtracked = [nb |-> FALSE, pb |-> {}, fdb |-> FALSE]

SwitchPortsNext ==
    \/ \E p \in DOMAIN scen.choice : \E c \in scen.choice[p] : CreateSwPort(p, c) \/ SetSwPort(p, c)
    \/ \E p \in DOMAIN scen.choice : DeleteSwPort(p) \/ Migrate(p)
    \/ swn < MaxSwChanges /\ LET flows == ByStage(SwFlows, SwOrder) IN \E p \in DOMAIN scen.choice, mac \in SwFrameMacs : LearnSwMac(flows, p, mac)
    \/ \E e \in learning : run_put_fdb(e)
    \/ NorthdIncremental
    \/ NorthdRecompute

SwitchPortsSpec == SwitchPortsInit /\ [][SwitchPortsNext]_swvars

SwitchPortsTypeOK ==
    /\ DOMAIN built \subseteq DOMAIN nbports \cup oldports
    /\ \A e \in fdb \cup learning : e \in SwFrameMacs \X (DOMAIN nbports \cup oldports)
    /\ swtracked \in [nb : BOOLEAN, pb : SUBSET DOMAIN built, fdb : BOOLEAN]

CaughtUp == swtracked = [nb |-> FALSE, pb |-> {}, fdb |-> FALSE]
\* Ports whose membership of the flood groups is not what "enabled" says: a
\* port changed or created incrementally (see DisabledIsDropped).
Misgrouped == {p \in DOMAIN nbports : (p \in groups.FLOOD) # nbports[p].enabled}

\* Once ovn-northd has processed every change, each frame, from each port, is
\* answered, delivered or dropped as the ports' configuration says: port
\* security and "enabled", known addresses, learned addresses, "unknown" ports,
\* ARP and DHCP replies, gateways of external ports - whichever mixture of
\* incremental processing and recomputation led there.  Floods are compared
\* leaving misgrouped ports out.
FramesAsConfigured ==
    CaughtUp =>
        LET flows == ByStage(SwFlows, SwOrder)
        IN  \A p \in DOMAIN nbports : \A f \in FramesFrom(p) :
                LET got == SwTrace(flows, f)
                    wanted == SwWanted(f)
                IN  /\ got # {}
                    /\ \A g \in got : g.reply = wanted.reply /\ g.to \ Misgrouped = wanted.to \ Misgrouped

\* "A disabled port has all ingress and egress traffic dropped."
\* (ovn-nb.xml, Logical_Switch_Port.enabled)
DisabledIsDropped ==
    CaughtUp =>
        LET flows == ByStage(SwFlows, SwOrder)
        IN  \A p \in DOMAIN nbports : \A f \in FramesFrom(p) : \A g \in SwTrace(flows, f) :
                \A q \in g.to : nbports[q].enabled

\* A port bound to two chassis has no FDB rows: "Drop whatever is there now
\* rather than let a stale/racy entry persist for the rest of the migration"
\* (northd_handle_sb_port_binding_changes()).
MigratingNotLearned ==
    CaughtUp => \A e \in fdb : e[2] \notin additional
=============================================================================
