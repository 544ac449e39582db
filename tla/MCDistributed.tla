--------------------------- MODULE MCDistributed ---------------------------
(***************************************************************************)
(* The protocols that several daemons carry out together, for TLC: ovn-ic  *)
(* between availability zones (IcSync, IcPorts), BFD sessions of routes,   *)
(* multicast snooping, health checks of load balancer backends, gateways   *)
(* with several chassis, and the clients of the Northbound database that   *)
(* run the commands of ovn-nbctl.                                          *)
(*                                                                         *)
(* They share nothing here, so a behavior exercises one of them: part says *)
(* which, and the variables of the others keep the value Unused.           *)
(***************************************************************************)
EXTENDS IcSync, IcPorts, Bfd, Multicast, HealthCheck, HaGroups, Nbctl

CONSTANTS
    Explored,       \* the components of this run
    Unused          \* model value
VARIABLE part

Parts == {"ic", "icports", "bfd", "mcast", "health", "ha", "nbctl"}

-----------------------------------------------------------------------------
(* Values of the constants                                                 *)

\* Nothing in IcSync and IcPorts tells availability zones apart.
Symmetry == Permutations(AZs)

MCHaRank == [g1 |-> 1, g2 |-> 2, c1 |-> 0]
\* gateway_chassis of both or of one, an HA chassis group of equal priorities,
\* no gateway.
MCHaConfigs ==
    {[kind |-> "gw", prio |-> [g1 |-> 20, g2 |-> 10]], [kind |-> "gw", prio |-> [g2 |-> 10]],
     [kind |-> "group", prio |-> [g1 |-> 10, g2 |-> 10]], [kind |-> "none", prio |-> [c \in {} |-> 0]]}

-----------------------------------------------------------------------------
IcIs(chosen) ==
    IF chosen THEN IcSyncInit
    ELSE /\ inb = Unused /\ isb = Unused /\ icnb = Unused /\ ictxn = Unused
         /\ iccfg = Unused /\ icseen = Unused /\ icrows = Unused /\ icfaults = Unused
IcportsIs(chosen) ==
    IF chosen THEN IcPortsInit
    ELSE /\ ipcfg = Unused /\ ipnb = Unused /\ ipsb = Unused /\ ipisb = Unused
         /\ iptxn = Unused /\ ipuser = Unused /\ ipfails = Unused
BfdIs(chosen) ==
    IF chosen THEN BfdInit
    ELSE /\ bfnb = Unused /\ bfsb = Unused /\ bfref = Unused /\ bfent = Unused
         /\ bftxn = Unused /\ bfpeer = Unused /\ bfnet = Unused /\ bfcount = Unused
McastIs(chosen) ==
    IF chosen THEN MulticastInit
    ELSE /\ mcrow = Unused /\ mclocal = Unused /\ mccfg = Unused /\ mcsnoop = Unused
         /\ mcigmp = Unused /\ mcgroup = Unused /\ mctnlids = Unused /\ mcevents = Unused
HealthIs(chosen) ==
    IF chosen THEN HealthCheckInit
    ELSE /\ hcproto = Unused /\ hcbackend = Unused /\ hcport = Unused /\ hcwanted = Unused
         /\ hcrow = Unused /\ hcmon = Unused /\ hcnet = Unused /\ hccount = Unused
HaIs(chosen) ==
    IF chosen THEN HaInit
    ELSE /\ haNb = Unused /\ haHosting = Unused /\ haNbUp = Unused /\ haGroup = Unused
         /\ haRows = Unused /\ haOwner = Unused /\ haVif = Unused /\ haVifUp = Unused
         /\ haBfd = Unused /\ haSeen = Unused /\ haCut = Unused /\ haEvents = Unused
         /\ haFails = Unused
NbctlIs(chosen) ==
    IF chosen THEN NbctlInit
    ELSE /\ nbtopic = Unused /\ nbdb = Unused /\ nbclient = Unused /\ nbcount = Unused
         /\ nbdone = Unused

MCInit ==
    /\ part \in Explored
    /\ IcIs(part = "ic") /\ IcportsIs(part = "icports") /\ BfdIs(part = "bfd")
    /\ McastIs(part = "mcast") /\ HealthIs(part = "health") /\ HaIs(part = "ha")
    /\ NbctlIs(part = "nbctl")

Rests(p) ==
    CASE p = "ic" -> UNCHANGED icVars
      [] p = "icports" -> UNCHANGED ipVars
      [] p = "bfd" -> UNCHANGED bfVars
      [] p = "mcast" -> UNCHANGED mcVars
      [] p = "health" -> UNCHANGED hcVars
      [] p = "ha" -> UNCHANGED haVars
      [] p = "nbctl" -> UNCHANGED nbVars
Alone(p) == part = p /\ UNCHANGED part /\ \A q \in Parts \ {p} : Rests(q)

MCNext ==
    \/ Alone("ic") /\ IcSyncNext
    \/ Alone("icports") /\ IcPortsNext
    \/ Alone("bfd") /\ BfdNext
    \/ Alone("mcast") /\ MulticastNext
    \/ Alone("health") /\ HealthCheckNext
    \/ Alone("ha") /\ HaNext
    \/ Alone("nbctl") /\ NbctlNext

vars == <<part, icVars, ipVars, bfVars, mcVars, hcVars, haVars, nbVars>>
MCSpec == MCInit /\ [][MCNext]_vars

\* Daemons and threads keep running, packets that are not lost arrive, time
\* passes, and every transaction is answered: the fairness of the sessions and
\* of the gateways.
MCFairSpec ==
    /\ MCSpec
    /\ WF_vars(Alone("bfd") /\ northd_bfd) /\ WF_vars(Alone("bfd") /\ bfd_monitor_run)
    /\ WF_vars(Alone("bfd") /\ BfdAnswer(TRUE)) /\ WF_vars(Alone("bfd") /\ bfd_monitor_send_msg)
    /\ WF_vars(Alone("bfd") /\ pinctrl_handle_bfd_msg) /\ WF_vars(Alone("bfd") /\ PeerReceives)
    /\ WF_vars(Alone("bfd") /\ PeerSends) /\ WF_vars(Alone("bfd") /\ BfdTick)
    /\ WF_vars(Alone("health") /\ HcPortUp) /\ WF_vars(Alone("health") /\ build_lb_svcs)
    /\ \A c \in HcChassis :
        /\ WF_vars(Alone("health") /\ sync_svc_monitors(c))
        /\ WF_vars(Alone("health") /\ svc_monitors_run(c))
        /\ WF_vars(Alone("health") /\ FoldStatus(c))
        /\ WF_vars(Alone("health") /\ \E a \in {"syn_ack", "rst", "icmp"} : pinctrl_handle_svc_check(c, a))
    /\ WF_vars(Alone("ha") /\ HaNorthd)
    /\ \A c \in HaChassis : WF_vars(Alone("ha") /\ HaController(c))
    /\ \A c \in HaChassis : \A d \in HaChassis \ {c} : WF_vars(Alone("ha") /\ HaBfdSession(c, d))

-----------------------------------------------------------------------------
(***************************************************************************)
(* The properties of the components, each on the behaviors of its own.     *)
(***************************************************************************)

\* ovn-ic.c update_sequence_numbers(): a change is reported to the user of the
\* interconnection only when every zone that has joined has carried it out.
IcReportRight == part = "ic" => ReportedByAll
\* ovn-ic.c ts_run(): when the ovn-ics have come to rest a transit switch that
\* is gone from INB has left ISB and every NB, and one that ISB has is known to
\* every NB by the same key; no NB ever asks for a key that was not committed.
IcSwitchesRight == part = "ic" => GoneEverywhere /\ KeysAgree /\ KeysFromCommitted
\* ovn-ic.c port_binding_run(), gateway_run(), route_run(): when all have come
\* to rest every zone has the ports, chassis and routes the others offer, and
\* no more; no two ports of the transit switch ever have the same key.
IcPortsRight == part = "icports" => ZonesMirrored /\ PortKeysDiffer
\* pinctrl.c bfd_monitor_run(), northd.c: as long as ovn-controller does not
\* restart and no transaction fails, a peer that stays dead is not up in the
\* Northbound database in the end, one that stays alive is.  (After a restart a
\* dead peer stays up: the new session starts from the status of the row,
\* pinctrl.c:7592-7621.)
BfdRight ==
    /\ <>[](part = "bfd" /\ ~bfpeer.alive)
           => <>[](part = "bfd" /\ Undisturbed => bfnb \in {"down", "admin_down"})
    /\ <>[](part = "bfd" /\ bfpeer.alive /\ bfref)
           => <>[](part = "bfd" /\ Undisturbed /\ ~bfcount.unrouted => bfnb = "up")
\* pinctrl.c ip_mcast_sync(), en-multicast.c: the groups forwarded become the
\* groups learned, over flushes, restarts, evictions and changes of the table,
\* and no two groups ever have the same tunnel key.
McastRight == part = "mcast" => GroupsForwarded /\ GroupKeysDiffer
\* pinctrl.c svc_monitors_run(), northd.c build_lb_vip_actions(): a backend that
\* stays as it is ends up balanced to exactly if it serves.
HealthRight ==
    /\ <>[](part = "health" /\ hcwanted /\ hcport.chassis # Nobody /\ HcFails)
           => <>[](part = "health" => ~build_lb_vip_actions)
    /\ <>[](part = "health" /\ hcport.chassis # Nobody /\ ~HcFails)
           => <>[](part = "health" => build_lb_vip_actions)
\* ovn-nbctl.c: a command on switches, routers, ports, ACLs, routes, NAT rules,
\* load balancers or groups takes away only the rows and values its arguments
\* name, over concurrent clients whose copies are out of date.  (Not the removal
\* of a load balancer with its last VIP, ovn-nbctl.c:3216-3223, nor copp-del and
\* lrp-del-gateway-chassis, which write a column back from an old copy.)
TargetsRight == [][part = "nbctl" /\ nbdb' # nbdb => \A r \in nbdb \ nbdb' : r.key \in nbdone']_vars
\* ha-chassis.c, bfd.c, binding.c: once the network stays as it is the gateway
\* port is on the first gateway that is in touch, and northd knows it.
HaRight == <>[](part = "ha" => haOwner = Master /\ haHosting = haOwner)
==============================================================================
