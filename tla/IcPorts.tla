------------------------------ MODULE IcPorts ------------------------------
(***************************************************************************)
(* Gateways, transit ports and routes between availability zones           *)
(* (gateway_run(), port_binding_run() and route_run() of ic/ovn-ic.c).     *)
(*                                                                         *)
(* One transit switch connects one router of every AZ; the port of AZ a,   *)
(* its gateway chassis and its router are named by a.  An ovn-ic writes    *)
(* only the ISB rows of its own AZ, so ISB is one record per AZ.  Its ISB  *)
(* transaction is answered later, those of its own NB and SB at once.  A   *)
(* function that lacks one of its transactions returns without doing       *)
(* anything: without that of ISB nothing at all happens.                   *)
(*                                                                         *)
(* A transit port gets the lowest free key: the code searches from its     *)
(* last one, and which free key it is matters to nobody. The keys suffice  *)
(* (the code would insert a row with key 0). All ports of the transit      *)
(* switch are router or remote ports, no remote port has a requested-      *)
(* chassis, and no filter of route_need_learn() (ic-route-learn, default,  *)
(* link-local and blacklisted prefixes, nexthops off the network) but that *)
(* of a local route applies; no port without a transit switch is left      *)
(* over.                                                                   *)
(***************************************************************************)
EXTENDS Integers, FiniteSets

CONSTANTS
    Zones,          \* availability zones
    IpPrefixes,       \* prefixes of the static routes
    MaxPortKey,     \* last transit port key (1 << 15) - 1
    MaxIpUser,      \* bound: changes of the configuration
    MaxIpFails      \* bound: transactions that fail or cannot start

VARIABLES
    ipcfg,          \* per AZ: what the user configured
    ipnb,           \* per AZ: what ovn-ic wrote to NB
    ipsb,           \* per AZ: what ovn-ic and northd wrote to SB
    ipisb,          \* per AZ: its ISB rows
    iptxn,          \* per AZ: ISB transaction without an answer ({} or {rows})
    ipuser, ipfails

ipVars == <<ipcfg, ipnb, ipsb, ipisb, iptxn, ipuser, ipfails>>

Others(a) == Zones \ {a}

(***************************************************************************)
(* gw is the encap of the is-interconn chassis, 0 without one; bound says  *)
(* that the chassisredirect port is on it; routes are the static routes.   *)
(* An ISB port binding holds its key, whether gateway is set, and whether  *)
(* it is there (key 0: no row).                                            *)
(***************************************************************************)
NoPort == [key |-> 0, gw |-> FALSE]

IcPortsInit ==
    /\ ipcfg = [a \in Zones |-> [port |-> TRUE, gw |-> 1, bound |-> TRUE, routes |-> {}]]
    /\ ipnb = [a \in Zones |-> [mykey |-> 0, remote |-> [b \in Others(a) |-> 0], learned |-> {}]]
    /\ ipsb = [a \in Zones |-> [port |-> FALSE, remote |-> {},
                                chassis |-> [b \in Others(a) |-> 0], at |-> {}]]
    /\ ipisb = [a \in Zones |-> [gw |-> 0, pb |-> NoPort, routes |-> {}]]
    /\ iptxn = [a \in Zones |-> {}]
    /\ ipuser = 0
    /\ ipfails = 0

(***************************************************************************)
(* gateway_run(): the own gateway goes to ISB; those of the others become  *)
(* remote chassis of SB, and the extra ones are deleted (with them the     *)
(* weak references of port bindings go).                                   *)
(***************************************************************************)
gateway_run_isb(a, rows) == [rows EXCEPT !.gw = ipcfg[a].gw]

\* Gateways that vanished from ISB keep their chassis.
GatewaysKept(a, sb) ==
    [sb EXCEPT !.chassis = [b \in Others(a) |-> IF ipisb[b].gw = 0 THEN @[b] ELSE ipisb[b].gw]]

gateway_run_sb(a, sb) ==
    [sb EXCEPT !.chassis = [b \in Others(a) |-> ipisb[b].gw],
               !.at = {b \in @ : ipisb[b].gw # 0}]

(***************************************************************************)
(* port_binding_run().                                                     *)
(***************************************************************************)
Used == {ipisb[b].pb.key : b \in Zones}

allocate_port_key == IF \E k \in 1 .. MaxPortKey : k \notin Used
                     THEN CHOOSE k \in 1 .. MaxPortKey :
                              k \notin Used /\ \A j \in 1 .. MaxPortKey : j \notin Used => k <= j
                     ELSE 0

IsLocal(a) == ipcfg[a].port /\ ipsb[a].port   \* a router lsp with its SB binding

create_isb_pb(a) == [key |-> allocate_port_key, gw |-> ipcfg[a].bound]

sync_local_port(a, pb) == [pb EXCEPT !.gw = ipcfg[a].bound]

\* A row whose port is gone, or has no SB binding (yet), is extra and deleted.
port_binding_run_isb(a, rows) ==
    [rows EXCEPT !.pb = IF ~IsLocal(a) THEN NoPort
                        ELSE IF @ = NoPort THEN create_isb_pb(a)
                        ELSE sync_local_port(a, @)]

\* Own key from the committed row; remote ports as ISB has them.
port_binding_run_nb(a, nb) ==
    [nb EXCEPT !.mykey = IF IsLocal(a) /\ ipisb[a].pb # NoPort THEN ipisb[a].pb.key ELSE @,
               !.remote = [b \in Others(a) |-> ipisb[b].pb.key]]

\* sync_remote_port(): the chassis follows ISB's gateway once SB has that
\* chassis; a port binding that is not in SB yet is left for later.
Synced(a, sb) == {b \in sb.remote : ipnb[a].remote[b] # 0 /\ ipisb[b].pb # NoPort}

sync_remote_port(a, sb) ==
    [sb EXCEPT !.at = (@ \ {b \in Synced(a, sb) : ~ipisb[b].pb.gw})
                      \cup {b \in Synced(a, sb) : ipisb[b].pb.gw /\ sb.chassis[b] # 0}]

(***************************************************************************)
(* route_run().  rows are the own ISB rows as this iteration left them.    *)
(* A route names the AZ it comes from (its nexthop and lr-id).             *)
(***************************************************************************)

\* Routes whose nexthop is no port of a router, and the binding of a port
\* without one.
delete_orphan_ic_routes(a, rows) ==
    IF ipcfg[a].port THEN rows ELSE [rows EXCEPT !.pb = NoPort, !.routes = {}]

advertise_routes(a, rows) ==
    IF rows.pb = NoPort THEN rows ELSE [rows EXCEPT !.routes = ipcfg[a].routes]

\* A route is learned from the routes of the switch that are not of the own
\* router, unless the router has one of its own for the prefix.
route_need_learn(a, r) == r.from # a /\ r.prefix \notin ipcfg[a].routes

\* The routes of the switch; the own ones as they were before this iteration.
OnSwitch(a, rows) ==
    UNION {{[prefix |-> p, from |-> b] : p \in IF b = a THEN rows.routes ELSE ipisb[b].routes}
           : b \in Zones}

\* The routers it looks at are those with a port binding in ISB: learned
\* routes of a router that lost its port are not looked at any more.
sync_learned_routes(a, nb, rows) ==
    IF rows.pb = NoPort THEN nb
    ELSE [nb EXCEPT !.learned = {r \in OnSwitch(a, rows) : route_need_learn(a, r)}]

(***************************************************************************)
(* ovn_db_run() of AZ a without the transactions in busy: the ISB rows it  *)
(* asks for, and what it leaves in NB and SB.                              *)
(***************************************************************************)
ovn_db_run(a, busy) ==
    LET gws   == "sb" \notin busy
        ports == busy = {}
        lrs   == "nb" \notin busy
        r1 == IF gws THEN gateway_run_isb(a, ipisb[a]) ELSE ipisb[a]
        s1 == IF gws THEN gateway_run_sb(a, ipsb[a]) ELSE ipsb[a]
        r2 == IF ports THEN port_binding_run_isb(a, r1) ELSE r1
        n2 == IF ports THEN port_binding_run_nb(a, ipnb[a]) ELSE ipnb[a]
        s2 == IF ports THEN sync_remote_port(a, s1) ELSE s1
        r3 == IF lrs THEN delete_orphan_ic_routes(a, r2) ELSE r2
        n3 == IF lrs THEN sync_learned_routes(a, n2, r3) ELSE n2
        r4 == IF lrs THEN advertise_routes(a, r3) ELSE r3
    IN  [isb |-> r4, nb |-> n3, sb |-> s2]

\* An iteration of the main loop; the transactions in failed do not commit.
IpIteration(a, busy, failed) ==
    LET run == ovn_db_run(a, busy)
    IN  /\ iptxn[a] = {}
        /\ ipfails + Cardinality(busy \cup failed) <= MaxIpFails
        /\ ipfails' = ipfails + Cardinality(busy \cup failed)
        /\ iptxn' = IF run.isb # ipisb[a] THEN [iptxn EXCEPT ![a] = {run.isb}] ELSE iptxn
        /\ ipnb' = IF "nb" \in busy \cup failed THEN ipnb ELSE [ipnb EXCEPT ![a] = run.nb]
        /\ ipsb' = IF "sb" \in busy \cup failed THEN ipsb ELSE [ipsb EXCEPT ![a] = run.sb]
        /\ UNCHANGED <<ipcfg, ipisb, ipuser>>

\* ISB refuses a key that another port of the switch has (external).
KeyClash(a, rows) == rows.pb.key # 0 /\ \E b \in Others(a) : ipisb[b].pb.key = rows.pb.key

IsbAnswer(a) ==
    /\ \E rows \in iptxn[a] :
        \/ ~KeyClash(a, rows) /\ ipisb' = [ipisb EXCEPT ![a] = rows] /\ UNCHANGED ipfails
        \/ KeyClash(a, rows) /\ UNCHANGED <<ipisb, ipfails>>
        \/ ipfails < MaxIpFails /\ ipfails' = ipfails + 1 /\ UNCHANGED ipisb
    /\ iptxn' = [iptxn EXCEPT ![a] = {}]
    /\ UNCHANGED <<ipcfg, ipnb, ipsb, ipuser>>

\* northd brings the ports of NB to SB (external).
PortsInSb(a) ==
    [ipsb[a] EXCEPT !.port = ipcfg[a].port,
                    !.remote = {b \in Others(a) : ipnb[a].remote[b] # 0},
                    !.at = {b \in @ : ipnb[a].remote[b] # 0}]
Northd(a) ==
    /\ ipsb' = [ipsb EXCEPT ![a] = PortsInSb(a)]
    /\ UNCHANGED <<ipcfg, ipnb, ipisb, iptxn, ipuser, ipfails>>

\* The user of one AZ (external).
IpUser(a) ==
    /\ ipuser < MaxIpUser
    /\ ipuser' = ipuser + 1
    /\ \/ ipcfg' = [ipcfg EXCEPT ![a].port = ~@]
       \/ \E g \in 0 .. 2 : g # ipcfg[a].gw /\
            ipcfg' = [ipcfg EXCEPT ![a].gw = g, ![a].bound = (g # 0)]
       \/ \E p \in IpPrefixes : ipcfg' = [ipcfg EXCEPT ![a].routes =
                                            IF p \in @ THEN @ \ {p} ELSE @ \cup {p}]
    /\ UNCHANGED <<ipnb, ipsb, ipisb, iptxn, ipfails>>

IcPortsNext ==
    \E a \in Zones :
        \/ \E busy, failed \in SUBSET {"nb", "sb"} : IpIteration(a, busy, failed)
        \/ IsbAnswer(a)
        \/ Northd(a)
        \/ IpUser(a)

IcPortsSpec == IcPortsInit /\ [][IcPortsNext]_ipVars

(***************************************************************************)
(* Properties.                                                             *)
(***************************************************************************)
\* Two ports of a transit switch never have the same key, although the ovn-ics
\* allocate on their own (the index of ISB's Port_Binding settles it).
PortKeysDiffer ==
    \A a \in Zones : \A b \in Others(a) :
        ipisb[a].pb # NoPort /\ ipisb[b].pb # NoPort => ipisb[a].pb.key # ipisb[b].pb.key

\* What zone a has of what zone b offers: port, key, the chassis behind it, and
\* routes.
Mirrored(a, b) ==
    /\ ipnb[a].remote[b] = ipisb[b].pb.key
    /\ (ipcfg[b].port <=> ipisb[b].pb # NoPort)
    /\ ipsb[a].chassis[b] = ipcfg[b].gw
    /\ (b \in ipsb[a].at <=> ipcfg[b].port /\ ipcfg[b].bound)
    /\ ipcfg[a].port => {r.prefix : r \in {x \in ipnb[a].learned : x.from = b}} =
                        (IF ipcfg[b].port THEN ipcfg[b].routes \ ipcfg[a].routes ELSE {})

\* Nothing is on its way, and no daemon would change anything.
IpQuiet ==
    \A a \in Zones :
        /\ iptxn[a] = {}
        /\ PortsInSb(a) = ipsb[a]
        /\ ovn_db_run(a, {}) = [isb |-> ipisb[a], nb |-> ipnb[a], sb |-> ipsb[a]]

\* When the daemons of all zones have come to rest every zone has exactly what
\* the others offer, whatever transactions failed or could not start before.
ZonesMirrored == IpQuiet => \A a \in Zones : \A b \in Others(a) : Mirrored(a, b)

\* ic-learned-route: a learned route goes when the route it was learned from
\* is not offered any more.
LearnedWithdrawn ==
    IpQuiet => \A a \in Zones : \A r \in ipnb[a].learned :
        ipcfg[r.from].port /\ r.prefix \in ipcfg[r.from].routes
=============================================================================
