------------------------------ MODULE PortSec ------------------------------
(***************************************************************************)
(* Port security: the OpenFlow flows that ovn-controller writes for the    *)
(* Port_Binding.port_security of one port (controller/lflow.c), and what   *)
(* the actions check_in_port_sec() and check_out_port_sec() find in them.  *)
(*                                                                         *)
(* The addresses are hosts without a mask, and no packet is for a          *)
(* broadcast address of their subnets.                                     *)
(***************************************************************************)
EXTENDS Lflow

CONSTANTS
    PsEntries       \* elements of port_security: [valid, ea, ip4, ip6], ip4 and
                    \* ip6: the addresses given, sets

VARIABLES
    psrows,         \* Port_Binding.port_security
    pssent          \* a frame of or to the port, and what the flows say of it

psVars == <<psrows, pssent>>

PsMacs == {"m1", "m2", "m3", "m4"}
Ip4Protos == {"ip4", "dhcp"}
NdProtos == {"ns", "na"}
Ip6Protos == {"ip6", "mld"} \cup NdProtos
Lla(ea) == [m1 |-> "lla1", m2 |-> "lla2", m3 |-> "lla3", m4 |-> "lla4"][ea]   \* in6_generate_lla()

\* sip, dip: of IP; the sender and target of ARP; tip: the target of ND.
\* sha: inner source MAC of ARP, of ND ("zero": no such option).
PsFrame(proto, src, dst, sip, dip, tip, sha) ==
    [stage |-> "in_port_sec", proto |-> proto, src |-> src, dst |-> dst, sip |-> sip, dip |-> dip,
     tip |-> tip, sha |-> sha]

PsDeny(stage, pri, match) == Flow(stage, pri, {match}, NoLoad, "deny")
PsAllow(stage, pri, match) == Flow(stage, pri, {match}, NoLoad, "allow")
PsToNd(pri, match) == Flow("in_port_sec", pri, {match}, NoLoad, "nd")

build_in_port_sec_default_flows ==
    PsDeny("in_port_sec", 80, <<>>)
    \cup PsToNd(95, [proto |-> {"arp"}])
    \cup PsDeny("in_port_sec_nd", 80, [proto |-> {"arp"}])
    \cup PsDeny("in_port_sec_nd", 80, [proto |-> {"na"}])
    \cup PsAllow("in_port_sec_nd", 80, [proto |-> {"ns"}])

build_in_port_sec_no_ip_flows(e) ==
    IF e.ip4 \cup e.ip6 # {} THEN {} ELSE PsToNd(90, [src |-> {e.ea}])

build_in_port_sec_ip4_flows(e) ==
    IF e.ip4 = {} THEN {}
    ELSE PsAllow("in_port_sec", 90, [src |-> {e.ea}, proto |-> Ip4Protos, sip |-> e.ip4])
         \cup PsAllow("in_port_sec", 90, [src |-> {e.ea}, proto |-> {"dhcp"}, sip |-> {"any"}, dip |-> {"bcast4"}])

\* Mutant: ARP from any address once the element has an IPv4 address.
ArpAnySender(e) ==
    IF e.ip4 = {} /\ e.ip6 # {} THEN {}
    ELSE PsAllow("in_port_sec_nd", 90, [src |-> {e.ea}, proto |-> {"arp"}, sha |-> {e.ea}])
build_in_port_sec_arp_flows(e) ==
    IF e.ip4 = {} /\ e.ip6 # {} THEN {}
    ELSE IF e.ip4 = {}
    THEN PsAllow("in_port_sec_nd", 90, [src |-> {e.ea}, proto |-> {"arp"}, sha |-> {e.ea}])
    ELSE PsAllow("in_port_sec_nd", 90, [src |-> {e.ea}, proto |-> {"arp"}, sha |-> {e.ea}, sip |-> e.ip4])

build_in_port_sec_ip6_flows(e) ==
    IF e.ip6 = {} THEN {}
    ELSE PsToNd(90, [src |-> {e.ea}, proto |-> Ip6Protos, sip |-> e.ip6 \cup {Lla(e.ea)}])
         \cup PsAllow("in_port_sec", 90, [src |-> {e.ea}, proto |-> {"mld"}, sip |-> {"any"}, dip |-> {"mc6"}])
         \cup PsToNd(90, [src |-> {e.ea}, proto |-> {"ns"}, sip |-> {"any"}, dip |-> {"mc6"}])

build_in_port_sec_nd_flows(e) ==
    PsAllow("in_port_sec_nd", 90, [proto |-> {"ns"}, sha |-> {"zero", e.ea}])
    \cup (IF e.ip6 = {} THEN PsAllow("in_port_sec_nd", 90, [proto |-> {"na"}, sha |-> {"zero", e.ea}])
          ELSE PsAllow("in_port_sec_nd", 90, [proto |-> {"na"}, sha |-> {"zero", e.ea}, tip |-> {Lla(e.ea)}])
               \cup PsAllow("in_port_sec_nd", 90,
                            [src |-> {e.ea}, proto |-> {"na"}, sha |-> {"zero", e.ea}, tip |-> e.ip6]))

build_out_port_sec_no_ip_flows(e) == PsAllow("out_port_sec", 85, [dst |-> {e.ea}])

build_out_port_sec_ip4_flows(e) ==
    IF e.ip4 \cup e.ip6 = {} THEN {}
    ELSE PsDeny("out_port_sec", 90, [dst |-> {e.ea}, proto |-> Ip4Protos])
         \cup (IF e.ip4 = {} THEN {}
               ELSE PsAllow("out_port_sec", 95, [dst |-> {e.ea}, proto |-> Ip4Protos, dip |-> e.ip4 \cup {"bcast4", "mc4"}]))

build_out_port_sec_ip6_flows(e) ==
    IF e.ip4 \cup e.ip6 = {} THEN {}
    ELSE PsDeny("out_port_sec", 90, [dst |-> {e.ea}, proto |-> Ip6Protos])
         \cup (IF e.ip6 = {} THEN {}
               ELSE PsAllow("out_port_sec", 95, [dst |-> {e.ea}, proto |-> Ip6Protos,
                                                 dip |-> e.ip6 \cup {Lla(e.ea), "mc6"}]))

\* Elements without an Ethernet address do not count; without any other the
\* port has no flows.
consider_port_sec_flows(rows) ==
    LET ps_addrs == {e \in rows : e.valid}
    IN  IF ps_addrs = {} THEN {}
        ELSE build_in_port_sec_default_flows
             \cup PsDeny("out_port_sec", 80, <<>>)
             \cup UNION {build_in_port_sec_no_ip_flows(e) \cup build_in_port_sec_ip4_flows(e)
                         \cup build_in_port_sec_arp_flows(e) \cup build_in_port_sec_ip6_flows(e)
                         \cup build_in_port_sec_nd_flows(e) \cup build_out_port_sec_no_ip_flows(e)
                         \cup build_out_port_sec_ip4_flows(e) \cup build_out_port_sec_ip6_flows(e) : e \in ps_addrs}

\* The results that the tables can give: a frame that no flow matches passes.
PsVerdicts(flows, p) ==
    LET hit == Lookup(flows, p)
    IN  IF hit = {} THEN {TRUE} ELSE {f.then = "allow" : f \in hit}

check_in_port_sec(rows, p) ==
    LET flows == consider_port_sec_flows(rows)
        hit == Lookup(flows, [p EXCEPT !.stage = "in_port_sec"])
    IN  IF \E f \in hit : f.then = "nd" THEN PsVerdicts(flows, [p EXCEPT !.stage = "in_port_sec_nd"])
        ELSE PsVerdicts(flows, [p EXCEPT !.stage = "in_port_sec"])

check_out_port_sec(rows, p) == PsVerdicts(consider_port_sec_flows(rows), [p EXCEPT !.stage = "out_port_sec"])

(***************************************************************************)
(* What the Northbound schema says of port_security.                       *)
(***************************************************************************)
\* "the addresses from which the host [...] is allowed to send packets".
MaySend(e, p) ==
    /\ p.src = e.ea
    /\ p.proto \in {"arp"} => p.sha = e.ea
    /\ p.proto \in NdProtos => p.sha \in {"zero", e.ea}
    /\ p.proto \in Ip4Protos => \/ e.ip4 \cup e.ip6 = {} \/ p.sip \in e.ip4
                                \/ p.proto = "dhcp" /\ p.sip = "any" /\ p.dip = "bcast4" /\ e.ip4 # {}
    /\ p.proto = "arp" => e.ip4 \cup e.ip6 = {} \/ p.sip \in e.ip4
    /\ p.proto \in Ip6Protos =>
        \/ e.ip4 \cup e.ip6 = {}
        \/ e.ip6 # {} /\ \/ p.sip \in e.ip6 \cup {Lla(e.ea)}
                         \/ p.proto \in {"ns", "mld"} /\ p.sip = "any" /\ p.dip = "mc6"
    /\ p.proto = "na" /\ e.ip6 # {} => p.tip \in e.ip6 \cup {Lla(e.ea)}

MayReceive(e, p) ==
    /\ p.dst = e.ea
    /\ p.proto \in Ip4Protos => e.ip4 \cup e.ip6 = {} \/ (e.ip4 # {} /\ p.dip \in e.ip4 \cup {"bcast4", "mc4"})
    /\ p.proto \in Ip6Protos => e.ip4 \cup e.ip6 = {} \/ (e.ip6 # {} /\ p.dip \in e.ip6 \cup {Lla(e.ea), "mc6"})

Secured(rows) == \E e \in rows : e.valid
PsMaySend(rows, p) == Secured(rows) => \E e \in rows : e.valid /\ MaySend(e, p)
PsMayReceive(rows, p) == Secured(rows) => \E e \in rows : e.valid /\ MayReceive(e, p)

(***************************************************************************)
(* The steps.                                                              *)
(***************************************************************************)
PsIp4 == UNION {e.ip4 : e \in PsEntries} \cup {"any", "other4"}
PsIp6 == UNION {e.ip6 : e \in PsEntries} \cup {"any", "other6"} \cup {Lla(m) : m \in PsMacs}
PsFrames ==
    {p \in {PsFrame(x, s, d, a, b, "none", "none") : x \in Ip4Protos, s \in PsMacs, d \in PsMacs, a \in PsIp4,
                                                     b \in PsIp4 \cup {"bcast4", "mc4"}}
           \cup {PsFrame(x, s, d, a, "other4", "none", h) : x \in {"arp", "rarp"}, s \in PsMacs, d \in PsMacs,
                                                            a \in PsIp4, h \in PsMacs}
           \cup {PsFrame(x, s, d, a, b, "none", "none") : x \in {"ip6", "mld"}, s \in PsMacs, d \in PsMacs, a \in PsIp6,
                                                          b \in PsIp6 \cup {"mc6"}}
           \cup {PsFrame(x, s, "m4", a, "mc6", t, h) : x \in NdProtos, s \in PsMacs, a \in PsIp6, t \in PsIp6,
                                                       h \in PsMacs \cup {"zero"}} :
        p.src = "m4" \/ p.dst = "m4"}

PsIdle == [frame |-> PsFrame("none", "m3", "m3", "any", "any", "none", "none"), in |-> {TRUE}, out |-> {TRUE}]

PortSecInit ==
    /\ psrows = {}
    /\ pssent = PsIdle

\* The owner of the port changes Logical_Switch_Port.port_security.
PsSet(e) ==
    /\ pssent = PsIdle
    /\ UNCHANGED pssent
    /\ psrows' = IF e \in psrows THEN psrows \ {e} ELSE psrows \cup {e}

PsSend(p) ==
    /\ pssent = PsIdle
    /\ pssent' = [frame |-> p, in |-> check_in_port_sec(psrows, p), out |-> check_out_port_sec(psrows, p)]
    /\ UNCHANGED psrows

PortSecNext == (\E e \in PsEntries : PsSet(e)) \/ (\E p \in PsFrames : PsSend(p))

PortSecSpec == PortSecInit /\ [][PortSecNext]_psVars

(***************************************************************************)
(* Properties.                                                             *)
(***************************************************************************)
PortSecTypeOK == psrows \subseteq PsEntries /\ pssent.in \subseteq BOOLEAN /\ pssent.out \subseteq BOOLEAN

\* Frames whose verdict the code and the schema see differently: RARP (see
\* RarpUnrestricted), the source link-layer option of neighbor solicitations (a
\* TODO in build_in_port_sec_default_flows()), and advertisements under several
\* elements: their flows do not match eth.src, though their comments say so.
PsDisputed(rows, p) ==
    \/ p.proto \in {"none", "rarp"}
    \/ p.proto = "ns" /\ p.sha \notin {"zero", p.src}
    \/ p.proto = "na" /\ Cardinality({e \in rows : e.valid}) > 1

\* The flows of all elements together pass exactly the frames that one element
\* permits, and their verdict is never undefined.  (Elements of one Ethernet
\* address have all of them IP addresses, or none: otherwise the flow that
\* denies wins.)
PortSecAsDocumented ==
    /\ ~PsDisputed(psrows, pssent.frame) => pssent.in = {PsMaySend(psrows, pssent.frame)}
    /\ pssent # PsIdle => pssent.out = {PsMayReceive(psrows, pssent.frame)}

\* "(RARP is not restricted.)": from an address that the port may use.
RarpUnrestricted ==
    pssent.frame.proto = "rarp" /\ PsMaySend(psrows, pssent.frame) => pssent.in = {TRUE}
=============================================================================
