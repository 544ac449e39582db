-------------------------------- MODULE Ipam --------------------------------
(***************************************************************************)
(* Address management of ovn-northd (northd/ipam.c, build_ipam() of        *)
(* northd/northd.c) for the ports of one logical switch.  Addresses are    *)
(* numbered from the first one of the subnet, MACs by their suffix under   *)
(* the MAC prefix; a MAC of another prefix is OtherMac.  Every run starts  *)
(* from the Northbound database alone: the bitmaps are rebuilt.            *)
(*                                                                         *)
(* spec[p] is the address element of port p: kind "dynamic" (with a MAC,   *)
(* an IPv4 address and an IPv6 address if given), "static" or "none".      *)
(***************************************************************************)
EXTENDS Integers, FiniteSets, Sequences, SequencesExt, TLC

CONSTANTS IpamPorts, IpamSpecs,
          IpamTotal,      \* total_ipv4s: the addresses 0 .. IpamTotal - 1
          IpamExcluded,   \* exclude_ips
          MacSpace,       \* MAC_ADDR_SPACE
          MaxIpamChanges, MaxIpamFails

NoAddr == -1
NoMac == 0
OtherMac == 1000        \* a MAC with another prefix
Eui64(mac) == mac       \* the IPv6 address made from a MAC
NoDyn == [mac |-> NoMac, ip |-> NoAddr, ip6 |-> NoAddr]
NoAddrs == [kind |-> "none", mac |-> NoMac, ip |-> NoAddr, ip6 |-> NoAddr]

VARIABLES ipspec,       \* NB: Logical_Switch_Port.addresses
          ipdyn,        \* NB: Logical_Switch_Port.dynamic_addresses
          ipconf,       \* NB: whether other_config has subnet and ipv6_prefix
          iporder,      \* the order of Logical_Switch.ports
          ippend,       \* the open Northbound transaction of northd
          ipn           \* changes and failures so far, commits since the last change
ipvars == <<ipspec, ipdyn, ipconf, iporder, ippend, ipn>>
NoTxn == [p \in {} |-> NoDyn]

(***************************************************************************)
(* northd/ipam.c.  A is [ips, macs]: the bitmap and macam.                 *)
(***************************************************************************)
init_ipam_ipv4 == IF ipconf.subnet THEN {0} \cup IpamExcluded ELSE {}
InSubnet(ip) == ipconf.subnet /\ ip \in 0 .. IpamTotal - 1
ipam_insert_ip(A, ip) == IF InSubnet(ip) THEN [A EXCEPT !.ips = @ \cup {ip}] ELSE A
\* The last address, the broadcast address, is never given out.
ipam_get_unused_ip(A) ==
    LET free == (0 .. IpamTotal - 2) \ A.ips
    IN  IF ~ipconf.subnet \/ free = {} THEN NoAddr ELSE CHOOSE i \in free : \A j \in free : i <= j
ipam_insert_mac(A, mac) == IF mac = OtherMac THEN A ELSE [A EXCEPT !.macs = @ \cup {mac}]
\* The search starts from the address; when all are taken the last one tried is used.
ipam_get_unused_mac(A, ip) ==
    LET base == IF ip = NoAddr THEN 0 ELSE ip
        suffix(i) == ((base + i) % (MacSpace - 1)) + 1
        good == {i \in 0 .. MacSpace - 2 : suffix(i) \notin A.macs}
    IN  IF good = {} THEN suffix(MacSpace - 2) ELSE suffix(CHOOSE i \in good : \A j \in good : i <= j)
ipam_add_port_addresses(A, p) ==
    IF ipspec[p].kind = "static" THEN ipam_insert_ip(ipam_insert_mac(A, ipspec[p].mac), ipspec[p].ip) ELSE A

(***************************************************************************)
(* What has to change in the addresses a port already has.                 *)
(***************************************************************************)
dynamic_mac_changed(s, cur) ==
    IF s.mac # NoMac THEN (IF s.mac = cur.mac THEN "NONE" ELSE "STATIC")
    ELSE IF cur.mac = OtherMac THEN "DYNAMIC" ELSE "NONE"
\* Mutant: whether the address is taken is not looked at.
Ip4Unchecked(A, s, cur) == IF cur.ip = NoAddr THEN "DYNAMIC" ELSE "NONE"
dynamic_ip4_changed(A, s, cur) ==
    IF ~ipconf.subnet THEN (IF cur.ip # NoAddr THEN "REMOVE" ELSE "NONE")
    ELSE IF cur.ip = NoAddr \/ cur.ip >= IpamTotal - 1 \/ cur.ip \in A.ips THEN "DYNAMIC"
    ELSE IF s.ip = NoAddr THEN "NONE"
    ELSE IF s.ip > IpamTotal \/ s.ip \in A.ips THEN "DYNAMIC"
    ELSE IF cur.ip # s.ip THEN "STATIC" ELSE "NONE"
dynamic_ip6_changed(s, cur, mac) ==
    IF ~ipconf.v6 THEN (IF cur.ip6 # NoAddr THEN "REMOVE" ELSE "NONE")
    ELSE IF cur.ip6 = NoAddr \/ s.mac # NoMac THEN "DYNAMIC"
    ELSE IF s.ip6 # NoAddr THEN (IF cur.ip6 # s.ip6 THEN "STATIC" ELSE "NONE")
    ELSE IF mac # "NONE" THEN "DYNAMIC" ELSE "NONE"
dynamic_addresses_check_for_updates(A, s, cur) ==
    LET mac == dynamic_mac_changed(s, cur)
    IN  [mac |-> mac, ip |-> dynamic_ip4_changed(A, s, cur), ip6 |-> dynamic_ip6_changed(s, cur, mac)]
update_unchanged_dynamic_addresses(A, u, cur) ==
    LET B == IF u.mac = "NONE" THEN ipam_insert_mac(A, cur.mac) ELSE A
    IN  IF u.ip = "NONE" /\ cur.ip # NoAddr THEN ipam_insert_ip(B, cur.ip) ELSE B
\* The first addresses of a port: a requested one is taken as it is.
set_dynamic_updates(s) ==
    [mac |-> IF s.mac # NoMac THEN "STATIC" ELSE "DYNAMIC",
     ip  |-> IF s.ip # NoAddr THEN "STATIC" ELSE IF ipconf.subnet THEN "DYNAMIC" ELSE "NONE",
     ip6 |-> IF s.ip6 # NoAddr THEN "STATIC" ELSE IF ipconf.v6 THEN "DYNAMIC" ELSE "NONE"]
\* The new addresses; that the address is taken meanwhile is not noticed.
update_dynamic_addresses(A, u, s, cur) ==
    LET ip == CASE u.ip = "NONE" -> cur.ip [] u.ip = "REMOVE" -> NoAddr
                [] u.ip = "STATIC" -> s.ip [] OTHER -> ipam_get_unused_ip(A)
        mac == CASE u.mac = "NONE" -> cur.mac [] u.mac = "STATIC" -> s.mac [] OTHER -> ipam_get_unused_mac(A, ip)
        ip6 == CASE u.ip6 = "NONE" -> cur.ip6 [] u.ip6 = "REMOVE" -> NoAddr
                 [] u.ip6 = "STATIC" -> s.ip6 [] OTHER -> Eui64(mac)
    IN  <<ipam_insert_ip(ipam_insert_mac(A, mac), ip), [mac |-> mac, ip |-> ip, ip6 |-> ip6]>>

(***************************************************************************)
(* One run over the ports: first what changes, then the new addresses.     *)
(***************************************************************************)
Enabled4or6 == ipconf.subnet \/ ipconf.v6
Put(f, p, d) == [x \in DOMAIN f \cup {p} |-> IF x = p THEN d ELSE f[x]]
\* W is [A, todo, txn]: bitmap and macam, the list of updates, what is written.
ConsiderPort(W, p) ==
    LET s == ipspec[p]
        cur == ipdyn[p]
        u == IF cur = NoDyn THEN set_dynamic_updates(s) ELSE dynamic_addresses_check_for_updates(W.A, s, cur)
    IN  IF s.kind # "dynamic" THEN (IF cur = NoDyn THEN W ELSE [W EXCEPT !.txn = Put(@, p, NoDyn)])
        ELSE [W EXCEPT !.A = IF cur = NoDyn THEN @ ELSE update_unchanged_dynamic_addresses(@, u, cur),
                       !.todo = IF u = [mac |-> "NONE", ip |-> "NONE", ip6 |-> "NONE"] THEN @ ELSE Append(@, <<p, u>>)]
UpdatePort(W, t) ==
    LET r == update_dynamic_addresses(W.A, t[2], ipspec[t[1]], ipdyn[t[1]])
    IN  [W EXCEPT !.A = r[1], !.txn = Put(@, t[1], r[2])]
build_ipam ==
    LET static == FoldSet(LAMBDA p, A : ipam_add_port_addresses(A, p), [ips |-> init_ipam_ipv4, macs |-> {}], IpamPorts)
        first == FoldLeft(ConsiderPort, [A |-> static, todo |-> <<>>, txn |-> NoTxn], iporder)
        txn == IF Enabled4or6 THEN FoldLeft(UpdatePort, first, first.todo).txn
               ELSE [p \in {q \in IpamPorts : ipdyn[q] # NoDyn} |-> NoDyn]
    IN  \* a value that does not change is not part of the transaction
        [p \in {q \in DOMAIN txn : txn[q] # ipdyn[q]} |-> txn[p]]

IpamRun ==
    /\ ippend = NoTxn
    /\ build_ipam # NoTxn
    /\ ippend' = build_ipam
    /\ UNCHANGED <<ipspec, ipdyn, ipconf, iporder, ipn>>
IpamCommit ==
    /\ ippend # NoTxn
    /\ ipdyn' = ippend @@ ipdyn
    /\ ippend' = NoTxn
    /\ ipn' = [ipn EXCEPT !.runs = @ + 1]
    /\ UNCHANGED <<ipspec, ipconf, iporder>>
\* The transaction fails; northd starts over from the database.
IpamCommitFails ==
    /\ ippend # NoTxn
    /\ ipn.fails < MaxIpamFails
    /\ ippend' = NoTxn
    /\ ipn' = [ipn EXCEPT !.fails = @ + 1]
    /\ UNCHANGED <<ipspec, ipdyn, ipconf, iporder>>

\* The CMS, at any time.
SetAddresses(p, s) ==
    /\ ipn.user < MaxIpamChanges /\ s # ipspec[p]
    /\ ipspec' = [ipspec EXCEPT ![p] = s]
    /\ ipn' = [ipn EXCEPT !.user = @ + 1, !.runs = 0]
    /\ UNCHANGED <<ipdyn, ipconf, iporder, ippend>>
SetConfig(c) ==
    /\ ipn.user < MaxIpamChanges /\ c # ipconf
    /\ ipconf' = c
    /\ ipn' = [ipn EXCEPT !.user = @ + 1, !.runs = 0]
    /\ UNCHANGED <<ipspec, ipdyn, iporder, ippend>>

IpamInit ==
    /\ ipspec \in [IpamPorts -> {NoAddrs, [NoAddrs EXCEPT !.kind = "dynamic"]}]
    /\ ipdyn = [p \in IpamPorts |-> NoDyn]
    /\ ipconf = [subnet |-> TRUE, v6 |-> FALSE]
    /\ iporder \in SetToSeqs(IpamPorts)
    /\ ippend = NoTxn
    /\ ipn = [user |-> 0, fails |-> 0, runs |-> 0]
IpamNext ==
    \/ IpamRun
    \/ IpamCommit
    \/ IpamCommitFails
    \/ \E p \in IpamPorts, s \in IpamSpecs : SetAddresses(p, s)
    \/ \E c \in [subnet : BOOLEAN, v6 : BOOLEAN] : SetConfig(c)
IpamSpec == IpamInit /\ [][IpamNext]_ipvars

IpamTypeOK ==
    /\ \A p \in IpamPorts : ipdyn[p].ip \in {NoAddr} \cup 0 .. IpamTotal /\ ipdyn[p].mac \in 0 .. MacSpace \cup {OtherMac}
    /\ DOMAIN ippend \subseteq IpamPorts

Dynamic == {p \in IpamPorts : ipspec[p].kind = "dynamic"}
TheIp(q) == IF ipspec[q].kind = "static" THEN ipspec[q].ip ELSE ipdyn[q].ip
Assignable == (1 .. IpamTotal - 2) \ IpamExcluded
WellAssigned ==
    /\ \A p \in Dynamic :
           IF ipdyn[p].ip = NoAddr
           THEN ipconf.subnet => Assignable \subseteq {TheIp(q) : q \in IpamPorts \ {p}}
           ELSE /\ ipconf.subnet
                /\ ipdyn[p].ip \in Assignable
                /\ \A q \in IpamPorts \ {p} : ipdyn[p].ip # TheIp(q)
    /\ \A p \in IpamPorts : (ipspec[p].kind # "dynamic" \/ ~Enabled4or6) => ipdyn[p] = NoDyn
\* "choose an unused IPv4 address with the logical port's subnet": a bounded
\* number of runs after the CMS leaves the switch alone northd has nothing left to
\* write, and then every dynamic port has an address of its own inside the subnet,
\* or none because all are taken; also after two ports asked for one address, a
\* static port took an address in use, or the subnet was removed.  No port asks
\* for the last address of the subnet: dynamic_ip4_changed() accepts that as a
\* request (index > total_ipv4s) and refuses it as the current address
\* (index >= total_ipv4s - 1), so it is given and taken away in turns for ever.
AddressesSettle ==
    /\ ipn.runs <= Cardinality(IpamPorts) + 1
    /\ (ippend = NoTxn /\ build_ipam = NoTxn) => WellAssigned
=============================================================================
