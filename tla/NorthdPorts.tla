----------------------------- MODULE NorthdPorts -----------------------------
(***************************************************************************)
(* Tunnel keys, VLAN tags and queue ids that ovn-northd hands out when it  *)
(* joins the Northbound switches and ports with the Southbound             *)
(* Datapath_Binding and Port_Binding rows (build_datapaths() and           *)
(* build_ports() of northd/northd.c), and the FDB rows that name ports by  *)
(* their keys.                                                             *)
(*                                                                         *)
(* A run reads both databases and leaves one transaction for each; they    *)
(* commit, or fail, independently.  Key, tag and queue 0 mean "none".      *)
(* The containers of the model all have the same parent.                   *)
(***************************************************************************)
EXTENDS Integers, FiniteSets, Sequences, SequencesExt

CONSTANTS KpDps, KpPorts,    \* sequences: the order of the Northbound rows
          KpSpecs,           \* port configurations: [req, child, tagreq, qos]
          KpDpReqs,          \* values of other_config:requested-tnl-key
          KpDpKeys,          \* OVN_MAX_DP_KEY - OVN_MAX_DP_GLOBAL_NUM and OVN_MAX_DP_VXLAN_KEY
          KpPortKeys,        \* the same two limits for ports
          MaxKpFdb,          \* FDB rows at a time
          MaxKpChanges, MaxKpFails

KpLimits == {"plain", "vxlan"}
ASSUME KpAssumption == /\ KpDpKeys \in [KpLimits -> Nat \ {0}]
                       /\ KpPortKeys \in [KpLimits -> Nat \ {0}]
                       /\ \A s \in KpSpecs : s.tagreq # -1 => s.child

AbsentDp == -1                                    \* no Logical_Switch row
AbsentPort == [dp |-> "none"]
AbsentPb == [dp |-> "none"]
NoKey == 0
NoTag == 0
NoTagRequest == -1

VARIABLES kpdp,      \* NB: the requested key of every switch, AbsentDp
          kpport,    \* NB: Logical_Switch_Port rows [dp, spec, tag]
          kpsbdp,    \* SB: Datapath_Binding.tunnel_key, NoKey when there is no row
          kppb,      \* SB: Port_Binding rows [dp, key, child, tag, queue]
          kpfdb,     \* SB: FDB rows [dp, key], with the port each was learned on
          kpmode,    \* "vxlan" while some chassis has a VXLAN encap
          kppend,    \* the open transactions of northd [wait, sb, nb], and the
                     \* requests they were computed from
          kpn        \* changes, failures, and runs since the last of either
kpvars == <<kpdp, kpport, kpsbdp, kppb, kpfdb, kpmode, kppend, kpn>>

Dps == Range(KpDps)
Ports == Range(KpPorts)
NothingOpen == [wait |-> "none"]

(***************************************************************************)
(* lib/ovn-util.c.  S is [keys, hint, of]: the keys in use, the hint and   *)
(* the key given to each row so far.                                       *)
(***************************************************************************)
next_tnlid(k, max) == IF k + 1 <= max THEN k + 1 ELSE 1
\* The keys in the order in which they are tried.
Tried(hint, max) == [i \in 1 .. max |-> ((next_tnlid(hint, max) - 2 + i) % max) + 1]
ovn_allocate_tnlid(S, max) ==
    LET free == {i \in 1 .. max : Tried(S.hint, max)[i] \notin S.keys}
    IN  IF free = {} THEN NoKey
        ELSE Tried(S.hint, max)[CHOOSE i \in free : \A j \in free : i <= j]
ovn_add_tnlid(S, x, k) ==
    IF k \in S.keys THEN S ELSE [S EXCEPT !.keys = @ \cup {k}, !.of[x] = k]
ovn_port_add_tnlid(S, x, k) ==
    LET T == ovn_add_tnlid(S, x, k)
    IN  IF T # S /\ k > T.hint THEN [T EXCEPT !.hint = k] ELSE T
Allocated(S, x, max) ==
    LET k == ovn_allocate_tnlid(S, max)
    IN  IF S.of[x] # NoKey THEN S
        ELSE IF k = NoKey THEN [S EXCEPT !.hint = next_tnlid(@, max)]
        ELSE [S EXCEPT !.keys = @ \cup {k}, !.of[x] = k, !.hint = k]

\* Both lists in the order of the database.
Of(order, set) == SelectSeq(order, LAMBDA x : x \in set)
None(set) == [keys |-> {}, hint |-> 0, of |-> [x \in set |-> NoKey]]

(***************************************************************************)
(* build_datapaths(): the key of every switch; 0 when none is left.        *)
(***************************************************************************)
is_vxlan_mode == kpmode = "vxlan"
get_ovn_max_dp_key_local == KpDpKeys[kpmode]
NbDps == {d \in Dps : kpdp[d] # AbsentDp}
BothDps == {d \in NbDps : kpsbdp[d] # NoKey}
ovn_datapath_assign_requested_tnl_id(S, d) ==
    IF kpdp[d] = NoKey \/ (is_vxlan_mode /\ kpdp[d] > KpDpKeys["vxlan"]) THEN S
    ELSE ovn_add_tnlid(S, d, kpdp[d])
KeepDpKey(S, d) == IF S.of[d] = NoKey THEN ovn_add_tnlid(S, d, kpsbdp[d]) ELSE S
ovn_datapath_allocate_key(S, d) == Allocated(S, d, get_ovn_max_dp_key_local)
build_datapaths ==
    LET both == Of(KpDps, BothDps)
        lists == both \o Of(KpDps, NbDps \ BothDps)
        requested == FoldLeft(ovn_datapath_assign_requested_tnl_id, None(Dps), lists)
        kept == FoldLeft(KeepDpKey, requested, both)
    IN  FoldLeft(ovn_datapath_allocate_key, [kept EXCEPT !.hint = 0], lists).of

(***************************************************************************)
(* build_ports() for the ports of the switches that have a key.            *)
(***************************************************************************)
\* A VIF that becomes a container, or stops being one, gets a new row.
lsp_is_type_changed(p) == kppb[p].child # kpport[p].spec.child
PortsOf(keys, d) == {p \in Ports : kpport[p].dp = d /\ keys[d] # NoKey}
join_logical_ports(keys, d) ==
    {p \in PortsOf(keys, d) : kppb[p].dp = d /\ ~lsp_is_type_changed(p)}
ovn_port_assign_requested_tnl_id(S, p) ==
    LET req == kpport[p].spec.req
    IN  IF req = NoKey \/ (is_vxlan_mode /\ req > KpPortKeys["vxlan"]) THEN S
        ELSE ovn_port_add_tnlid(S, p, req)
KeepPortKey(S, p) == IF S.of[p] = NoKey THEN ovn_port_add_tnlid(S, p, kppb[p].key) ELSE S
ovn_port_allocate_key(S, p) == Allocated(S, p, KpPortKeys[kpmode])
\* The keys of the ports of switch d: requests, keys in use, then new ones.
PortKeys(keys, d) ==
    LET both == Of(KpPorts, join_logical_ports(keys, d))
        lists == both \o Of(KpPorts, PortsOf(keys, d) \ Range(both))
        requested == FoldLeft(ovn_port_assign_requested_tnl_id, None(Ports), lists)
    IN  FoldLeft(ovn_port_allocate_key, FoldLeft(KeepPortKey, requested, both), lists).of

(***************************************************************************)
(* Tags and queue ids.  T is [tags, queues, tagof, queueof]: the bitmaps   *)
(* and what every port got.                                                *)
(***************************************************************************)
Lowest(S) == CHOOSE i \in S : \A j \in S : i <= j
tag_alloc_add_existing_tags(keys) ==
    {kpport[p].tag : p \in {q \in Ports : kpport[q].dp \in Dps /\ keys[kpport[q].dp] # NoKey
                                             /\ kpport[q].spec.child}} \cup {0}
tag_alloc_create_new_tag(T, p) ==
    LET s == kpport[p].spec
        t == Lowest((1 .. Len(KpPorts) + 2) \ T.tags)
    IN  IF s.tagreq = NoTagRequest THEN T
        ELSE IF s.tagreq # 0 THEN [T EXCEPT !.tagof[p] = s.tagreq]
        ELSE IF kpport[p].tag # NoTag THEN T
        ELSE [T EXCEPT !.tags = @ \cup {t}, !.tagof[p] = t]
\* As allocate_queueid(), when the queues in use are not collected first.
QueueBlind(T) == 1
allocate_queueid(T) == Lowest((1 .. Len(KpPorts) + 1) \ T.queues)
\* The queue of a port that has had one stays while it has QoS parameters.
SyncQueue(T, p) ==
    LET old == T.queueof[p]
        new == allocate_queueid(T)
    IN  IF kpport[p].spec.qos /\ old = 0 THEN [T EXCEPT !.queues = @ \cup {new}, !.queueof[p] = new]
        ELSE IF ~kpport[p].spec.qos /\ old # 0 THEN [T EXCEPT !.queues = @ \ {old}, !.queueof[p] = 0]
        ELSE T
ovn_port_update_sbrec(p, key, T) ==
    [dp |-> kpport[p].dp, key |-> key, child |-> kpport[p].spec.child, tag |-> T.tagof[p], queue |-> T.queueof[p]]
build_ports(keys) ==
    LET of == [d \in Dps |-> PortKeys(keys, d)]
        has == {p \in Ports : kpport[p].dp \in Dps /\ of[kpport[p].dp][p] # NoKey}
        both == {p \in has : p \in join_logical_ports(keys, kpport[p].dp)}
        start == [tags |-> tag_alloc_add_existing_tags(keys),
                  queues |-> {kppb[p].queue : p \in UNION {join_logical_ports(keys, d) : d \in Dps}} \cup {0},
                  tagof |-> [p \in Ports |-> IF p \in has THEN kpport[p].tag ELSE NoTag],
                  queueof |-> [p \in Ports |-> IF p \in both THEN kppb[p].queue ELSE 0]]
        joined == FoldLeft(LAMBDA T, p : SyncQueue(tag_alloc_create_new_tag(T, p), p), start, Of(KpPorts, both))
        done == FoldLeft(SyncQueue, joined, Of(KpPorts, has \ both))
    IN  [pb |-> [p \in Ports |-> IF p \in has
                                 THEN ovn_port_update_sbrec(p, of[kpport[p].dp][p], done) ELSE AbsentPb],
         tags |-> [p \in has |-> done.tagof[p]]]

\* An FDB row goes away when no port of its switch has its key.
cleanup_stale_fdb_entries(keys, pb) ==
    {f \in kpfdb : \E p \in Ports : pb[p].dp # "none" /\ keys[pb[p].dp] = f.dp /\ pb[p].key = f.key}

(***************************************************************************)
(* A run of the en_northd engine node, and the commits of its result.      *)
(***************************************************************************)
OutputOf(keys, ports) ==
    [sb |-> [dp |-> keys, pb |-> ports.pb, fdb |-> cleanup_stale_fdb_entries(keys, ports.pb)], nb |-> ports.tags]
OutputWith(keys) == OutputOf(keys, build_ports(keys))
Output == OutputWith(build_datapaths)
Changes(out) == \/ out.sb # [dp |-> kpsbdp, pb |-> kppb, fdb |-> kpfdb]
                \/ \E p \in DOMAIN out.nb : out.nb[p] # kpport[p].tag
Quiet == kppend = NothingOpen /\ ~Changes(Output)

ovnnb_db_run ==
    /\ kppend = NothingOpen
    /\ \E out \in {Output} :
           /\ Changes(out)
           /\ kppend' = [wait |-> "sb", sb |-> out.sb, nb |-> out.nb,
                         reqs |-> [p \in Ports |-> IF kpport[p] = AbsentPort THEN NoKey ELSE kpport[p].spec.req]]
    /\ kpn' = [kpn EXCEPT !.runs = @ + 1]
    /\ UNCHANGED <<kpdp, kpport, kpsbdp, kppb, kpfdb, kpmode>>

\* FDB rows added after the run read the table stay.
KpSbCommit ==
    /\ kppend.wait = "sb"
    /\ kpsbdp' = kppend.sb.dp /\ kppb' = kppend.sb.pb /\ kpfdb' = kppend.sb.fdb
    /\ kppend' = [kppend EXCEPT !.wait = "nb"]
    /\ UNCHANGED <<kpdp, kpport, kpmode, kpn>>
KpNbCommit ==
    /\ kppend.wait = "nb"
    /\ kpport' = [p \in Ports |-> IF p \in DOMAIN kppend.nb
                                  THEN [kpport[p] EXCEPT !.tag = kppend.nb[p]] ELSE kpport[p]]
    /\ kppend' = NothingOpen
    /\ UNCHANGED <<kpdp, kpsbdp, kppb, kpfdb, kpmode, kpn>>
KpFail ==
    /\ kppend # NothingOpen
    /\ kpn.fails < MaxKpFails
    /\ kppend' = IF kppend.wait = "sb" THEN [kppend EXCEPT !.wait = "nb"] ELSE NothingOpen
    /\ kpn' = [kpn EXCEPT !.fails = @ + 1, !.runs = 0]
    /\ UNCHANGED <<kpdp, kpport, kpsbdp, kppb, kpfdb, kpmode>>

(***************************************************************************)
(* The administrator, and the chassis.                                     *)
(***************************************************************************)
Changed == /\ kpn.changes < MaxKpChanges
           /\ kpn' = [kpn EXCEPT !.changes = @ + 1, !.runs = 0]
\* A tag written to a row that has been deleted since has no effect.
RowsGone(S) ==
    IF kppend = NothingOpen THEN kppend
    ELSE [kppend EXCEPT !.nb = [q \in DOMAIN kppend.nb \ S |-> kppend.nb[q]]]
SetSwitch(d, req) ==
    /\ Changed
    /\ kpdp[d] # req
    /\ kpdp' = [kpdp EXCEPT ![d] = req]
    /\ kpport' = IF req = AbsentDp
                 THEN [p \in Ports |-> IF kpport[p].dp = d THEN AbsentPort ELSE kpport[p]] ELSE kpport
    /\ kppend' = RowsGone(IF req = AbsentDp THEN {p \in Ports : kpport[p].dp = d} ELSE {})
    /\ UNCHANGED <<kpsbdp, kppb, kpfdb, kpmode>>
SetPort(p, d, s) ==
    /\ Changed
    /\ kpdp[d] # AbsentDp
    /\ LET old == kpport[p]
       IN  /\ old.dp = d => old.spec # s
           /\ kpport' = [kpport EXCEPT ![p] =
                  [dp |-> d, spec |-> s, tag |-> IF old.dp = d THEN old.tag ELSE NoTag]]
           /\ kppend' = RowsGone(IF old.dp = d THEN {} ELSE {p})
    /\ UNCHANGED <<kpdp, kpsbdp, kppb, kpfdb, kpmode>>
DeletePort(p) ==
    /\ Changed
    /\ kpport[p] # AbsentPort
    /\ kpport' = [kpport EXCEPT ![p] = AbsentPort]
    /\ kppend' = RowsGone({p})
    /\ UNCHANGED <<kpdp, kpsbdp, kppb, kpfdb, kpmode>>
SetEncap ==
    /\ Changed
    /\ kpmode' = IF kpmode = "plain" THEN "vxlan" ELSE "plain"
    /\ UNCHANGED <<kpdp, kpport, kpsbdp, kppb, kpfdb, kppend>>
\* put_fdb() of a hypervisor.
LearnMac(p) ==
    /\ Cardinality(kpfdb) < MaxKpFdb
    /\ kppend = NothingOpen
    /\ kppb[p] # AbsentPb /\ kpsbdp[kppb[p].dp] # NoKey
    /\ kpfdb' = kpfdb \cup {[dp |-> kpsbdp[kppb[p].dp], key |-> kppb[p].key, owner |-> p]}
    /\ kpfdb' # kpfdb
    /\ UNCHANGED <<kpdp, kpport, kpsbdp, kppb, kpmode, kppend, kpn>>

NorthdPortsInit ==
    /\ kpdp = [d \in Dps |-> NoKey]
    /\ kpport = [p \in Ports |-> AbsentPort]
    /\ kpsbdp = [d \in Dps |-> NoKey]
    /\ kppb = [p \in Ports |-> AbsentPb]
    /\ kpfdb = {}
    /\ kpmode = "plain"
    /\ kppend = NothingOpen
    /\ kpn = [changes |-> 0, fails |-> 0, runs |-> 0]

NorthdPortsNext ==
    \/ ovnnb_db_run
    \/ KpSbCommit
    \/ KpNbCommit
    \/ KpFail
    \/ \E d \in Dps, req \in KpDpReqs \cup {AbsentDp} : SetSwitch(d, req)
    \/ \E p \in Ports, d \in Dps, s \in KpSpecs : SetPort(p, d, s)
    \/ \E p \in Ports : DeletePort(p)
    \/ SetEncap
    \/ \E p \in Ports : LearnMac(p)

NorthdPortsSpec == NorthdPortsInit /\ [][NorthdPortsNext]_kpvars

(***************************************************************************)
(* Properties.                                                             *)
(***************************************************************************)
NorthdPortsTypeOK == \A d \in Dps : kpdp[d] \in KpDpReqs \cup {AbsentDp, NoKey}

\* The indexes of the Southbound tables: no two switches, and no two ports of
\* a switch, have the same tunnel key.
KeysUnique ==
    /\ \A d, e \in Dps : kpsbdp[d] = kpsbdp[e] => d = e \/ kpsbdp[d] = NoKey
    /\ \A p, q \in Ports : kppb[p] # AbsentPb /\ kppb[q] # AbsentPb /\ kppb[p].dp = kppb[q].dp
                              => p = q \/ kppb[p].key # kppb[q].key

\* Packets in flight carry tunnel keys: a commit changes the key of a port
\* that keeps its row only because a port of the switch asks for a key
\* (requested-tnl-key), its own or the one it had.  Failed transactions,
\* crowded key spaces and changes of the encapsulation renumber no port.
KeysKept ==
    [][\A p \in Ports :
          kppb[p] # AbsentPb /\ kppb'[p] # AbsentPb /\ kppb[p].dp = kppb'[p].dp
          /\ kppb[p].child = kppb'[p].child /\ kppb[p].key # kppb'[p].key
          => \E q \in Ports : /\ kppend.reqs[q] \in {kppb[p].key, kppb'[p].key}
                              /\ kppb'[q].dp = kppb[p].dp]_kpvars

Bound(p) == kppb[p] # AbsentPb
Request(p) == IF kpport[p] = AbsentPort THEN NoKey ELSE kpport[p].spec.req
Child(p) == kpport[p] # AbsentPort /\ kpport[p].spec.tagreq = 0
\* What a quiet system owes the administrator.  Every switch has a datapath,
\* unless the keys are used up, with the key it asks for unless the limit of
\* VXLAN forbids it or another switch asks for it too.
DatapathsServed ==
    \A d \in NbDps :
        /\ kpsbdp[d] # NoKey \/ 1 .. get_ovn_max_dp_key_local \subseteq {kpsbdp[e] : e \in NbDps}
        /\ kpdp[d] \in 1 .. get_ovn_max_dp_key_local =>
              \E e \in NbDps : kpsbdp[e] = kpdp[d] /\ kpdp[e] = kpdp[d]
\* Every port of a switch with a datapath has a row, unless the keys of its
\* switch are used up; a requested key, unless the limit of VXLAN forbids it or
\* another port asks for it too; an own queue for every port with QoS
\* parameters; the tags of both databases the same.
PortsServed ==
    \A p \in Ports :
        LET d == kpport[p].dp
            row(q) == Bound(q) /\ kppb[q].dp = d
        IN  (kpport[p] # AbsentPort /\ kpsbdp[d] # NoKey) =>
            /\ \/ row(p) /\ kppb[p].tag = kpport[p].tag
               \/ 1 .. KpPortKeys[kpmode] \subseteq {kppb[q].key : q \in {r \in Ports : row(r)}}
            /\ Request(p) \in 1 .. KpPortKeys[kpmode] =>
                  \E q \in Ports : row(q) /\ kppb[q].key = Request(p) /\ Request(q) = Request(p)
            /\ row(p) => (kpport[p].spec.qos <=> kppb[p].queue # 0)
            /\ \A q \in Ports \ {p} : row(p) /\ Bound(q) /\ kppb[p].queue = kppb[q].queue => kppb[p].queue = 0
\* No tunnel key is ever given out twice; northd reaches a fixed point three
\* runs after the last change or failed transaction, and there every switch
\* and every port is served.
PortsSettle ==
    /\ KeysUnique
    /\ kpn.runs <= 3
    /\ Quiet => DatapathsServed /\ PortsServed

\* A container that leaves the choice of its tag to northd gets one no other
\* container of its parent has.
TagsUnique ==
    Quiet => \A p, q \in Ports :
        (p # q /\ Child(p) /\ Bound(p) /\ Bound(q) /\ kpport[q] # AbsentPort /\ kpport[q].spec.child)
        => kpport[p].tag # NoTag /\ kpport[p].tag # kpport[q].tag

\* Once northd has caught up, no learned MAC address leads to a port it was
\* not learned on.
FdbRight ==
    Quiet => \A f \in kpfdb, p \in Ports :
        Bound(p) /\ kpsbdp[kppb[p].dp] = f.dp /\ kppb[p].key = f.key => f.owner = p
==============================================================================
