---------------------------- MODULE LocalBindings ----------------------------
(***************************************************************************)
(* The runtime_data node of ovn-controller (controller/binding.c,          *)
(* local_data.c): which logical ports and datapaths are local to this      *)
(* chassis, computed from the Port_Binding rows and the OVS interfaces,    *)
(* from nothing by binding_run() or incrementally by the two change        *)
(* handlers.                                                               *)
(*                                                                         *)
(* A row is [type, dp, parent, bind, peer, ver, chassis]:                  *)
(*   type:    vif, container, virtual, localport, patch, l3gateway,        *)
(*            localnet or external;                                        *)
(*   parent:  parent_port of a container, virtual_parent of a virtual port;*)
(*   bind:    where requested-chassis, l3gateway-chassis, the HA group or  *)
(*            the redirect port of a patch port put it: "this", "standby"  *)
(*            (a member of the HA group that is not active) or "other";    *)
(*   peer:    the other end of a patch or l3gateway port;                  *)
(*   ver:     the interface's iface-id-ver matches the port's.             *)
(* An interface is [id, of]: its iface-id, and whether it has an ofport.   *)
(* The Southbound transaction is there in every iteration, and commits     *)
(* (PortClaims has those that do not, and the postponed claims).           *)
(***************************************************************************)
EXTENDS Integers, Sequences, FiniteSets, SequencesExt

CONSTANTS RdPorts,        \* names of logical ports, as a sequence
          RdIfaces,       \* OVS interfaces
          RdRows,         \* per port: the rows it may have
          RdStart,        \* rows to start with, per port
          RdIds,          \* iface-ids interfaces may have
          RdHazards,      \* combinations of changes to allow, see below
          MaxRdChanges    \* budget of changes

VARIABLES rdrows,         \* Port_Binding, per port
          rdifaces,       \* Interface, per interface
          rdgone,         \* rows deleted since the last run, per port
          rdnew,          \* ports and interfaces changed since the last run
          rd,             \* the data of the runtime_data node
          rdn             \* changes so far
rdvars == <<rdrows, rdifaces, rdgone, rdnew, rd, rdn>>

NoRow == [type |-> "none"]
NoIface == [id |-> "none", of |-> FALSE]
PortNames == Range(RdPorts)
RdWithout(f, k) == [x \in DOMAIN f \ {k} |-> f[x]]
Put(f, k, v) == (k :> v) @@ f
WithoutName(s, p) == SelectSeq(s, LAMBDA x : x # p)
Over(d, S, Op(_, _)) == FoldSet(LAMBDA x, e : Op(e, x), d, S)

(***************************************************************************)
(* The data d of the node, with the rows and interfaces it reads:          *)
(*   lb:   struct local_binding by name, [iface, list, multi];             *)
(*   bl:   struct binding_lport by name, [owner, type];                    *)
(*   ld:   struct local_datapath by datapath, [localnet, external, peers]; *)
(*   local_lports, related, ids (local_iface_ids), fresh (new datapaths),  *)
(*   ok:   FALSE once a handler gave up;  crashed: an assertion failed.    *)
(***************************************************************************)
NoData(rows, ifaces, gone) ==
    [rows |-> rows, ifaces |-> ifaces, gone |-> gone, lb |-> <<>>, bl |-> <<>>, ld |-> <<>>,
     local_lports |-> {}, related |-> {}, ids |-> <<>>, fresh |-> {}, ok |-> TRUE, crashed |-> FALSE]
\* b_lport->pb: the row, or the deleted one it still points to.
Pb(d, p) == IF p \in DOMAIN d.gone THEN d.gone[p] ELSE d.rows[p]
Exists(d, p) == p \in PortNames /\ d.rows[p] # NoRow
SetChassis(d, p, c) == IF p \in DOMAIN d.gone THEN [d EXCEPT !.gone[p].chassis = c] ELSE [d EXCEPT !.rows[p].chassis = c]

update_related_lport(d, p) == [d EXCEPT !.related = @ \cup {p}]
remove_related_lport(d, p) == [d EXCEPT !.related = @ \ {p}]
update_local_lports(d, id) == [d EXCEPT !.local_lports = @ \cup {id}]
remove_local_lports(d, id) == [d EXCEPT !.local_lports = @ \ {id}]
CanBind(row) == row.bind # "other"                 \* lport_can_bind_on_this_chassis()

(***************************************************************************)
(* local_data.c.                                                           *)
(***************************************************************************)
need_add_peer_to_local(d, p) ==
    \/ d.rows[p].type = "l3gateway" /\ d.rows[p].chassis = "this"
    \/ d.rows[p].type = "patch" /\ d.rows[p].bind # "other"
\* The ports of datapath dp whose peers' datapaths are added with it.
Links(d, dp) ==
    {p \in PortNames : /\ d.rows[p] # NoRow /\ d.rows[p].dp = dp /\ d.rows[p].type \in {"patch", "l3gateway"}
                       /\ Exists(d, d.rows[p].peer) /\ need_add_peer_to_local(d, p)}
\* add_local_datapath__() goes on from the datapaths that are not local yet.
AddedWith(d, dp) ==
    LET more(S) == S \cup ({d.rows[d.rows[p].peer].dp : p \in UNION {Links(d, e) : e \in S}} \ DOMAIN d.ld)
        reach[n \in 0 .. Len(RdPorts)] == IF n = 0 THEN {dp} ELSE more(reach[n - 1])
    IN  reach[Len(RdPorts)]
local_datapath_peer_port_add(d, dp, p, q) ==
    IF \E l \in d.ld[dp].peers : l[1] = p THEN d ELSE [d EXCEPT !.ld[dp].peers = @ \cup {<<p, q>>}]
LinkBoth(d, p) ==
    LET q == d.rows[p].peer
    IN  local_datapath_peer_port_add(local_datapath_peer_port_add(d, d.rows[q].dp, q, p), d.rows[p].dp, p, q)
AddDatapaths(d, new) ==
    Over([d EXCEPT !.ld = [x \in new |-> [localnet |-> "none", external |-> {}, peers |-> {}]] @@ @, !.fresh = @ \cup new],
         UNION {Links(d, x) : x \in new}, LinkBoth)
add_local_datapath(d, dp) == IF dp \in DOMAIN d.ld THEN d ELSE AddDatapaths(d, AddedWith(d, dp))
\* lport_get_peer() is for patch ports only.
add_local_datapath_peer_port(d, p) ==
    LET q == d.rows[p].peer
    IN  IF d.rows[p].type # "patch" \/ ~Exists(d, q) THEN d
        ELSE IF d.rows[q].dp \in DOMAIN d.ld THEN LinkBoth(d, p)
        ELSE add_local_datapath(local_datapath_peer_port_add(d, d.rows[p].dp, p, q), d.rows[q].dp)
\* Both ends forget the link.
remove_local_datapath_peer_port(d, dp, p) ==
    LET ends == {p} \cup {l[2] : l \in {k \in d.ld[dp].peers : k[1] = p}}
    IN  [d EXCEPT !.ld = [x \in DOMAIN @ |-> [@[x] EXCEPT !.peers = {l \in @ : l[1] \notin ends}]]]

update_ld_localnet_port(d, p) ==
    LET dp == d.rows[p].dp
    IN  IF dp \notin DOMAIN d.ld \/ d.ld[dp].localnet \notin {"none", p} THEN d ELSE [d EXCEPT !.ld[dp].localnet = p]
update_ld_external_ports(d, p) ==
    IF d.rows[p].dp \notin DOMAIN d.ld THEN d ELSE [d EXCEPT !.ld[d.rows[p].dp].external = @ \cup {p}]
\* A port whose type is not patch any more has no peer.
update_ld_peers(d, p) ==
    IF d.rows[p].dp \notin DOMAIN d.ld \/ d.rows[p].type = "patch" THEN d
    ELSE remove_local_datapath_peer_port(d, d.rows[p].dp, p)
remove_pb_from_local_datapath(d, p) ==
    LET row == Pb(d, p)
        e == remove_related_lport(d, p)
    IN  CASE row.type \in {"patch", "l3gateway"} -> remove_local_datapath_peer_port(e, row.dp, p)
          [] row.type = "localnet" -> IF e.ld[row.dp].localnet = p THEN [e EXCEPT !.ld[row.dp].localnet = "none"] ELSE e
          [] row.type = "external" -> [e EXCEPT !.ld[row.dp].external = @ \ {p}]
          [] OTHER -> e

(***************************************************************************)
(* Local bindings and their logical ports.                                 *)
(***************************************************************************)
local_binding_create(d, id, iface) == [d EXCEPT !.lb = Put(@, id, [iface |-> iface, list |-> <<>>, multi |-> FALSE])]
First(d, id, types) ==
    LET l == d.lb[id].list
    IN  l # <<>> /\ Head(l) = id /\ d.bl[id].type \in types
local_binding_get_primary_lport(d, id) == First(d, id, {"vif"})
local_binding_get_primary_or_localport_lport(d, id) == First(d, id, {"vif", "localport"})
local_binding_add_lport(d, id, p, type) ==
    IF p \in DOMAIN d.bl /\ d.bl[p].owner = id THEN d
    ELSE LET lists == [x \in DOMAIN d.lb |-> [d.lb[x] EXCEPT !.list = WithoutName(@, p)]]
             list == IF type = "vif" THEN <<p>> \o lists[id].list ELSE Append(lists[id].list, p)
         IN  [d EXCEPT !.bl = Put(@, p, [owner |-> id, type |-> type]), !.lb = [lists EXCEPT ![id].list = list]]
binding_lport_delete(d, p) ==
    [d EXCEPT !.bl = RdWithout(@, p), !.lb = [x \in DOMAIN @ |-> [@[x] EXCEPT !.list = WithoutName(@, p)]]]
local_binding_delete(d, id) ==
    [d EXCEPT !.bl = [x \in {y \in DOMAIN @ : @[y].owner # id} |-> @[x]], !.lb = RdWithout(@, id)]
is_binding_lport_this_chassis(d, p) == Pb(d, p).chassis = "this"
is_lbinding_container_parent(d, id) == \E p \in Range(d.lb[id].list) : d.bl[p].type = "container"

claim_lport(d, p) == SetChassis(d, p, "this")
\* A released virtual port has no virtual_parent.
release_lport(d, p) ==
    LET e == IF Pb(d, p).chassis = "this" THEN SetChassis(d, p, "none") ELSE d
    IN  IF Pb(d, p).type = "virtual" /\ p \notin DOMAIN d.gone THEN [e EXCEPT !.rows[p].parent = "none"] ELSE e
release_binding_lport(d, p) ==
    IF is_binding_lport_this_chassis(d, p) THEN release_lport(remove_related_lport(d, p), p) ELSE d

(***************************************************************************)
(* Considering a port for this chassis.  b: it has a binding_lport.        *)
(***************************************************************************)
consider_vif_lport_(d, p, can_bind, b) ==
    LET set == b /\ d.lb[d.bl[p].owner].iface # "none"
    IN  IF set /\ can_bind
        THEN update_local_lports(update_related_lport(add_local_datapath(claim_lport(d, p), d.rows[p].dp), p), p)
        ELSE IF d.rows[p].chassis = "this" THEN release_lport(d, p) ELSE d
consider_vif_lport(d, p) ==
    LET ours == p \in DOMAIN d.lb /\ (d.lb[p].iface = "none" \/ d.rows[p].ver)
    IN  consider_vif_lport_(IF p \notin DOMAIN d.lb THEN d
                            ELSE IF ours THEN local_binding_add_lport(d, p, p, "vif")
                            ELSE IF local_binding_get_primary_lport(d, p) THEN binding_lport_delete(d, p) ELSE d,
                            p, CanBind(d.rows[p]), ours)
\* The parent's local_binding is made, without an interface, when it is not there.
\* Mutant: the parent is not considered first.
ContainerFirst(d, c) ==
    LET parent == d.rows[c].parent
        d1 == IF parent \in DOMAIN d.lb THEN d ELSE local_binding_create(d, parent, "none")
        d2 == local_binding_add_lport(d1, parent, c, "container")
    IN  IF parent \notin DOMAIN d2.bl THEN [d2 EXCEPT !.crashed = TRUE]
        ELSE consider_vif_lport_(d2, c, CanBind(d2.rows[c]) /\ CanBind(Pb(d2, parent)), TRUE)
\* The parent's own port has been considered; vif: it is a VIF.
OnParent(d, c, parent, vif) ==
    IF ~vif \/ (parent \in DOMAIN d.bl /\ d.bl[parent].type # "vif")
    THEN IF is_binding_lport_this_chassis(d, c) THEN release_lport(d, c) ELSE d
    ELSE IF parent \notin DOMAIN d.bl THEN [d EXCEPT !.crashed = TRUE]
    ELSE consider_vif_lport_(d, c, CanBind(d.rows[c]) /\ CanBind(Pb(d, parent)), TRUE)
AddToParent(d, c, parent) ==
    local_binding_add_lport(IF c \in DOMAIN d.bl /\ d.bl[c].owner # parent THEN remove_related_lport(d, c) ELSE d,
                            parent, c, "container")
AfterParent(d, c, parent) ==
    IF parent \in DOMAIN d.bl THEN OnParent(d, c, parent, TRUE)
    ELSE IF Exists(d, parent) /\ d.rows[parent].type = "vif" THEN OnParent(consider_vif_lport(d, parent), c, parent, TRUE)
    ELSE OnParent(d, c, parent, FALSE)
consider_container_lport(d, c) ==
    LET parent == d.rows[c].parent
    IN  AfterParent(AddToParent(IF parent \in DOMAIN d.lb THEN d ELSE local_binding_create(d, parent, "none"), c, parent),
                    c, parent)
OnVirtualParent(d, v, parent) ==
    IF parent \in DOMAIN d.lb /\ local_binding_get_primary_lport(d, parent) /\ is_binding_lport_this_chassis(d, parent)
    THEN consider_vif_lport_(local_binding_add_lport(d, parent, v, "virtual"), v, TRUE, TRUE)
    ELSE remove_related_lport(consider_vif_lport_(d, v, TRUE, FALSE), v)
consider_virtual_lport(d, v) ==
    LET parent == d.rows[v].parent
        late == parent \in DOMAIN d.lb \ DOMAIN d.bl /\ Exists(d, parent) /\ d.rows[parent].type = "vif"
    IN  OnVirtualParent(IF late THEN consider_vif_lport(d, parent) ELSE d, v, parent)
consider_localport(d, p) ==
    IF p \notin DOMAIN d.lb THEN d
    ELSE LET e == local_binding_add_lport(d, p, p, "localport")
         IN  update_related_lport(IF CanBind(d.rows[p]) THEN SetChassis(e, p, "none") ELSE e, p)
consider_nonvif_lport_(d, p, our_chassis) ==
    IF our_chassis THEN claim_lport(update_related_lport(add_local_datapath(update_local_lports(d, p), d.rows[p].dp), p), p)
    ELSE IF d.rows[p].chassis = "this" THEN release_lport(d, p) ELSE d
consider_l3gw_lport(d, p) == consider_nonvif_lport_(d, p, d.rows[p].bind = "this")
consider_ha_lport(d, p) ==
    consider_nonvif_lport_(IF d.rows[p].bind = "standby" THEN update_related_lport(add_local_datapath(d, d.rows[p].dp), p) ELSE d,
                           p, d.rows[p].bind = "this")
consider_localnet_lport(d, p) ==
    IF d.rows[p].dp \notin DOMAIN d.ld THEN d ELSE update_related_lport(update_local_lports(d, p), p)

(***************************************************************************)
(* From nothing.                                                           *)
(***************************************************************************)
build_local_bindings(d) ==
    LET one(e, i) ==
            LET id == d.ifaces[i].id
                f == update_local_lports([e EXCEPT !.ids = Put(@, i, id)], id)
            IN  IF id \in DOMAIN f.lb THEN [f EXCEPT !.lb[id].multi = TRUE] ELSE local_binding_create(f, id, i)
    IN  Over(d, {i \in RdIfaces : d.ifaces[i].of /\ d.ifaces[i].id # "none"}, one)
Consider(d, p) ==
    CASE d.rows[p].type = "patch" -> update_related_lport(d, p)
      [] d.rows[p].type = "localport" -> consider_localport(d, p)
      [] d.rows[p].type = "vif" -> consider_vif_lport(d, p)
      [] d.rows[p].type = "container" -> consider_container_lport(d, p)
      [] d.rows[p].type = "virtual" -> consider_virtual_lport(d, p)
      [] d.rows[p].type = "l3gateway" -> consider_l3gw_lport(d, p)
      [] d.rows[p].type = "external" -> consider_ha_lport(d, p)
      [] OTHER -> d
OfType(d, S, types) == {p \in S : d.rows[p] # NoRow /\ d.rows[p].type \in types}
LocalnetPort(d, p) == update_ld_localnet_port(consider_localnet_lport(d, p), p)
\* The localnet and external ports among S, when all local datapaths are known.
PortsOfDatapaths(d, S) ==
    Over(Over(d, OfType(d, S, {"localnet"}), LocalnetPort), OfType(d, S, {"external"}), update_ld_external_ports)
binding_run(rows, ifaces) ==
    PortsOfDatapaths(FoldLeft(LAMBDA e, p : IF rows[p] = NoRow THEN e ELSE Consider(e, p),
                              build_local_bindings(NoData(rows, ifaces, <<>>)), RdPorts), PortNames)

(***************************************************************************)
(* Changed Port_Binding rows, incrementally.                               *)
(***************************************************************************)
InList(d, id) == IF id \in DOMAIN d.lb THEN Range(d.lb[id].list) ELSE {}
Containers(d, id) == {p \in InList(d, id) : d.bl[p].type = "container"}
\* One by one, in list order, over a list that the steps may shorten.
EachOf(d, list, Op(_, _)) == FoldLeft(LAMBDA e, p : IF p \in DOMAIN e.bl THEN Op(e, p) ELSE e, d, list)
local_binding_handle_stale_binding_lports(d, id) ==
    LET one(e, p) ==
            CASE e.bl[p].type = "virtual" /\ Pb(e, p).type = "virtual" -> consider_virtual_lport(binding_lport_delete(e, p), p)
              [] e.bl[p].type = "container" /\ Pb(e, p).type = "container" -> consider_container_lport(e, p)
              [] OTHER -> binding_lport_delete(release_binding_lport(e, p), p)
    IN  IF local_binding_get_primary_or_localport_lport(d, id) THEN d ELSE EachOf(d, d.lb[id].list, one)
\* e: the port considered; the containers of a VIF it claimed or released.
WithContainers(d, e, p) ==
    IF d.rows[p].type # "vif" \/ d.rows[p].chassis = e.rows[p].chassis THEN e
    ELSE IF p \notin DOMAIN e.lb THEN [e EXCEPT !.crashed = @ \/ e.rows[p].chassis = "this"]
    ELSE Over(e, Containers(e, p), consider_container_lport)
handle_updated_vif_lport(d, p) == WithContainers(d, Consider(d, p), p)
consider_patch_port_for_local_datapaths(d, p) ==
    LET q == d.rows[p].peer
    IN  IF d.rows[p].dp \in DOMAIN d.ld
        THEN IF need_add_peer_to_local(d, p) THEN add_local_datapath_peer_port(d, p) ELSE d
        ELSE IF Exists(d, q) /\ d.rows[q].dp \in DOMAIN d.ld /\ need_add_peer_to_local(d, q)
        THEN add_local_datapath(d, d.rows[p].dp) ELSE d
ByType(d, p, type) ==
    CASE type \in {"vif", "container", "virtual"} -> handle_updated_vif_lport(d, p)
      [] type = "patch" -> consider_patch_port_for_local_datapaths(update_related_lport(d, p), p)
      [] type = "external" -> update_ld_external_ports(consider_ha_lport(d, p), p)
      [] type = "localnet" -> LocalnetPort(d, p)
      [] OTHER -> Consider(d, p)
handle_updated_port(d, p) ==
    ByType(IF p \in DOMAIN d.bl
           THEN local_binding_handle_stale_binding_lports([d EXCEPT !.bl[p].type = d.rows[p].type], d.bl[p].owner)
           ELSE d, p, d.rows[p].type)
binding_lport_check_and_cleanup(d, p) ==
    LET b == d.bl[p]
        right == CASE b.type \in {"vif", "localport"} -> b.owner = p
                   [] b.type \in {"container", "virtual"} -> b.owner = Pb(d, p).parent
                   [] OTHER -> FALSE
    IN  IF right THEN d ELSE binding_lport_delete(d, p)
handle_deleted_lport(d, p) ==
    LET row == Pb(d, p)
        gone(e) == IF row.type = "localport" THEN remove_related_lport(e, p) ELSE e
        q == row.peer
    IN  IF row.dp \in DOMAIN d.ld THEN remove_pb_from_local_datapath(d, p)
        ELSE IF row.type = "l3gateway" /\ Exists(d, q) /\ d.rows[q].dp \in DOMAIN d.ld
        THEN remove_pb_from_local_datapath(gone(d), q)
        ELSE gone(d)
handle_deleted_vif_lport(d, p) ==
    LET type == Pb(d, p).type
        had == p \in DOMAIN d.bl
        owner == d.bl[p].owner
        e == IF had THEN binding_lport_delete(d, p) ELSE d
        f == IF had /\ is_binding_lport_this_chassis(d, p) /\ type = "vif"
             THEN Over(e, InList(e, owner), release_binding_lport) ELSE e
    IN  handle_deleted_lport(IF type = "container" THEN remove_local_lports(f, p) ELSE f, p)
\* The rows that were there before their datapath became local.
PortsOfNewDatapaths(d) == PortsOfDatapaths(d, {p \in PortNames : d.rows[p] # NoRow /\ d.rows[p].dp \in d.fresh})
\* order: the changed rows, as the update pass takes them; typed: those whose
\* type changed.
binding_handle_port_binding_changes(d, typed, order) ==
    LET gone == DOMAIN d.gone
        retype(e, p) == IF p \in DOMAIN e.bl THEN binding_lport_check_and_cleanup([e EXCEPT !.bl[p].type = Pb(e, p).type], p) ELSE e
        of(types) == {p \in gone : Pb(d, p).type \in types}
        d1 == Over(d, gone, retype)
        d2 == Over(d1, of({"container"}), handle_deleted_vif_lport)
        d3 == Over(d2, of({"virtual"}), handle_deleted_vif_lport)
        d4 == Over(d3, of({"vif"}), handle_deleted_vif_lport)
        d5 == Over(d4, of({"localport"}), handle_deleted_vif_lport)
        d6 == Over(d5, {p \in gone : Pb(d, p).type \notin {"container", "virtual", "vif", "localport"}}, handle_deleted_lport)
        update(e, p) == handle_updated_port(IF p \in typed THEN update_ld_peers(e, p) ELSE e, p)
        d7 == FoldLeft(update, [d6 EXCEPT !.gone = <<>>], order)
    IN  PortsOfNewDatapaths(d7)

(***************************************************************************)
(* Changed interfaces, incrementally.  dead: the deleted ones.             *)
(***************************************************************************)
consider_iface_release(d, i, id) ==
    LET forget(e) == [remove_local_lports(e, id) EXCEPT !.ids = RdWithout(@, i)]
        lb == d.lb[id]
        first == local_binding_get_primary_or_localport_lport(d, id)
        d1 == IF first /\ is_binding_lport_this_chassis(d, id)
              THEN Over(IF d.rows[id].dp \in DOMAIN d.ld THEN remove_pb_from_local_datapath(d, id) ELSE d,
                        Range(lb.list), release_binding_lport)
              ELSE IF first /\ d.bl[id].type = "localport" THEN remove_related_lport(d, id) ELSE d
        d2 == IF is_lbinding_container_parent(d1, id) THEN [d1 EXCEPT !.lb[id].iface = "none"] ELSE local_binding_delete(d1, id)
    IN  IF id \notin DOMAIN d.lb THEN forget(d)
        ELSE IF lb.multi THEN [d EXCEPT !.ok = FALSE]
        ELSE IF lb.iface # i /\ ~d.ifaces[i].of THEN d
        ELSE forget(d2)
\* The ports of the iface-id, once its local binding is there.
ClaimPorts(d, id) ==
    IF d.rows[id].type = "localport" THEN consider_localport(d, id)
    ELSE LET containers(e) == Over(e, Containers(e, id), consider_container_lport)
         IN  containers(IF d.rows[id].type = "vif" THEN consider_vif_lport(d, id) ELSE d)
ClaimIface(d, id) ==
    IF ~Exists(d, id) THEN d
    ELSE ClaimPorts(IF d.lb[id].multi THEN remove_related_lport(d, id) ELSE d, id)
IfaceBinding(d, i, id) ==
    IF id \notin DOMAIN d.lb THEN local_binding_create(d, id, i)
    ELSE [d EXCEPT !.lb[id].multi = @ \/ d.lb[id].iface \notin {"none", i}, !.lb[id].iface = i]
consider_iface_claim(d, i, id) ==
    ClaimIface(IfaceBinding(update_local_lports([d EXCEPT !.ids = Put(@, i, id)], id), i, id), id)
\* The iface-id an interface no longer stands for, "none" when it still does.
Cleared(d, i, dead) ==
    LET iface == d.ifaces[i]
        old == IF i \in DOMAIN d.ids THEN d.ids[i] ELSE "none"
    IN  IF i \in dead THEN iface.id
        ELSE IF iface.id = "none" \/ old \notin {"none", iface.id} THEN old
        ELSE IF ~iface.of THEN iface.id ELSE "none"
binding_handle_ovs_interface_changes(d, ifaces, dead) ==
    LET release(e, i) == IF ~e.ok \/ Cleared(e, i, dead) = "none" THEN e
                         ELSE consider_iface_release(e, i, Cleared(e, i, dead))
        claim(e, i) == IF e.ifaces[i].id = "none" \/ ~e.ifaces[i].of THEN e ELSE consider_iface_claim(e, i, e.ifaces[i].id)
        d1 == Over(d, ifaces, release)
    IN  IF ~d1.ok THEN d1 ELSE Over(d1, ifaces \ dead, claim)

(***************************************************************************)
(* The node.                                                               *)
(***************************************************************************)
Nothing == [ports |-> {}, typed |-> {}, born |-> {}, ifaces |-> {}, dead |-> {}]
Quiet == rdnew = Nothing /\ rdgone = <<>>
\* An iteration: the handlers, or everything again.  The rows it wrote come
\* back as changed rows in the next one.
en_runtime_data ==
    LET old == [rd EXCEPT !.rows = rdrows, !.ifaces = rdifaces, !.gone = rdgone, !.fresh = {}]
        ifaces == [i \in RdIfaces |-> IF i \in rdnew.dead THEN NoIface ELSE rdifaces[i]]
        handled(order) == binding_handle_ovs_interface_changes(binding_handle_port_binding_changes(old, rdnew.typed, order),
                                                               rdnew.ifaces, rdnew.dead)
        run(d) == [IF d.ok THEN [d EXCEPT !.ifaces = ifaces] ELSE binding_run(d.rows, ifaces) EXCEPT !.crashed = @ \/ d.crashed]
    IN  /\ ~Quiet
        /\ \E order \in SetToSeqs(rdnew.ports) : rd' = [run(handled(order)) EXCEPT !.fresh = {}]
        /\ rdrows' = rd'.rows
        /\ rdifaces' = ifaces
        /\ rdgone' = <<>>
        /\ rdnew' = [Nothing EXCEPT !.ports = {p \in PortNames : rd'.rows[p] # rdrows[p]}]
        /\ UNCHANGED rdn
\* A released parent's virtual ports are not considered again (see the README).
ParentMayMove(p) ==
    "ParentMoves" \in RdHazards \/ \A v \in PortNames : rdrows[v] # NoRow /\ rdrows[v].type = "virtual" => rdrows[v].parent # p
\* ovn-northd writes the row of port p, which keeps its datapath as long as it
\* lives; it leaves the chassis and the virtual parent alone.
SetRow(p) ==
    \E row \in RdRows[p] :
        LET old == rdrows[p]
            kept == IF old = NoRow THEN [chassis |-> "none"]
                    ELSE IF old.type = "virtual" /\ row.type = "virtual" THEN [chassis |-> old.chassis, parent |-> old.parent]
                    ELSE [chassis |-> old.chassis]
            new == kept @@ row
        IN  /\ new # old
            /\ old # NoRow => old.dp = row.dp
            /\ ~(CanBind(row) /\ row.ver /\ row.type = "vif") => ParentMayMove(p)
            /\ rdrows' = [rdrows EXCEPT ![p] = new]
            /\ rdnew' = [rdnew EXCEPT !.ports = @ \cup {p},
                                     !.typed = IF old = NoRow \/ old.type # row.type THEN @ \cup {p} ELSE @,
                                     !.born = IF old = NoRow THEN @ \cup {p} ELSE @]
            /\ UNCHANGED <<rdifaces, rdgone, rd>>
\* pinctrl saw parent p, bound here, announce the address of virtual port v.
BindVirtual(v, p) ==
    /\ rdrows[v] # NoRow /\ rdrows[v].type = "virtual" /\ rdrows[v].parent # p
    /\ rdrows[p] # NoRow /\ rdrows[p].type = "vif" /\ rdrows[p].chassis = "this"
    /\ ~(CanBind(rdrows[p]) /\ rdrows[p].ver) => "ParentMoves" \in RdHazards
    /\ rdrows' = [rdrows EXCEPT ![v].parent = p, ![v].chassis = "this"]
    /\ rdnew' = [rdnew EXCEPT !.ports = @ \cup {v}]
    /\ UNCHANGED <<rdifaces, rdgone, rd>>
\* A row that came and went between two iterations is never seen.
DeleteRow(p) ==
    /\ rdrows[p] # NoRow
    /\ rdrows' = [rdrows EXCEPT ![p] = NoRow]
    /\ rdgone' = IF p \in rdnew.born THEN rdgone ELSE Put(rdgone, p, rdrows[p])
    /\ rdnew' = [rdnew EXCEPT !.ports = @ \ {p}, !.typed = @ \ {p}, !.born = @ \ {p}]
    /\ UNCHANGED <<rdifaces, rd>>
SetIface(i) ==
    /\ i \notin rdnew.dead
    /\ \E id \in RdIds, of \in BOOLEAN :
          /\ rdifaces' = [rdifaces EXCEPT ![i] = [id |-> id, of |-> of]]
          /\ rdifaces' # rdifaces
    /\ rdnew' = [rdnew EXCEPT !.ifaces = @ \cup {i}]
    /\ UNCHANGED <<rdrows, rdgone, rd>>
\* Its last iface-id is still read.
DeleteIface(i) ==
    /\ i \notin rdnew.dead /\ rdifaces[i].id # "none"
    /\ i \in rdnew.ifaces => "Renamed" \in RdHazards
    /\ rdnew' = [rdnew EXCEPT !.ifaces = @ \cup {i}, !.dead = @ \cup {i}]
    /\ UNCHANGED <<rdrows, rdifaces, rdgone, rd>>

\* The first iteration sees the rows of one of RdStart as new rows.
LocalBindingsInit ==
    /\ rdrows \in RdStart
    /\ rdifaces = [i \in RdIfaces |-> NoIface]
    /\ rdgone = <<>>
    /\ rdnew = LET there == {p \in PortNames : rdrows[p] # NoRow}
               IN  [Nothing EXCEPT !.ports = there, !.typed = there, !.born = there]
    /\ rd = NoData([p \in PortNames |-> NoRow], rdifaces, <<>>)
    /\ rdn = 0
LocalBindingsNext ==
    \/ en_runtime_data
    \/ /\ rdn < MaxRdChanges
       /\ rdn' = rdn + 1
       /\ \/ \E p \in PortNames : SetRow(p) \/ DeleteRow(p)
          \/ \E v, p \in PortNames : BindVirtual(v, p)
          \/ \E i \in RdIfaces : SetIface(i) \/ DeleteIface(i)
LocalBindingsSpec == LocalBindingsInit /\ [][LocalBindingsNext]_rdvars

(***************************************************************************)
(* Properties.                                                             *)
(***************************************************************************)
LocalBindingsTypeOK ==
    /\ \A p \in PortNames : rdrows[p] = NoRow \/ rdrows[p].chassis \in {"none", "this"}
    /\ DOMAIN rdgone \subseteq PortNames
    /\ rdnew.ports \cup rdnew.typed \cup rdnew.born \subseteq PortNames
    /\ rdnew.dead \subseteq rdnew.ifaces /\ rdnew.ifaces \subseteq RdIfaces
    /\ rd.related \subseteq PortNames /\ rd.ok
    /\ \A p \in DOMAIN rd.bl : rd.bl[p].owner \in DOMAIN rd.lb /\ p \in Range(rd.lb[rd.bl[p].owner].list)
    /\ rdn \in 0 .. MaxRdChanges
\* Once every change has been handled, what the change handlers claimed and
\* released is what binding_run() would claim and release on the same rows
\* and interfaces, and every datapath it would make local is.
ClaimsAsRecomputed ==
    LET anew == binding_run(rdrows, rdifaces)
    IN  Quiet => anew.rows = rdrows /\ DOMAIN anew.ld \subseteq DOMAIN rd.ld
\* No change makes consider_container_lport() or handle_updated_vif_lport()
\* fail its assertion, as long as the changes of RdHazards do not happen: the
\* parent of a virtual port does not lose the right to be bound here, and no
\* interface is changed and deleted within one iteration (binding.c:1622-1632
\* then leaves what the ovs_assert() at 1724 does not expect).
NoAssertionFails == ~rd.crashed
==============================================================================
