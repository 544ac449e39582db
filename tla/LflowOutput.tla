---------------------------- MODULE LflowOutput ----------------------------
(***************************************************************************)
(* The lflow_output node of ovn-controller (controller/lflow.c and the     *)
(* handlers of controller/ovn-controller.c): OpenFlow flows of logical     *)
(* flows, neighbours and load balancers, kept up to date from the changes  *)
(* of one engine run, with the records that make this possible: which      *)
(* object refers to which resource (lib/objdep.c), the lflow cache         *)
(* (lflow-cache.c) and the conjunction ids (lflow-conj-ids.c).             *)
(*                                                                         *)
(* LoFlows maps the id of a logical flow to                                *)
(*   [dps, sets, pg, port, out, resident, tv, conj]                        *)
(* its datapaths, the address sets its match ORs together, whether it uses *)
(* the port group and the template variable, the port of its in_out_port   *)
(* tag, the port or multicast group it outputs to, the port of             *)
(* is_chassis_resident() and whether it needs conjunctions; Nameless where *)
(* it has none.  The flows shared by several logical flows are in          *)
(* OfctrlFlows.                                                            *)
(***************************************************************************)
EXTENDS Integers, FiniteSets, Sequences, SequencesExt

CONSTANTS LoFlows, LoSets, LoIps, LoPorts, LoLb,
          LoHazards,     \* which of the cases Moves, TemplateRow may happen
          MaxLoChanges

Nameless == "no-name"
AbsentRow == "absent"
AbsentSet == {AbsentRow}          \* the value of an address set without a row
LoIds == DOMAIN LoFlows
McGroup == "mc"
LoDps == {LoPorts[p] : p \in DOMAIN LoPorts}   \* LoPorts: port -> its datapath
DpOf(p) == LoPorts[p]

VARIABLES losb,      \* the Southbound database, as the IDL shows it now
          loseen,    \* as it was in the last engine run
          lodata,    \* data of the input nodes: templates, local datapaths, load balancer
          loout,     \* flows, neighbour and load balancer flows, deps, cache, conj
          lon
lovars == <<losb, loseen, lodata, loout, lon>>

(***************************************************************************)
(* References of objects to resources (lib/objdep.c).                      *)
(***************************************************************************)
Res(type, name) == [type |-> type, name |-> name]
objdep_mgr_add(deps, rs, f) == deps \cup {<<r, f>> : r \in rs}
objdep_mgr_remove_obj(deps, f) == {d \in deps : d[2] # f}
objdep_mgr_find_objs(deps, r) == {d[2] : d \in {e \in deps : e[1] = r}}
objdep_mgr_contains_obj(deps, f) == \E d \in deps : d[2] = f

(***************************************************************************)
(* Conjunction ids: the id hashes to one that depends on flow and datapath;*)
(* if taken the next free one is used.                                     *)
(***************************************************************************)
ConjIds == 1 .. 6
UsedIds(conj) == {c[3] : c \in conj}
lflow_conj_ids_free_for_lflow_dp(conj, f, dp) == {c \in conj : ~(c[1] = f /\ c[2] = dp)}
lflow_conj_ids_free(conj, f) == {c \in conj : c[1] # f}
lflow_conj_ids_find(conj, f, dp) == {c[3] : c \in {d \in conj : d[1] = f /\ d[2] = dp}}
\* All ids hash alike here, so that every allocation collides.
lflow_conj_ids_alloc(conj, f, dp) ==
    LET c == lflow_conj_ids_free_for_lflow_dp(conj, f, dp)
        id == CHOOSE i \in ConjIds \ UsedIds(c) : \A j \in ConjIds \ UsedIds(c) : i <= j
    IN  <<c \cup {<<f, dp, id>>}, id>>
lflow_conj_ids_alloc_specified(conj, f, dp, id) ==
    LET c == lflow_conj_ids_free_for_lflow_dp(conj, f, dp)
    IN  IF id \in UsedIds(c) THEN <<c, FALSE>> ELSE <<c \cup {<<f, dp, id>>}, TRUE>>

(***************************************************************************)
(* The cache: the expression, or the matches with their conjunction id.    *)
(***************************************************************************)
lflow_cache_get(cache, f) == {c \in cache : c.f = f}
lflow_cache_delete(cache, f) == cache \ lflow_cache_get(cache, f)
lflow_cache_add_expr(cache, f) == cache \cup {[f |-> f, type |-> "expr", id |-> 0]}
lflow_cache_add_matches(cache, f, id) == cache \cup {[f |-> f, type |-> "matches", id |-> id]}

(***************************************************************************)
(* One logical flow on one datapath.  in: sets, pg (local ports), tv,      *)
(* ports, bound, mc, local.                                                *)
(***************************************************************************)
\* Expansion and parsing fail without the template variable or an address set.
lflow_parse_actions(f, in) == LoFlows[f].tv => in.tv # AbsentRow
convert_match_to_expr(f, in) == \A s \in LoFlows[f].sets : in.sets[s] # AbsentSet
is_chassis_resident_cb(f, in) == LoFlows[f].resident = Nameless \/ LoFlows[f].resident \in in.bound
\* lookup_port_cb(): a port of this datapath, or a multicast group.
lookup_port_cb(f, dp, in) ==
    LET out == LoFlows[f].out
    IN  \/ out = Nameless
        \/ out \in in.ports /\ DpOf(out) = dp
        \/ out = McGroup /\ in.mc
ExprRefs(f) == {Res("as", s) : s \in LoFlows[f].sets} \cup (IF LoFlows[f].pg THEN {Res("pg", "pg")} ELSE {})
CondRefs(f) == IF LoFlows[f].resident = Nameless THEN {} ELSE {Res("pb", LoFlows[f].resident)}
PortRefs(f) == IF LoFlows[f].out = Nameless THEN {} ELSE {Res("pb", LoFlows[f].out), Res("mc", LoFlows[f].out)}
TvRefs(f) == IF LoFlows[f].tv THEN {Res("tv", "tv")} ELSE {}
\* expr_to_matches(): one match for each address, tracked by the only address
\* set it comes from.
LflowMatches(f, dp, in) ==
    LET r == LoFlows[f]
        from(ip) == {s \in r.sets : ip \in in.sets[s]}
        val == [pg |-> IF r.pg THEN in.pg ELSE {}, tv |-> IF r.tv THEN in.tv ELSE AbsentRow]
    IN  IF (r.pg /\ in.pg = {}) \/ ~is_chassis_resident_cb(f, in) \/ ~lookup_port_cb(f, dp, in) THEN {}
        ELSE IF r.sets = {} THEN {[ip |-> Nameless, as |-> Nameless, val |-> val]}
        ELSE {[ip |-> ip, as |-> IF Cardinality(from(ip)) = 1 THEN CHOOSE s \in from(ip) : TRUE ELSE Nameless, val |-> val] :
                 ip \in UNION {in.sets[s] : s \in r.sets}}
\* ofctrl_add_flow(): a flow of the same match is kept as it is.
add_matches_to_flow_table(flows, f, dp, matches, id) ==
    flows \cup {[f |-> f, dp |-> dp, ip |-> m.ip, as |-> m.as, val |-> m.val, id |-> id] :
                   m \in {n \in matches : ~\E g \in flows : g.f = f /\ g.dp = dp /\ g.ip = n.ip /\ g.val = n.val}}

NoEntry == [type |-> "none", id |-> 0]
CacheEntry(cache, f) == IF lflow_cache_get(cache, f) = {} THEN NoEntry ELSE CHOOSE c \in lflow_cache_get(cache, f) : TRUE
WithRefs(S, f, refs) == [S EXCEPT !.deps = objdep_mgr_add(@, refs, f)]
\* Matches of the cache need their conjunction id; without it they are dropped.
\* got is the outcome of lflow_conj_ids_alloc_specified().
UsesCached(S, f, e, got) ==
    IF got[2] THEN <<[S EXCEPT !.conj = got[1]], e>>
    ELSE <<[S EXCEPT !.conj = got[1], !.cache = lflow_cache_delete(@, f)], NoEntry>>
FromCache(S, f, dp, e) ==
    IF e.type = "matches" /\ LoFlows[f].conj
    THEN UsesCached(S, f, e, lflow_conj_ids_alloc_specified(S.conj, f, dp, e.id)) ELSE <<S, e>>
\* Flows of the matches with a conjunction id (a: the ids and this one); what is
\* not tied to a resource is cached.
AddMatches(S, f, dp, e, matches, a) ==
    [S EXCEPT !.conj = a[1], !.flows = add_matches_to_flow_table(@, f, dp, matches, a[2]),
              !.cache = IF e.type # "none" \/ ExprRefs(f) # {} \/ TvRefs(f) # {} THEN @
                        ELSE IF objdep_mgr_contains_obj(S.deps, f) THEN lflow_cache_add_expr(@, f)
                        ELSE lflow_cache_add_matches(@, f, a[2])]
ConvertMatches(S, f, dp, e, matches) ==
    IF matches = {} THEN S
    ELSE AddMatches(S, f, dp, e, matches,
             IF LoFlows[f].conj /\ e.type # "matches" THEN lflow_conj_ids_alloc(S.conj, f, dp) ELSE <<S.conj, e.id>>)
\* c: the state and the entry of the cache.
ConvertMatch(c, in, f, dp) ==
    IF ~convert_match_to_expr(f, in) THEN WithRefs(c[1], f, IF c[2].type = "none" THEN ExprRefs(f) ELSE {})
    ELSE ConvertMatches(WithRefs(c[1], f, (IF c[2].type = "none" THEN ExprRefs(f) ELSE {})
                                          \cup (IF c[2].type = "matches" THEN {} ELSE CondRefs(f) \cup PortRefs(f))),
                        f, dp, c[2], LflowMatches(f, dp, in))
ConvertLflow(S, in, f, dp) ==
    IF LoFlows[f].port # Nameless /\ LoFlows[f].port \notin in.bound THEN S
    ELSE IF ~lflow_parse_actions(f, in) THEN WithRefs(S, f, TvRefs(f))
    ELSE ConvertMatch(FromCache(WithRefs(S, f, TvRefs(f)), f, dp, CacheEntry(S.cache, f)), in, f, dp)
consider_logical_flow__(S, in, f, dp) ==
    IF dp \notin in.local THEN S
    ELSE ConvertLflow(IF LoFlows[f].port = Nameless THEN S ELSE WithRefs(S, f, {Res("pb", LoFlows[f].port)}), in, f, dp)
OverDps(S, in, f) == FoldSet(LAMBDA dp, T : consider_logical_flow__(T, in, f, dp), S, LoFlows[f].dps)
consider_logical_flow(S, in, f) == [OverDps(S, in, f) EXCEPT !.done = @ \cup {f}]

\* ofctrl_flood_remove_flows(), references and ids.
Forget(S, fs) ==
    [S EXCEPT !.flows = {g \in @ : g.f \notin fs},
              !.deps = FoldSet(LAMBDA f, deps : objdep_mgr_remove_obj(deps, f), @, fs),
              !.conj = FoldSet(LAMBDA f, conj : lflow_conj_ids_free(conj, f), @, fs)]
Reprocess(S, in, fs) ==
    FoldSet(LAMBDA f, T : consider_logical_flow(T, in, f), Forget(S, fs), fs \cap in.flows)
lflow_handle_changed_ref(S, in, fs) == Reprocess(S, in, fs)
objdep_mgr_handle_change(S, in, r) == lflow_handle_changed_ref(S, in, objdep_mgr_find_objs(S.deps, r) \ S.done)
AllChanged(S, in, rs) == FoldSet(LAMBDA r, T : objdep_mgr_handle_change(T, in, r), S, rs)

(***************************************************************************)
(* A changed address set, one address at a time.                           *)
(***************************************************************************)
as_update_can_be_handled(old, new) ==
    /\ Cardinality(old) > 1 /\ Cardinality(new) > 1
    /\ Cardinality(new \ old) + Cardinality(old \ new) < Cardinality(new)
\* Tracked flows of the address; the count must be the number of references, one.
ofctrl_remove_flows_for_as_ip(S, f, s, ip) ==
    LET mine == {g \in S.flows : g.f = f}
        gone == {g \in mine : g.as = s /\ g.ip = ip}
    IN  IF mine = {} THEN <<S, TRUE>>
        ELSE IF gone = {} THEN <<S, FALSE>>
        ELSE <<[S EXCEPT !.flows = @ \ gone], Cardinality(gone) = 1>>
consider_lflow_for_added_as_ips__(S, in, f, dp, s, added) ==
    LET fake == [in EXCEPT !.sets[s] = added]
        matches == {m \in LflowMatches(f, dp, fake) : m.as = s}
        deps == objdep_mgr_add(S.deps, CondRefs(f) \cup PortRefs(f), f)
        ids == lflow_conj_ids_find(S.conj, f, dp)
    IN  IF dp \notin in.local \/ ~lflow_parse_actions(f, in) \/ ~convert_match_to_expr(f, fake) THEN <<S, TRUE>>
        ELSE IF LflowMatches(f, dp, fake) = {} THEN <<[S EXCEPT !.deps = deps], TRUE>>
        ELSE IF Cardinality(matches) # Cardinality(added) \/ (LoFlows[f].conj /\ ids = {}) THEN <<[S EXCEPT !.deps = deps], FALSE>>
        ELSE <<[S EXCEPT !.deps = deps, !.flows = add_matches_to_flow_table(@, f, dp, matches, IF LoFlows[f].conj THEN CHOOSE i \in ids : TRUE ELSE 0)], TRUE>>
\* One step of a loop that stops at the first failure.
While(step(_, _), start, todo) == FoldSet(LAMBDA x, acc : IF acc[2] THEN step(acc[1], x) ELSE acc, <<start, TRUE>>, todo)
consider_lflow_for_added_as_ips(S, in, f, s, added) ==
    While(LAMBDA T, dp : consider_lflow_for_added_as_ips__(T, in, f, dp, s, added), S, LoFlows[f].dps)
lflow_handle_addr_set_update(S, in, s, old) ==
    LET new == in.sets[s]
        one(T, f) ==
            LET del == While(LAMBDA U, ip : ofctrl_remove_flows_for_as_ip(U, f, s, ip), T, old \ new)
            IN  IF ~del[2] \/ new \ old = {} THEN del ELSE consider_lflow_for_added_as_ips(del[1], in, f, s, new \ old)
    IN  IF ~as_update_can_be_handled(old, new) THEN <<S, FALSE>>
        ELSE While(one, S, (objdep_mgr_find_objs(S.deps, Res("as", s)) \ S.done) \cap in.flows)

(***************************************************************************)
(* The input nodes: address sets, port groups and template variables.      *)
(***************************************************************************)
addr_sets_update(was, now) ==
    [deleted |-> {s \in LoSets : was[s] # AbsentSet /\ now[s] = AbsentSet},
     new     |-> {s \in LoSets : was[s] = AbsentSet /\ now[s] # AbsentSet},
     updated |-> {s \in LoSets : AbsentSet \notin {was[s], now[s]} /\ was[s] # now[s]}]
\* The ports of a port group that are on this chassis.
port_groups_init(pg, bound) == pg \cap bound
port_groups_update(was, now) == was # now
port_groups_runtime_data_handler(pg, lports) == pg \cap lports # {}
\* The variables of the row; those of a deleted row are kept as well.
template_vars_update(tv, was, new) == IF was # AbsentRow /\ new = AbsentRow THEN tv ELSE new

(***************************************************************************)
(* lb_data: the load balancer, when one of its datapaths is local.         *)
(***************************************************************************)
NoLbData == [local |-> FALSE, tv |-> Nameless, dep |-> FALSE, old |-> FALSE,
             deleted |-> FALSE, updated |-> FALSE, new |-> FALSE]
en_lb_data_clear_tracked_data(L) == [L EXCEPT !.old = FALSE, !.deleted = FALSE, !.updated = FALSE, !.new = FALSE]
lb_is_local(in) == in.lb /\ LoLb.dps \cap in.local # {}
lb_data_local_lb_add(L, in) ==
    [L EXCEPT !.local = TRUE, !.dep = LoLb.tv, !.tv = IF LoLb.tv THEN in.tv ELSE Nameless,
              !.deleted = @ /\ ~L.old, !.updated = @ \/ L.old, !.new = @ \/ ~L.old]
lb_data_local_lb_remove(L) == [L EXCEPT !.local = FALSE, !.dep = FALSE, !.old = TRUE, !.deleted = TRUE]
lb_data_handle_changed_ref(L, in) ==
    LET gone == lb_data_local_lb_remove(L)
    IN  IF ~L.local THEN L ELSE IF lb_is_local(in) THEN lb_data_local_lb_add(gone, in) ELSE gone
lb_data_sb_load_balancer_handler(L, in, was) ==
    LET gone == IF L.local THEN lb_data_local_lb_remove(L) ELSE L
    IN  IF was.lb = in.lb THEN L ELSE IF lb_is_local(in) THEN lb_data_local_lb_add(gone, in) ELSE gone
lb_data_template_var_handler(L, in, tvs) == IF tvs /\ L.dep THEN lb_data_handle_changed_ref(L, in) ELSE L
load_balancers_by_dp_init(in) == IF in.lb THEN LoLb.dps \cap in.local ELSE {}
lb_data_runtime_data_handler(L, in, newdps) ==
    IF newdps \cap load_balancers_by_dp_init(in) # {} /\ ~L.local THEN lb_data_local_lb_add(L, in) ELSE L
en_lb_data_run(in) == IF lb_is_local(in) THEN en_lb_data_clear_tracked_data(lb_data_local_lb_add(NoLbData, in)) ELSE NoLbData

(***************************************************************************)
(* Flows of load balancers and neighbours.                                 *)
(***************************************************************************)
add_lb_vip_hairpin_flows(L) == {[table |-> "chk", dp |-> Nameless, tv |-> L.tv]}
\* Without hairpin_snat_ip one flow serves all the datapaths.
add_lb_ct_snat_hairpin_vip_flow(L, in) ==
    {[table |-> "snat", dp |-> dp, tv |-> L.tv] : dp \in IF LoLb.snat THEN LoLb.dps \cap in.local ELSE {Nameless}}
consider_lb_hairpin_flows(L, in) ==
    IF L.tv = AbsentRow THEN {} ELSE add_lb_vip_hairpin_flows(L) \cup add_lb_ct_snat_hairpin_vip_flow(L, in)
lflow_handle_changed_lbs(S, L, in) ==
    [S EXCEPT !.lb = (IF L.deleted \/ L.updated THEN {} ELSE @)
                     \cup (IF L.updated \/ L.new THEN consider_lb_hairpin_flows(L, in) ELSE {})]

\* MAC_Binding, Static_MAC_Binding and FDB rows are <<kind, port>>.
consider_neighbor_flow(in, row) == IF row[2] \in in.ports /\ DpOf(row[2]) \in in.local THEN {<<row, TRUE>>} ELSE {}
\* The second flow is for a VIF only.
consider_fdb_flows(in, row) == IF DpOf(row[2]) \in in.local THEN {<<row, row[2] \in in.ports>>} ELSE {}
RowFlows(in, rows) == UNION {IF r[1] = "fdb" THEN consider_fdb_flows(in, r) ELSE consider_neighbor_flow(in, r) : r \in rows}
RowsChanged(S, in, kind, changed) ==
    LET rows == {r \in changed : r[1] = kind}
    IN  [S EXCEPT !.neigh = {x \in @ : x[1] \notin rows} \cup RowFlows(in, rows \cap in.neigh)]
lflow_handle_changed_mac_bindings(S, in, changed) == RowsChanged(S, in, "mac", changed)
lflow_handle_changed_static_mac_bindings(S, in, changed) == RowsChanged(S, in, "static", changed)
lflow_handle_changed_fdbs(S, in, changed) == RowsChanged(S, in, "fdb", changed)

(***************************************************************************)
(* The handlers of lflow_output.                                           *)
(***************************************************************************)
\* u: the outcome of an incremental update and whether it could be handled.
IfNotHandled(u, in, r) == IF u[2] THEN u[1] ELSE objdep_mgr_handle_change(u[1], in, r)
lflow_output_addr_sets_handler(S, in, was, order) ==
    LET diff == addr_sets_update(was, in.sets)
        update(T, s) ==
            IF s \notin diff.updated THEN T
            ELSE IfNotHandled(lflow_handle_addr_set_update(T, in, s, was[s]), in, Res("as", s))
        S1 == AllChanged(S, in, {Res("as", s) : s \in diff.deleted})
    IN  AllChanged(FoldLeft(update, S1, order), in, {Res("as", s) : s \in diff.new})
lflow_output_port_groups_handler(S, in, changed) ==
    IF changed THEN objdep_mgr_handle_change(S, in, Res("pg", "pg")) ELSE S
lflow_output_template_vars_handler(S, in, changed) ==
    IF changed THEN objdep_mgr_handle_change(S, in, Res("tv", "tv")) ELSE S
\* A new local datapath: its logical flows and neighbours.
lflow_add_flows_for_datapath(S, in, dp) ==
    LET fs == {f \in in.flows \ S.done : dp \in LoFlows[f].dps}
        T == FoldSet(LAMBDA f, U : consider_logical_flow__(U, in, f, dp), S, fs)
    IN  [T EXCEPT !.neigh = @ \cup RowFlows(in, {r \in in.neigh : DpOf(r[2]) = dp})]
lflow_handle_flows_for_lport(S, in, p) == objdep_mgr_handle_change(S, in, Res("pb", p))
lflow_output_runtime_data_handler(S, in, newdps, lports) ==
    LET T == FoldSet(LAMBDA dp, U : lflow_add_flows_for_datapath(U, in, dp), S, newdps)
    IN  FoldSet(LAMBDA p, U : lflow_handle_flows_for_lport(U, in, p), T, lports)
lflow_handle_changed_mc_groups(S, in, changed) ==
    IF changed THEN objdep_mgr_handle_change(S, in, Res("mc", McGroup)) ELSE S
lflow_handle_changed_port_bindings(S, in, changed) == AllChanged(S, in, {Res("pb", p) : p \in changed})
lflow_handle_changed_flows(S, in, changed) ==
    LET todo == changed \ S.done
    IN  Reprocess([S EXCEPT !.cache = {c \in @ : c.f \notin todo \/ c.f \in in.flows}], in, todo)

\* init_lflow_ctx(): what the handlers read.
init_lflow_ctx(data) ==
    [flows |-> losb.flows, sets |-> losb.sets, pg |-> port_groups_init(losb.pg, losb.bound), tv |-> data.tv,
     ports |-> losb.ports, bound |-> losb.bound, mc |-> losb.mc, local |-> data.local,
     neigh |-> losb.neigh, lb |-> losb.lb]
NoOut == [flows |-> {}, neigh |-> {}, lb |-> {}, deps |-> {}, cache |-> {}, conj |-> {}, done |-> {}]
\* lflow_run() with everything cleared but the cache.
lflow_run(in, cache) ==
    LET S == FoldSet(LAMBDA f, T : OverDps(T, in, f), [NoOut EXCEPT !.cache = cache], in.flows)
        L == en_lb_data_run(in)
    IN  [S EXCEPT !.neigh = RowFlows(in, in.neigh), !.lb = IF L.local THEN consider_lb_hairpin_flows(L, in) ELSE {}]

LocalNow == {DpOf(p) : p \in losb.bound}
\* An incremental engine run.  A datapath stays local when its last port leaves.
en_lflow_output(order) ==
    LET tv == template_vars_update(lodata.tv, loseen.tv, losb.tv)
        local == lodata.local \cup LocalNow
        newdps == local \ lodata.local
        in == init_lflow_ctx([tv |-> tv, local |-> local])
        tvs == loseen.tv # losb.tv
        moved == SymDiff(loseen.bound, losb.bound)
        rows == SymDiff(loseen.neigh, losb.neigh)
        L1 == lb_data_sb_load_balancer_handler(en_lb_data_clear_tracked_data(lodata.lb), in, loseen)
        L == lb_data_runtime_data_handler(lb_data_template_var_handler(L1, in, tvs), in, newdps)
        S1 == lflow_output_addr_sets_handler(loout, in, loseen.sets, order)
        S2 == lflow_output_port_groups_handler(S1, in, \/ port_groups_update(loseen.pg, losb.pg)
                                                       \/ port_groups_runtime_data_handler(losb.pg, moved))
        S3 == lflow_output_template_vars_handler(S2, in, tvs)
        S4 == lflow_output_runtime_data_handler(S3, in, newdps, moved)
        S5 == lflow_handle_changed_mc_groups(S4, in, loseen.mc # losb.mc)
        S6 == lflow_handle_changed_port_bindings(S5, in, SymDiff(loseen.ports, losb.ports))
        S7 == lflow_handle_changed_static_mac_bindings(lflow_handle_changed_mac_bindings(S6, in, rows), in, rows)
        S8 == lflow_handle_changed_flows(S7, in, SymDiff(loseen.flows, losb.flows))
        S9 == lflow_handle_changed_fdbs(lflow_handle_changed_lbs(S8, L, in), in, rows)
    IN  /\ losb # loseen
        /\ loseen' = losb
        /\ lodata' = [tv |-> tv, local |-> local, lb |-> en_lb_data_clear_tracked_data(L)]
        /\ loout' = [S9 EXCEPT !.done = {}]
        /\ UNCHANGED <<losb, lon>>
\* A full recompute of all nodes; the flows deleted meanwhile leave the cache.
en_lflow_output_run ==
    LET in == init_lflow_ctx([tv |-> losb.tv, local |-> LocalNow])
    IN  /\ losb # loseen
        /\ loseen' = losb
        /\ lodata' = [tv |-> losb.tv, local |-> LocalNow, lb |-> en_lb_data_run(in)]
        /\ loout' = lflow_run(in, {c \in loout.cache : c.f \in losb.flows})
        /\ UNCHANGED <<losb, lon>>

(***************************************************************************)
(* Changes of the Southbound database.                                     *)
(***************************************************************************)
SbChange(sb) ==
    /\ lon < MaxLoChanges
    /\ sb # losb
    /\ losb' = sb
    /\ lon' = lon + 1
    /\ UNCHANGED <<loseen, lodata, loout>>
Flip(set, x) == SymDiff(set, {x})
FlowRow(f) == SbChange([losb EXCEPT !.flows = Flip(@, f)])
\* Without Moves one engine run sees one address set change.
AddressSet(s, ips) ==
    /\ "Moves" \in LoHazards \/ \A t \in LoSets \ {s} : losb.sets[t] = loseen.sets[t]
    /\ SbChange([losb EXCEPT !.sets[s] = ips])
PortGroup(p) == SbChange([losb EXCEPT !.pg = Flip(@, p)])
TemplateVar(v) ==
    /\ v = AbsentRow => "TemplateRow" \in LoHazards
    /\ SbChange([losb EXCEPT !.tv = v])
\* ovn-northd deletes the rows that refer to a port in the transaction that deletes it.
PortRow(p) == SbChange([losb EXCEPT !.ports = Flip(@, p), !.bound = @ \ {p}, !.neigh = {r \in @ : r[2] # p}])
Claim(p) == p \in losb.ports /\ SbChange([losb EXCEPT !.bound = Flip(@, p)])
GroupRow == SbChange([losb EXCEPT !.mc = ~@])
NeighRow(kind, p) == p \in losb.ports /\ SbChange([losb EXCEPT !.neigh = Flip(@, <<kind, p>>)])
LbRow == SbChange([losb EXCEPT !.lb = ~@])

LflowOutputInit ==
    /\ \E sets \in [LoSets -> {ips \in SUBSET LoIps : Cardinality(ips) > 1}], bound \in SUBSET DOMAIN LoPorts :
          losb = [flows |-> LoIds, sets |-> sets, pg |-> DOMAIN LoPorts, tv |-> "v1", ports |-> DOMAIN LoPorts,
                  bound |-> bound, mc |-> TRUE, neigh |-> {"mac", "fdb"} \X DOMAIN LoPorts, lb |-> TRUE]
    /\ loseen = losb
    /\ LET in == init_lflow_ctx([tv |-> losb.tv, local |-> LocalNow])
       IN  /\ lodata = [tv |-> losb.tv, local |-> LocalNow, lb |-> en_lb_data_run(in)]
           /\ loout = lflow_run(in, {})
    /\ lon = 0
LflowOutputNext ==
    \/ \E order \in SetToSeqs(LoSets) : en_lflow_output(order)
    \/ en_lflow_output_run
    \/ \E f \in LoIds : FlowRow(f)
    \/ \E s \in LoSets : \E ips \in (SUBSET LoIps) \cup {AbsentSet} : AddressSet(s, ips)
    \/ \E p \in DOMAIN LoPorts : PortGroup(p) \/ PortRow(p) \/ Claim(p)
    \/ \E v \in {"v1", "v2", AbsentRow} : TemplateVar(v)
    \/ GroupRow
    \/ \E p \in DOMAIN LoPorts : \E kind \in {"mac", "static", "fdb"} : NeighRow(kind, p)
    \/ LbRow
LflowOutputSpec == LflowOutputInit /\ [][LflowOutputNext]_lovars

LflowOutputTypeOK ==
    /\ loout.conj \subseteq LoIds \X LoDps \X ConjIds
    /\ \A c \in loout.cache : c.type \in {"expr", "matches"}
    /\ lodata.local \subseteq LoDps /\ loout.done = {}

Shape(flows) == {<<g.f, g.dp, g.ip, g.val>> : g \in flows}
Recomputed == lflow_run(init_lflow_ctx([tv |-> losb.tv, local |-> lodata.local]), {})
\* After an engine run the flows are those that a full recompute from the same
\* database would give, one flow for each match, and the conjunction ids of two
\* logical flows or datapaths differ.  (With the changes of LoHazards, several
\* address sets in one run or a template variable deleted, this fails.)
FlowsAsRecomputed ==
    losb = loseen =>
        /\ Shape(loout.flows) = Shape(Recomputed.flows)
        /\ Cardinality(Shape(loout.flows)) = Cardinality(loout.flows)
        /\ loout.neigh = Recomputed.neigh
        /\ loout.lb = Recomputed.lb
        /\ \A g, h \in {x \in loout.flows : LoFlows[x.f].conj} : <<g.f, g.dp>> # <<h.f, h.dp>> => g.id # h.id

\* "processes only the diff (added/deleted) addresses in the address set. If it
\* cannot handle the update incrementally, returns false" (controller/lflow.c):
\* every address of the address sets that a flow on a local datapath uses has its flow.
EveryAddressHasItsFlow ==
    losb = loseen => {<<g.f, g.dp, g.ip>> : g \in Recomputed.flows} \subseteq {<<g.f, g.dp, g.ip>> : g \in loout.flows}
\* ovs_assert(smap_count(local_templates) == 0) of template_vars_update(): when
\* the chassis has no row of template variables none is left of an earlier row.
NoTemplatesWithoutRow == (losb = loseen /\ losb.tv = AbsentRow) => lodata.tv = AbsentRow
\* A local load balancer has its hairpin flows on every local datapath.
HairpinComplete == losb = loseen => loout.lb = Recomputed.lb
=============================================================================
