------------------------------ MODULE LbLflows ------------------------------
(***************************************************************************)
(* Incremental processing of load balancers in ovn-northd, from the rows   *)
(* of the Northbound database to the logical flows and load balancers in   *)
(* the Southbound one: en_lb_data, en_northd, en_lr_stateful,              *)
(* en_ls_stateful, en_lflow with the logical flow manager                  *)
(* (northd/lflow-mgr.c), and en_sync_to_sb_lb.  A logical flow may be      *)
(* shared by several owners ("lflow_ref") and several datapaths; an owner  *)
(* that changes unlinks its flows, adds the ones it wants now and syncs.   *)
(* Several changes of the Northbound database may reach one run.           *)
(***************************************************************************)
EXTENDS Integers, Sequences, FiniteSets, TLC, SequencesExt

CONSTANTS
    LbRows,         \* rows of NB Load_Balancer; there is one Load_Balancer_Group
    LbRouters, LbSwitches,
    LbIps,          \* IPs of VIPs
    MaxLbChanges    \* bound: changes of the Northbound database

LbDps == LbRouters \cup LbSwitches

VARIABLES
    lbnb,       \* Northbound: [on, lb: rows and their IPs, od: load_balancer columns,
                \*  grp: members of the group, odgrp: datapaths that name the group]
    lbseen,     \* the Northbound contents that northd processed last (lb_data)
    lbdps,      \* northd_data.lb_datapaths_map: datapaths per load balancer
    lbrec,      \* lr_stateful and ls_stateful records per datapath
    lbtab,      \* the lflow table: [lf, lrn]
    lbsb,       \* Southbound: [flows, lbs, addrs]
    lbchanges

lbVars == <<lbnb, lbseen, lbdps, lbrec, lbtab, lbsb, lbchanges>>

Present(nb) == nb.on
LbEmpty == [x \in {} |-> x]
Without(f, D) == [x \in DOMAIN f \ D |-> f[x]]

(***************************************************************************)
(* The logical flow manager.  lf: per flow the datapaths (dpg_bitmap) and  *)
(* the counters (dp_refcnts_map, 0: none allocated); lrn: the              *)
(* lflow_ref_nodes, per owner and flow.                                    *)
(***************************************************************************)
\* The counter that the second user allocates starts from nothing.
UsedOnce(n) == n + 1
\* dp_refcnt_use(): allocated on the second use.
dp_refcnt_use(n) == IF n = 0 THEN 2 ELSE n + 1

\* dp_refcnt_release() for each of dps: the bit goes with the last user.
Released(f, dps) ==
    [bits |-> f.bits \ {d \in dps : f.cnt[d] <= 1},
     cnt |-> [d \in LbDps |-> IF d \in dps /\ f.cnt[d] > 0 THEN f.cnt[d] - 1 ELSE f.cnt[d]]]

lflow_ref_unlink_lflows(t, ref) ==
    [lf |-> [f \in DOMAIN t.lf |-> IF <<ref, f>> \in DOMAIN t.lrn
                                   THEN Released(t.lf[f], t.lrn[<<ref, f>>].dps) ELSE t.lf[f]],
     lrn |-> [n \in DOMAIN t.lrn |-> IF n[1] = ref THEN [t.lrn[n] EXCEPT !.linked = FALSE] ELSE t.lrn[n]]]

\* lflow_table_add_lflow() for the flows of want, each on its datapaths.  A node
\* keeps the datapaths it was created with.
lflow_table_add_lflow(t, ref, want) ==
    LET old(f) == IF f \in DOMAIN t.lf THEN t.lf[f] ELSE [bits |-> {}, cnt |-> [d \in LbDps |-> 0]]
        node(f) == IF <<ref, f>> \in DOMAIN t.lrn THEN t.lrn[<<ref, f>>] ELSE [dps |-> want[f], linked |-> FALSE]
        count(f, d) == IF ~node(f).linked /\ d \in want[f] \cap old(f).bits THEN dp_refcnt_use(old(f).cnt[d])
                       ELSE old(f).cnt[d]
    IN  [lf |-> [f \in DOMAIN want |-> [bits |-> old(f).bits \cup want[f], cnt |-> [d \in LbDps |-> count(f, d)]]]
                @@ t.lf,
         lrn |-> [n \in {<<ref, f>> : f \in DOMAIN want} |-> [node(n[2]) EXCEPT !.linked = TRUE]] @@ t.lrn]

\* The rows of flows, each on its datapaths: as logical_datapath when it is
\* one, else as a Logical_DP_Group.
sync_lflow_to_sb(t, sb, flows) == [f \in flows |-> t.lf[f].bits] @@ sb

\* lflow_ref_sync_lflows__(): writes the flows of ref that have a datapath, frees
\* the nodes that stayed unlinked, and the flows that nobody refers to.
lflow_ref_sync_lflows(t, sb, ref) ==
    LET mine == {n \in DOMAIN t.lrn : n[1] = ref}
        keep == Without(t.lrn, {n \in mine : ~t.lrn[n].linked})
        gone == {n[2] : n \in mine} \ {n[2] : n \in DOMAIN keep}
        set == {n[2] : n \in {m \in mine : t.lf[m[2]].bits # {}}}
    IN  [tab |-> [lf |-> Without(t.lf, gone), lrn |-> keep],
         sb |-> Without(sync_lflow_to_sb(t, sb, set), gone)]

Rewrite(s, ref, want) ==
    lflow_ref_sync_lflows(lflow_table_add_lflow(lflow_ref_unlink_lflows(s.tab, ref), ref, want), s.sb, ref)

\* A table filled from nothing, and lflow_table_sync_to_sb().
Rebuilt(want) ==
    LET owners == DOMAIN want
        users(f, d) == {r \in owners : f \in DOMAIN want[r] /\ d \in want[r][f]}
        flows == UNION {DOMAIN want[r] : r \in owners}
        bits(f) == {d \in LbDps : users(f, d) # {}}
        cnt(f) == [d \in LbDps |-> LET n == Cardinality(users(f, d)) IN IF n < 2 THEN 0 ELSE n]
    IN  [tab |-> [lf |-> [f \in flows |-> [bits |-> bits(f), cnt |-> cnt(f)]],
                  lrn |-> [n \in {m \in owners \X flows : m[2] \in DOMAIN want[m[1]]} |->
                              [dps |-> want[n[1]][n[2]], linked |-> TRUE]]],
         sb |-> [f \in flows |-> bits(f)]]

(***************************************************************************)
(* The flows of an owner: a load balancer on its datapaths, the record of  *)
(* a datapath.                                                             *)
(***************************************************************************)
\* build_lrouter_defrag_flows_for_lb() (one flow per IP, whoever has it),
\* build_lrouter_flows_for_lb(), build_lswitch_flows_for_lb().
LbFlows(l, ips, dps) ==
    LET lr == dps \cap LbRouters
        ls == dps \cap LbSwitches
    IN  (IF lr = {} THEN LbEmpty
         ELSE [f \in {<<"defrag", i>> : i \in ips} \cup {<<"lr_lb", l, i>> : i \in ips} |-> lr])
        @@ (IF ls = {} THEN LbEmpty ELSE [f \in {<<"ls_lb", l, i>> : i \in ips} |-> ls])

\* build_lr_stateful_flows(), build_ls_stateful_flows(): functions of the record.
RecFlows(d, rec) == [f \in {<<"rec", d, rec>>} |-> {d}]

(***************************************************************************)
(* What the Northbound database says.                                      *)
(***************************************************************************)
LbsOf(nb, d) == nb.od[d] \cup (IF d \in nb.odgrp THEN nb.grp ELSE {})
LbNbDps(nb, l) == {d \in LbDps : l \in LbsOf(nb, d)}
has_lb_vip(nb, d) == \E l \in LbsOf(nb, d) : nb.lb[l] # {}

\* lr_stateful_record_create(), ls_stateful_record_create().
Record(nb, d) ==
    [ips |-> IF d \in LbRouters THEN UNION {nb.lb[l] : l \in LbsOf(nb, d)} ELSE {}, vip |-> has_lb_vip(nb, d)]

Owners(nb) == Present(nb) \cup LbDps
Wanted(nb, r) == IF r \in LbDps THEN RecFlows(r, Record(nb, r)) ELSE LbFlows(r, nb.lb[r], LbNbDps(nb, r))

\* The row of SB Load_Balancer.
sync_sb_lb_record(dps, ips) == [dps |-> dps, ips |-> ips]
SbLbs(nb) == [l \in {x \in Present(nb) : LbNbDps(nb, x) # {}} |-> sync_sb_lb_record(LbNbDps(nb, l), nb.lb[l])]

(***************************************************************************)
(* The changes since the last run: struct tracked_lb_data.                 *)
(***************************************************************************)
DeletedLbs == Present(lbseen) \ Present(lbnb)
CrupdatedLbs == {l \in Present(lbnb) : l \notin Present(lbseen) \/ lbnb.lb[l] # lbseen.lb[l]}
UpdatedLbs == CrupdatedLbs \cap Present(lbseen)

\* handle_od_lb_changes(), only for a datapath whose column changed.
AssocLbs(d) == IF lbnb.od[d] = lbseen.od[d] THEN {}
               ELSE {l \in lbnb.od[d] : l \notin lbseen.od[d] \/ l \in UpdatedLbs}
\* handle_od_lbgrp_changes().
AssocGroup(d) == IF d \in lbnb.odgrp \ lbseen.odgrp THEN lbnb.grp ELSE {}
ChangedOds == {d \in LbDps : lbnb.od[d] # lbseen.od[d] \/ (d \in lbnb.odgrp) # (d \in lbseen.odgrp)}
\* lb_data_load_balancer_group_handler(): members that are new.
GroupAssoc == lbnb.grp \ lbseen.grp

\* northd_handle_lb_data_changes(): what is left to a recompute.
FallBack ==
    \/ (lbseen.grp \ lbnb.grp) \ DeletedLbs # {}
    \/ \E d \in LbDps : lbseen.od[d] \ lbnb.od[d] # {}
    \/ lbseen.odgrp \ lbnb.odgrp # {}

(***************************************************************************)
(* A run of the engine.                                                    *)
(***************************************************************************)
\* northd_handle_lb_data_changes(): the datapaths of each load balancer, and
\* the load balancers whose flows are to be built again.
NewDps ==
    [l \in Present(lbnb) |->
        (IF l \in DOMAIN lbdps THEN lbdps[l] ELSE {})
        \cup {d \in LbDps : l \in AssocLbs(d) \cup AssocGroup(d)}
        \cup (IF l \in GroupAssoc THEN lbnb.odgrp ELSE {})]
TrackedLbs == CrupdatedLbs \cup GroupAssoc \cup UNION {AssocLbs(d) \cup AssocGroup(d) : d \in LbDps}

ls_with_changed_lbs ==
    LbSwitches \cap (ChangedOds \cup UNION {lbdps[l] : l \in DeletedLbs} \cup UNION {NewDps[l] : l \in CrupdatedLbs}
                     \cup (IF GroupAssoc = {} THEN {} ELSE lbnb.odgrp))

\* lr_stateful_lb_data_handler(): the IPs of the record of router d, for an
\* order of the updated load balancers.
Ips(l) == lbnb.lb[l]
lb_ips(d, order) ==
    LET added == lbrec[d].ips \cup UNION {Ips(l) : l \in AssocLbs(d) \cup AssocGroup(d)}
        one(s, l) == IF d \in NewDps[l] THEN (s \ (lbseen.lb[l] \ Ips(l))) \cup (Ips(l) \ lbseen.lb[l]) ELSE s
    IN  FoldLeft(one, added, order)
        \cup (IF d \in lbnb.odgrp THEN UNION {Ips(l) : l \in GroupAssoc} ELSE {})

lr_stateful_crupdated ==
    LbRouters \cap (ChangedOds \cup UNION {NewDps[l] : l \in CrupdatedLbs}
                    \cup (IF GroupAssoc = {} THEN {} ELSE lbnb.odgrp))

NewRecs(order) ==
    [d \in LbDps |->
        IF d \in lr_stateful_crupdated THEN [ips |-> lb_ips(d, order), vip |-> has_lb_vip(lbnb, d)]
        ELSE IF d \in ls_with_changed_lbs THEN Record(lbnb, d)
        ELSE lbrec[d]]

\* lflow_northd_handler(), lflow_lr_stateful_handler(), lflow_ls_stateful_handler():
\* load balancers that are gone, load balancers, then records, in some order.
NewFlows(recs, order) ==
    LET none(s, l) == Rewrite(s, l, LbEmpty)
        lb(s, l) == Rewrite(s, l, LbFlows(l, Ips(l), NewDps[l]))
        rec(s, d) == Rewrite(s, d, RecFlows(d, recs[d]))
        s0 == FoldLeft(none, [tab |-> lbtab, sb |-> lbsb.flows], SetToSeq(DeletedLbs))
        s1 == FoldLeft(lb, s0, order)
    IN  FoldLeft(rec, s1, SetToSeq(lr_stateful_crupdated \cup ls_with_changed_lbs))

\* sync_changed_lbs(): a load balancer without a datapath has no row.
sync_changed_lbs ==
    Without([l \in {x \in TrackedLbs : x \in DOMAIN lbsb.lbs \/ NewDps[x] # {}} |->
                sync_sb_lb_record(NewDps[l], Ips(l))] @@ lbsb.lbs, DeletedLbs)

\* Address sets of the VIPs that the routers answer for; the node has no
\* handler for lr_stateful.
sync_addr_sets(recs) == [d \in LbRouters |-> recs[d].ips]

Orders(S) == {s \in [1..Cardinality(S) -> S] : \A i, j \in DOMAIN s : s[i] = s[j] => i = j}
Only(order, S) == SelectSeq(order, LAMBDA l : l \in S)

LbIncremental ==
    /\ lbnb # lbseen /\ ~FallBack
    /\ \E order \in Orders(TrackedLbs) :
        LET recs == NewRecs(Only(order, UpdatedLbs))
            s == NewFlows(recs, order)
        IN  /\ lbrec' = recs
            /\ lbtab' = s.tab
            /\ lbsb' = [flows |-> s.sb, lbs |-> sync_changed_lbs, addrs |-> sync_addr_sets(recs)]
    /\ lbdps' = NewDps
    /\ lbseen' = lbnb
    /\ UNCHANGED <<lbnb, lbchanges>>

\* en_northd_run(), en_lr_stateful_run(), en_ls_stateful_run(), en_lflow_run(),
\* en_sync_to_sb_lb_run(): from what en_lb_data has.
Recomputed(nb) ==
    LET s == Rebuilt([r \in Owners(nb) |-> Wanted(nb, r)])
    IN  [tab |-> s.tab, flows |-> s.sb, rec |-> [d \in LbDps |-> Record(nb, d)],
         dps |-> [l \in Present(nb) |-> LbNbDps(nb, l)], lbs |-> SbLbs(nb)]

LbRecompute ==
    /\ lbnb # lbseen /\ FallBack
    /\ LET r == Recomputed(lbnb)
       IN  /\ lbrec' = r.rec /\ lbtab' = r.tab /\ lbdps' = r.dps
           /\ lbsb' = [flows |-> r.flows, lbs |-> r.lbs, addrs |-> sync_addr_sets(r.rec)]
    /\ lbseen' = lbnb
    /\ UNCHANGED <<lbnb, lbchanges>>

(***************************************************************************)
(* The user.  A row that is created has a new UUID; deleting a load        *)
(* balancer takes it out of the columns that name it.                      *)
(***************************************************************************)
NbChange(nb) == /\ lbchanges < MaxLbChanges
                /\ nb # lbnb
                /\ lbnb' = nb /\ lbchanges' = lbchanges + 1
                /\ UNCHANGED <<lbseen, lbdps, lbrec, lbtab, lbsb>>

SetVips(l, ips) == /\ l \in lbnb.on \/ l \notin lbseen.on
                   /\ NbChange([lbnb EXCEPT !.on = @ \cup {l}, !.lb[l] = ips])
DelLb(l) == /\ l \in lbnb.on
            /\ NbChange([lbnb EXCEPT !.on = @ \ {l}, !.lb[l] = {}, !.grp = @ \ {l}, !.od = [d \in LbDps |-> @[d] \ {l}]])
ToggleOd(d, l) == /\ l \in lbnb.on
                  /\ NbChange([lbnb EXCEPT !.od[d] = IF l \in @ THEN @ \ {l} ELSE @ \cup {l}])
ToggleMember(l) == /\ l \in lbnb.on
                   /\ NbChange([lbnb EXCEPT !.grp = IF l \in @ THEN @ \ {l} ELSE @ \cup {l}])
ToggleOdGroup(d) == NbChange([lbnb EXCEPT !.odgrp = IF d \in @ THEN @ \ {d} ELSE @ \cup {d}])

LbLflowsInit ==
    /\ lbnb = [on |-> {}, lb |-> [l \in LbRows |-> {}], od |-> [d \in LbDps |-> {}], grp |-> {}, odgrp |-> {}]
    /\ lbseen = lbnb
    /\ LET r == Recomputed(lbnb)
       IN  /\ lbdps = r.dps /\ lbrec = r.rec /\ lbtab = r.tab
           /\ lbsb = [flows |-> r.flows, lbs |-> r.lbs, addrs |-> sync_addr_sets(r.rec)]
    /\ lbchanges = 0

LbLflowsNext ==
    \/ LbIncremental \/ LbRecompute
    \/ \E l \in LbRows : DelLb(l) \/ ToggleMember(l) \/ (\E ips \in SUBSET LbIps : SetVips(l, ips))
    \/ \E l \in LbRows, d \in LbDps : ToggleOd(d, l)
    \/ \E d \in LbDps : ToggleOdGroup(d)

LbLflowsSpec == LbLflowsInit /\ [][LbLflowsNext]_lbVars

(***************************************************************************)
(* Properties.                                                             *)
(***************************************************************************)
LbLflowsTypeOK ==
    /\ \A f \in DOMAIN lbtab.lf : lbtab.lf[f].bits \subseteq LbDps
    /\ \A n \in DOMAIN lbtab.lrn : lbtab.lrn[n].linked /\ n[2] \in DOMAIN lbtab.lf
    /\ DOMAIN lbdps \subseteq LbRows /\ lbchanges \in 0..MaxLbChanges

\* Once northd has processed the Northbound contents, every logical flow that a
\* full recompute would write for the load balancers is in the Southbound
\* database on all its datapaths, as the table of flows has it, and the rows of
\* SB Load_Balancer and the records of the switches are those of a recompute:
\* sharing flows between load balancers and handling changes one by one loses
\* none of these.  The flows of the routers' records are left out: they follow
\* VIP addresses that en-lr-stateful.c:257-262 may remove too early.
LbFlowsComplete ==
    lbnb = lbseen =>
        LET r == Recomputed(lbnb)
        IN  /\ \A f \in DOMAIN r.flows : f[1] # "rec" =>
                    f \in DOMAIN lbsb.flows /\ r.flows[f] \subseteq lbsb.flows[f]
            /\ lbsb.flows = [f \in DOMAIN lbtab.lf |-> lbtab.lf[f].bits]
            /\ lbsb.lbs = r.lbs
            /\ \A d \in LbSwitches : lbrec[d] = r.rec[d] /\ <<"rec", d, r.rec[d]>> \in DOMAIN lbsb.flows

\* Nothing is left over either: the Southbound logical flows of the load
\* balancers are exactly those of a recompute, "clears ... all the datapath id
\* bits in the dp group bitmap" (lflow_ref_unlink_lflows()).
LbFlowsExact ==
    lbnb = lbseen =>
        LET r == Recomputed(lbnb)
        IN  \A f \in DOMAIN lbsb.flows : f[1] # "rec" => f \in DOMAIN r.flows /\ lbsb.flows[f] = r.flows[f]

\* A router answers ARP requests for every VIP of its load balancers.
VipsAnswered ==
    lbnb = lbseen => \A d \in LbRouters : Record(lbnb, d).ips \subseteq lbsb.addrs[d]
=============================================================================
