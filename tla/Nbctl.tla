------------------------------- MODULE Nbctl -------------------------------
(***************************************************************************)
(* The commands of ovn-nbctl that change the Northbound, given by several  *)
(* clients at a time.  A client runs a command on its copy of the          *)
(* database; what the command wrote, and the columns it asked to verify,   *)
(* go to the server in one transaction.  The server rejects it when a      *)
(* verified column has changed, and the client starts again on a fresh     *)
(* copy; when an index would have two equal rows the command fails.        *)
(*                                                                         *)
(* A state is about one topic: the rows of one table, or of one column of  *)
(* a parent row.  A row has the columns that a command looks it up by      *)
(* (key), its other columns (val), and its uuid (id).  The entries of a    *)
(* map column (the vips of a load balancer, the meters of a Copp row) are  *)
(* rows with the id of the row they are in.                                *)
(***************************************************************************)
EXTENDS Integers, FiniteSets

CONSTANTS
    NbClients,      \* clients, each with one command at a time
    NbTopics,       \* the topics that are checked
    NbKeys, NbVals, \* arguments of the commands
    MaxNbCmds       \* bound: commands started

VARIABLES
    nbtopic,        \* the topic
    nbdb,           \* the rows in the Northbound
    nbclient,       \* per client: copy, and the transaction sent ({} or {op})
    nbcount,        \* commands started, and the newest id
    nbdone          \* history: what the last committed command may touch

nbVars == <<nbtopic, nbdb, nbclient, nbcount, nbdone>>

NbArgs == [key : NbKeys, val : NbVals, opt : {"", "may-exist", "add-duplicate", "all"}]

NbctlInit ==
    /\ nbtopic \in NbTopics
    /\ nbdb = {}
    /\ nbclient = [c \in NbClients |-> [copy |-> {}, txn |-> {}]]
    /\ nbcount = [cmds |-> 0, id |-> 0]
    /\ nbdone = {}

NbctlTypeOK ==
    /\ \A r \in nbdb : r.id \in 1..nbcount.id /\ r.key \in NbKeys /\ r.val \in NbVals
    /\ \A c \in NbClients : Cardinality(nbclient[c].txn) <= 1
    /\ nbcount.cmds \in 0..MaxNbCmds

(***************************************************************************)
(* What a command leaves in its transaction: del are the ids of rows it    *)
(* deletes or unlinks, put the rows and map entries it writes (id 0 in a   *)
(* new row), all says that the whole column is set, names the keys the     *)
(* command is about.  verify says what the server compares with the copy:  *)
(* "column", the column that refers to the rows (which rows it has, not    *)
(* what is in them), "rows", the columns of the rows that are written.     *)
(***************************************************************************)
Op(del, put, names) ==
    {[del |-> del, put |-> put, names |-> names, all |-> FALSE, verify |-> {}]}
Nothing == {}                       \* an error, or nothing to do
At(S, a) == {r \in S : r.key = a.key}
Ids(S) == {r.id : r \in S}
Insert(a) == Op({}, {[id |-> 0, key |-> a.key, val |-> a.val]}, {a.key})
NbRemove(S, a) == IF At(S, a) = {} THEN Nothing ELSE Op(Ids(At(S, a)), {}, {a.key})
Update(S, a) == Op({}, {[r EXCEPT !.val = a.val] : r \in At(S, a)}, {a.key})
SetColumn(ops) == {[o EXCEPT !.all = TRUE] : o \in ops}
Verify(what, ops) == {[o EXCEPT !.verify = what] : o \in ops}
AddOnce(S, a) == IF At(S, a) = {} THEN Insert(a) ELSE Nothing
NbEmpty(S) == SetColumn(Op({}, {}, NbKeys))
One(S, a) == Cardinality(At(S, a)) = 1

(***************************************************************************)
(* Tables looked up by name.  *_by_name_or_uuid() fails when two rows have *)
(* the name.                                                               *)
(***************************************************************************)
nbctl_ls_add(S, a) == IF a.opt = "add-duplicate" THEN Insert(a) ELSE AddOnce(S, a)
nbctl_ls_del(S, a) == IF One(S, a) THEN NbRemove(S, a) ELSE Nothing
nbctl_lr_add(S, a) == IF a.opt = "add-duplicate" THEN Insert(a) ELSE AddOnce(S, a)
nbctl_lr_del(S, a) == IF One(S, a) THEN NbRemove(S, a) ELSE Nothing
nbctl_lsp_add(S, a) == AddOnce(S, a)
nbctl_lsp_del(S, a) == NbRemove(S, a)
nbctl_lrp_add(S, a) == AddOnce(S, a)
nbctl_lrp_del(S, a) == NbRemove(S, a)
nbctl_mirror_add(S, a) == AddOnce(S, a)
nbctl_mirror_del(S, a) == IF a.opt = "all" THEN Op(Ids(S), {}, NbKeys) ELSE NbRemove(S, a)
nbctl_meter_add(S, a) ==
    IF At(S, a) = {} THEN Insert(a) ELSE IF a.opt = "may-exist" THEN Update(S, a) ELSE Nothing
nbctl_meter_del(S, a) == IF a.opt = "all" THEN Op(Ids(S), {}, NbKeys) ELSE NbRemove(S, a)
nbctl_fwd_group_add(S, a) == AddOnce(S, a)
nbctl_fwd_group_del(S, a) == NbRemove(S, a)
cmd_pg_add(S, a) == Insert(a)
cmd_pg_del(S, a) == NbRemove(S, a)
cmd_ha_ch_grp_add(S, a) == Insert(a)
cmd_ha_ch_grp_del(S, a) == NbRemove(S, a)
nbctl_dhcp_options_del(S, a) == NbRemove(S, a)

\* Columns of a row found by its name.  The addresses are checked against the
\* ports of the copy (lsp_contains_duplicates()).
SetOfOne(S, a) == IF At(S, a) = {} THEN Nothing ELSE Update(S, a)
nbctl_lsp_set_options(S, a) == SetOfOne(S, a)
nbctl_lsp_set_type(S, a) == SetOfOne(S, a)
nbctl_lsp_set_addresses(S, a) ==
    IF \E r \in S \ At(S, a) : r.val = a.val THEN Nothing ELSE SetOfOne(S, a)
nbctl_lrp_set_options(S, a) == SetOfOne(S, a)
nbctl_dhcp_options_set_options(S, a) == SetOfOne(S, a)
cmd_pg_set_ports(S, a) == SetOfOne(S, a)
cmd_ha_ch_grp_set_chassis_prio(S, a) == SetOfOne(S, a)

(***************************************************************************)
(* Rules in a column of a switch, a port group or a router.                *)
(***************************************************************************)
nbctl_acl_add(S, a) == AddOnce(S, a)
nbctl_acl_del(S, a) == IF a.opt = "all" THEN Verify({"column"}, NbEmpty(S)) ELSE NbRemove(S, a)
nbctl_qos_add(S, a) == AddOnce(S, a)
nbctl_qos_del(S, a) == IF a.opt = "all" THEN Verify({"column"}, NbEmpty(S)) ELSE NbRemove(S, a)
nbctl_lr_policy_add(S, a) == AddOnce(S, a)
nbctl_lr_policy_del(S, a) == IF a.opt = "all" THEN NbEmpty(S) ELSE NbRemove(S, a)
nbctl_ls_lb_add(S, a) == AddOnce(S, a)
nbctl_ls_lb_del(S, a) == IF a.opt = "all" THEN Verify({"column"}, NbEmpty(S)) ELSE NbRemove(S, a)
nbctl_lr_lb_add(S, a) == AddOnce(S, a)
nbctl_lr_lb_del(S, a) == IF a.opt = "all" THEN Verify({"column"}, NbEmpty(S)) ELSE NbRemove(S, a)
nbctl_lsp_attach_mirror(S, a) == AddOnce(S, a)
nbctl_lsp_detach_mirror(S, a) == NbRemove(S, a)

\* The key is the type, the gateway port and the addresses, val the logical port
\* and its MAC.  A NAT of the key is rewritten with --may-exist and else refused.
RewriteNat(S, a) == IF a.opt = "may-exist" THEN Verify({"rows"}, Update(S, a)) ELSE Nothing
nbctl_lr_nat_add(S, a) == IF At(S, a) = {} THEN Insert(a) ELSE RewriteNat(S, a)
nbctl_lr_nat_del(S, a) == IF a.opt = "all" THEN Verify({"column"}, NbEmpty(S)) ELSE NbRemove(S, a)
nbctl_lr_nat_set_ext_ips(S, a) == Verify({"column"}, SetOfOne(S, a))

\* The key is policy, route table and prefix.  "add-duplicate" is --ecmp, which
\* looks for the next hop too; --may-exist rewrites a route of the prefix.
nbctl_lr_get_route(S, a) ==
    {r \in At(S, a) : a.opt = "add-duplicate" => r.val = a.val}
nbctl_lr_route_add(S, a) ==
    LET found == nbctl_lr_get_route(S, a) IN
    IF found = {} THEN Insert(a)
    ELSE IF a.opt # "may-exist" THEN Nothing
    ELSE UNION {Verify({"column", "rows"}, Op({}, {[r EXCEPT !.val = a.val]}, {a.key})) : r \in found}
nbctl_lr_route_del(S, a) == IF a.opt = "all" THEN NbEmpty(S) ELSE NbRemove(S, a)

(***************************************************************************)
(* Rows in a column, unlinked and deleted.                                 *)
(***************************************************************************)
AddOrSet(S, a) == IF At(S, a) = {} THEN Insert(a) ELSE Update(S, a)
nbctl_static_mac_binding_add(S, a) ==
    IF At(S, a) = {} THEN Insert(a)
    ELSE IF a.opt = "may-exist" THEN Verify({"rows"}, Update(S, a)) ELSE Nothing
nbctl_static_mac_binding_del(S, a) == NbRemove(S, a)
cmd_ha_ch_grp_add_chassis(S, a) == AddOrSet(S, a)
cmd_ha_ch_grp_remove_chassis(S, a) == NbRemove(S, a)
nbctl_lrp_set_gateway_chassis(S, a) == AddOrSet(S, a)

\* remove_gc(): the last one of the copy is removed by emptying the column.
nbctl_lrp_del_gateway_chassis(S, a) ==
    IF S = At(S, a) THEN SetColumn(NbRemove(S, a)) ELSE NbRemove(S, a)

(***************************************************************************)
(* Maps, written as a whole.                                               *)
(***************************************************************************)
\* The map of the row with the entries m, after a's entry is replaced.
WithEntry(m, a) ==
    (m \ At(m, a)) \cup {[id |-> r.id, key |-> a.key, val |-> a.val] : r \in m}

\* The vips are not verified: the map of the copy goes back.
LbAddBlind(S, a) ==
    IF S = {} \/ a.opt = "add-duplicate" THEN Insert(a)
    ELSE IF Cardinality(Ids(S)) > 1 \/ (At(S, a) # {} /\ a.opt # "may-exist") THEN Nothing
    ELSE Op({}, WithEntry(S, a), {a.key})

nbctl_lb_add(S, a) ==
    IF S = {} \/ a.opt = "add-duplicate" THEN Insert(a)
    ELSE IF Cardinality(Ids(S)) > 1 \/ (At(S, a) # {} /\ a.opt # "may-exist") THEN Nothing
    ELSE Verify({"rows"}, Op({}, WithEntry(S, a), {a.key}))

\* A vip; the load balancer with its last vip.  All: the load balancer.
nbctl_lb_del(S, a) ==
    IF Cardinality(Ids(S)) # 1 THEN Nothing
    ELSE IF a.opt = "all" THEN Op(Ids(S), {}, NbKeys)
    ELSE IF At(S, a) = {} THEN Nothing
    ELSE IF S = At(S, a) THEN Op(Ids(S), {}, {a.key})
    ELSE Verify({"rows"}, Op({}, S \ At(S, a), {a.key}))

copp_meter_add(S, a) ==
    IF S = {} THEN Insert(a)
    ELSE IF Cardinality(Ids(S)) > 1 THEN Nothing ELSE Op({}, WithEntry(S, a), {a.key})
copp_meter_del(S, a) ==
    IF Cardinality(Ids(S)) # 1 THEN Nothing
    ELSE IF a.opt = "all" \/ S = At(S, a) THEN Op(Ids(S), {}, NbKeys)
    ELSE IF At(S, a) = {} THEN Nothing ELSE Op({}, S \ At(S, a), {a.key})

(***************************************************************************)
(* The transaction a command of the topic t may send, the table's indexes, *)
(* and the server.                                                         *)
(***************************************************************************)
Commands(t, S, a) ==
    CASE t = "ls" -> nbctl_ls_add(S, a) \cup nbctl_ls_del(S, a)
      [] t = "lr" -> nbctl_lr_add(S, a) \cup nbctl_lr_del(S, a)
      [] t = "lsp" -> nbctl_lsp_add(S, a) \cup nbctl_lsp_del(S, a) \cup nbctl_lsp_set_options(S, a)
                      \cup nbctl_lsp_set_type(S, a)
      [] t = "addresses" -> nbctl_lsp_add(S, a) \cup nbctl_lsp_set_addresses(S, a)
      [] t = "lrp" -> nbctl_lrp_add(S, a) \cup nbctl_lrp_del(S, a) \cup nbctl_lrp_set_options(S, a)
      [] t = "mirror" -> nbctl_mirror_add(S, a) \cup nbctl_mirror_del(S, a)
      [] t = "meter" -> nbctl_meter_add(S, a) \cup nbctl_meter_del(S, a)
      [] t = "fwd_group" -> nbctl_fwd_group_add(S, a) \cup nbctl_fwd_group_del(S, a)
      [] t = "pg" -> cmd_pg_add(S, a) \cup cmd_pg_del(S, a) \cup cmd_pg_set_ports(S, a)
      [] t = "ha_group" -> cmd_ha_ch_grp_add(S, a) \cup cmd_ha_ch_grp_del(S, a)
      [] t = "dhcp" -> Insert(a) \cup nbctl_dhcp_options_del(S, a)
                       \cup nbctl_dhcp_options_set_options(S, a)
      [] t = "acl" -> nbctl_acl_add(S, a) \cup nbctl_acl_del(S, a)
      [] t = "qos" -> nbctl_qos_add(S, a) \cup nbctl_qos_del(S, a)
      [] t = "policy" -> nbctl_lr_policy_add(S, a) \cup nbctl_lr_policy_del(S, a)
      [] t = "ls_lb" -> nbctl_ls_lb_add(S, a) \cup nbctl_ls_lb_del(S, a)
      [] t = "lr_lb" -> nbctl_lr_lb_add(S, a) \cup nbctl_lr_lb_del(S, a)
      [] t = "mirrors" -> nbctl_lsp_attach_mirror(S, a) \cup nbctl_lsp_detach_mirror(S, a)
      [] t = "nat" -> nbctl_lr_nat_add(S, a) \cup nbctl_lr_nat_del(S, a)
                      \cup nbctl_lr_nat_set_ext_ips(S, a)
      [] t = "route" -> nbctl_lr_route_add(S, a) \cup nbctl_lr_route_del(S, a)
      [] t = "static_mac" -> nbctl_static_mac_binding_add(S, a) \cup nbctl_static_mac_binding_del(S, a)
      [] t = "ha_chassis" -> cmd_ha_ch_grp_add_chassis(S, a) \cup cmd_ha_ch_grp_remove_chassis(S, a)
                             \cup cmd_ha_ch_grp_set_chassis_prio(S, a)
      [] t = "gateway" -> nbctl_lrp_set_gateway_chassis(S, a) \cup nbctl_lrp_del_gateway_chassis(S, a)
      [] t = "lb_add" -> nbctl_lb_add(S, a)
      [] t = "lb" -> nbctl_lb_add(S, a) \cup nbctl_lb_del(S, a)
      [] t = "copp" -> copp_meter_add(S, a) \cup copp_meter_del(S, a)

Indexed(t) == t \in {"lsp", "addresses", "lrp", "mirror", "meter", "pg", "ha_group", "static_mac",
                     "gateway", "copp"}

\* do_nbctl(): a command that changes nothing sends nothing.
do_nbctl(c) ==
    /\ nbclient[c].txn = {} /\ nbcount.cmds < MaxNbCmds
    /\ \E a \in NbArgs : \E op \in Commands(nbtopic, nbclient[c].copy, a) :
            nbclient' = [nbclient EXCEPT ![c].txn = {[args |-> a, op |-> op]}]
    /\ nbcount' = [nbcount EXCEPT !.cmds = @ + 1]
    /\ UNCHANGED <<nbtopic, nbdb, nbdone>>

NbRead(c) ==
    /\ nbclient[c].copy # nbdb /\ nbclient[c].txn = {}
    /\ nbclient' = [nbclient EXCEPT ![c].copy = nbdb]
    /\ UNCHANGED <<nbtopic, nbdb, nbcount, nbdone>>

Written(op) ==
    LET kept == IF op.all THEN {} ELSE {r \in nbdb : r.id \notin op.del \cup Ids(op.put)}
    IN  kept \cup {IF r.id = 0 THEN [r EXCEPT !.id = nbcount.id + 1] ELSE r :
                      r \in {x \in op.put : x.id \in Ids(nbdb) \cup {0}}}

RowsWith(S, i) == {r \in S : r.id = i}
Stale(c, op) ==
    \/ "column" \in op.verify /\ Ids(nbdb) # Ids(nbclient[c].copy)
    \/ "rows" \in op.verify /\ \E i \in Ids(op.put) : RowsWith(nbdb, i) # RowsWith(nbclient[c].copy, i)
Clash(op) == Indexed(nbtopic) /\ \E r, s \in Written(op) : r # s /\ r.key = s.key
                /\ (r.id # s.id)

NbCommit(c) ==
    \E t \in nbclient[c].txn :
        /\ ~Stale(c, t.op) /\ ~Clash(t.op)
        /\ nbdb' = Written(t.op)
        /\ nbcount' = [nbcount EXCEPT !.id = IF Written(t.op) # nbdb THEN @ + 1 ELSE @]
        /\ nbdone' = t.op.names
        /\ nbclient' = [nbclient EXCEPT ![c].txn = {}, ![c].copy = nbdb']
        /\ UNCHANGED nbtopic

\* TXN_TRY_AGAIN: the same command on a fresh copy.  TXN_ERROR ends it.
NbAgain(c) ==
    \E t \in nbclient[c].txn :
        /\ Stale(c, t.op)
        /\ LET again == Commands(nbtopic, nbdb, t.args)
           IN  IF again = {} THEN nbclient' = [nbclient EXCEPT ![c].txn = {}, ![c].copy = nbdb]
               ELSE \E op \in again : nbclient' = [nbclient EXCEPT
                        ![c] = [copy |-> nbdb, txn |-> {[args |-> t.args, op |-> op]}]]
        /\ UNCHANGED <<nbtopic, nbdb, nbcount, nbdone>>

NbError(c) ==
    /\ \E t \in nbclient[c].txn : ~Stale(c, t.op) /\ Clash(t.op)
    /\ nbclient' = [nbclient EXCEPT ![c].txn = {}]
    /\ UNCHANGED <<nbtopic, nbdb, nbcount, nbdone>>

NbctlNext ==
    \E c \in NbClients : do_nbctl(c) \/ NbRead(c) \/ NbCommit(c) \/ NbAgain(c) \/ NbError(c)

NbctlSpec == NbctlInit /\ [][NbctlNext]_nbVars

(***************************************************************************)
(* Properties.                                                             *)
(***************************************************************************)
\* A command takes away or changes only what its arguments name: rows that
\* another client committed after this one took its copy survive, whether the
\* command removes a value, sets a column or adds a vip to a load balancer.
\* It is a property of the topics that change rows and of lb-add, which verifies
\* the vips.  It is false of the topics lb (lb-del of the vip that is the last
\* one in the copy deletes the load balancer, unverified), copp and gateway
\* (whole maps and columns, unverified).
OnlyTargetsRemoved == [][nbdb' # nbdb => \A r \in nbdb \ nbdb' : r.key \in nbdone']_nbVars
=============================================================================
