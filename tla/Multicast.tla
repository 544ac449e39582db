------------------------------ MODULE Multicast ------------------------------
(***************************************************************************)
(* IP multicast of one logical switch: the snooping of pinctrl.c on one    *)
(* chassis, and the multicast groups that northd builds from its results.  *)
(*                                                                         *)
(* The main thread copies the configuration of the Southbound's            *)
(* IP_Multicast row to mcast_cfg_map, the handler thread applies it to its *)
(* snooping table (a mcast_snooping of Open vSwitch, external) and learns  *)
(* groups, the main thread writes what the table holds as IGMP_Group rows, *)
(* northd gives every group a Multicast_Group row with a tunnel key.  Each *)
(* of these steps computes its result anew from what it reads, so that a   *)
(* failed transaction is one that did not happen.                          *)
(*                                                                         *)
(* Left out: multicast routers, querier packets, and ports with            *)
(* mcast_flood, for which a group is skipped.                              *)
(***************************************************************************)
EXTENDS Integers, Sequences, FiniteSets, SequencesExt

CONSTANTS
    McGroups,       \* multicast addresses
    McSizes,        \* values of table_size
    DefaultSize,    \* MCAST_DEFAULT_MAX_ENTRIES of Open vSwitch
    McKeys,         \* OVN_MIN_IP_MULTICAST..OVN_MAX_IP_MULTICAST
    MaxMcEvents     \* bound: changes of the configuration, reports, restarts

VARIABLES
    mcrow,          \* the IP_Multicast row
    mclocal,        \* the switch is a local datapath of the chassis
    mccfg,          \* its entry in mcast_cfg_map: {} or {configuration}
    mcsnoop,        \* its entry in mcast_snoop_map: {} or {instance}
    mcigmp,         \* the IGMP_Group rows
    mcgroup,        \* the Multicast_Group rows
    mctnlids,       \* group_tnlids of the switch in northd
    mcevents        \* events so far

mcVars == <<mcrow, mclocal, mccfg, mcsnoop, mcigmp, mcgroup, mctnlids, mcevents>>

NoTable == [max |-> 0, lru |-> <<>>]

MulticastInit ==
    /\ mcrow \in [enabled : BOOLEAN, size : McSizes, seq : {0}]
    /\ mclocal = TRUE
    /\ mccfg = {} /\ mcsnoop = {} /\ mcigmp = {} /\ mcgroup = {} /\ mctnlids = {}
    /\ mcevents = 0

MulticastTypeOK ==
    /\ mcrow.enabled \in BOOLEAN /\ mclocal \in BOOLEAN
    /\ \A i \in mcsnoop : /\ Range(i.ms.lru) \subseteq McGroups
                          /\ Len(i.ms.lru) <= i.ms.max
                          /\ ~i.cfg.enabled => i.ms = NoTable
    /\ mctnlids \subseteq McKeys
    /\ \A g \in mcgroup : g.key \in McKeys

McEvent ==
    /\ mcevents < MaxMcEvents
    /\ mcevents' = mcevents + 1

(***************************************************************************)
(* The environment: the configuration, which northd copies from the        *)
(* Northbound; ip-multicast-flush of ovn-sbctl; the switch comes and goes  *)
(* on the chassis; the chassis' row is deleted.                            *)
(***************************************************************************)
SetMcastConfig ==
    /\ McEvent
    /\ \E e \in BOOLEAN, s \in McSizes : mcrow' = [mcrow EXCEPT !.enabled = e, !.size = s]
    /\ UNCHANGED <<mclocal, mccfg, mcsnoop, mcigmp, mcgroup, mctnlids>>

ip_multicast_flush ==
    /\ McEvent
    /\ mcrow' = [mcrow EXCEPT !.seq = @ + 1]
    /\ UNCHANGED <<mclocal, mccfg, mcsnoop, mcigmp, mcgroup, mctnlids>>

LocalChanges ==
    /\ McEvent
    /\ mclocal' = ~mclocal
    /\ UNCHANGED <<mcrow, mccfg, mcsnoop, mcigmp, mcgroup, mctnlids>>

\* The references of the rows to the chassis are weak.
ChassisDeleted ==
    /\ McEvent
    /\ mcigmp' = {[r EXCEPT !.chassis = FALSE] : r \in mcigmp}
    /\ mccfg' = {} /\ mcsnoop' = {}
    /\ UNCHANGED <<mcrow, mclocal, mcgroup, mctnlids>>

(***************************************************************************)
(* The handler thread.                                                     *)
(***************************************************************************)
\* The groups a table of n entries keeps: mcast_snooping_run() and
\* mcast_snooping_add_group() (external) evict the least recently used ones.
Newest(lru, n) == IF Len(lru) > n THEN SubSeq(lru, Len(lru) - n + 1, Len(lru)) ELSE lru

AddGroup(ms, g) ==
    [ms EXCEPT !.lru = Newest(Append(RemoveFirst(@, g), g), ms.max)]
LeaveGroup(ms, g) == [ms EXCEPT !.lru = RemoveFirst(@, g)]

\* pinctrl_ip_mcast_handle(): a report or a leave of IGMP or MLD.
pinctrl_ip_mcast_handle(g, joins) ==
    /\ McEvent
    /\ \E i \in mcsnoop :
        /\ i.cfg.enabled
        /\ mcsnoop' = {[i EXCEPT !.ms = IF joins THEN AddGroup(@, g) ELSE LeaveGroup(@, g)]}
    /\ UNCHANGED <<mcrow, mclocal, mccfg, mcigmp, mcgroup, mctnlids>>

\* ip_mcast_snoop_configure(): the table of an instance that was disabled is a
\* new one; what the configuration says of it is applied where it differs from
\* the previous configuration, 0 of which is that of a new instance.
ip_mcast_snoop_configure(i, cfg) ==
    LET fresh == IF i.cfg.enabled THEN i.ms ELSE [max |-> DefaultSize, lru |-> <<>>]
        kept == IF i.cfg.enabled /\ i.cfg.seq # cfg.seq THEN [fresh EXCEPT !.lru = <<>>] ELSE fresh
        max == IF cfg.size # i.cfg.size THEN cfg.size ELSE kept.max
    IN  [cfg |-> cfg,
         ms |-> IF cfg.enabled THEN [max |-> max, lru |-> Newest(kept.lru, max)] ELSE NoTable]

NewInstance == [cfg |-> [enabled |-> FALSE, size |-> 0, seq |-> 0], ms |-> NoTable]

\* ip_mcast_snoop_run(): configuration first, then instances without one go.
SnoopsConfigured ==
    IF mcsnoop = {} THEN {ip_mcast_snoop_configure(NewInstance, c) : c \in mccfg}
    ELSE UNION {{IF i.cfg = c THEN i ELSE ip_mcast_snoop_configure(i, c) : c \in mccfg} :
                i \in mcsnoop}
ip_mcast_snoop_run ==
    /\ mcsnoop' = SnoopsConfigured
    /\ UNCHANGED <<mcrow, mclocal, mccfg, mcigmp, mcgroup, mctnlids, mcevents>>

(***************************************************************************)
(* The main thread: ip_mcast_sync().                                       *)
(***************************************************************************)
\* "Then flush any IGMP_Group entries that are not needed anymore", forgotten.
RowsStay(rows) == rows

\* The rows of the chassis that the loop over IGMP_Group leaves: those whose
\* group the table still holds.  Rows of other owners are skipped.
RowsNeeded(rows) ==
    {r \in rows : r.chassis => \E i \in mcsnoop : i.cfg.enabled /\ r.group \in Range(i.ms.lru)}

\* The groups that the chassis has learnt.
Learnt == UNION {Range(i.ms.lru) : i \in {x \in mcsnoop : x.cfg.enabled}}

\* A changed seq_no deletes the chassis' rows; the table, which the handler
\* thread flushes later, may write them again at once.
ConfigCopied == IF mclocal THEN {mcrow} ELSE {}
RowsSynced ==
    LET flush == \E c \in mccfg : c.seq # mcrow.seq
        kept == IF flush THEN {r \in mcigmp : ~r.chassis} ELSE mcigmp
    IN  IF ~mclocal THEN kept
        ELSE RowsNeeded(kept) \cup {[group |-> g, chassis |-> TRUE] : g \in Learnt}

ip_mcast_sync ==
    /\ mccfg' = ConfigCopied
    /\ mcigmp' = RowsSynced
    /\ UNCHANGED <<mcrow, mclocal, mcsnoop, mcgroup, mctnlids, mcevents>>

(***************************************************************************)
(* northd.                                                                 *)
(***************************************************************************)

\* ovn_igmp_group_add() for every row marks the keys of the groups that have
\* one in the Southbound, then ovn_igmp_group_allocate_id() gives free keys to
\* the others, as far as there are any.
NewKeys(rows, names, used) ==
    LET old == {r.key : r \in {x \in rows : x.name \in names}}
        free == SetToSeq(McKeys \ (used \cup old))
        new == SetToSeq(names \ {r.name : r \in rows})
    IN  {[name |-> new[i], key |-> free[i]] : i \in {j \in DOMAIN new : j <= Len(free)}}

\* en_multicast_igmp_run(): build_mcast_groups() purges rows without a chassis
\* and sync_multicast_groups_to_sb() deletes groups nobody asked for.  The keys
\* stay marked in group_tnlids until the switches are built again.
Asked == {r.group : r \in {x \in mcigmp : x.chassis}}
GroupsBuilt(used) == {g \in mcgroup : g.name \in Asked} \cup NewKeys(mcgroup, Asked, used)

en_multicast_igmp_run(recompute) ==
    LET used == IF recompute THEN {} ELSE mctnlids
    IN  /\ mcigmp' = {r \in mcigmp : r.chassis}
        /\ mcgroup' = GroupsBuilt(used)
        /\ mctnlids' = used \cup {g.key : g \in GroupsBuilt(used)}
        /\ UNCHANGED <<mcrow, mclocal, mccfg, mcsnoop, mcevents>>

MulticastNext ==
    \/ SetMcastConfig \/ ip_multicast_flush \/ LocalChanges \/ ChassisDeleted
    \/ \E g \in McGroups, j \in BOOLEAN : pinctrl_ip_mcast_handle(g, j)
    \/ ip_mcast_snoop_run \/ ip_mcast_sync
    \/ \E r \in BOOLEAN : en_multicast_igmp_run(r)

MulticastSpec == MulticastInit /\ [][MulticastNext]_mcVars

(***************************************************************************)
(* Properties.                                                             *)
(***************************************************************************)
\* Two groups of a switch never share a tunnel key, though keys are given out
\* by runs that see different sets of groups, after restarts and recomputes.
GroupKeysDiffer ==
    \A g, h \in mcgroup : (g.key = h.key \/ g.name = h.name) => g = h

\* Nothing is left to do for the handler thread, pinctrl_run() or northd's node.
McQuiet ==
    /\ SnoopsConfigured = mcsnoop
    /\ ConfigCopied = mccfg /\ RowsSynced = mcigmp
    /\ {r \in mcigmp : r.chassis} = mcigmp
    /\ GroupsBuilt(mctnlids) = mcgroup /\ {g.key : g \in mcgroup} \subseteq mctnlids

\* While the switch is local, the groups northd forwards become exactly the
\* groups the handler's table holds, whatever flushes, changes of the
\* configuration, restarts and evictions came before: no stale group stays and
\* no learnt group is missing, given enough tunnel keys.
GroupsForwarded == McQuiet /\ mclocal => {g.name : g \in mcgroup} = Learnt

\* No group waits for a tunnel key while none is left.
KeyLeft ==
    (\E n \in Asked : n \notin {g.name : g \in mcgroup}) => \E k \in McKeys : k \notin mctnlids

\* The snooping table has the size the configuration gives it
\* (mcast_table_size), as ip_mcast_snoop_configure() sets it.
SnoopAsConfigured == \A i \in mcsnoop : i.cfg.enabled => i.ms.max = i.cfg.size
=============================================================================
