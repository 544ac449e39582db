------------------------------ MODULE MacAging ------------------------------
(***************************************************************************)
(* The aging of one MAC_Binding or FDB row: the statctrl thread of         *)
(* ovn-controller asks the switch how long the flows of the row have been  *)
(* idle, its main thread refreshes the row's timestamp or probes the       *)
(* neighbour, and ovn-northd deletes the row when the timestamp is too     *)
(* old.  Time is in ticks; one tick separates any two events that the code *)
(* puts a timer between.                                                   *)
(*                                                                         *)
(* Left out: the limit of rows that one run of northd removes              *)
(* (mac_binding_removal_limit, fdb_removal_limit), after which it          *)
(* continues AGING_BULK_REMOVAL_DELAY_MSEC later; it is 0, no limit, by    *)
(* default.                                                                *)
(***************************************************************************)
EXTENDS Integers, FiniteSets, FiniteSetsExt

CONSTANTS
    AgConfigs,      \* values of mac_binding_age_threshold: sets of entries (see below)
    MaxAgBusy,      \* bound: ticks the Southbound stays read-only at a stretch
    MaxAgReply,     \* bound: ticks the switch takes to answer a statistics request
    MaxAgModes      \* bound: changes of the traffic

VARIABLES
    agkind,         \* "mb" or "fdb"
    agcfg,          \* the configured thresholds
    agrow,          \* ticks since the row's timestamp ({} while there is no row)
    agidle,         \* ticks since the flows of the row were hit: rx (the neighbour
                    \* sends, OFTABLE_MAC_CACHE_USE or LOOKUP_FDB), tx (OFTABLE_MAC_BINDING)
    agmode,         \* the traffic: rx, tx (the neighbour only answers ARP), none; and since when
    agnode,         \* struct stats_node of each statistics request
    agwake,         \* aging_waker of northd: ticks to go ({} if not scheduled)
    agbusy          \* ticks since ovn-controller had a Southbound transaction

agVars == <<agkind, agcfg, agrow, agidle, agmode, agnode, agwake, agbusy>>

(***************************************************************************)
(* The thresholds.  An entry of the option is [CIDR:]THRESHOLD; here only  *)
(* whether its prefix matches the row's address, and the prefix length,    *)
(* which is 0 for an entry without a CIDR.                                 *)
(***************************************************************************)
default_threshold(cfg) == LET d == {e \in cfg : e.plen = 0}
                          IN  IF d = {} THEN 0 ELSE (CHOOSE e \in d : TRUE).threshold

\* The first entry that matches, the longest prefix first.
find_threshold_for_ip(cfg) ==
    LET m == {e \in cfg : e.plen > 0 /\ e.matches}
    IN  IF m = {} THEN default_threshold(cfg)
        ELSE (CHOOSE e \in m : \A f \in m : f.plen <= e.plen).threshold

min_mac_binding_age_threshold(cfg) ==
    LET t == {e.threshold : e \in cfg} \ {0} IN IF t = {} THEN 0 ELSE Min(t)

\* mac_cache_threshold_add(): both periods are 3/16 of the threshold.
Period(v) == (3 * v) \div 16
AgValue == min_mac_binding_age_threshold(agcfg)
DumpPeriod == Period(AgValue)
CooldownPeriod == Period(AgValue)

\* The assertion there, for every threshold the runs use.
ThresholdAssert == \A cfg \in AgConfigs : LET v == min_mac_binding_age_threshold(cfg)
                                          IN  v > 0 => 2 * (Period(v) + Period(v)) < (9 * v) \div 10

AgMax == Max({e.threshold : e \in UNION AgConfigs})
AgSlack == MaxAgBusy + MaxAgReply + 1

\* Nodes of statctrl_init(); an FDB entry is not probed.
AgNodes == IF agkind = "mb" THEN {"use", "probe"} ELSE {"use"}

\* Some threshold is set, or nothing is asked of the switch and no row ages.
ASSUME AgConfigsAssumption ==
    \A cfg \in AgConfigs : /\ min_mac_binding_age_threshold(cfg) \in 1..AgMax
                           /\ find_threshold_for_ip(cfg) \in 0..AgMax
ASSUME AgBoundsAssumption == MaxAgBusy \in Nat /\ MaxAgReply \in Nat /\ AgMax \in Nat
\* A request is answered before the next one is due, a report waits about a
\* period at most, and what mac_cache_threshold_add() leaves of a threshold
\* over its periods is enough for both.
ASSUME AgTimingAssumption ==
    \A cfg \in AgConfigs :
        LET p == Period(min_mac_binding_age_threshold(cfg))
            t == find_threshold_for_ip(cfg)
        IN  /\ MaxAgReply < p /\ MaxAgBusy + MaxAgReply <= p + 1
            /\ t # 0 => 4 * p + AgSlack < t

\* The largest age the comment in mac_cache_threshold_add() allows to a row in
\* use, and the time that processing may take.
LongestAge(mode) == (IF mode = "tx" THEN 2 ELSE 1) * (CooldownPeriod + DumpPeriod) + AgSlack

SinceMax(mode) == IF mode = "none" THEN 2 * AgMax + AgSlack ELSE LongestAge(mode) + 1

MacAgingInit ==
    /\ agkind \in {"mb", "fdb"}
    /\ agcfg \in AgConfigs
    /\ agrow = {0}
    /\ agidle = [rx |-> 0, tx |-> 0]
    /\ agmode \in [traffic : {"rx", "tx", "none"}, since : {0}, changes : {0}]
    /\ agmode.traffic = "tx" => agkind = "mb"
    /\ agnode = [n \in {"use", "probe"} |-> [next |-> DumpPeriod, req |-> {}, list |-> {}]]
    /\ agwake = {}
    /\ agbusy = 0

MacAgingTypeOK ==
    /\ ThresholdAssert
    /\ agrow \subseteq 0..AgMax /\ Cardinality(agrow) <= 1
    /\ agidle \in [rx : 0..(AgMax + 1), tx : 0..(AgMax + 1)]
    /\ \A n \in {"use", "probe"} : /\ agnode[n].next \in 0..AgMax
                                   /\ agnode[n].req \subseteq 0..(MaxAgReply + 1)
                                   /\ agnode[n].list \subseteq 0..(AgMax + 1)
    /\ agwake \subseteq 0..AgMax
    /\ agbusy \in 0..MaxAgBusy

(***************************************************************************)
(* The statctrl thread.                                                    *)
(***************************************************************************)
\* statctrl_send_request(): the new xid replaces the one of a request that
\* has not been answered, whose reply will be ignored.
statctrl_send_request(n) ==
    /\ n \in AgNodes /\ agnode[n].next = 0
    /\ agnode' = [agnode EXCEPT ![n].next = DumpPeriod, ![n].req = {0}]
    /\ UNCHANGED <<agkind, agcfg, agrow, agidle, agmode, agwake, agbusy>>

\* statctrl_handle_rconn_msg(), statctrl_decode_statistics_reply() and
\* process_flow_stats: the reply holds the idle age of the row's flow.
statctrl_handle_reply(n) ==
    /\ agnode[n].req # {}
    /\ agnode' = [agnode EXCEPT ![n].req = {}, ![n].list =
                      @ \cup (IF agrow = {} THEN {}
                              ELSE {IF n = "use" THEN agidle.rx ELSE agidle.tx})]
    /\ UNCHANGED <<agkind, agcfg, agrow, agidle, agmode, agwake, agbusy>>

(***************************************************************************)
(* The main thread: statctrl_run() with a transaction.                     *)
(***************************************************************************)
\* mac_binding_stats_run(), fdb_stats_run()
Stamped(row) ==
    IF row # {} /\ Min(row) >= CooldownPeriod /\ \E i \in agnode["use"].list : i < AgValue
    THEN {0} ELSE row

\* Only a row that is nearly expired is probed.
ProbedLate(row) ==
    /\ row # {} /\ Min(row) >= AgValue - 1
    /\ \E i \in agnode["probe"].list : i <= AgValue

\* mac_binding_probe_stats_run(): the answer to the request it sends is a hit
\* of the flow in OFTABLE_MAC_CACHE_USE.
Probed(row) ==
    /\ row # {} /\ Min(row) >= CooldownPeriod
    /\ \E i \in agnode["probe"].list : i <= AgValue

statctrl_run ==
    /\ \E n \in AgNodes : agnode[n].list # {}
    /\ LET row == Stamped(agrow) IN
        /\ agrow' = row
        /\ agidle' = IF Probed(row) /\ agmode.traffic # "none" THEN [agidle EXCEPT !.rx = 0] ELSE agidle
    /\ agnode' = [n \in DOMAIN agnode |-> [agnode[n] EXCEPT !.list = {}]]
    /\ agbusy' = 0
    /\ UNCHANGED <<agkind, agcfg, agmode, agwake>>

(***************************************************************************)
(* ovn-northd.                                                             *)
(***************************************************************************)
\* en_mac_binding_aging_run(), en_fdb_aging_run() with
\* aging_context_handle_timestamp() and aging_waker_schedule_next_wake().  The
\* engine runs the node when the waker is due or the table changes.
AgExpired == LET t == find_threshold_for_ip(agcfg) IN t # 0 /\ \E a \in agrow : a >= t

en_aging_run ==
    /\ 0 \in agwake \/ agwake = {}
    /\ agrow' = IF AgExpired THEN {} ELSE agrow
    /\ agwake' = LET t == find_threshold_for_ip(agcfg)
                 IN  IF t = 0 \/ AgExpired THEN {} ELSE {t - a : a \in agrow}
    /\ UNCHANGED <<agkind, agcfg, agidle, agmode, agnode, agbusy>>

\* The row is learnt again: pinctrl writes it with the current time.
Learn ==
    /\ agrow = {} /\ agmode.traffic # "none"
    /\ agrow' = {0}
    /\ agmode' = [agmode EXCEPT !.since = 0]
    /\ UNCHANGED <<agkind, agcfg, agidle, agnode, agwake, agbusy>>

Traffic(m) ==
    /\ agmode.changes < MaxAgModes
    /\ m # agmode.traffic /\ (m = "tx" => agkind = "mb")
    /\ agmode' = [traffic |-> m, since |-> 0, changes |-> agmode.changes + 1]
    /\ UNCHANGED <<agkind, agcfg, agrow, agidle, agnode, agwake, agbusy>>

(***************************************************************************)
(* Time.  A tick waits for what is due: requests, replies that are late,   *)
(* reports that wait for a transaction, northd's timer, and learning.      *)
(***************************************************************************)
Later(n, max) == IF n < max THEN n + 1 ELSE n

AgTick ==
    /\ \A n \in AgNodes : agnode[n].next > 0 /\ MaxAgReply \notin agnode[n].req
    /\ (\E n \in AgNodes : agnode[n].list # {}) => agbusy < MaxAgBusy
    /\ 0 \notin agwake /\ ~AgExpired
    /\ agmode.traffic # "none" => agrow # {}
    /\ agrow' = {Later(a, AgMax) : a \in agrow}
    /\ agidle' = [rx |-> IF agmode.traffic = "rx" THEN 0 ELSE Later(agidle.rx, AgMax + 1),
                  tx |-> IF agmode.traffic = "tx" THEN 0 ELSE Later(agidle.tx, AgMax + 1)]
    /\ agnode' = [n \in DOMAIN agnode |->
                     IF n \notin AgNodes THEN agnode[n]
                     ELSE [agnode[n] EXCEPT !.next = @ - 1, !.req = {r + 1 : r \in @}]]
    /\ agwake' = {w - 1 : w \in agwake}
    /\ agmode' = [agmode EXCEPT !.since = Later(@, SinceMax(agmode.traffic))]
    /\ agbusy' = IF \E n \in AgNodes : agnode[n].list # {} THEN agbusy + 1 ELSE 0
    /\ UNCHANGED <<agkind, agcfg>>

MacAgingNext ==
    \/ \E n \in {"use", "probe"} : statctrl_send_request(n) \/ statctrl_handle_reply(n)
    \/ statctrl_run \/ en_aging_run \/ Learn \/ AgTick
    \/ \E m \in {"rx", "tx", "none"} : Traffic(m)

MacAgingSpec == MacAgingInit /\ [][MacAgingNext]_agVars

(***************************************************************************)
(* Properties.                                                             *)
(***************************************************************************)
\* A row in use is refreshed in time and never deleted: its timestamp is no
\* older than the comment in mac_cache_threshold_add() says, so that its age
\* stays below the threshold northd deletes it by.
ActiveKept ==
    agmode.traffic # "none" /\ agmode.since > LongestAge(agmode.traffic)
    => agrow # {} /\ \A a \in agrow : a <= LongestAge(agmode.traffic)

\* A row that nobody uses is gone after twice its threshold (a report of use
\* less than a threshold ago still refreshes it), unless its own is 0.
IdleRemoved ==
    /\ agmode.traffic = "none" /\ find_threshold_for_ip(agcfg) # 0
    /\ agmode.since >= AgValue + find_threshold_for_ip(agcfg) + AgSlack
    => agrow = {}

\* Both: use, as the switch reports it, decides the life of a row.
AgedByUse == ActiveKept /\ IdleRemoved
=============================================================================
