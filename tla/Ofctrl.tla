------------------------------- MODULE Ofctrl -------------------------------
(***************************************************************************)
(* controller/ofctrl.c: the OpenFlow side of ovn-controller.               *)
(*                                                                         *)
(* A connection to the integration bridge goes through the states of a     *)
(* small machine (Geneve option negotiation, the wait-before-clear hold,   *)
(* the clearing of whatever was there) until S_UPDATE_FLOWS, in which      *)
(* ofctrl_put() sends the difference between the desired and the installed *)
(* flow tables, followed by a barrier.  The barrier's reply moves cur_cfg  *)
(* and the conntrack zones whose flush it covers.                          *)
(*                                                                         *)
(* A flow table is abstracted to the version of its contents.  A put sends *)
(* "from one version to the other": applied to anything but the version it *)
(* starts from it leaves the table Mixed.  The groups and meters that go   *)
(* along are part of the version.  rconn and the switch are external code: *)
(* two FIFO channels that are lost with the connection, and a switch that  *)
(* answers in order.                                                       *)
(***************************************************************************)
EXTENDS Integers, Sequences, FiniteSets, SequencesExt

CONSTANTS
    Tables,     \* the desired flow tables: those of lflow_output, pflow_output
    Zones,      \* conntrack zones that may have to be flushed
    TlvStates,  \* Geneve mappings the switch may start with
    WaitTimes,  \* ovn-ofctrl-wait-before-clear: 0 or (any) 1
    MaxDrops,   \* bound: lost connections, switch restarts included
    MaxErrors,  \* bound: requests the switch refuses
    MaxRaces    \* bound: Geneve races lost against another controller

ASSUME TlvAssumption ==
    TlvStates \subseteq {"ours", "free", "full", "unsupported"}
ASSUME WaitAssumption == WaitTimes \subseteq {0, 1}
ASSUME BudgetAssumption == {MaxDrops, MaxErrors, MaxRaces} \subseteq Nat

VARIABLES
    (* rconn and the switch *)
    conn,           \* rconn_is_connected()
    conn_changed,   \* seqno differs from rconn_get_connection_seqno()
    to_switch, to_ofctrl,
    sw_flows,       \* version of each table in the switch
    sw_reached,     \* history: newest version of each table it ever held
    sw_tlv,         \* does the switch map our Geneve option?
    sw_flushed,     \* history: zones flushed since the flush was asked for
    n_drops, n_errors, n_races,
    (* the state machine of ofctrl_run() *)
    state, old_state, xid, xid2, next_xid, mff_ovn_geneve,
    wait_before_clear_time, wait_before_clear_expire, initial_flows_ready,
    may_clear,      \* history: this connection's tables are complete, or the
                    \* hold it started has run out
    (* flow tables *)
    desired, change_tracked,
    tracked_from,   \* version at which change tracking began
    installed,      \* installed_lflows, installed_pflows
    ofctrl_initial_clear,
    (* sequence numbers *)
    flow_updates, cur_cfg, old_req_cfg, skipped_last_time,
    (* pending_ct_zones *)
    zone_state, zone_xid

net_vars == <<conn, conn_changed, to_switch, to_ofctrl>>
switch_vars == <<sw_flows, sw_reached, sw_tlv, sw_flushed>>
budget_vars == <<n_drops, n_errors, n_races>>
fsm_vars == <<state, xid, xid2, next_xid, mff_ovn_geneve>>
wait_vars == <<wait_before_clear_time, wait_before_clear_expire,
               initial_flows_ready, may_clear>>
desired_vars == <<desired, change_tracked, tracked_from>>
table_vars == <<desired, change_tracked, tracked_from, installed, ofctrl_initial_clear>>
cfg_vars == <<flow_updates, cur_cfg, old_req_cfg, skipped_last_time>>
zone_vars == <<zone_state, zone_xid>>
ofctrl_vars == <<net_vars, switch_vars, budget_vars, fsm_vars, old_state, wait_vars,
                 table_vars, cfg_vars, zone_vars>>

Empty == 0      \* version of a table without flows; real versions are larger
Mixed == -1     \* neither one version nor another
Foreign == -2   \* flows of an earlier ovn-controller, still forwarding

States == {"S_NEW", "S_TLV_TABLE_REQUESTED", "S_TLV_TABLE_MOD_SENT",
           "S_WAIT_BEFORE_CLEAR", "S_CLEAR_FLOWS", "S_UPDATE_FLOWS"}
ZoneStates == {"NONE", "OF_QUEUED", "OF_SENT", "DB_QUEUED", "DB_SENT"}

OfctrlInit ==
    /\ conn = FALSE /\ conn_changed = FALSE
    /\ to_switch = <<>> /\ to_ofctrl = <<>>
    /\ sw_flows = [t \in Tables |-> Foreign]
    /\ sw_reached = [t \in Tables |-> Empty]
    /\ sw_tlv \in TlvStates
    /\ sw_flushed = {}
    /\ n_drops = 0 /\ n_errors = 0 /\ n_races = 0
    /\ state = "S_NEW" /\ old_state = "S_NEW"
    /\ xid = 0 /\ xid2 = 0 /\ next_xid = 1
    /\ mff_ovn_geneve = 0
    /\ wait_before_clear_time \in WaitTimes
    /\ wait_before_clear_expire = "off"
    /\ initial_flows_ready = FALSE /\ may_clear = FALSE
    /\ desired = [t \in Tables |-> Empty]
    /\ change_tracked = [t \in Tables |-> FALSE]
    /\ tracked_from = [t \in Tables |-> Empty]
    /\ installed = [t \in Tables |-> Empty]
    /\ ofctrl_initial_clear = FALSE
    /\ flow_updates = <<>> /\ cur_cfg = 0 /\ old_req_cfg = 0
    /\ skipped_last_time = FALSE
    /\ zone_state = [z \in Zones |-> "NONE"]
    /\ zone_xid = [z \in Zones |-> 0]

-----------------------------------------------------------------------------
(* The switch and the connection: external. *)

Reply(type, id, info) == [type |-> type, xid |-> id, info |-> info]

\* The connection is lost, and with it everything in transit.
Disconnect ==
    /\ conn' = FALSE
    /\ to_switch' = <<>> /\ to_ofctrl' = <<>>

Drop ==
    /\ conn /\ n_drops < MaxDrops
    /\ n_drops' = n_drops + 1
    /\ Disconnect
    /\ UNCHANGED <<conn_changed, switch_vars, n_errors, n_races, fsm_vars, old_state,
                   wait_vars, table_vars, cfg_vars, zone_vars>>

\* ovs-vswitchd restarts: its flows and its Geneve mapping are gone.
Restart ==
    /\ conn /\ n_drops < MaxDrops
    /\ n_drops' = n_drops + 1
    /\ Disconnect
    /\ sw_flows' = [t \in Tables |-> Empty]
    /\ sw_tlv' = IF sw_tlv = "unsupported" THEN sw_tlv ELSE "free"
    /\ UNCHANGED <<conn_changed, sw_reached, sw_flushed, n_errors, n_races, fsm_vars, old_state,
                   wait_vars, table_vars, cfg_vars, zone_vars>>

\* rconn_run() establishes a connection, with a new connection seqno.
Connect ==
    /\ ~conn
    /\ conn' = TRUE /\ conn_changed' = TRUE
    /\ UNCHANGED <<to_switch, to_ofctrl, switch_vars, budget_vars, fsm_vars, old_state,
                   wait_vars, table_vars, cfg_vars, zone_vars>>

SwitchTlvRequest ==
    /\ to_switch # <<>> /\ Head(to_switch).type = "tlv_request"
    /\ to_switch' = Tail(to_switch)
    /\ to_ofctrl' = Append(to_ofctrl,
           IF sw_tlv = "unsupported"
           THEN Reply("error", Head(to_switch).xid, "refused")
           ELSE Reply("tlv_reply", Head(to_switch).xid, sw_tlv))
    /\ UNCHANGED <<conn, conn_changed, switch_vars, budget_vars, fsm_vars, old_state,
                   wait_vars, table_vars, cfg_vars, zone_vars>>

\* NXT_TLV_TABLE_MOD and the barrier behind it.  The mapping is added; or
\* another controller was faster (and mapped the option itself, or another one
\* in its place); or the switch refuses.
SwitchTlvMod ==
    LET m == Head(to_switch)
        answer(msgs) == to_ofctrl' = to_ofctrl \o msgs \o <<Reply("barrier", m.xid2, "")>>
    IN
    /\ to_switch # <<>> /\ m.type = "tlv_mod"
    /\ to_switch' = Tail(to_switch)
    /\ \/ /\ sw_tlv' = "ours"
          /\ answer(<<>>)
          /\ UNCHANGED <<n_errors, n_races>>
       \/ /\ n_races < MaxRaces
          /\ n_races' = n_races + 1
          /\ sw_tlv' \in {"ours", "free", "full"}
          /\ answer(<<Reply("error", m.xid, "raced")>>)
          /\ UNCHANGED n_errors
       \/ /\ n_errors < MaxErrors
          /\ n_errors' = n_errors + 1
          /\ answer(<<Reply("error", m.xid, "refused")>>)
          /\ UNCHANGED <<sw_tlv, n_races>>
    /\ UNCHANGED <<conn, conn_changed, sw_flows, sw_reached, sw_flushed, n_drops, fsm_vars, old_state,
                   wait_vars, table_vars, cfg_vars, zone_vars>>

\* The version of table t after the bundle of message m.
Applied(m, t) ==
    LET base == IF m.clear THEN Empty ELSE sw_flows[t] IN
    IF t \notin DOMAIN m.from THEN base
    ELSE IF m.from[t] = base THEN m.to[t] ELSE Mixed

\* The messages of one ofctrl_put(): conntrack flushes, an atomic bundle, a
\* barrier.  A bundle that fails changes nothing and is answered by an error.
SwitchPut ==
    LET m == Head(to_switch) IN
    /\ to_switch # <<>> /\ m.type = "put"
    /\ to_switch' = Tail(to_switch)
    /\ sw_flushed' = sw_flushed \cup m.flush
    /\ \/ /\ sw_flows' = [t \in Tables |-> Applied(m, t)]
          /\ sw_reached' = [t \in Tables |-> Max({sw_reached[t], Applied(m, t)})]
          /\ to_ofctrl' = Append(to_ofctrl, Reply("barrier", m.xid, ""))
          /\ UNCHANGED n_errors
       \/ /\ n_errors < MaxErrors
          /\ n_errors' = n_errors + 1
          /\ to_ofctrl' = to_ofctrl \o <<Reply("error", 0, "refused"),
                                         Reply("barrier", m.xid, "")>>
          /\ UNCHANGED <<sw_flows, sw_reached>>
    /\ UNCHANGED <<conn, conn_changed, sw_tlv, n_drops, n_races, fsm_vars, old_state,
                   wait_vars, table_vars, cfg_vars, zone_vars>>

Switch == SwitchTlvRequest \/ SwitchTlvMod \/ SwitchPut

\* The clock reaches wait_before_clear_expire.
TimerDue ==
    /\ wait_before_clear_expire = "on"
    /\ wait_before_clear_expire' = "due"
    /\ may_clear' = TRUE
    /\ UNCHANGED <<net_vars, switch_vars, budget_vars, fsm_vars, old_state,
                   wait_before_clear_time, initial_flows_ready,
                   table_vars, cfg_vars, zone_vars>>

-----------------------------------------------------------------------------
(* ofctrl_run() *)

\* queue_msg(): a message sent without a connection is dropped by rconn.
QueueMsg(m) == IF conn THEN Append(to_switch, m) ELSE to_switch

\* Mutant: the hold of an earlier connection is not forgotten.
HoldKept == <<wait_before_clear_expire, initial_flows_ready>>

\* A reconnection forgets the hold of the connection before it.
HoldReset == <<"off", FALSE>>

\* Mutant: flushes sent on the lost connection are not sent again.
ZonesKept == zone_state

\* Outstanding conntrack flushes are sent again on a new connection.
ZonesRequeued ==
    [z \in Zones |-> IF zone_state[z] = "OF_SENT" THEN "OF_QUEUED" ELSE zone_state[z]]

\* The head of ofctrl_run(), up to its loop: a connection whose seqno was not
\* seen yet starts the state machine again.  The caller makes the engine
\* recompute (Reconnected).
Reconnected == conn /\ conn_changed

OfctrlRunBegin ==
    /\ conn
    /\ conn_changed' = FALSE
    /\ IF Reconnected
       THEN /\ state' = "S_NEW"
            /\ wait_before_clear_expire' = HoldReset[1]
            /\ initial_flows_ready' = HoldReset[2]
            /\ zone_state' = ZonesRequeued
            /\ may_clear' = FALSE
       ELSE UNCHANGED <<state, wait_before_clear_expire, initial_flows_ready,
                        zone_state, may_clear>>
    /\ UNCHANGED <<conn, to_switch, to_ofctrl, switch_vars, budget_vars, old_state,
                   xid, xid2, next_xid, mff_ovn_geneve, wait_before_clear_time,
                   table_vars, cfg_vars, zone_xid>>

run_S_NEW ==
    /\ state = "S_NEW"
    /\ to_switch' = QueueMsg([type |-> "tlv_request", xid |-> next_xid])
    /\ xid' = next_xid /\ next_xid' = next_xid + 1
    /\ state' = "S_TLV_TABLE_REQUESTED"
    /\ UNCHANGED <<conn, conn_changed, to_ofctrl, xid2, mff_ovn_geneve, wait_vars,
                   table_vars, cfg_vars>>

\* run_S_TLV_TABLE_REQUESTED(), run_S_TLV_TABLE_MOD_SENT() and
\* run_S_UPDATE_FLOWS() do nothing.
run_nothing ==
    /\ state \in {"S_TLV_TABLE_REQUESTED", "S_TLV_TABLE_MOD_SENT", "S_UPDATE_FLOWS"}
    /\ UNCHANGED <<net_vars, fsm_vars, wait_vars, table_vars, cfg_vars>>

\* ofctrl_wait_before_clear_decide(): the reason to stop holding the flows.
WaitDecision ==
    IF wait_before_clear_time = 0 THEN "DISABLED"
    ELSE IF wait_before_clear_expire = "due" THEN "EXPIRED"
    ELSE IF initial_flows_ready THEN "FLOWS_READY"
    ELSE "STILL_WAITING"

run_S_WAIT_BEFORE_CLEAR ==
    /\ state = "S_WAIT_BEFORE_CLEAR"
    /\ IF WaitDecision = "STILL_WAITING"
       THEN /\ wait_before_clear_expire' =
                  IF wait_before_clear_expire = "off" THEN "on"
                  ELSE wait_before_clear_expire
            /\ UNCHANGED state
       ELSE /\ state' = "S_CLEAR_FLOWS"
            /\ UNCHANGED wait_before_clear_expire
    /\ UNCHANGED <<net_vars, xid, xid2, next_xid, mff_ovn_geneve,
                   wait_before_clear_time, initial_flows_ready, may_clear,
                   table_vars, cfg_vars>>

\* Mutant: what was installed on the lost connection is not forgotten.
InstalledKept == installed

\* ovn_installed_flow_table_clear().
InstalledCleared == [t \in Tables |-> Empty]

\* "All flow updates are irrelevant now."
FlowUpdatesCleared == <<>>

run_S_CLEAR_FLOWS ==
    /\ state = "S_CLEAR_FLOWS"
    /\ ofctrl_initial_clear' = TRUE
    /\ installed' = InstalledCleared
    /\ flow_updates' = FlowUpdatesCleared
    /\ state' = "S_UPDATE_FLOWS"
    /\ UNCHANGED <<net_vars, xid, xid2, next_xid, mff_ovn_geneve, wait_vars,
                   desired_vars, cur_cfg, old_req_cfg, skipped_last_time>>

\* The first half of a turn of ofctrl_run()'s loop: run_<state>().
RunState ==
    /\ old_state' = state
    /\ run_S_NEW \/ run_nothing \/ run_S_WAIT_BEFORE_CLEAR \/ run_S_CLEAR_FLOWS
    /\ UNCHANGED <<switch_vars, budget_vars, zone_vars>>

-----------------------------------------------------------------------------
(* The second half: recv_<state>() of one received message m. *)

Received(m) == to_ofctrl # <<>> /\ m = Head(to_ofctrl)

Consume == to_ofctrl' = Tail(to_ofctrl) /\ UNCHANGED <<conn, to_switch>>

\* Mutant: an error from the switch is logged and otherwise ignored.
ErrorIgnored(m) ==
    /\ Consume
    /\ UNCHANGED <<conn_changed, fsm_vars, cfg_vars, zone_vars>>

\* ofctrl_recv(): an error drops the connection (rconn_reconnect()), other
\* messages are ignored.
ofctrl_recv(m) ==
    /\ IF m.type = "error" THEN Disconnect ELSE Consume
    /\ UNCHANGED <<conn_changed, fsm_vars, cfg_vars, zone_vars>>

recv_S_TLV_TABLE_REQUESTED(m) ==
    /\ state = "S_TLV_TABLE_REQUESTED"
    /\ \/ m.xid # xid /\ ofctrl_recv(m)
       \/ /\ m.xid = xid /\ m.type = "tlv_reply" /\ m.info = "ours"
          /\ mff_ovn_geneve' = 1
          /\ state' = "S_WAIT_BEFORE_CLEAR"
          /\ Consume
          /\ UNCHANGED <<conn_changed, xid, xid2, next_xid, cfg_vars, zone_vars>>
       \/ /\ m.xid = xid /\ m.type = "tlv_reply" /\ m.info = "free"
          /\ mff_ovn_geneve' = 1
          /\ xid' = next_xid /\ xid2' = next_xid + 1 /\ next_xid' = next_xid + 2
          /\ to_switch' = QueueMsg([type |-> "tlv_mod",
                                    xid |-> next_xid, xid2 |-> next_xid + 1])
          /\ to_ofctrl' = Tail(to_ofctrl)
          /\ state' = "S_TLV_TABLE_MOD_SENT"
          /\ UNCHANGED <<conn, conn_changed, cfg_vars, zone_vars>>
       \/ /\ m.xid = xid
          /\ m.type = "error" \/ (m.type = "tlv_reply" /\ m.info = "full")
          /\ mff_ovn_geneve' = 0
          /\ state' = "S_WAIT_BEFORE_CLEAR"
          /\ Consume
          /\ UNCHANGED <<conn_changed, xid, xid2, next_xid, cfg_vars, zone_vars>>

\* Mutant: a lost race is an error like any other.
RacedAsError(m) == "S_WAIT_BEFORE_CLEAR"

\* A lost race against another controller starts the negotiation again.
AfterTlvMod(m) ==
    IF m.xid = xid /\ m.type = "error" /\ m.info = "raced"
    THEN "S_NEW" ELSE "S_WAIT_BEFORE_CLEAR"

recv_S_TLV_TABLE_MOD_SENT(m) ==
    /\ state = "S_TLV_TABLE_MOD_SENT"
    /\ \/ m.xid \notin {xid, xid2} /\ ofctrl_recv(m)
       \/ /\ m.xid \in {xid, xid2}
          /\ state' = AfterTlvMod(m)
          /\ Consume
          /\ UNCHANGED <<conn_changed, xid, xid2, next_xid, mff_ovn_geneve,
                         cfg_vars, zone_vars>>

recv_S_WAIT_or_CLEAR(m) ==
    /\ state \in {"S_WAIT_BEFORE_CLEAR", "S_CLEAR_FLOWS"}
    /\ ofctrl_recv(m)

\* Is the barrier reply the one the oldest flow update waits for?
BarrierMatches(m) == Head(flow_updates).xid = m.xid

\* Mutant: any barrier reply confirms every flush sent.
ZoneConfirmedAny(m, z) == zone_state[z] = "OF_SENT"

ZoneConfirmed(m, z) == zone_state[z] = "OF_SENT" /\ zone_xid[z] = m.xid

recv_S_UPDATE_FLOWS(m) ==
    LET fup == Head(flow_updates) IN
    /\ state = "S_UPDATE_FLOWS"
    /\ IF m.type = "barrier" /\ flow_updates # <<>>
       THEN /\ IF BarrierMatches(m)
               THEN /\ cur_cfg' = IF fup.req_cfg >= cur_cfg THEN fup.req_cfg ELSE cur_cfg
                    /\ flow_updates' = Tail(flow_updates)
               ELSE UNCHANGED <<cur_cfg, flow_updates>>
            /\ zone_state' = [z \in Zones |->
                  IF ZoneConfirmed(m, z) THEN "DB_QUEUED" ELSE zone_state[z]]
            /\ Consume
            /\ UNCHANGED <<conn_changed, fsm_vars, old_req_cfg, skipped_last_time, zone_xid>>
       ELSE ofctrl_recv(m)

RecvMsg(m) ==
    /\ Received(m)
    /\ \/ recv_S_TLV_TABLE_REQUESTED(m)
       \/ recv_S_TLV_TABLE_MOD_SENT(m)
       \/ recv_S_WAIT_or_CLEAR(m)
       \/ recv_S_UPDATE_FLOWS(m)
    /\ UNCHANGED <<switch_vars, budget_vars, old_state, wait_vars, table_vars>>

-----------------------------------------------------------------------------
(* ofctrl_put(req_cfg), called when the tables in `changed' were recomputed or *)
(* updated in this iteration.                                                  *)

\* What ofctrl_has_backlog() may return: messages sent are in rconn's queue for
\* a while; without a connection there is no OpenFlow version.
HasBacklog == IF ~conn THEN {TRUE} ELSE IF to_switch = <<>> THEN {FALSE} ELSE BOOLEAN

CanPut(backlog) == state = "S_UPDATE_FLOWS" /\ ~backlog

FlowsPending(changed) == changed # {} \/ skipped_last_time \/ ofctrl_initial_clear

NeedPut(req_cfg, changed) ==
    FlowsPending(changed) \/ (req_cfg # old_req_cfg /\ cur_cfg # old_req_cfg)

\* Nothing to send: if nothing is in flight either, we are up to date with
\* req_cfg already.
PutNotNeeded(req_cfg, changed) ==
    /\ ~NeedPut(req_cfg, changed)
    /\ IF req_cfg # old_req_cfg /\ flow_updates = <<>>
       THEN cur_cfg' = req_cfg /\ old_req_cfg' = req_cfg
       ELSE UNCHANGED <<cur_cfg, old_req_cfg>>
    /\ UNCHANGED <<net_vars, next_xid, table_vars, flow_updates, skipped_last_time,
                   zone_vars>>

PutSkipped(req_cfg, changed, backlog) ==
    /\ NeedPut(req_cfg, changed) /\ ~CanPut(backlog)
    /\ skipped_last_time' = TRUE
    /\ old_req_cfg' = req_cfg
    /\ UNCHANGED <<net_vars, next_xid, table_vars, flow_updates, cur_cfg, zone_vars>>

\* Mutant: a put after a skipped one looks only at what changed just now.
TouchedNow(changed) == changed

\* The tables whose differences are sent.
Touched(changed) == IF skipped_last_time THEN Tables ELSE changed

\* update_installed_flows_by_track() sends the changes since tracking began,
\* update_installed_flows_by_compare() the difference to what is installed.
SentFrom(t) == IF change_tracked[t] THEN tracked_from[t] ELSE installed[t]

\* The flow updates once a barrier `id' was sent for req_cfg: updates for later
\* configurations are dropped, an update for the same one waits for this
\* barrier instead.
TrackUpdate(req_cfg, id) ==
    LET kept == SelectLastInSeq(flow_updates, LAMBDA fup : fup.req_cfg <= req_cfg)
        older == SubSeq(flow_updates, 1, kept)
    IN  IF older # <<>> /\ Last(older).req_cfg = req_cfg
        THEN [older EXCEPT ![kept].xid = id]
        ELSE Append(older, [xid |-> id, req_cfg |-> req_cfg])

\* Mutant: a configuration that needs no messages is not recorded.
NothingSentForgotten(req_cfg) == UNCHANGED <<cur_cfg, flow_updates>>

\* No message was needed: req_cfg is done with the last update in flight.
NothingSent(req_cfg) ==
    IF flow_updates # <<>>
    THEN /\ flow_updates' = [flow_updates EXCEPT ![Len(flow_updates)].req_cfg = req_cfg]
         /\ UNCHANGED cur_cfg
    ELSE /\ cur_cfg' = req_cfg
         /\ UNCHANGED flow_updates

PutSend(req_cfg, changed, backlog) ==
    LET touched == Touched(changed)
        flush == {z \in Zones : zone_state[z] = "OF_QUEUED"}
        differing == {t \in touched : SentFrom(t) # desired[t]}
        messages == ofctrl_initial_clear \/ flush # {} \/ differing # {}
    IN
    /\ NeedPut(req_cfg, changed) /\ CanPut(backlog)
    /\ IF messages
       THEN /\ to_switch' = QueueMsg([type |-> "put", xid |-> next_xid, flush |-> flush,
                                      clear |-> ofctrl_initial_clear,
                                      from |-> [t \in differing |-> SentFrom(t)],
                                      to |-> [t \in differing |-> desired[t]]])
            /\ next_xid' = next_xid + 1
            /\ flow_updates' = TrackUpdate(req_cfg, next_xid)
            /\ zone_state' = [z \in Zones |->
                                 IF z \in flush THEN "OF_SENT" ELSE zone_state[z]]
            /\ zone_xid' = [z \in Zones |-> IF z \in flush THEN next_xid ELSE zone_xid[z]]
            /\ UNCHANGED cur_cfg
       ELSE /\ NothingSent(req_cfg)
            /\ UNCHANGED <<to_switch, next_xid, zone_vars>>
    /\ installed' = [t \in Tables |->
                        IF t \notin touched THEN installed[t]
                        ELSE IF SentFrom(t) = installed[t] THEN desired[t] ELSE Mixed]
    /\ change_tracked' = [t \in Tables |-> TRUE]
    /\ tracked_from' = desired
    /\ ofctrl_initial_clear' = FALSE
    /\ skipped_last_time' = FALSE
    /\ old_req_cfg' = req_cfg
    /\ UNCHANGED <<conn, conn_changed, to_ofctrl, desired>>

ofctrl_put(req_cfg, changed) ==
    /\ \E backlog \in HasBacklog :
          \/ PutNotNeeded(req_cfg, changed)
          \/ PutSkipped(req_cfg, changed, backlog)
          \/ PutSend(req_cfg, changed, backlog)
    /\ UNCHANGED <<switch_vars, budget_vars, state, old_state, xid, xid2, mff_ovn_geneve,
                   wait_vars>>

\* ovs_assert()s at the end of ofctrl_put(): no tracked change is left behind.
PutLeavesNoTracked(changed) ==
    \A t \in Tables \ Touched(changed) :
        change_tracked[t] => tracked_from[t] = desired[t]
=============================================================================
