---------------------------- MODULE FlowInstall ----------------------------
(***************************************************************************)
(* One ovn-controller: the iteration of main() in ovn-controller.c that    *)
(* takes southbound changes through the incremental engine to ofctrl_put() *)
(* and takes barrier replies back to the applications that wait for them.  *)
(*                                                                         *)
(*   ofctrl_run -> engine_run -> update_sb_monitors, commit_ct_zones ->    *)
(*   ofctrl_seqno_update_create(nb_cfg) -> if_status_mgr_update ->         *)
(*   ofctrl_put -> ofctrl_seqno_run -> if_status_mgr_run ->                *)
(*   engine_need_run / force recompute -> store_nb_cfg                     *)
(*                                                                         *)
(* Each is one action (pc says which is next); the switch, the southbound  *)
(* database, the connection and the clock move in between.  The databases  *)
(* change what the process sees only at the top of the loop, where the IDL *)
(* runs.  The engine is abstracted to its outcome on the flow tables: every *)
(* table has an input version, a completed run makes it the desired one.   *)
(*                                                                         *)
(* Left out: the zones of ct_zone_restore(), which come from the           *)
(* integration bridge at start-up in CT_ZONE_DB_QUEUED without a flush,    *)
(* and the comparison with the Chassis_Private row before store_nb_cfg()   *)
(* writes.                                                                 *)
(***************************************************************************)
EXTENDS OfctrlSeqno, Ofctrl

CONSTANTS
    MaxVer,     \* bound: southbound changes of a table
    MaxNb,      \* bound: nb_cfg increments
    MaxIf,      \* bound: requests of the interface status manager
    MaxCond     \* bound: changes of the monitor conditions

ASSUME FlowBoundsAssumption == {MaxVer, MaxNb, MaxIf, MaxCond} \subseteq Nat

VARIABLES
    pc,
    input,          \* version of each table's contents in the IDL
    hidden,         \* tables with contents the server has yet to send
    cond_pending,   \* ovnsb_cond_seqno # ovnsb_expected_cond_seqno
    n_cond,
    sb_nb_cfg,      \* SB_Global.nb_cfg
    nb_cfg,         \* static variable of get_nb_cfg()
    if_seqno,       \* iface_seqno of the interface status manager
    sb_busy,        \* a southbound transaction is in flight: no ovnsb_idl_txn
    of_connected,   \* data of the node en_ofctrl_is_connected
    engine_force_recompute, engine_run_aborted,
    engine,         \* outcome of this iteration's engine_run()
    updated,        \* flow tables in state EN_UPDATED
    needs           \* history: per request in flight, the versions it is about

db_vars == <<input, hidden, cond_pending, n_cond, sb_nb_cfg>>
app_vars == <<nb_cfg, if_seqno>>
engine_vars == <<of_connected, engine_force_recompute, engine_run_aborted, engine, updated>>
vars == <<seqno_vars, ofctrl_vars, pc, db_vars, app_vars, sb_busy, engine_vars, needs>>

NbType == 0     \* ofctrl_seq_type_nb_cfg
IfType == 1     \* the type if_status_mgr_create() registers

ASSUME LoopTypesAssumption == {NbType, IfType} \subseteq Types

Goto(next) == pc' = next

\* Nothing was computed yet, and no node accepts its first input incrementally.
Init ==
    /\ SeqnoInit /\ OfctrlInit
    /\ pc = "start"
    /\ input = [t \in Tables |-> 1]
    /\ hidden = {} /\ cond_pending = FALSE /\ n_cond = 0
    /\ sb_nb_cfg = 0 /\ nb_cfg = 0 /\ if_seqno = 0
    /\ sb_busy = FALSE
    /\ of_connected = FALSE
    /\ engine_force_recompute = TRUE /\ engine_run_aborted = FALSE
    /\ engine = "stale" /\ updated = {}
    /\ needs = <<>>

-----------------------------------------------------------------------------
(* What happens around the process. *)

\* northd changes the contents of some tables, or nb_cfg, or both.
SbUpdate ==
    /\ pc = "top"
    /\ \E ts \in SUBSET Tables, bump \in 0 .. 1 :
          /\ ts # {} \/ bump = 1
          /\ \A t \in ts : input[t] < MaxVer
          /\ sb_nb_cfg + bump <= MaxNb
          /\ input' = [t \in Tables |-> IF t \in ts THEN input[t] + 1 ELSE input[t]]
          /\ sb_nb_cfg' = sb_nb_cfg + bump
    /\ UNCHANGED <<seqno_vars, ofctrl_vars, pc, hidden, cond_pending, n_cond, app_vars,
                   sb_busy, engine_vars, needs>>

\* The server acknowledges the monitor conditions and sends what they newly
\* select.
CondReply ==
    /\ pc = "top" /\ cond_pending
    /\ cond_pending' = FALSE
    /\ input' = [t \in Tables |-> IF t \in hidden THEN input[t] + 1 ELSE input[t]]
    /\ hidden' = {}
    /\ UNCHANGED <<seqno_vars, ofctrl_vars, pc, n_cond, sb_nb_cfg, app_vars, sb_busy,
                   engine_vars, needs>>

\* The southbound transaction in flight ends; a failure forces a recompute.
SbReply ==
    /\ pc = "top" /\ sb_busy
    /\ sb_busy' = FALSE
    /\ engine_force_recompute' \in {engine_force_recompute, TRUE}
    /\ UNCHANGED <<seqno_vars, ofctrl_vars, pc, db_vars, app_vars, of_connected,
                   engine_run_aborted, engine, updated, needs>>

\* The Open vSwitch transaction with the zones sent in commit_ct_zones() succeeds.
OvsCommitted ==
    /\ pc = "top" /\ \E z \in Zones : zone_state[z] = "DB_SENT"
    /\ zone_state' = [z \in Zones |->
                         IF zone_state[z] = "DB_SENT" THEN "NONE" ELSE zone_state[z]]
    /\ UNCHANGED <<seqno_vars, net_vars, switch_vars, budget_vars, fsm_vars, old_state,
                   wait_vars, table_vars, cfg_vars, zone_xid, pc, db_vars, app_vars,
                   sb_busy, engine_vars, needs>>

\* rconn notices a lost connection when it runs, receives or sends.
Network ==
    /\ \/ pc \in {"top", "recv", "put"} /\ (Drop \/ Restart)
       \/ pc = "top" /\ Connect
    /\ UNCHANGED <<seqno_vars, pc, db_vars, app_vars, sb_busy, engine_vars, needs>>

\* Between two looks at the messages from the switch its steps go unnoticed
\* (a queue that was sent in between: HasBacklog).
SwitchStep ==
    /\ pc \in {"top", "recv"}
    /\ Switch
    /\ UNCHANGED <<seqno_vars, pc, db_vars, app_vars, sb_busy, engine_vars, needs>>

Clock ==
    /\ pc = "top"
    /\ TimerDue
    /\ UNCHANGED <<seqno_vars, pc, db_vars, app_vars, sb_busy, engine_vars, needs>>

-----------------------------------------------------------------------------
(* The loop. *)

\* main() before its loop.
Start ==
    /\ pc = "start"
    /\ AddType
    /\ Goto(IF n_ofctrl_seqno_states' = NTypes THEN "top" ELSE "start")
    /\ UNCHANGED <<ofctrl_vars, db_vars, app_vars, sb_busy, engine_vars, needs>>

\* ofctrl_run() up to its loop.  It returns at once without a connection.
RunBegin ==
    /\ pc = "top"
    /\ IF conn
       THEN /\ OfctrlRunBegin
            /\ engine_force_recompute' = (engine_force_recompute \/ Reconnected)
            /\ Goto("run")
       ELSE /\ Goto("engine")
            /\ UNCHANGED <<ofctrl_vars, engine_force_recompute>>
    /\ UNCHANGED <<seqno_vars, db_vars, app_vars, sb_busy, of_connected,
                   engine_run_aborted, engine, updated, needs>>

Run ==
    /\ pc = "run"
    /\ RunState
    /\ Goto("recv")
    /\ UNCHANGED <<seqno_vars, db_vars, app_vars, sb_busy, engine_vars, needs>>

\* The loop goes on while it makes progress, for at most 50 turns: other
\* messages count too, so any turn may be the last.
Recv ==
    /\ pc = "recv"
    /\ \/ /\ to_ofctrl # <<>>
          /\ RecvMsg(Head(to_ofctrl))
          /\ \E next \in {"run", "engine"} : Goto(next)
       \/ /\ to_ofctrl = <<>>
          /\ \E next \in {"run", "engine"} :
                /\ next = "run" => old_state # state
                /\ Goto(next)
          /\ UNCHANGED ofctrl_vars
    /\ UNCHANGED <<seqno_vars, db_vars, app_vars, sb_busy, engine_vars, needs>>
-----------------------------------------------------------------------------
(* engine_run() *)

\* Tables whose southbound contents are not in the desired flows.
Dirty == {t \in Tables : input[t] # desired[t]}

\* en_ofctrl_is_connected_run(), called when the engine visits that leaf: a
\* connection that went down takes the requests in flight with it.
ConnLeafRun ==
    /\ of_connected' = conn
    /\ IF of_connected /\ ~conn
       THEN Flush /\ needs' = <<>>
       ELSE UNCHANGED <<seqno_vars, needs>>

ConnLeafNotVisited == UNCHANGED <<seqno_vars, of_connected, needs>>

\* engine_run() does nothing until a recompute is allowed again.
EngineSkipped(allowed) == ~allowed /\ engine_run_aborted

\* Some node must recompute and may not: the nodes behind it stay stale.
EngineAborted(allowed) ==
    /\ ~allowed /\ ~EngineSkipped(allowed)
    /\ ConnLeafRun \/ ConnLeafNotVisited
    /\ engine' = "aborted" /\ engine_run_aborted' = TRUE
    /\ UNCHANGED <<ofctrl_vars, db_vars, updated>>

\* update_sb_monitors() after a change of the runtime data: the server has to
\* acknowledge the conditions, and may have more to send for some tables.
Widen ==
    \/ UNCHANGED <<hidden, cond_pending, n_cond>>
    \/ /\ n_cond < MaxCond
       /\ n_cond' = n_cond + 1
       /\ cond_pending' = TRUE
       /\ \E ts \in SUBSET Tables : hidden' = hidden \cup ts

\* update_ct_zones(): some zones are given to other users and must be flushed,
\* whatever was pending for them (add_pending_ct_zone_entry()).
QueueZones(zs) ==
    /\ zone_state' = [z \in Zones |-> IF z \in zs THEN "OF_QUEUED" ELSE zone_state[z]]
    /\ sw_flushed' = sw_flushed \ zs

\* The run gets past both flow output nodes.  A table is recomputed (its change
\* tracking is lost) or updated incrementally; nodes behind may still abort.
EngineCompleted(allowed) ==
    /\ ~EngineSkipped(allowed)
    /\ allowed \/ (~engine_force_recompute /\ of_connected = conn)
    /\ ConnLeafRun
    /\ \E recomputed \in SUBSET Tables, spurious \in SUBSET Tables :
          /\ ~allowed => recomputed = {}
          /\ engine_force_recompute \/ of_connected # conn => recomputed = Tables
          /\ updated' = Dirty \cup recomputed \cup spurious
          /\ change_tracked' = [t \in Tables |-> change_tracked[t] /\ t \notin recomputed]
    /\ desired' = input
    /\ \/ engine' = "done" /\ engine_run_aborted' = FALSE
       \/ ~allowed /\ engine' = "late" /\ engine_run_aborted' = TRUE
    /\ Widen
    /\ may_clear' = (may_clear \/ ~cond_pending')
    /\ \E zs \in SUBSET Zones :
          /\ zs # {} => Dirty # {}
          /\ QueueZones(zs)
    /\ UNCHANGED <<net_vars, sw_flows, sw_reached, sw_tlv, budget_vars, fsm_vars, old_state,
                   wait_before_clear_time, wait_before_clear_expire, initial_flows_ready,
                   tracked_from, installed, ofctrl_initial_clear, cfg_vars, zone_xid,
                   input, sb_nb_cfg>>

\* recompute_allowed: a southbound transaction is open and nothing waits to be
\* sent to the switch.
EngineRun ==
    /\ pc = "engine"
    /\ \E backlog \in HasBacklog :
          LET allowed == ~sb_busy /\ ~backlog IN
          \/ /\ EngineSkipped(allowed)
             /\ UNCHANGED <<seqno_vars, ofctrl_vars, db_vars, engine_run_aborted, engine,
                            updated, of_connected, needs>>
          \/ EngineAborted(allowed)
          \/ EngineCompleted(allowed)
    /\ Goto("nb")
    /\ UNCHANGED <<app_vars, sb_busy, engine_force_recompute>>

-----------------------------------------------------------------------------
(* What the iteration does with the engine's outcome. *)

\* The zones whose flush the switch confirmed are written to the local database
\* when a transaction is open.
commit_ct_zones ==
    \/ zone_state' = [z \in Zones |-> IF zone_state[z] = "DB_QUEUED" THEN "DB_SENT"
                                      ELSE zone_state[z]]
    \/ UNCHANGED zone_state

\* Mutant: nb_cfg is taken although conditions are in flight.
NbCfgAtOnce == sb_nb_cfg

\* get_nb_cfg(): while conditions are in flight the number is the last one.
get_nb_cfg == IF cond_pending THEN nb_cfg ELSE sb_nb_cfg

\* What the contents of SB_Global.nb_cfg promise: what is here, and what the
\* server has not sent yet.
Promised == [t \in Tables |-> IF t \in hidden THEN input[t] + 1 ELSE input[t]]

RequestNb ==
    /\ pc = "nb"
    /\ commit_ct_zones
    /\ nb_cfg' = get_nb_cfg
    /\ UpdateCreate(NbType, get_nb_cfg)
    /\ needs' = IF UpdateIsNew(NbType, get_nb_cfg) THEN Append(needs, Promised) ELSE needs
    /\ Goto("if")
    /\ UNCHANGED <<net_vars, switch_vars, budget_vars, fsm_vars, old_state, wait_vars,
                   table_vars, cfg_vars, zone_xid, db_vars, if_seqno, sb_busy, engine_vars>>

OutputsValid == engine \in {"done", "late"}

\* ofctrl_initial_flows_ready().
InitialFlowsReady == OutputsValid /\ ~cond_pending

\* if_status_mgr_update() asks to be told of the flows of newly claimed
\* interfaces; then ofctrl_set_initial_flows_ready().
RequestIf ==
    /\ pc = "if"
    /\ \/ /\ if_seqno < MaxIf
          /\ if_seqno' = if_seqno + 1
          /\ UpdateCreate(IfType, if_seqno + 1)
          /\ needs' = Append(needs, input)
       \/ UNCHANGED <<seqno_vars, if_seqno, needs>>
    /\ initial_flows_ready' = InitialFlowsReady
    /\ Goto("put")
    /\ UNCHANGED <<net_vars, switch_vars, budget_vars, fsm_vars, old_state,
                   wait_before_clear_time, wait_before_clear_expire, may_clear,
                   table_vars, cfg_vars, zone_vars, db_vars, nb_cfg, sb_busy, engine_vars>>

Put ==
    /\ pc = "put"
    /\ IF OutputsValid THEN ofctrl_put(ofctrl_req_seqno, updated) ELSE UNCHANGED ofctrl_vars
    /\ Goto("seqno")
    /\ UNCHANGED <<seqno_vars, db_vars, app_vars, sb_busy, engine_vars, needs>>

\* ofctrl_seqno_run(ofctrl_get_cur_cfg())
SeqnoRunStart ==
    /\ pc = "seqno"
    /\ RunStart(cur_cfg)
    /\ Goto("seqno_loop")
    /\ UNCHANGED <<ofctrl_vars, db_vars, app_vars, sb_busy, engine_vars, needs>>

SeqnoRun ==
    /\ pc = "seqno_loop"
    /\ \/ RunPop /\ needs' = Tail(needs) /\ UNCHANGED pc
       \/ RunEnd /\ Goto("acks") /\ UNCHANGED needs
    /\ UNCHANGED <<ofctrl_vars, db_vars, app_vars, sb_busy, engine_vars>>

\* if_status_mgr_run() takes the acks of its type.
IfAcks ==
    /\ pc = "acks"
    /\ AckedSeqnosGet(IfType)
    /\ Goto("tail")
    /\ UNCHANGED <<ofctrl_vars, db_vars, app_vars, sb_busy, engine_vars, needs>>

\* Must the next run recompute?  Yes after an aborted run.
ForceAfter == engine \in {"aborted", "late"}

\* An engine that did not run is asked whether it should have: the leaves run
\* until one of them has changed, which may be before en_ofctrl_is_connected.
NeedRun ==
    \/ /\ ConnLeafRun
       /\ \/ engine_force_recompute' = (engine_force_recompute \/ of_connected # conn)
          \/ engine_force_recompute' = TRUE
    \/ /\ ConnLeafNotVisited
       /\ engine_force_recompute' = TRUE

Tail_of_iteration ==
    /\ pc = "tail"
    /\ IF engine = "stale" THEN NeedRun
       ELSE /\ engine_force_recompute' = ForceAfter
            /\ UNCHANGED <<seqno_vars, of_connected, needs>>
    /\ Goto("store")
    /\ UNCHANGED <<ofctrl_vars, db_vars, app_vars, sb_busy, engine_run_aborted, engine,
                   updated>>

\* store_nb_cfg() and the end of the iteration: an open transaction is sent.
\* engine_init_run() starts the next iteration.
Store ==
    /\ pc = "store"
    /\ AckedSeqnosGet(NbType)
    /\ sb_busy' \in IF sb_busy THEN {TRUE} ELSE BOOLEAN
    /\ engine' = "stale" /\ updated' = {}
    /\ Goto("top")
    /\ UNCHANGED <<ofctrl_vars, db_vars, app_vars, of_connected, engine_force_recompute,
                   engine_run_aborted, needs>>

-----------------------------------------------------------------------------

Environment == SbUpdate \/ CondReply \/ SbReply \/ OvsCommitted \/ Network \/ SwitchStep
                   \/ Clock

Iteration == RunBegin \/ Run \/ Recv \/ EngineRun \/ RequestNb \/ RequestIf \/ Put
                 \/ SeqnoRunStart \/ SeqnoRun \/ IfAcks \/ Tail_of_iteration \/ Store

Next == Start \/ Environment \/ Iteration

Spec == Init /\ [][Next]_vars

\* The process keeps iterating.  The switch and the southbound server are slower
\* than an iteration but not infinitely so, and rconn connects again.
LoopFairness ==
    /\ WF_vars(Start) /\ WF_vars(Iteration)
    /\ SF_vars(SwitchStep) /\ SF_vars(Network /\ Connect)
    /\ SF_vars(CondReply) /\ SF_vars(SbReply)

\* So are the clock and the local database, where a transaction is open again
\* after the one in flight.
HoldFairness ==
    /\ SF_vars(Clock) /\ SF_vars(OvsCommitted)
    /\ SF_vars(RequestNb /\ zone_state' # zone_state)

LoopSpec == Spec /\ LoopFairness
FairSpec == Spec /\ LoopFairness /\ HoldFairness

-----------------------------------------------------------------------------
(* Safety *)

\* Type correctness of the loop's state.
TypeOK ==
    /\ SeqnoTypeOK
    /\ state \in States /\ old_state \in States
    /\ mff_ovn_geneve \in 0 .. 1
    /\ \A t \in Tables : {sw_flows[t], installed[t]} \subseteq {Mixed, Foreign} \cup Nat
    /\ desired \in [Tables -> Nat] /\ tracked_from \in [Tables -> Nat]
    /\ change_tracked \in [Tables -> BOOLEAN]
    /\ zone_state \in [Zones -> ZoneStates]
    /\ wait_before_clear_expire \in {"off", "on", "due"}
    /\ engine \in {"stale", "aborted", "late", "done"}
    /\ updated \subseteq Tables
    /\ Len(needs) = Len(ofctrl_seqno_updates)

\* Every difference ofctrl_put() sends is taken against what the switch really
\* holds, through skipped puts, recomputes and reconnections.
SwitchNeverMixed == \A t \in Tables : Mixed \notin {sw_flows[t], installed[t]}

\* ofctrl_put() replaces the flows of an earlier connection in one bundle:
\* forwarding stops only when the switch itself restarts.
FlowsOnlyReplaced ==
    [][\A t \in Tables : sw_flows[t] # Empty /\ sw_flows'[t] = Empty => Restart]_vars

\* The two ovs_assert()s at the end of ofctrl_put().
AssertNoTrackedFlows ==
    (pc = "put" /\ OutputsValid /\ state = "S_UPDATE_FLOWS"
        /\ NeedPut(ofctrl_req_seqno, updated))
    => PutLeavesNoTracked(updated)

\* The newest barrier on its way is the one the last flow update waits for, so
\* that no configuration is reported before all of its messages are processed.
NewestBarrierTracked ==
    LET barriers == {to_switch[i].xid : i \in {j \in DOMAIN to_switch :
                                                to_switch[j].type = "put"}}
    IN  state = "S_UPDATE_FLOWS" /\ barriers # {} =>
            /\ flow_updates # <<>>
            /\ \A b \in barriers : b <= Last(flow_updates).xid

\* recv_S_UPDATE_FLOWS() looks only at the oldest update: the updates are
\* sorted by barrier and by configuration.
FlowUpdatesSorted ==
    \A i \in 1 .. Len(flow_updates) - 1 :
        /\ flow_updates[i].xid < flow_updates[i + 1].xid
        /\ flow_updates[i].req_cfg < flow_updates[i + 1].req_cfg

\* A zone is written to the database only after the switch has flushed it.
FlushedBeforeCommit ==
    \A z \in Zones : zone_state[z] \in {"DB_QUEUED", "DB_SENT"} => z \in sw_flushed

\* ovn-ofctrl-wait-before-clear: the old flows stay until the timer of this
\* connection runs out or a complete table was computed for it.
WaitHonoured ==
    state = "S_CLEAR_FLOWS" => wait_before_clear_time = 0 \/ may_clear

\* ofctrl-seqno.c: "when the barrier corresponding to the 'flow_cfg' sequence
\* number is replied to by OVS then it is safe to inform the application".  A
\* request is acknowledged only when the contents it was made for have reached
\* the switch.
AckOnlyInstalled ==
    run_cfg # Idle /\ Covered(run_cfg) =>
        \A t \in Tables : sw_reached[t] >= Head(needs)[t]

\* recv_S_TLV_TABLE_MOD_SENT(): "Otherwise, log an error, disable Geneve".  When
\* another controller takes the option first the negotiation starts over, and
\* over reconnections and restarts of the switch flows use the option only if
\* this switch maps it.  Where the switch refuses the mapping (MaxErrors > 0)
\* this does not hold: ofctrl.c:619-633 leaves mff_ovn_geneve set.
GeneveOnlyIfMapped ==
    (conn /\ ~conn_changed /\ mff_ovn_geneve # 0
        /\ state \in {"S_WAIT_BEFORE_CLEAR", "S_CLEAR_FLOWS", "S_UPDATE_FLOWS"})
    => sw_tlv = "ours"

-----------------------------------------------------------------------------
(* Liveness *)

\* Once the southbound contents, the connection and the switch stay as they are
\* the switch holds exactly those contents, whatever was lost, refused, aborted
\* or skipped before.
FlowsConverge == <>[](\A t \in Tables : sw_flows[t] = input[t])

\* Every zone that must be flushed is flushed and recorded in the end.
ZonesSettle == \A z \in Zones : <>[](zone_state[z] = "NONE")

\* store_nb_cfg() reports the newest nb_cfg in the end.
NbCfgReported == <>[](LastAcked(NbType) = sb_nb_cfg)
=============================================================================
