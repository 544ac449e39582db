----------------------------- MODULE PortClaims -----------------------------
(***************************************************************************)
(* How a VIF is claimed, marked up and released: the iterations of         *)
(* ovn-controller's main loop, seen from the ports of one chassis.         *)
(*                                                                         *)
(* An iteration is atomic for the rest of the world: it reads both         *)
(* databases and the switch at its top (pc = "top") and sends its two      *)
(* transactions at its end.  In between come the runtime_data node of the  *)
(* engine, if_status_mgr_update(), ofctrl_put(), ofctrl_seqno_run() and    *)
(* if_status_mgr_run().  The sequence numbers are those of OfctrlSeqno     *)
(* with one type, the interface status manager's; ofctrl.c is reduced to   *)
(* what that manager can tell: which flows were sent with which number.    *)
(*                                                                         *)
(* Left out: additional chassis (live migration) and the encap of a        *)
(* binding, which a claim and a release also write; they do not decide     *)
(* whether the port is claimed.                                            *)
(***************************************************************************)
EXTENDS IfStatus, OfctrlSeqno, FiniteSetsExt

CONSTANTS
    Ports,          \* logical ports of type VIF, each with one OVS interface
    Earlier,        \* those that an earlier ovn-controller left bound and installed
    MaxFlight,      \* bound: flow updates on their way to the switch
    MaxIface,       \* budget: changes of an interface's iface-id
    MaxBind,        \* budget: changes of a port's requested-chassis
    MaxOther,       \* budget: writes of another chassis
    MaxSbFails,     \* budget: Southbound transactions that fail
    MaxOvsFails,    \* budget: Open_vSwitch transactions that fail
    MaxDrops,       \* budget: losses of the OpenFlow connection
    MaxForced,      \* budget: recomputations other engine nodes cause
    MaxEvents       \* budget: all of these together

ASSUME PortClaimsAssumption ==
    /\ IsFiniteSet(Ports) /\ Earlier \subseteq Ports
    /\ NTypes = 1
    /\ {MaxFlight, MaxIface, MaxBind, MaxOther, MaxSbFails, MaxOvsFails, MaxDrops,
        MaxForced, MaxEvents} \subseteq Nat

VARIABLES
    pc,             \* where the main loop is
    sbdb,           \* per port: chassis, up and requested-chassis in the Southbound
    ovsdb,          \* per port: the Interface row has an iface-id; ovn-installed
    sb_txn,         \* per port: columns the Southbound transaction in flight writes
    ovs_txn,        \* per port: what the Open_vSwitch one does to ovn-installed
    port,           \* per port: the record of IfStatus
    tracked,        \* ports whose Port_Binding changed since the last iteration
    overlooked,     \* history: ports with a changed row that no handler looked at
    force,          \* engine_force_recompute
    aborted,        \* engine_run_aborted
    valid,          \* this iteration has runtime data
    ro,             \* this iteration's sb_readonly and ovs_readonly
    sb_ro,          \* sb_readonly as en_sb_ro last saw it
    conn,           \* the OpenFlow connection is up
    of_connected,   \* conn as en_ofctrl_is_connected last saw it
    iface_seqno,    \* mgr->iface_seqno
    flight,         \* flow updates sent and not confirmed, oldest first
    sent,           \* ports whose flows the last update sent has
    sw_flows,       \* ports whose flows the switch has
    cur_cfg,        \* ofctrl.c: newest sequence number confirmed
    n               \* budgets used so far

db_vars == <<sbdb, ovsdb, sb_txn, ovs_txn>>
engine_vars == <<tracked, overlooked, force, aborted, valid, ro, sb_ro, of_connected>>
of_vars == <<conn, flight, sent, sw_flows, cur_cfg>>

claim_vars == <<pc, sbdb, ovsdb, sb_txn, ovs_txn, port, tracked, overlooked, force,
                aborted, valid, ro, sb_ro, conn, of_connected, iface_seqno, flight, sent,
                sw_flows, cur_cfg, n, seqno_vars>>

Iface == 0          \* mgr->iface_seq_type_pb_cfg
Keep == "keep"

\* A transaction that writes nothing ends at once, so that there is one in
\* flight, and the database is read-only, when there is something to write.
NoSbWrites == [p \in Ports |-> [chassis |-> {}, up |-> {}]]
NoOvsWrites == [p \in Ports |-> Keep]
sb_readonly_now == sb_txn # NoSbWrites
ovs_readonly_now == ovs_txn # NoOvsWrites

Budgets == {"iface", "bind", "other", "sb", "ovs", "drop", "force"}

Init ==
    /\ SeqnoInit
    /\ pc = "top"
    /\ sbdb = [p \in Ports |-> [chassis |-> IF p \in Earlier THEN "us" ELSE "none",
                                up |-> p \in Earlier, bind |-> TRUE]]
    /\ ovsdb = [p \in Ports |-> [iface |-> p \in Earlier, installed |-> p \in Earlier]]
    /\ sb_txn = NoSbWrites /\ ovs_txn = NoOvsWrites
    /\ port = [p \in Ports |->
          [st |-> "NULL", install |-> 0, uninstall |-> FALSE, lb |-> FALSE,
           recent |-> FALSE, postponed |-> FALSE, chassis |-> "none", up |-> FALSE,
           bind |-> FALSE, iface |-> FALSE, installed |-> FALSE, op |-> Keep]]
    /\ tracked = Ports /\ overlooked = {} /\ force = FALSE /\ aborted = FALSE /\ valid = FALSE
    /\ ro = [sb |-> FALSE, ovs |-> FALSE] /\ sb_ro = FALSE
    /\ conn = FALSE /\ of_connected = FALSE
    /\ iface_seqno = 0
    /\ flight = <<>> /\ sent = {} /\ sw_flows = {} /\ cur_cfg = 0
    /\ n = [b \in Budgets |-> 0]

-----------------------------------------------------------------------------
(* The world around ovn-controller, while it waits in poll_block().        *)

World == pc = "top" /\ Started /\ UNCHANGED <<pc, seqno_vars>>

Spend(b, max) ==
    /\ n[b] < max /\ MapThenSumSet(LAMBDA c : n[c], Budgets) < MaxEvents
    /\ n' = [n EXCEPT ![b] = @ + 1]

\* The CMS gives an interface an iface-id or takes it away ...
IfaceChange(p) ==
    /\ World
    /\ Spend("iface", MaxIface)
    /\ ovsdb' = [ovsdb EXCEPT ![p].iface = ~@]
    /\ UNCHANGED <<sbdb, sb_txn, ovs_txn, port, engine_vars, of_vars, iface_seqno>>

\* A Port_Binding row changes and the IDL tracks the change.
RowChange(p, row) ==
    /\ sbdb' = [sbdb EXCEPT ![p] = row]
    /\ tracked' = tracked \cup {p}
    /\ UNCHANGED <<ovsdb, sb_txn, ovs_txn, port, overlooked, force, aborted, valid, ro,
                   sb_ro, of_connected, of_vars, iface_seqno>>

\* ... or moves a port to another chassis, or back.
BindChange(p) ==
    /\ World
    /\ Spend("bind", MaxBind)
    /\ RowChange(p, [sbdb[p] EXCEPT !.bind = ~@])

\* Another chassis claims the port, marks it up or down, or releases it.
OtherChassis(p) ==
    /\ World
    /\ Spend("other", MaxOther)
    /\ \/ /\ sbdb[p].chassis # "other"
          /\ RowChange(p, [sbdb[p] EXCEPT !.chassis = "other"])
       \/ /\ sbdb[p].chassis = "other"
          /\ RowChange(p, [sbdb[p] EXCEPT !.up = ~@])
       \/ /\ sbdb[p].chassis = "other"
          /\ RowChange(p, [sbdb[p] EXCEPT !.chassis = "none", !.up = FALSE])

\* CLAIM_TIME_THRESHOLD_MS go by.
Clock(p) ==
    /\ World
    /\ port[p].recent
    /\ port' = [port EXCEPT ![p].recent = FALSE]
    /\ UNCHANGED <<db_vars, engine_vars, of_vars, iface_seqno, n>>

\* Some other input of the engine asks for a recomputation.
ForceRecompute ==
    /\ World
    /\ Spend("force", MaxForced)
    /\ ~force
    /\ force' = TRUE
    /\ UNCHANGED <<db_vars, port, tracked, overlooked, aborted, valid, ro, sb_ro,
                   of_connected, of_vars, iface_seqno>>

\* A column is written, {value}, or not, {}.
Written(old, new) == IF new = {} THEN old ELSE CHOOSE value \in new : TRUE
Write(old, new) == IF new = old THEN {} ELSE {new}

\* The server commits the Southbound transaction.  Only the columns written
\* change: what another chassis wrote in the meantime to them is overwritten.
SbCommitted ==
    LET row(p) == [sbdb[p] EXCEPT !.chassis = Written(@, sb_txn[p].chassis),
                                  !.up = Written(@, sb_txn[p].up)]
    IN  /\ World
        /\ sb_readonly_now
        /\ sbdb' = [p \in Ports |-> row(p)]
        /\ tracked' = tracked \cup {p \in Ports : row(p) # sbdb[p]}
        /\ sb_txn' = NoSbWrites
        /\ UNCHANGED <<ovsdb, ovs_txn, port, overlooked, force, aborted, valid, ro,
                       sb_ro, of_connected, of_vars, iface_seqno, n>>

\* It fails: main() forces a recomputation.
SbFailed ==
    /\ World
    /\ sb_readonly_now
    /\ Spend("sb", MaxSbFails)
    /\ sb_txn' = NoSbWrites
    /\ force' = TRUE
    /\ UNCHANGED <<sbdb, ovsdb, ovs_txn, port, tracked, overlooked, aborted, valid, ro,
                   sb_ro, of_connected, of_vars, iface_seqno>>

OvsCommitted ==
    /\ World
    /\ ovs_readonly_now
    /\ ovsdb' = [p \in Ports |->
          [ovsdb[p] EXCEPT !.installed = CASE ovs_txn[p] = "set" -> TRUE
                                           [] ovs_txn[p] = "del" -> FALSE
                                           [] OTHER -> @]]
    /\ ovs_txn' = NoOvsWrites
    /\ UNCHANGED <<sbdb, sb_txn, port, engine_vars, of_vars, iface_seqno, n>>

\* A failed Open_vSwitch transaction does not force a recomputation.
OvsFailed ==
    /\ World
    /\ ovs_readonly_now
    /\ Spend("ovs", MaxOvsFails)
    /\ ovs_txn' = NoOvsWrites
    /\ UNCHANGED <<sbdb, ovsdb, sb_txn, port, engine_vars, of_vars, iface_seqno>>

Connect ==
    /\ World
    /\ ~conn
    /\ conn' = TRUE
    /\ UNCHANGED <<db_vars, port, engine_vars, flight, sent, sw_flows, cur_cfg,
                   iface_seqno, n>>

\* The connection breaks with ovs-vswitchd: its flows are gone, and ofctrl.c
\* starts again from an empty switch when it is back.  cur_cfg stays.
Drop ==
    /\ World
    /\ conn
    /\ Spend("drop", MaxDrops)
    /\ conn' = FALSE
    /\ flight' = <<>> /\ sent' = {} /\ sw_flows' = {}
    /\ UNCHANGED <<db_vars, port, engine_vars, cur_cfg, iface_seqno>>

\* The switch applies the oldest update and ofctrl.c gets the barrier's reply.
SwitchReply ==
    /\ World
    /\ flight # <<>>
    /\ sw_flows' = Head(flight).flows
    /\ cur_cfg' = Max({cur_cfg, Head(flight).req_cfg})
    /\ flight' = Tail(flight)
    /\ UNCHANGED <<db_vars, port, engine_vars, conn, sent, iface_seqno, n>>

-----------------------------------------------------------------------------
(* The engine: nodes ofctrl_is_connected, sb_ro and runtime_data.          *)

\* The port as this iteration sees it, and what is kept of it between two.
Loaded(p) ==
    [port[p] EXCEPT !.chassis = sbdb[p].chassis, !.up = sbdb[p].up,
                    !.bind = sbdb[p].bind, !.iface = ovsdb[p].iface,
                    !.installed = ovsdb[p].installed]

Unloaded(q) ==
    [q EXCEPT !.chassis = "none", !.up = FALSE, !.bind = FALSE, !.iface = FALSE,
              !.installed = FALSE, !.op = Keep]

ConnectionLost == of_connected /\ ~conn

\* en_ofctrl_is_connected_run() clears the manager before runtime_data runs.
Seen(p) == IF ConnectionLost THEN if_status_mgr_clear(Loaded(p)) ELSE Loaded(p)

\* runtime_data_sb_port_binding_handler(): changed rows and postponed ports.
ByPortBinding(p) == p \in tracked \/ port[p].postponed
PortBindingOk(q, p, readonly) ==
    ByPortBinding(p) => consider_vif_lport_ok(q, readonly)
PortBindingHandled(q, p, readonly) ==
    IF ByPortBinding(p) THEN consider_vif_lport(q, readonly) ELSE q

\* runtime_data_sb_ro_handler(), when the Southbound is writable again.
SbRoHandled(q, readonly) ==
    IF sb_ro /\ ~readonly THEN handle_claim(q) ELSE q

\* runtime_data_ovs_interface_shadow_handler(): an iface-id came or went.
InterfaceOk(q, readonly) ==
    /\ q.lb /\ ~q.iface => consider_iface_release_ok(q, readonly)
    /\ ~q.lb /\ q.iface => consider_vif_lport_ok([q EXCEPT !.lb = TRUE], readonly)
InterfaceHandled(q, readonly) ==
    IF q.lb /\ ~q.iface THEN consider_iface_release(q, readonly)
    ELSE IF ~q.lb /\ q.iface THEN consider_iface_claim(q, readonly)
    ELSE q

EngineEnd(new_port, ok, left) ==
    /\ port' = new_port
    /\ valid' = ok
    /\ aborted' = ~ok
    /\ force' = ~ok
    /\ tracked' = {}
    /\ overlooked' = left

\* Every handler succeeds.
Incremental(readonly) ==
    LET q1(p) == PortBindingHandled(Seen(p), p, readonly)
        q2(p) == SbRoHandled(q1(p), readonly)
    IN  /\ ~force /\ of_connected = conn
        /\ \A p \in Ports : /\ PortBindingOk(Seen(p), p, readonly)
                            /\ InterfaceOk(q2(p), readonly)
        /\ EngineEnd([p \in Ports |-> InterfaceHandled(q2(p), readonly)], TRUE,
                     {p \in overlooked : ~ByPortBinding(p)})

\* binding_handle_port_binding_changes() leaves its loop over the changed rows at
\* the first that fails, `done' having come before it, and goes on with the ports
\* that are postponed now.
Looped(done, p, readonly) ==
    IF p \in done THEN consider_vif_lport(Seen(p), readonly) ELSE Seen(p)
Late(done, readonly) == {p \in Ports : Looped(done, p, readonly).postponed}
LateHandled(done, p, readonly) ==
    IF p \in Late(done, readonly)
    THEN consider_vif_lport(Looped(done, p, readonly), readonly)
    ELSE Looped(done, p, readonly)
\* `handled' is then what the last of these returned: the failure is forgotten.
HandledAfterAll(done, readonly) ==
    /\ \A p \in done : consider_vif_lport_ok(Seen(p), readonly)
    /\ \E p \in tracked \ done : ~consider_vif_lport_ok(Seen(p), readonly)
    /\ Late(done, readonly) # {}
    /\ \A p \in Late(done, readonly) :
          consider_vif_lport_ok(Looped(done, p, readonly), readonly)

\* A failure overlooked like this: the rows after it are lost.  The Southbound
\* is read-only, as for every failure, so that there are no claims to handle.
Overlooked(readonly) ==
    \E done \in SUBSET tracked :
        LET q1(p) == LateHandled(done, p, readonly)
            bad2 == {p \in Ports : ~InterfaceOk(q1(p), readonly)}
            left == (overlooked \cup tracked) \ (done \cup Late(done, readonly))
        IN  /\ ~force /\ of_connected = conn
            /\ HandledAfterAll(done, readonly)
            /\ \/ /\ bad2 = {}
                  /\ EngineEnd([p \in Ports |-> InterfaceHandled(q1(p), readonly)], TRUE,
                               left)
               \/ /\ bad2 # {}
                  /\ \E before \in SUBSET (Ports \ bad2) :
                        EngineEnd([p \in Ports |->
                                      IF p \in before THEN InterfaceHandled(q1(p), readonly)
                                      ELSE q1(p)], FALSE, left)

\* A handler fails at one port; other ports came before it or not.  A failure
\* needs a read-only Southbound, so the recomputation it asks for is refused.
Failed(readonly) ==
    LET q1(p) == PortBindingHandled(Seen(p), p, readonly)
        q2(p) == SbRoHandled(q1(p), readonly)
        bad1 == {p \in Ports : ~PortBindingOk(Seen(p), p, readonly)}
        bad2 == {p \in Ports : ~InterfaceOk(q2(p), readonly)}
    IN  /\ ~force /\ of_connected = conn
        /\ \/ /\ bad1 # {}
              /\ \E done \in SUBSET (Ports \ bad1) :
                    /\ ~HandledAfterAll(done \cap tracked, readonly)
                    /\ EngineEnd([p \in Ports |-> IF p \in done THEN q1(p) ELSE Seen(p)],
                                 FALSE, overlooked)
           \/ /\ bad1 = {} /\ bad2 # {}
              /\ \E done \in SUBSET (Ports \ bad2) :
                    EngineEnd([p \in Ports |->
                                  IF p \in done THEN InterfaceHandled(q2(p), readonly)
                                  ELSE q2(p)], FALSE, overlooked)

\* A recomputation is due, by force or because the connection came or went.
Recompute(readonly) ==
    /\ force \/ of_connected # conn
    /\ ~readonly
    /\ EngineEnd([p \in Ports |-> recompute(Seen(p), readonly)], TRUE, {})

Refused(readonly) ==
    /\ force \/ of_connected # conn
    /\ readonly
    /\ EngineEnd([p \in Ports |-> Seen(p)], FALSE, overlooked)

\* engine_run(): after an aborted run nothing runs, not even the nodes without
\* inputs, until a recomputation is allowed.
Engine ==
    LET readonly == sb_readonly_now IN
    /\ pc = "top" /\ Started
    /\ ro' = [sb |-> readonly, ovs |-> ovs_readonly_now]
    /\ IF aborted /\ readonly
       THEN /\ EngineEnd([p \in Ports |-> Loaded(p)], FALSE, overlooked)
            /\ UNCHANGED <<sb_ro, of_connected, seqno_vars>>
       ELSE /\ \/ Incremental(readonly)
               \/ Overlooked(readonly)
               \/ Failed(readonly)
               \/ Recompute(readonly)
               \/ Refused(readonly)
            /\ sb_ro' = readonly
            /\ of_connected' = conn
            /\ IF ConnectionLost THEN Flush ELSE UNCHANGED seqno_vars
    /\ pc' = "update"
    /\ UNCHANGED <<db_vars, of_vars, iface_seqno, n>>

-----------------------------------------------------------------------------
(* The rest of the iteration.                                              *)

\* if_status_mgr_update(): one request for all the interfaces newly claimed.
MgrUpdate ==
    LET new_ifaces == {p \in Ports : valid /\ ~ro.sb /\ port[p].st = "CLAIMED"}
    IN  /\ pc = "update"
        /\ port' = [p \in Ports |->
              if_status_mgr_update(port[p], valid, ro.sb, ro.ovs, iface_seqno)]
        /\ IF new_ifaces # {}
           THEN /\ iface_seqno' = iface_seqno + 1
                /\ UpdateCreate(Iface, iface_seqno + 1)
           ELSE UNCHANGED <<iface_seqno, seqno_vars>>
        /\ pc' = "put"
        /\ UNCHANGED <<db_vars, engine_vars, of_vars, n>>

\* ofctrl_put(), reduced to its outcomes, with the start of ofctrl_seqno_run().
\* The flows of a port are wanted while it has a local binding.
wanted == {p \in Ports : port[p].lb}

\* Skipped without the engine's output, without a connection, and at will when
\* there may be a backlog.
PutSkipped ==
    /\ ~valid \/ ~conn \/ flight # <<>>
    /\ UNCHANGED <<flight, sent, cur_cfg>>

\* Only the newest barrier stands for a number; earlier updates with the same
\* number, or with a larger one, acknowledge nothing any more.
Superseded(updates, req_cfg) ==
    [i \in DOMAIN updates |->
        IF updates[i].req_cfg >= req_cfg THEN [updates[i] EXCEPT !.req_cfg = 0]
        ELSE updates[i]]

PutFlows ==
    /\ valid /\ conn /\ wanted # sent /\ Len(flight) < MaxFlight
    /\ flight' = Append(Superseded(flight, ofctrl_req_seqno),
                        [req_cfg |-> ofctrl_req_seqno, flows |-> wanted])
    /\ sent' = wanted
    /\ UNCHANGED cur_cfg

\* Nothing to send: the newest update on its way covers the request.
PutCovered ==
    /\ valid /\ conn /\ wanted = sent /\ flight # <<>>
    /\ flight' = [flight EXCEPT ![Len(flight)].req_cfg = ofctrl_req_seqno]
    /\ UNCHANGED <<sent, cur_cfg>>

\* Mutant: what is on its way is not waited for.
PutUpToDateEarly ==
    /\ valid /\ conn /\ wanted = sent
    /\ cur_cfg' = ofctrl_req_seqno
    /\ UNCHANGED <<flight, sent>>

\* Nothing to send and nothing on its way.
PutUpToDate ==
    /\ valid /\ conn /\ wanted = sent /\ flight = <<>>
    /\ cur_cfg' = ofctrl_req_seqno
    /\ UNCHANGED <<flight, sent>>

Put ==
    /\ pc = "put"
    /\ PutSkipped \/ PutFlows \/ PutCovered \/ PutUpToDate
    /\ RunStart(cur_cfg')
    /\ pc' = "seqno"
    /\ UNCHANGED <<db_vars, port, engine_vars, conn, sw_flows, iface_seqno, n>>

SeqnoRun ==
    /\ pc = "seqno"
    /\ \/ RunPop /\ UNCHANGED pc
       \/ RunEnd /\ pc' = "run"
    /\ UNCHANGED <<db_vars, port, engine_vars, of_vars, iface_seqno, n>>

\* if_status_mgr_run(), then both transactions are sent.
MgrRun ==
    LET acked == {acked_cfgs[Iface][i] : i \in DOMAIN acked_cfgs[Iface]}
        q(p) == if_status_mgr_run(port[p], valid, acked, ro.sb, ro.ovs)
        writes == [p \in Ports |-> [chassis |-> Write(sbdb[p].chassis, q(p).chassis),
                                    up |-> Write(sbdb[p].up, q(p).up)]]
    IN  /\ pc = "run"
        /\ AckedSeqnosGet(Iface)
        /\ port' = [p \in Ports |-> Unloaded(q(p))]
        /\ sb_txn' = IF ro.sb THEN sb_txn ELSE writes
        /\ ovs_txn' = IF ro.ovs THEN ovs_txn ELSE [p \in Ports |-> q(p).op]
        /\ ro' = [sb |-> FALSE, ovs |-> FALSE]
        /\ valid' = FALSE
        /\ pc' = "top"
        /\ UNCHANGED <<sbdb, ovsdb, tracked, overlooked, force, aborted, sb_ro,
                       of_connected, of_vars, iface_seqno, n>>

Loop == Engine \/ MgrUpdate \/ Put \/ SeqnoRun \/ MgrRun

\* ofctrl_seqno_add_type(), from if_status_mgr_create().
Start ==
    /\ AddType
    /\ UNCHANGED <<pc, db_vars, port, engine_vars, of_vars, iface_seqno, n>>

Environment ==
    \/ \E p \in Ports : IfaceChange(p) \/ BindChange(p) \/ OtherChassis(p) \/ Clock(p)
    \/ ForceRecompute
    \/ SbCommitted \/ SbFailed \/ OvsCommitted \/ OvsFailed
    \/ Connect \/ Drop \/ SwitchReply

Next == Start \/ Loop \/ Environment

Spec == Init /\ [][Next]_claim_vars

\* The main loop never stops; servers, the switch and the clock do not answer
\* in the middle of an iteration, but there is always a next one.
Fairness ==
    /\ WF_claim_vars(Start)
    /\ WF_claim_vars(Loop)
    /\ SF_claim_vars(SbCommitted)
    /\ SF_claim_vars(OvsCommitted)
    /\ SF_claim_vars(SwitchReply)
    /\ SF_claim_vars(Connect)
    /\ \A p \in Ports : SF_claim_vars(Clock(p))

FairSpec == Spec /\ Fairness

-----------------------------------------------------------------------------

\* Types of the variables.
TypeOK ==
    /\ SeqnoTypeOK
    /\ pc \in {"top", "update", "put", "seqno", "run"}
    /\ sbdb \in [Ports -> [chassis : {"none", "us", "other"}, up : BOOLEAN,
                           bind : BOOLEAN]]
    /\ ovsdb \in [Ports -> [iface : BOOLEAN, installed : BOOLEAN]]
    /\ sb_txn \in [Ports -> [chassis : SUBSET {"none", "us"}, up : SUBSET BOOLEAN]]
    /\ ovs_txn \in [Ports -> {Keep, "set", "del"}]
    /\ port \in [Ports -> Port]
    /\ tracked \subseteq Ports /\ overlooked \subseteq Ports /\ sent \subseteq Ports
    /\ sw_flows \subseteq Ports
    /\ {force, aborted, valid, sb_ro, conn, of_connected} \subseteq BOOLEAN
    /\ ro \in [sb : BOOLEAN, ovs : BOOLEAN]
    /\ iface_seqno \in Nat /\ cur_cfg \in Nat
    /\ flight \in Seq([req_cfg : Nat, flows : SUBSET Ports])
    /\ n \in [Budgets -> Nat]

\* A port gets past INSTALL_FLOWS, and so is marked up and ovn-installed, only
\* when the switch has its flows, whatever became of the numbers, claims and
\* releases before.  (Once the connection was lost this is no longer so: the
\* numbers start again from zero and cur_cfg does not, see AckOnlyInstalled.)
UpOnlyIfInstalled ==
    n["drop"] = 0 =>
        \A p \in Ports :
            port[p].lb /\ port[p].st \in {"REM_OLD_OVN_INST", "MARK_UP", "INSTALLED"}
                => p \in sw_flows

\* Nothing that concerns the port is on its way.
Settled(p) ==
    /\ pc = "top" /\ Started
    /\ ~sb_readonly_now /\ ~ovs_readonly_now
    /\ p \notin tracked /\ ~force /\ ~aborted
    /\ ovsdb[p].iface = port[p].lb
    /\ of_connected = conn
    /\ ~port[p].recent /\ ~port[p].postponed /\ ~port[p].uninstall

\* An interface the manager takes for installed, and does not look at again, is
\* bound here and up: INSTALLED is not left behind by a claim of another chassis,
\* by a transaction that failed or by one that was overwritten; only by a change
\* of its row that was overlooked when the row of another port failed.
InstalledIsBound ==
    \A p \in Ports \ overlooked :
        Settled(p) /\ port[p].st = "INSTALLED"
            => sbdb[p].chassis = "us" /\ sbdb[p].up

\* A port that may not be here, for want of an interface or because of its
\* requested-chassis, is not left bound here and up once the manager has
\* forgotten it, unless the change of its row was overlooked while another
\* port was postponed.
HandedOver ==
    \A p \in Ports \ overlooked :
        Settled(p) /\ port[p].st = "NULL" /\ ~(ovsdb[p].iface /\ sbdb[p].bind)
            => ~(sbdb[p].chassis = "us" /\ sbdb[p].up)

\* ovn-nb.xml on requested-chassis: it "identifies a specific chassis (by name or
\* hostname) that is allowed to bind this port".  A port meant for another chassis
\* is not left bound here and up once nothing that concerns it is on its way.
OnlyWhereRequested ==
    \A p \in Ports :
        Settled(p) /\ port[p].st = "NULL" /\ ~sbdb[p].bind
            => ~(sbdb[p].chassis = "us" /\ sbdb[p].up)

\* A port with an interface that may be bound here ends up bound here and up,
\* whoever else claimed it and whatever transaction failed on the way.
PortComesUp ==
    \A p \in Ports :
        <>[](ovsdb[p].iface /\ sbdb[p].bind)
            => <>[](sbdb[p].chassis = "us" /\ sbdb[p].up)
=============================================================================
