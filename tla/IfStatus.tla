------------------------------ MODULE IfStatus ------------------------------
(***************************************************************************)
(* controller/if-status.c: the state machine of one local VIF, and the     *)
(* functions of controller/binding.c that drive it and that it calls.      *)
(*                                                                         *)
(* Ports do not influence each other inside these functions, so each of    *)
(* them is an operator from the record of one port to its new record:      *)
(*                                                                         *)
(*   st, install     struct ovs_iface: state and install_seqno             *)
(*   uninstall       the interface is in mgr->ovn_uninstall_hash           *)
(*   lb              there is a struct local_binding with an interface and *)
(*                   the port is its primary lport                         *)
(*   recent          claimed less than CLAIM_TIME_THRESHOLD_MS ago         *)
(*   postponed       the port is in _postponed_ports                       *)
(*   chassis, up     the Port_Binding row as this iteration sees it: the   *)
(*                   IDL shows a transaction's own writes to it            *)
(*   bind            requested-chassis lets this chassis bind the port     *)
(*   iface           the Interface row has an iface-id and an ofport       *)
(*   installed       its external-ids:ovn-installed                        *)
(*   op              what this iteration asks of ovn-installed: a partial  *)
(*                   map update, which the IDL does not show before it is  *)
(*                   committed                                             *)
(*                                                                         *)
(* sb_readonly and ovs_readonly are the arguments of the same name.        *)
(***************************************************************************)
EXTENDS Naturals

IfStates == {"NULL", "CLAIMED", "INSTALL_FLOWS", "REM_OLD_OVN_INST", "MARK_UP",
             "INSTALLED", "MARK_DOWN", "UPDATE_PORT"}

\* States up to OIF_INSTALLED in the order of enum if_state.
ClaimedStates == IfStates \ {"NULL", "MARK_DOWN", "UPDATE_PORT"}

Port == [st : IfStates, install : Nat, uninstall : BOOLEAN, lb : BOOLEAN,
         recent : BOOLEAN, postponed : BOOLEAN,
         chassis : {"none", "us", "other"}, up : BOOLEAN, bind : BOOLEAN,
         iface : BOOLEAN, installed : BOOLEAN, op : {"keep", "set", "del"}]

\* ovs_iface_set_state(): every change of state forgets install_seqno.
set_state(q, st) == [q EXCEPT !.st = st, !.install = 0]

ovs_iface_destroy(q) == set_state(q, "NULL")

-----------------------------------------------------------------------------
(* Port_Binding.chassis, and the postponement of claims.                   *)

set_pb_chassis(q) == [q EXCEPT !.chassis = "us"]

unset_pb_chassis(q) ==
    [q EXCEPT !.chassis = IF q.chassis = "us" THEN "none" ELSE q.chassis]

\* local_binding_set_pb() acts through the local binding's primary lport.
local_binding_set_pb(q) == IF q.lb THEN set_pb_chassis(q) ELSE q

pb_chassis_is_set(q) == q.lb /\ q.chassis = "us"

\* Mutant: a claim that comes too early is dropped.
postpone_forgotten(q) == q

postpone(q) == [q EXCEPT !.postponed = TRUE]

\* What mgr_update() does for a port whose chassis is not set (any more).
reclaim_chassis(q) ==
    IF q.recent THEN postpone(q) ELSE local_binding_set_pb(q)

-----------------------------------------------------------------------------
(* The events of the binding module.                                       *)

if_status_mgr_claim_iface(q, sb_readonly) ==
    LET owned == IF sb_readonly THEN q ELSE set_pb_chassis(q) IN
    IF q.st \in {"NULL", "INSTALLED", "MARK_DOWN", "UPDATE_PORT"}
    THEN set_state(owned, "CLAIMED")
    ELSE owned

if_status_mgr_release_iface(q) ==
    IF q.st \in ClaimedStates THEN set_state(q, "MARK_DOWN") ELSE q

\* claim_lport() for CAN_BIND_AS_MAIN.  A port another chassis took is taken
\* back, but not twice in CLAIM_TIME_THRESHOLD_MS.
claim_lport(q, sb_readonly) ==
    IF q.chassis # "us"
    THEN IF q.chassis = "other" /\ q.recent
         THEN postpone(q)
         ELSE [if_status_mgr_claim_iface(q, sb_readonly) EXCEPT
                  !.recent = TRUE, !.postponed = FALSE]
    ELSE IF ~q.up \/ ~q.installed
         THEN if_status_mgr_claim_iface(q, sb_readonly)
         ELSE q

\* release_lport() returns false when it can neither write to the Southbound
\* database nor leave the work to the interface's state machine.
release_lport_ok(q, sb_readonly) ==
    ~(sb_readonly /\ q.chassis = "us" /\ q.st = "NULL")

release_lport(q, sb_readonly) ==
    if_status_mgr_release_iface(IF sb_readonly THEN q ELSE unset_pb_chassis(q))

\* Mutant: only the interface manager is asked.
WantsReleaseIfClaimed(q) ==
    /\ ~(q.lb /\ q.bind)
    /\ q.st \in ClaimedStates

WantsRelease(q) ==
    /\ ~(q.lb /\ q.bind)
    /\ q.chassis = "us" \/ q.st \in ClaimedStates

consider_vif_lport_ok(q, sb_readonly) ==
    WantsRelease(q) => release_lport_ok(q, sb_readonly)

consider_vif_lport(q, sb_readonly) ==
    IF q.lb /\ q.bind THEN claim_lport(q, sb_readonly)
    ELSE IF WantsRelease(q)
    THEN release_lport([q EXCEPT !.uninstall = @ \/ q.lb], sb_readonly)
    ELSE q

\* consider_iface_release(), for an Interface that lost its iface-id:
\* release_binding_lport(), then local_binding_delete().
consider_iface_release_ok(q, sb_readonly) ==
    q.chassis = "us" => release_lport_ok(q, sb_readonly)

release_binding_lport(q, sb_readonly) ==
    LET released == release_lport(q, sb_readonly) IN
    [released EXCEPT !.up = @ /\ sb_readonly, !.uninstall = TRUE]

consider_iface_release(q, sb_readonly) ==
    LET bound == IF q.chassis = "us" THEN release_binding_lport(q, sb_readonly)
                 ELSE q
    IN  if_status_mgr_release_iface([bound EXCEPT !.lb = FALSE])

\* consider_iface_claim(), for an Interface that got one.
consider_iface_claim(q, sb_readonly) ==
    consider_vif_lport([q EXCEPT !.lb = TRUE], sb_readonly)

\* binding_run(): every local binding is built again from the Interface table
\* and every port is considered.
recompute(q, sb_readonly) ==
    consider_vif_lport([q EXCEPT !.lb = q.iface,
                                 !.uninstall = @ \/ (~q.iface /\ q.installed)],
                       sb_readonly)

\* if_status_handle_claims().
handle_claim(q) ==
    IF q.st = "CLAIMED" THEN local_binding_set_pb(q) ELSE q

-----------------------------------------------------------------------------
(* if_status_mgr_update(), loop by loop.                                   *)

local_binding_is_ovn_installed(q) == q.lb /\ q.installed

local_binding_is_up(q) == q.lb /\ q.chassis = "us" /\ q.up /\ q.installed

local_binding_is_down(q) ==
    /\ q.chassis # "us"
    /\ q.chassis = "other" \/ ~(q.installed \/ q.up)

remove_ovn_installed(q) ==
    IF q.installed THEN [q EXCEPT !.op = "del"] ELSE q

clean_ovn_installed(q) ==
    IF q.uninstall THEN [remove_ovn_installed(q) EXCEPT !.uninstall = FALSE]
    ELSE q

update_REM_OLD_OVN_INST(q) ==
    IF q.st = "REM_OLD_OVN_INST" /\ ~local_binding_is_ovn_installed(q)
    THEN set_state(q, "MARK_UP")
    ELSE q

\* Mutant: MARK_UP does not wait until the databases confirm.
update_MARK_UP_unconfirmed(q, sb_readonly) ==
    LET owned == IF ~pb_chassis_is_set(q) /\ ~sb_readonly THEN reclaim_chassis(q)
                 ELSE q
    IN  IF q.st # "MARK_UP" THEN q
        ELSE IF pb_chassis_is_set(owned) THEN set_state(owned, "INSTALLED")
        ELSE owned

update_MARK_UP(q, sb_readonly) ==
    LET owned == IF ~pb_chassis_is_set(q) /\ ~sb_readonly THEN reclaim_chassis(q)
                 ELSE q
    IN  IF q.st # "MARK_UP" THEN q
        ELSE IF local_binding_is_up(owned) THEN set_state(owned, "INSTALLED")
        ELSE owned

update_MARK_DOWN(q, sb_readonly) ==
    LET released == IF sb_readonly THEN q ELSE unset_pb_chassis(q)
    IN  IF q.st # "MARK_DOWN" THEN q
        ELSE IF ~q.lb THEN set_state(q, "UPDATE_PORT")
        ELSE IF local_binding_is_down(released) THEN ovs_iface_destroy(released)
        ELSE released

update_INSTALL_FLOWS(q, sb_readonly) ==
    IF q.st = "INSTALL_FLOWS" /\ ~sb_readonly /\ ~pb_chassis_is_set(q)
    THEN reclaim_chassis(q)
    ELSE q

update_CLAIMED(q, sb_readonly, iface_seqno) ==
    IF q.st = "CLAIMED" /\ ~sb_readonly
    THEN [set_state(q, "INSTALL_FLOWS") EXCEPT !.install = iface_seqno + 1]
    ELSE q

\* port_binding_set_down() leaves a row that is not up alone.
port_binding_set_down(q) ==
    IF q.up THEN unset_pb_chassis([q EXCEPT !.up = FALSE]) ELSE q

update_UPDATE_PORT(q, sb_readonly) ==
    IF q.st = "UPDATE_PORT" /\ ~sb_readonly
    THEN ovs_iface_destroy(port_binding_set_down(q))
    ELSE q

\* Without binding_data only ovn_uninstall_hash is looked at.
if_status_mgr_update(q, valid, sb_readonly, ovs_readonly, iface_seqno) ==
    LET q1 == IF ovs_readonly THEN q ELSE clean_ovn_installed(q)
        q2 == update_MARK_UP(update_REM_OLD_OVN_INST(q1), sb_readonly)
        q3 == update_MARK_DOWN(q2, sb_readonly)
        q4 == update_INSTALL_FLOWS(q3, sb_readonly)
        q5 == update_CLAIMED(q4, sb_readonly, iface_seqno)
    IN  IF valid THEN update_UPDATE_PORT(q5, sb_readonly) ELSE q1

-----------------------------------------------------------------------------
(* if_status_mgr_run().                                                    *)

local_binding_set_down(q, sb_readonly, ovs_readonly) ==
    LET q1 == IF ~ovs_readonly /\ q.lb THEN remove_ovn_installed(q) ELSE q IN
    IF ~sb_readonly /\ q.lb /\ q.chassis # "other" THEN [q1 EXCEPT !.up = FALSE]
    ELSE q1

local_binding_set_up(q, sb_readonly, ovs_readonly) ==
    LET q1 == IF ~ovs_readonly /\ q.lb /\ ~q.installed THEN [q EXCEPT !.op = "set"]
              ELSE q
    IN  IF ~sb_readonly /\ q.lb /\ q.chassis = "us" THEN [q1 EXCEPT !.up = TRUE]
        ELSE q1

\* An ovn-installed left by an earlier claim has to go first.
flows_installed(q, valid, acked) ==
    IF q.st # "INSTALL_FLOWS" \/ q.install \notin acked THEN q
    ELSE IF ~valid \/ local_binding_is_ovn_installed(q)
    THEN set_state(q, "REM_OLD_OVN_INST")
    ELSE set_state(q, "MARK_UP")

if_status_mgr_update_bindings(q, sb_readonly, ovs_readonly) ==
    CASE q.st \in {"INSTALL_FLOWS", "MARK_DOWN"} ->
            local_binding_set_down(q, sb_readonly, ovs_readonly)
      [] q.st = "REM_OLD_OVN_INST" ->
            IF ~ovs_readonly /\ q.lb THEN remove_ovn_installed(q) ELSE q
      [] q.st = "MARK_UP" -> local_binding_set_up(q, sb_readonly, ovs_readonly)
      [] OTHER -> q

if_status_mgr_run(q, valid, acked, sb_readonly, ovs_readonly) ==
    LET moved == flows_installed(q, valid, acked) IN
    IF valid THEN if_status_mgr_update_bindings(moved, sb_readonly, ovs_readonly)
    ELSE moved

\* if_status_mgr_clear().
if_status_mgr_clear(q) == [ovs_iface_destroy(q) EXCEPT !.uninstall = FALSE]
=============================================================================
