-------------------------- MODULE PortClaimsProofs --------------------------
(***************************************************************************)
(* What holds for every set of ports, of every budget and bound: a port is *)
(* past INSTALL_FLOWS only with its flows in the switch, one the manager   *)
(* takes for installed is bound here and up, and one that may not be here  *)
(* is not forgotten while it is.                                           *)
(***************************************************************************)
EXTENDS PortClaims, SequenceTheorems, TLAPS

USE PortClaimsAssumption, NTypesAssumption

\* The states after INSTALL_FLOWS.
PastFlows == {"REM_OLD_OVN_INST", "MARK_UP", "INSTALLED"}

\* A claimed interface has a local binding: its flows are wanted.
ClaimedInv == \A p \in Ports : port[p].st \in ClaimedStates => port[p].lb

\* The row of port p as the iteration sees it, with its own writes.
View(p) ==
    /\ port[p].bind = sbdb[p].bind
    /\ port[p].chassis \in {sbdb[p].chassis, "none", "us"}
    /\ ro.sb => port[p].chassis = sbdb[p].chassis /\ port[p].up = sbdb[p].up
    /\ pc = "update" /\ port[p].up # sbdb[p].up => ~port[p].up /\ port[p].chassis # "us"

ViewInv == pc # "top" => \A p \in Ports : View(p)

\* The transaction of this iteration, or the one in flight, makes `chassis' the
\* chassis of port p.
Writes(p, chassis) ==
    IF pc = "top" \/ ro.sb THEN sb_txn[p].chassis = {chassis} ELSE port[p].chassis = chassis

\* The engine has still to look at port p, or has overlooked it.
Unseen(p) == p \in tracked \/ force \/ p \in overlooked

BoundInv ==
    \A p \in Ports :
        port[p].st = "INSTALLED" =>
            \/ sbdb[p].chassis = "us" /\ sbdb[p].up
            \/ Unseen(p) \/ port[p].postponed
            \/ sbdb[p].chassis # "us" /\ Writes(p, "us")

ForgottenInv ==
    \A p \in Ports :
        port[p].st = "NULL" /\ sbdb[p].chassis = "us" /\ sbdb[p].up =>
            \/ port[p].lb /\ sbdb[p].bind
            \/ Unseen(p)
            \/ Writes(p, "none")

\* The flows of port p are in the switch, and stay there with every update on
\* its way.
Reached(p) == p \in sw_flows /\ \A i \in DOMAIN flight : p \in flight[i].flows

\* No barrier confirms number f before an update with the flows of port p.
Awaits(p, f) ==
    /\ cur_cfg >= f => Reached(p)
    /\ \A i \in DOMAIN flight :
          flight[i].req_cfg >= f => \A j \in i .. Len(flight) : p \in flight[j].flows

NumbersInv ==
    /\ of_connected => conn
    /\ type_req_cfg[Iface] = iface_seqno
    /\ ~Started => iface_seqno = 0
    /\ cur_cfg <= ofctrl_req_seqno
    /\ \A i \in DOMAIN flight : flight[i].req_cfg <= ofctrl_req_seqno
    /\ \A i \in DOMAIN ofctrl_seqno_updates :
          /\ ofctrl_seqno_updates[i].flow_cfg \in 1 .. ofctrl_req_seqno
          /\ ofctrl_seqno_updates[i].req_cfg <= iface_seqno
    /\ \A i \in DOMAIN acked_cfgs[Iface] : acked_cfgs[Iface][i] <= iface_seqno
    /\ pc = "seqno" => run_cfg = cur_cfg
    /\ sent = IF flight = <<>> THEN sw_flows ELSE flight[Len(flight)].flows

FlowsInv ==
    \A p \in Ports :
        /\ port[p].st \in PastFlows => Reached(p)
        /\ port[p].st = "INSTALL_FLOWS" =>
              /\ port[p].install <= iface_seqno
              /\ \A i \in DOMAIN acked_cfgs[Iface] :
                    acked_cfgs[Iface][i] = port[p].install => Reached(p)
              /\ \A i \in DOMAIN ofctrl_seqno_updates :
                    ofctrl_seqno_updates[i].req_cfg = port[p].install
                        => Awaits(p, ofctrl_seqno_updates[i].flow_cfg)

\* An aborted run is made up for.
AbortedInv == aborted => force

\* The inductive invariant.
PortsInv ==
    /\ TypeOK /\ AbortedInv /\ ClaimedInv /\ ViewInv /\ BoundInv /\ ForgottenInv
    /\ n["drop"] = 0 => NumbersInv /\ FlowsInv

-----------------------------------------------------------------------------
(* What the functions of if-status.c and binding.c do to the record of a   *)
(* port.                                                                   *)

HasBinding(q) == q.st \in ClaimedStates => q.lb
Bound(q) == q.st = "INSTALLED" => q.postponed \/ (q.chassis = "us" /\ q.up)
Forgotten(q) == q.st = "NULL" /\ q.chassis = "us" /\ q.up => q.lb /\ q.bind

\* The engine turns q into r: it claims and releases, and moves no port towards
\* INSTALLED.
Moves(q, r, readonly) ==
    /\ r \in Port
    /\ r.bind = q.bind
    /\ r.chassis \in {q.chassis, "none", "us"}
    /\ readonly => r.chassis = q.chassis /\ r.up = q.up
    /\ r.up # q.up => ~r.up /\ r.chassis # "us"
    /\ \/ r.st = q.st /\ r.install = q.install
       \/ r.st \in {"NULL", "CLAIMED", "MARK_DOWN"}
    /\ HasBinding(q) => HasBinding(r)

\* ... and takes a port that is bound for bound, and a released one for released.
Handles(q, r, readonly) ==
    /\ Moves(q, r, readonly)
    /\ Bound(q) => Bound(r)
    /\ Forgotten(q) => Forgotten(r)

LEMMA MovesTwice ==
    ASSUME NEW q, NEW r, NEW s, NEW readonly,
           Moves(q, r, readonly), r.up = q.up, Moves(r, s, readonly)
    PROVE  Moves(q, s, readonly)
BY DEF Moves

LEMMA HandlesTwice ==
    ASSUME NEW q, NEW r, NEW s, NEW readonly,
           Handles(q, r, readonly), r.up = q.up, Handles(r, s, readonly)
    PROVE  Handles(q, s, readonly)
BY MovesTwice DEF Handles

LEMMA HandlesNothing ==
    ASSUME NEW q \in Port, NEW readonly
    PROVE  Handles(q, q, readonly)
BY DEF Handles, Moves, HasBinding, Bound, Forgotten

\* What most of the functions leave alone.
Kept(q, r) == r.lb = q.lb /\ r.up = q.up /\ r.bind = q.bind /\ r.postponed = q.postponed

\* ovs_iface_set_state().
LEMMA SetState ==
    ASSUME NEW q \in Port, NEW st \in IfStates
    PROVE  LET r == set_state(q, st)
           IN  /\ r \in Port /\ Kept(q, r) /\ r.chassis = q.chassis
               /\ r.st = st /\ r.recent = q.recent /\ r.installed = q.installed
BY DEF set_state, Port, Kept

\* set_pb_chassis() and unset_pb_chassis().
LEMMA SetChassis ==
    ASSUME NEW q \in Port
    PROVE  LET r == set_pb_chassis(q)
           IN  /\ r \in Port /\ Kept(q, r) /\ r.chassis = "us"
               /\ r.st = q.st /\ r.install = q.install
               /\ r.recent = q.recent /\ r.installed = q.installed
BY DEF set_pb_chassis, Port, Kept

LEMMA UnsetChassis ==
    ASSUME NEW q \in Port
    PROVE  LET r == unset_pb_chassis(q)
           IN  /\ r \in Port /\ Kept(q, r)
               /\ r.chassis = IF q.chassis = "us" THEN "none" ELSE q.chassis
               /\ r.st = q.st /\ r.install = q.install
               /\ r.recent = q.recent /\ r.installed = q.installed
<1>1. (IF q.chassis = "us" THEN "none" ELSE q.chassis) \in {"none", "us", "other"}
  BY DEF Port
<1> QED
  BY <1>1 DEF unset_pb_chassis, Port, Kept

\* if_status_mgr_claim_iface().
LEMMA ClaimIface ==
    ASSUME NEW q \in Port, NEW readonly \in BOOLEAN
    PROVE  LET r == if_status_mgr_claim_iface(q, readonly)
           IN  /\ r \in Port /\ Kept(q, r)
               /\ r.chassis = IF readonly THEN q.chassis ELSE "us"
               /\ \/ r.st = q.st /\ r.install = q.install /\ q.st # "INSTALLED" /\ q.st # "NULL"
                  \/ r.st = "CLAIMED"
<1> DEFINE owned == IF readonly THEN q ELSE set_pb_chassis(q)
           r == if_status_mgr_claim_iface(q, readonly)
<1>1. /\ owned \in Port /\ Kept(q, owned)
      /\ owned.chassis = IF readonly THEN q.chassis ELSE "us"
      /\ owned.st = q.st /\ owned.install = q.install
  BY SetChassis DEF Kept
<1>2. \/ r = set_state(owned, "CLAIMED")
      \/ r = owned /\ q.st # "INSTALLED" /\ q.st # "NULL"
  BY DEF if_status_mgr_claim_iface
<1> HIDE DEF owned, r
<1>3. CASE r = set_state(owned, "CLAIMED")
  <2>1. "CLAIMED" \in IfStates
    BY DEF IfStates
  <2> QED
    BY <1>1, <1>3, <2>1, SetState DEF r, Kept
<1>4. CASE r = owned /\ q.st # "INSTALLED" /\ q.st # "NULL"
  BY <1>1, <1>4 DEF r
<1> QED
  BY <1>2, <1>3, <1>4

\* if_status_mgr_release_iface().
LEMMA ReleaseIface ==
    ASSUME NEW q \in Port
    PROVE  LET r == if_status_mgr_release_iface(q)
           IN  /\ r \in Port /\ Kept(q, r) /\ r.chassis = q.chassis
               /\ \/ r.st = "MARK_DOWN"
                  \/ r.st = q.st /\ r.install = q.install
               /\ r.st \notin ClaimedStates
               /\ r.st = "NULL" => q.st = "NULL"
<1> DEFINE r == if_status_mgr_release_iface(q)
<1>0. "MARK_DOWN" \in IfStates /\ "MARK_DOWN" \notin ClaimedStates
  BY DEF IfStates, ClaimedStates
<1>1. CASE q.st \in ClaimedStates
  <2>1. r = set_state(q, "MARK_DOWN")
    BY <1>1 DEF if_status_mgr_release_iface
  <2> HIDE DEF r
  <2> QED
    BY <1>0, <2>1, SetState DEF r
<1>2. CASE q.st \notin ClaimedStates
  <2>1. r = q
    BY <1>2 DEF if_status_mgr_release_iface
  <2> HIDE DEF r
  <2> QED
    BY <1>2, <2>1 DEF r, Kept
<1> QED
  BY <1>1, <1>2

\* release_lport().
LEMMA ReleaseLport ==
    ASSUME NEW q \in Port, NEW readonly \in BOOLEAN
    PROVE  LET r == release_lport(q, readonly)
           IN  /\ r \in Port /\ Kept(q, r)
               /\ r.chassis = IF ~readonly /\ q.chassis = "us" THEN "none" ELSE q.chassis
               /\ \/ r.st = "MARK_DOWN"
                  \/ r.st = q.st /\ r.install = q.install
               /\ r.st \notin ClaimedStates
               /\ r.st = "NULL" => q.st = "NULL"
<1> DEFINE u == IF readonly THEN q ELSE unset_pb_chassis(q)
           r == release_lport(q, readonly)
<1>1. /\ u \in Port /\ Kept(q, u)
      /\ u.chassis = IF ~readonly /\ q.chassis = "us" THEN "none" ELSE q.chassis
      /\ u.st = q.st /\ u.install = q.install
  BY UnsetChassis DEF Kept
<1>2. r = if_status_mgr_release_iface(u)
  BY DEF release_lport
<1> HIDE DEF u, r
<1>3. /\ r \in Port /\ Kept(u, r) /\ r.chassis = u.chassis
      /\ \/ r.st = "MARK_DOWN"
         \/ r.st = u.st /\ r.install = u.install
      /\ r.st \notin ClaimedStates
      /\ r.st = "NULL" => u.st = "NULL"
  BY <1>1, <1>2, ReleaseIface
<1> QED
  BY <1>1, <1>3 DEF r, Kept

\* claim_lport().
LEMMA ClaimLport ==
    ASSUME NEW q \in Port, NEW readonly \in BOOLEAN
    PROVE  LET r == claim_lport(q, readonly)
           IN  /\ r \in Port /\ r.lb = q.lb /\ r.up = q.up /\ r.bind = q.bind
               /\ r.chassis = q.chassis \/ (~readonly /\ r.chassis = "us")
               /\ (r.st = q.st /\ r.install = q.install) \/ r.st = "CLAIMED"
               /\ Bound(r)
<1> DEFINE r == claim_lport(q, readonly)
           c == if_status_mgr_claim_iface(q, readonly)
<1>0. /\ c \in Port /\ Kept(q, c)
      /\ c.chassis = IF readonly THEN q.chassis ELSE "us"
      /\ \/ c.st = q.st /\ c.install = q.install /\ q.st # "INSTALLED" /\ q.st # "NULL"
         \/ c.st = "CLAIMED"
  BY ClaimIface
<1>1. CASE q.chassis # "us" /\ q.chassis = "other" /\ q.recent
  <2>1. r = [q EXCEPT !.postponed = TRUE]
    BY <1>1 DEF claim_lport, postpone
  <2> HIDE DEF r
  <2> QED
    BY <2>1 DEF r, Port, Bound
<1>2. CASE q.chassis # "us" /\ ~(q.chassis = "other" /\ q.recent)
  <2>1. r = [c EXCEPT !.recent = TRUE, !.postponed = FALSE]
    BY <1>2 DEF claim_lport
  <2> HIDE DEF r, c
  <2>2. /\ r \in Port /\ r.lb = c.lb /\ r.up = c.up /\ r.bind = c.bind /\ r.chassis = c.chassis
        /\ r.st = c.st /\ r.install = c.install
    BY <1>0, <2>1 DEF Port
  <2> QED
    BY <1>0, <2>2 DEF r, Kept, Bound
<1>3. CASE q.chassis = "us" /\ (~q.up \/ ~q.installed)
  <2>1. r = c
    BY <1>3 DEF claim_lport
  <2> HIDE DEF r, c
  <2> QED
    BY <1>0, <2>1 DEF r, Kept, Bound
<1>4. CASE q.chassis = "us" /\ ~(~q.up \/ ~q.installed)
  <2>1. r = q
    BY <1>4 DEF claim_lport
  <2>2. q.up
    BY <1>4 DEF Port
  <2> HIDE DEF r
  <2> QED
    BY <1>4, <2>1, <2>2 DEF r, Bound
<1> QED
  BY <1>1, <1>2, <1>3, <1>4

\* consider_vif_lport() leaves no port it looks at in doubt.
LEMMA ConsiderVif ==
    ASSUME NEW q \in Port, NEW readonly \in BOOLEAN
    PROVE  LET r == consider_vif_lport(q, readonly)
           IN  /\ Moves(q, r, readonly) /\ r.up = q.up /\ r.lb = q.lb
               /\ Bound(r) /\ HasBinding(r)
               /\ consider_vif_lport_ok(q, readonly) => Forgotten(r)
<1> DEFINE r == consider_vif_lport(q, readonly)
<1>1. CASE q.lb /\ q.bind
  <2>1. r = claim_lport(q, readonly)
    BY <1>1 DEF consider_vif_lport
  <2> HIDE DEF r
  <2>2. /\ r \in Port /\ r.lb = q.lb /\ r.up = q.up /\ r.bind = q.bind
        /\ r.chassis = q.chassis \/ (~readonly /\ r.chassis = "us")
        /\ (r.st = q.st /\ r.install = q.install) \/ r.st = "CLAIMED"
        /\ Bound(r)
    BY <2>1, ClaimLport
  <2>3. HasBinding(r) /\ Forgotten(r)
    BY <1>1, <2>2 DEF HasBinding, Forgotten
  <2> QED
    BY <2>2, <2>3 DEF Moves, r
<1>2. CASE ~(q.lb /\ q.bind) /\ WantsRelease(q)
  <2> DEFINE u == [q EXCEPT !.uninstall = @ \/ q.lb]
  <2>1. r = release_lport(u, readonly)
    BY <1>2 DEF consider_vif_lport
  <2>2. /\ u \in Port /\ Kept(q, u) /\ u.chassis = q.chassis /\ u.st = q.st /\ u.install = q.install
    BY DEF Port, Kept
  <2> HIDE DEF r, u
  <2>3. /\ r \in Port /\ Kept(u, r)
        /\ r.chassis = IF ~readonly /\ u.chassis = "us" THEN "none" ELSE u.chassis
        /\ \/ r.st = "MARK_DOWN"
           \/ r.st = u.st /\ r.install = u.install
        /\ r.st \notin ClaimedStates
        /\ r.st = "NULL" => u.st = "NULL"
    BY <2>1, <2>2, ReleaseLport
  <2>4. HasBinding(r) /\ Bound(r)
    BY <2>3 DEF HasBinding, Bound, ClaimedStates, IfStates
  <2>5. consider_vif_lport_ok(q, readonly) => Forgotten(r)
    BY <1>2, <2>2, <2>3 DEF consider_vif_lport_ok, release_lport_ok, Forgotten
  <2> QED
    BY <2>2, <2>3, <2>4, <2>5 DEF Moves, r, Kept
<1>3. CASE ~(q.lb /\ q.bind) /\ ~WantsRelease(q)
  <2>1. r = q
    BY <1>3 DEF consider_vif_lport
  <2>2. q.chassis # "us" /\ q.st \notin ClaimedStates
    BY <1>3 DEF WantsRelease
  <2> HIDE DEF r
  <2>3. HasBinding(r) /\ Bound(r) /\ Forgotten(r)
    BY <2>1, <2>2 DEF HasBinding, Bound, Forgotten, ClaimedStates, IfStates
  <2> QED
    BY <2>1, <2>3 DEF Moves, r
<1> QED
  BY <1>1, <1>2, <1>3

\* The handler of changed Port_Binding rows.
LEMMA ByPortBindingMoves ==
    ASSUME NEW q \in Port, NEW p, NEW readonly \in BOOLEAN
    PROVE  LET r == PortBindingHandled(q, p, readonly)
           IN  /\ Moves(q, r, readonly) /\ r.up = q.up
               /\ PortBindingOk(q, p, readonly) => Handles(q, r, readonly)
               /\ ByPortBinding(p) => Bound(r)
               /\ ByPortBinding(p) /\ PortBindingOk(q, p, readonly) => Forgotten(r)
<1> DEFINE r == PortBindingHandled(q, p, readonly)
<1>1. CASE ByPortBinding(p)
  <2>1. r = consider_vif_lport(q, readonly)
    BY <1>1 DEF PortBindingHandled
  <2>2. PortBindingOk(q, p, readonly) => consider_vif_lport_ok(q, readonly)
    BY <1>1 DEF PortBindingOk
  <2> HIDE DEF r
  <2> QED
    BY <2>1, <2>2, ConsiderVif DEF r, Handles
<1>2. CASE ~ByPortBinding(p)
  <2>1. r = q
    BY <1>2 DEF PortBindingHandled
  <2> HIDE DEF r
  <2> QED
    BY <1>2, <2>1, HandlesNothing DEF r, Handles
<1> QED
  BY <1>1, <1>2

\* if_status_handle_claims().
LEMMA BySbRoHandles ==
    ASSUME NEW q \in Port, NEW readonly \in BOOLEAN
    PROVE  LET r == SbRoHandled(q, readonly)
           IN  Handles(q, r, readonly) /\ r.up = q.up /\ r.lb = q.lb
<1> DEFINE r == SbRoHandled(q, readonly)
<1>1. CASE ~readonly /\ q.st = "CLAIMED" /\ q.lb /\ r = set_pb_chassis(q)
  <2> HIDE DEF r
  <2>1. /\ r \in Port /\ Kept(q, r) /\ r.chassis = "us"
        /\ r.st = q.st /\ r.install = q.install
    BY <1>1, SetChassis
  <2> QED
    BY <1>1, <2>1 DEF r, Handles, Moves, HasBinding, Bound, Forgotten, Kept
<1>2. CASE r = q
  BY <1>2, HandlesNothing
<1> QED
  BY <1>1, <1>2 DEF SbRoHandled, handle_claim, local_binding_set_pb

\* consider_iface_release().
LEMMA IfaceReleased ==
    ASSUME NEW q \in Port, NEW readonly \in BOOLEAN
    PROVE  LET r == consider_iface_release(q, readonly)
           IN  /\ Moves(q, r, readonly) /\ Bound(r)
               /\ consider_iface_release_ok(q, readonly) => Forgotten(r)
<1> DEFINE l == release_lport(q, readonly)
           b == IF q.chassis = "us" THEN release_binding_lport(q, readonly) ELSE q
           u == [b EXCEPT !.lb = FALSE]
           r == consider_iface_release(q, readonly)
<1>1. /\ l \in Port /\ Kept(q, l)
      /\ l.chassis = IF ~readonly /\ q.chassis = "us" THEN "none" ELSE q.chassis
      /\ l.st = "MARK_DOWN" \/ (l.st = q.st /\ l.install = q.install)
      /\ l.st = "NULL" => q.st = "NULL"
  BY ReleaseLport
<1>2. r = if_status_mgr_release_iface(u)
  BY DEF consider_iface_release
<1>3. q.chassis = "us" => b = [l EXCEPT !.up = @ /\ readonly, !.uninstall = TRUE]
  BY DEF release_binding_lport
<1>3a. q.chassis # "us" => b = q
  OBVIOUS
<1> HIDE DEF l, b, r
<1>4. /\ b \in Port /\ b.bind = q.bind
      /\ b.chassis = IF ~readonly /\ q.chassis = "us" THEN "none" ELSE q.chassis
      /\ b.up = q.up \/ (~readonly /\ ~b.up /\ q.chassis = "us")
      /\ b.st = "MARK_DOWN" \/ (b.st = q.st /\ b.install = q.install)
      /\ b.st = "NULL" => q.st = "NULL"
  <2>1. CASE q.chassis = "us"
    <3>1. b = [l EXCEPT !.up = @ /\ readonly, !.uninstall = TRUE]
      BY <1>3, <2>1
    <3>2. l.up \in BOOLEAN
      BY <1>1 DEF Port
    <3>5. CASE readonly
      <4>1. (l.up /\ readonly) = l.up
        BY <3>2, <3>5
      <4>2. b = [l EXCEPT !.up = l.up, !.uninstall = TRUE]
        BY <3>1, <4>1, Zenon
      <4>3. /\ b \in Port /\ b.bind = l.bind /\ b.chassis = l.chassis /\ b.st = l.st
            /\ b.install = l.install /\ b.up = l.up
        BY <1>1, <4>2 DEF Port
      <4> QED
        BY <1>1, <2>1, <3>5, <4>3 DEF Kept
    <3>6. CASE ~readonly
      <4>1. (l.up /\ readonly) = FALSE
        BY <3>6
      <4>2. b = [l EXCEPT !.up = FALSE, !.uninstall = TRUE]
        BY <3>1, <4>1, Zenon
      <4>3. /\ b \in Port /\ b.bind = l.bind /\ b.chassis = l.chassis /\ b.st = l.st
            /\ b.install = l.install /\ ~b.up
        BY <1>1, <4>2 DEF Port
      <4> QED
        BY <1>1, <2>1, <3>6, <4>3 DEF Kept
    <3> QED
      BY <3>5, <3>6
  <2>2. CASE q.chassis # "us"
    BY <1>3a, <2>2
  <2> QED
    BY <2>1, <2>2
<1>5. /\ u \in Port /\ u.bind = b.bind /\ u.chassis = b.chassis /\ u.st = b.st
      /\ u.install = b.install /\ u.up = b.up
  BY <1>4 DEF Port
<1> HIDE DEF u
<1>6. /\ r \in Port /\ Kept(u, r) /\ r.chassis = u.chassis
      /\ r.st = "MARK_DOWN" \/ (r.st = u.st /\ r.install = u.install)
      /\ r.st \notin ClaimedStates
      /\ r.st = "NULL" => u.st = "NULL"
  BY <1>2, <1>5, ReleaseIface
<1>7. HasBinding(r) /\ Bound(r)
  BY <1>6 DEF HasBinding, Bound, ClaimedStates, IfStates
<1>8. Moves(q, r, readonly)
  BY <1>4, <1>5, <1>6, <1>7 DEF Moves, Kept
<1>9. consider_iface_release_ok(q, readonly) => Forgotten(r)
  BY <1>4, <1>5, <1>6 DEF consider_iface_release_ok, release_lport_ok, Forgotten
<1> QED
  BY <1>7, <1>8, <1>9 DEF r

\* The record with another answer to whether there is a local binding.
LEMMA SetBinding ==
    ASSUME NEW q \in Port, NEW b \in BOOLEAN
    PROVE  LET r == [q EXCEPT !.lb = b]
           IN  /\ r \in Port /\ r.lb = b /\ r.up = q.up /\ r.bind = q.bind /\ r.postponed = q.postponed
               /\ r.chassis = q.chassis /\ r.st = q.st /\ r.install = q.install
BY DEF Port

\* The handler of changed interfaces.
LEMMA ByInterfaceHandles ==
    ASSUME NEW q \in Port, NEW readonly \in BOOLEAN, InterfaceOk(q, readonly)
    PROVE  Handles(q, InterfaceHandled(q, readonly), readonly)
<1> DEFINE r == InterfaceHandled(q, readonly)
<1>1. CASE q.lb /\ ~q.iface
  <2>1. r = consider_iface_release(q, readonly) /\ consider_iface_release_ok(q, readonly)
    BY <1>1 DEF InterfaceHandled, InterfaceOk
  <2> HIDE DEF r
  <2> QED
    BY <2>1, IfaceReleased DEF r, Handles
<1>2. CASE ~q.lb /\ q.iface
  <2> DEFINE u == [q EXCEPT !.lb = TRUE]
  <2>1. r = consider_vif_lport(u, readonly) /\ consider_vif_lport_ok(u, readonly)
    BY <1>2 DEF InterfaceHandled, InterfaceOk, consider_iface_claim
  <2>2. /\ u \in Port /\ u.lb /\ u.up = q.up /\ u.bind = q.bind
        /\ u.chassis = q.chassis /\ u.st = q.st /\ u.install = q.install
    BY SetBinding
  <2> HIDE DEF r, u
  <2>3. /\ Moves(u, r, readonly) /\ Bound(r) /\ Forgotten(r) /\ HasBinding(r)
    BY <2>1, <2>2, ConsiderVif
  <2> QED
    BY <2>2, <2>3 DEF r, Moves, Handles
<1>3. CASE ~(q.lb /\ ~q.iface) /\ ~(~q.lb /\ q.iface)
  <2>1. r = q
    BY <1>3 DEF InterfaceHandled
  <2> QED
    BY <2>1, HandlesNothing
<1> QED
  BY <1>1, <1>2, <1>3

\* binding_run().
LEMMA Recomputed ==
    ASSUME NEW q \in Port
    PROVE  LET r == recompute(q, FALSE)
           IN  Moves(q, r, FALSE) /\ Bound(r) /\ Forgotten(r) /\ HasBinding(r)
<1> DEFINE u == [q EXCEPT !.lb = q.iface, !.uninstall = @ \/ (~q.iface /\ q.installed)]
           r == recompute(q, FALSE)
<1>1. r = consider_vif_lport(u, FALSE)
  BY DEF recompute
<1>2. /\ u \in Port /\ u.up = q.up /\ u.bind = q.bind /\ u.chassis = q.chassis
      /\ u.st = q.st /\ u.install = q.install
  BY DEF Port
<1>3. consider_vif_lport_ok(u, FALSE)
  BY DEF consider_vif_lport_ok, release_lport_ok
<1> HIDE DEF r, u
<1>4. Moves(u, r, FALSE) /\ Bound(r) /\ Forgotten(r) /\ HasBinding(r)
  BY <1>1, <1>2, <1>3, ConsiderVif
<1> QED
  BY <1>2, <1>4 DEF r, Moves

\* if_status_mgr_clear() moves a port as well.
LEMMA Cleared ==
    ASSUME NEW q \in Port, NEW readonly
    PROVE  Moves(q, if_status_mgr_clear(q), readonly) /\ if_status_mgr_clear(q).up = q.up
<1> DEFINE s == set_state(q, "NULL")
           r == if_status_mgr_clear(q)
<1>1. /\ s \in Port /\ Kept(q, s) /\ s.chassis = q.chassis /\ s.st = "NULL"
  BY SetState DEF IfStates
<1>2. r = [s EXCEPT !.uninstall = FALSE]
  BY DEF if_status_mgr_clear, ovs_iface_destroy
<1> HIDE DEF s, r
<1>3. /\ r \in Port /\ r.lb = s.lb /\ r.up = s.up /\ r.bind = s.bind /\ r.chassis = s.chassis /\ r.st = s.st
  BY <1>1, <1>2 DEF Port
<1>4. HasBinding(r)
  BY <1>1, <1>3 DEF HasBinding, ClaimedStates, IfStates
<1> QED
  BY <1>1, <1>3, <1>4 DEF r, Moves, Kept

-----------------------------------------------------------------------------
(* The loops of if_status_mgr_update() and if_status_mgr_run().            *)

\* if_status_mgr_update() turns q into r, or one of its loops does.
Updates(q, r, readonly, seqno) ==
    /\ r \in Port
    /\ r.lb = q.lb /\ r.bind = q.bind
    /\ r.chassis \in {q.chassis, "none", "us"}
    /\ readonly => r.chassis = q.chassis /\ r.up = q.up
    /\ r.up => q.up
    /\ q.postponed => r.postponed
    /\ r.st \in ClaimedStates <=> q.st \in ClaimedStates
    /\ r.chassis \in {q.chassis, "none"} \/ r.st \in ClaimedStates
    /\ r.st \in PastFlows => q.st \in PastFlows
    /\ r.st = "CLAIMED" => q.st = "CLAIMED"
    /\ r.st = "INSTALL_FLOWS" =>
          \/ q.st = "INSTALL_FLOWS" /\ r.install = q.install
          \/ q.st = "CLAIMED" /\ ~readonly /\ r.install = seqno + 1
    /\ r.st = "INSTALLED" =>
          \/ q.st = "INSTALLED" /\ r.chassis = q.chassis /\ r.up = q.up
          \/ r.chassis = "us" /\ r.up
    /\ r.st = "NULL" =>
          \/ q.st = "NULL" /\ r.chassis = q.chassis /\ r.up = q.up
          \/ r.chassis # "us"
          \/ ~q.up /\ r.chassis = q.chassis

LEMMA UpdatesTwice ==
    ASSUME NEW q, NEW r, NEW s, NEW readonly, NEW seqno,
           Updates(q, r, readonly, seqno), r.up = q.up, Updates(r, s, readonly, seqno)
    PROVE  Updates(q, s, readonly, seqno)
<1>1. /\ s \in Port
      /\ s.lb = q.lb /\ s.bind = q.bind
      /\ s.chassis \in {q.chassis, "none", "us"}
      /\ readonly => s.chassis = q.chassis /\ s.up = q.up
      /\ s.up => q.up
      /\ q.postponed => s.postponed
      /\ s.st \in ClaimedStates <=> q.st \in ClaimedStates
      /\ s.chassis \in {q.chassis, "none"} \/ s.st \in ClaimedStates
      /\ s.st \in PastFlows => q.st \in PastFlows
      /\ s.st = "CLAIMED" => q.st = "CLAIMED"
  BY DEF Updates
<1>2. s.st = "INSTALL_FLOWS" =>
          \/ q.st = "INSTALL_FLOWS" /\ s.install = q.install
          \/ q.st = "CLAIMED" /\ ~readonly /\ s.install = seqno + 1
  BY DEF Updates
<1>3. s.st = "INSTALLED" =>
          \/ q.st = "INSTALLED" /\ s.chassis = q.chassis /\ s.up = q.up
          \/ s.chassis = "us" /\ s.up
  BY DEF Updates
<1>4. s.st = "NULL" =>
          \/ q.st = "NULL" /\ s.chassis = q.chassis /\ s.up = q.up
          \/ s.chassis # "us"
          \/ ~q.up /\ s.chassis = q.chassis
  BY DEF Updates, ClaimedStates
<1> QED
  BY <1>1, <1>2, <1>3, <1>4 DEF Updates

\* The fields that count are the same.
Alike(q, r) ==
    /\ r \in Port /\ Kept(q, r) /\ r.chassis = q.chassis
    /\ r.st = q.st /\ r.install = q.install

LEMMA AlikeUpdates ==
    ASSUME NEW q \in Port, NEW r, Alike(q, r), NEW readonly, NEW seqno
    PROVE  Updates(q, r, readonly, seqno) /\ r.up = q.up
BY DEF Updates, Alike, Kept

LEMMA CleanOvnInstalled ==
    ASSUME NEW q \in Port
    PROVE  Alike(q, clean_ovn_installed(q)) /\ Alike(q, remove_ovn_installed(q))
<1>1. Alike(q, q)
  BY DEF Alike, Kept
<1>2. Alike(q, [q EXCEPT !.op = "del"])
  BY DEF Alike, Kept, Port
<1> DEFINE r == remove_ovn_installed(q)
<1>3. Alike(q, r)
  BY <1>1, <1>2 DEF remove_ovn_installed
<1> HIDE DEF r
<1>4. Alike(q, [r EXCEPT !.uninstall = FALSE])
  BY <1>3 DEF Alike, Kept, Port
<1>5. clean_ovn_installed(q) = [r EXCEPT !.uninstall = FALSE] \/ clean_ovn_installed(q) = q
  BY DEF clean_ovn_installed, r
<1> QED
  BY <1>1, <1>3, <1>4, <1>5 DEF r

\* reclaim_chassis() postpones the claim or writes the chassis.
LEMMA ReclaimChassis ==
    ASSUME NEW q \in Port
    PROVE  LET r == reclaim_chassis(q)
           IN  /\ r \in Port /\ r.lb = q.lb /\ r.up = q.up /\ r.bind = q.bind
               /\ r.st = q.st /\ r.install = q.install
               /\ q.postponed => r.postponed
               /\ r.chassis \in {q.chassis, "us"}
<1> DEFINE r == reclaim_chassis(q)
<1>1. CASE r = [q EXCEPT !.postponed = TRUE]
  <2> HIDE DEF r
  <2> QED
    BY <1>1 DEF r, Port
<1>2. CASE r = set_pb_chassis(q)
  <2> HIDE DEF r
  <2> QED
    BY <1>2, SetChassis DEF r, Kept
<1>3. CASE r = q
  BY <1>3
<1> QED
  BY <1>1, <1>2, <1>3 DEF reclaim_chassis, postpone, local_binding_set_pb

LEMMA UpdateRemOld ==
    ASSUME NEW q \in Port, NEW readonly, NEW seqno
    PROVE  LET r == update_REM_OLD_OVN_INST(q)
           IN  Updates(q, r, readonly, seqno) /\ r.up = q.up
<1> DEFINE r == update_REM_OLD_OVN_INST(q)
<1>1. CASE q.st = "REM_OLD_OVN_INST" /\ r = set_state(q, "MARK_UP")
  <2> HIDE DEF r
  <2>1. /\ r \in Port /\ Kept(q, r) /\ r.chassis = q.chassis /\ r.st = "MARK_UP"
    BY <1>1, SetState DEF IfStates
  <2> QED
    BY <1>1, <2>1 DEF r, Updates, Kept, PastFlows, ClaimedStates, IfStates
<1>2. CASE r = q
  BY <1>2, AlikeUpdates DEF Alike, Kept
<1> QED
  BY <1>1, <1>2 DEF update_REM_OLD_OVN_INST

LEMMA UpdateMarkUp ==
    ASSUME NEW q \in Port, NEW readonly \in BOOLEAN, NEW seqno
    PROVE  LET r == update_MARK_UP(q, readonly)
           IN  Updates(q, r, readonly, seqno) /\ r.up = q.up
<1> DEFINE r == update_MARK_UP(q, readonly)
           o == IF ~pb_chassis_is_set(q) /\ ~readonly THEN reclaim_chassis(q) ELSE q
<1>0. /\ o \in Port /\ o.lb = q.lb /\ o.up = q.up /\ o.bind = q.bind
      /\ o.st = q.st /\ o.install = q.install /\ (q.postponed => o.postponed)
      /\ o.chassis \in {q.chassis, "us"} /\ (readonly => o.chassis = q.chassis)
  BY ReclaimChassis
<1>1. CASE q.st = "MARK_UP" /\ local_binding_is_up(o)
  <2>1. r = set_state(o, "INSTALLED")
    BY <1>1 DEF update_MARK_UP
  <2> HIDE DEF r, o
  <2>2. /\ r \in Port /\ Kept(o, r) /\ r.chassis = o.chassis /\ r.st = "INSTALLED"
    BY <1>0, <2>1, SetState DEF IfStates
  <2>3. o.chassis = "us" /\ o.up /\ o.lb
    BY <1>1 DEF local_binding_is_up
  <2> QED
    BY <1>0, <1>1, <2>2, <2>3 DEF r, Updates, Kept, PastFlows, ClaimedStates, IfStates
<1>2. CASE q.st = "MARK_UP" /\ ~local_binding_is_up(o)
  <2>1. r = o
    BY <1>2 DEF update_MARK_UP
  <2> HIDE DEF r, o
  <2> QED
    BY <1>0, <1>2, <2>1 DEF r, Updates, PastFlows, ClaimedStates, IfStates
<1>3. CASE q.st # "MARK_UP"
  <2>1. r = q
    BY <1>3 DEF update_MARK_UP
  <2> HIDE DEF r
  <2> QED
    BY <2>1, AlikeUpdates DEF r, Alike, Kept
<1> QED
  BY <1>1, <1>2, <1>3

LEMMA UpdateMarkDown ==
    ASSUME NEW q \in Port, NEW readonly \in BOOLEAN, NEW seqno
    PROVE  LET r == update_MARK_DOWN(q, readonly)
           IN  Updates(q, r, readonly, seqno) /\ r.up = q.up
<1> DEFINE r == update_MARK_DOWN(q, readonly)
           u == IF readonly THEN q ELSE unset_pb_chassis(q)
<1>0. /\ u \in Port /\ Kept(q, u)
      /\ u.chassis = IF ~readonly /\ q.chassis = "us" THEN "none" ELSE q.chassis
      /\ u.st = q.st /\ u.install = q.install
  BY UnsetChassis DEF Kept
<1>1. CASE q.st = "MARK_DOWN" /\ ~q.lb
  <2>1. r = set_state(q, "UPDATE_PORT")
    BY <1>1 DEF update_MARK_DOWN
  <2> HIDE DEF r
  <2>2. /\ r \in Port /\ Kept(q, r) /\ r.chassis = q.chassis /\ r.st = "UPDATE_PORT"
    BY <2>1, SetState DEF IfStates
  <2> QED
    BY <1>1, <2>2 DEF r, Updates, Kept, PastFlows, ClaimedStates, IfStates
<1>2. CASE q.st = "MARK_DOWN" /\ q.lb /\ local_binding_is_down(u)
  <2>1. r = set_state(u, "NULL")
    BY <1>2 DEF update_MARK_DOWN, ovs_iface_destroy
  <2>2. u.chassis # "us"
    BY <1>2 DEF local_binding_is_down
  <2> HIDE DEF r, u
  <2>3. /\ r \in Port /\ Kept(u, r) /\ r.chassis = u.chassis /\ r.st = "NULL"
    BY <1>0, <2>1, SetState DEF IfStates
  <2> QED
    BY <1>0, <1>2, <2>2, <2>3 DEF r, Updates, Kept, PastFlows, ClaimedStates, IfStates
<1>3. CASE q.st = "MARK_DOWN" /\ q.lb /\ ~local_binding_is_down(u)
  <2>1. r = u
    BY <1>3 DEF update_MARK_DOWN
  <2> HIDE DEF r, u
  <2> QED
    BY <1>0, <1>3, <2>1 DEF r, Updates, Kept, PastFlows, ClaimedStates, IfStates
<1>4. CASE q.st # "MARK_DOWN"
  <2>1. r = q
    BY <1>4 DEF update_MARK_DOWN
  <2> HIDE DEF r
  <2> QED
    BY <2>1, AlikeUpdates DEF r, Alike, Kept
<1> QED
  BY <1>1, <1>2, <1>3, <1>4

LEMMA UpdateInstallFlows ==
    ASSUME NEW q \in Port, NEW readonly \in BOOLEAN, NEW seqno
    PROVE  LET r == update_INSTALL_FLOWS(q, readonly)
           IN  Updates(q, r, readonly, seqno) /\ r.up = q.up
<1> DEFINE r == update_INSTALL_FLOWS(q, readonly)
<1>1. CASE q.st = "INSTALL_FLOWS" /\ ~readonly /\ r = reclaim_chassis(q)
  <2> HIDE DEF r
  <2>1. /\ r \in Port /\ r.lb = q.lb /\ r.up = q.up /\ r.bind = q.bind
        /\ r.st = q.st /\ r.install = q.install
        /\ q.postponed => r.postponed
        /\ r.chassis \in {q.chassis, "us"}
    BY <1>1, ReclaimChassis
  <2> QED
    BY <1>1, <2>1 DEF r, Updates, ClaimedStates, IfStates
<1>2. CASE r = q
  BY <1>2, AlikeUpdates DEF Alike, Kept
<1> QED
  BY <1>1, <1>2 DEF update_INSTALL_FLOWS

LEMMA UpdateClaimed ==
    ASSUME NEW q \in Port, NEW readonly \in BOOLEAN, NEW seqno \in Nat
    PROVE  LET r == update_CLAIMED(q, readonly, seqno)
           IN  Updates(q, r, readonly, seqno) /\ r.up = q.up
<1> DEFINE r == update_CLAIMED(q, readonly, seqno)
           s == set_state(q, "INSTALL_FLOWS")
<1>1. CASE q.st = "CLAIMED" /\ ~readonly /\ r = [s EXCEPT !.install = seqno + 1]
  <2>1. s \in Port /\ Kept(q, s) /\ s.chassis = q.chassis /\ s.st = "INSTALL_FLOWS"
    BY SetState DEF IfStates
  <2> HIDE DEF r, s
  <2>2. /\ r \in Port /\ Kept(s, r) /\ r.chassis = s.chassis /\ r.st = s.st /\ r.install = seqno + 1
    BY <1>1, <2>1 DEF Port, Kept
  <2> QED
    BY <1>1, <2>1, <2>2 DEF r, Updates, Kept, PastFlows, ClaimedStates, IfStates
<1>2. CASE r = q
  BY <1>2, AlikeUpdates DEF Alike, Kept
<1> QED
  BY <1>1, <1>2 DEF update_CLAIMED

LEMMA UpdatePort ==
    ASSUME NEW q \in Port, NEW readonly \in BOOLEAN, NEW seqno
    PROVE  Updates(q, update_UPDATE_PORT(q, readonly), readonly, seqno)
<1> DEFINE r == update_UPDATE_PORT(q, readonly)
           d == port_binding_set_down(q)
           v == [q EXCEPT !.up = FALSE]
<1>1. CASE q.st = "UPDATE_PORT" /\ ~readonly
  <2>1. r = set_state(d, "NULL")
    BY <1>1 DEF update_UPDATE_PORT, ovs_iface_destroy
  <2>2. /\ d \in Port /\ d.lb = q.lb /\ d.bind = q.bind /\ d.postponed = q.postponed /\ ~d.up
        /\ d.chassis \in {q.chassis, "none"}
        /\ d.chassis # "us" \/ (~q.up /\ d.chassis = q.chassis)
    <3>1. CASE q.up
      <4>1. d = unset_pb_chassis(v)
        BY <3>1 DEF port_binding_set_down
      <4>2. /\ v \in Port /\ v.lb = q.lb /\ v.bind = q.bind /\ v.postponed = q.postponed /\ ~v.up
            /\ v.chassis = q.chassis
        BY DEF Port
      <4> HIDE DEF d, v
      <4> QED
        BY <4>1, <4>2, UnsetChassis DEF Kept, d
    <3>2. CASE ~q.up
      <4>1. d = q
        BY <3>2 DEF port_binding_set_down
      <4> QED
        BY <3>2, <4>1
    <3> QED
      BY <3>1, <3>2
  <2> HIDE DEF r, d
  <2>3. /\ r \in Port /\ Kept(d, r) /\ r.chassis = d.chassis /\ r.st = "NULL"
    BY <2>1, <2>2, SetState DEF IfStates
  <2> QED
    BY <1>1, <2>2, <2>3 DEF r, Updates, Kept, PastFlows, ClaimedStates, IfStates
<1>2. CASE ~(q.st = "UPDATE_PORT" /\ ~readonly)
  <2>1. r = q
    BY <1>2 DEF update_UPDATE_PORT
  <2> HIDE DEF r
  <2> QED
    BY <2>1, AlikeUpdates DEF r, Alike, Kept
<1> QED
  BY <1>1, <1>2

\* All the loops one after the other.
LEMMA MgrUpdates ==
    ASSUME NEW q \in Port, NEW ok \in BOOLEAN, NEW readonly \in BOOLEAN, NEW ovs_readonly \in BOOLEAN,
           NEW seqno \in Nat
    PROVE  LET r == if_status_mgr_update(q, ok, readonly, ovs_readonly, seqno)
           IN  /\ Updates(q, r, readonly, seqno)
               /\ r.st = "INSTALL_FLOWS" /\ q.st = "CLAIMED" => ok
<1> DEFINE q1 == IF ovs_readonly THEN q ELSE clean_ovn_installed(q)
           q0 == update_REM_OLD_OVN_INST(q1)
           q2 == update_MARK_UP(q0, readonly)
           q3 == update_MARK_DOWN(q2, readonly)
           q4 == update_INSTALL_FLOWS(q3, readonly)
           q5 == update_CLAIMED(q4, readonly, seqno)
           q6 == update_UPDATE_PORT(q5, readonly)
           r == if_status_mgr_update(q, ok, readonly, ovs_readonly, seqno)
<1>1. r = IF ok THEN q6 ELSE q1
  BY DEF if_status_mgr_update
<1>2. Alike(q, q1)
  BY CleanOvnInstalled DEF Alike, Kept
<1>3. Updates(q, q1, readonly, seqno) /\ q1.up = q.up
  <2> HIDE DEF q1
  <2> QED
    BY <1>2, AlikeUpdates
<1> HIDE DEF r, q1
<1>4. Updates(q, q0, readonly, seqno) /\ q0.up = q.up
  <2>1. q1 \in Port
    BY <1>3 DEF Updates
  <2>2. Updates(q1, q0, readonly, seqno) /\ q0.up = q1.up
    BY <2>1, UpdateRemOld
  <2> HIDE DEF q0
  <2> QED
    BY <1>3, <2>2, UpdatesTwice
<1> HIDE DEF q0
<1>5. Updates(q, q2, readonly, seqno) /\ q2.up = q.up
  <2>1. q0 \in Port
    BY <1>4 DEF Updates
  <2>2. Updates(q0, q2, readonly, seqno) /\ q2.up = q0.up
    BY <2>1, UpdateMarkUp
  <2> HIDE DEF q2
  <2> QED
    BY <1>4, <2>2, UpdatesTwice
<1> HIDE DEF q2
<1>6. Updates(q, q3, readonly, seqno) /\ q3.up = q.up
  <2>1. q2 \in Port
    BY <1>5 DEF Updates
  <2>2. Updates(q2, q3, readonly, seqno) /\ q3.up = q2.up
    BY <2>1, UpdateMarkDown
  <2> HIDE DEF q3
  <2> QED
    BY <1>5, <2>2, UpdatesTwice
<1> HIDE DEF q3
<1>7. Updates(q, q4, readonly, seqno) /\ q4.up = q.up
  <2>1. q3 \in Port
    BY <1>6 DEF Updates
  <2>2. Updates(q3, q4, readonly, seqno) /\ q4.up = q3.up
    BY <2>1, UpdateInstallFlows
  <2> HIDE DEF q4
  <2> QED
    BY <1>6, <2>2, UpdatesTwice
<1> HIDE DEF q4
<1>8. Updates(q, q5, readonly, seqno) /\ q5.up = q.up
  <2>1. q4 \in Port
    BY <1>7 DEF Updates
  <2>2. Updates(q4, q5, readonly, seqno) /\ q5.up = q4.up
    BY <2>1, UpdateClaimed
  <2> HIDE DEF q5
  <2> QED
    BY <1>7, <2>2, UpdatesTwice
<1> HIDE DEF q5
<1>9. Updates(q, q6, readonly, seqno)
  <2>1. q5 \in Port
    BY <1>8 DEF Updates
  <2>2. Updates(q5, q6, readonly, seqno)
    BY <2>1, UpdatePort
  <2> HIDE DEF q6
  <2> QED
    BY <1>8, <2>2, UpdatesTwice
<1> HIDE DEF q6
<1>10. CASE ok
  BY <1>1, <1>9, <1>10 DEF r
<1>11. CASE ~ok
  BY <1>1, <1>2, <1>3, <1>11 DEF r, Alike
<1> QED
  BY <1>10, <1>11

\* if_status_mgr_run().
LEMMA MgrRuns ==
    ASSUME NEW q \in Port, NEW ok \in BOOLEAN, NEW readonly \in BOOLEAN, NEW ovs_readonly \in BOOLEAN,
           NEW acked
    PROVE  LET r == if_status_mgr_run(q, ok, acked, readonly, ovs_readonly)
           IN  /\ r \in Port
               /\ r.lb = q.lb /\ r.bind = q.bind /\ r.postponed = q.postponed /\ r.chassis = q.chassis
               /\ readonly => r.up = q.up
               /\ \/ r.st = q.st /\ r.install = q.install
                  \/ /\ q.st = "INSTALL_FLOWS" /\ q.install \in acked
                     /\ r.st \in {"REM_OLD_OVN_INST", "MARK_UP"}
<1> DEFINE m == flows_installed(q, ok, acked)
           r == if_status_mgr_run(q, ok, acked, readonly, ovs_readonly)
<1>1. /\ m \in Port /\ Kept(q, m) /\ m.chassis = q.chassis
      /\ \/ m.st = q.st /\ m.install = q.install
         \/ /\ q.st = "INSTALL_FLOWS" /\ q.install \in acked
            /\ m.st \in {"REM_OLD_OVN_INST", "MARK_UP"}
  <2>1. CASE m = q
    BY <2>1 DEF Kept
  <2>2. CASE q.st = "INSTALL_FLOWS" /\ q.install \in acked /\ m = set_state(q, "REM_OLD_OVN_INST")
    <3> HIDE DEF m
    <3> QED
      BY <2>2, SetState DEF IfStates
  <2>3. CASE q.st = "INSTALL_FLOWS" /\ q.install \in acked /\ m = set_state(q, "MARK_UP")
    <3> HIDE DEF m
    <3> QED
      BY <2>3, SetState DEF IfStates
  <2> QED
    BY <2>1, <2>2, <2>3 DEF flows_installed
<1> HIDE DEF m
<1>2. /\ r \in Port
      /\ r.lb = m.lb /\ r.bind = m.bind /\ r.postponed = m.postponed /\ r.chassis = m.chassis
      /\ readonly => r.up = m.up
      /\ r.st = m.st /\ r.install = m.install
  <2> DEFINE d == remove_ovn_installed(m)
             e == [m EXCEPT !.op = "set"]
             d1 == IF ~ovs_readonly /\ m.lb THEN d ELSE m
             e1 == IF ~ovs_readonly /\ m.lb /\ ~m.installed THEN e ELSE m
  <2>1. Alike(m, m)
    BY <1>1 DEF Alike, Kept
  <2>2. Alike(m, d)
    BY <1>1, CleanOvnInstalled
  <2>3. Alike(m, e)
    BY <1>1 DEF Alike, Kept, Port
  <2>3a. Alike(m, d1) /\ Alike(m, e1)
    <3> HIDE DEF d, e
    <3> QED
      BY <2>1, <2>2, <2>3
  <2>3b. \/ r = m \/ r = d1
         \/ ~readonly /\ r = [d1 EXCEPT !.up = FALSE]
         \/ r = e1
         \/ ~readonly /\ r = [e1 EXCEPT !.up = TRUE]
    BY DEF if_status_mgr_run, if_status_mgr_update_bindings, local_binding_set_down, local_binding_set_up, m
  <2> HIDE DEF r, d1, e1
  <2>4. CASE r \in {m, d1, e1}
    BY <2>1, <2>3a, <2>4 DEF Alike, Kept
  <2>5. CASE ~readonly /\ r = [d1 EXCEPT !.up = FALSE]
    BY <2>3a, <2>5 DEF Alike, Kept, Port
  <2>6. CASE ~readonly /\ r = [e1 EXCEPT !.up = TRUE]
    BY <2>3a, <2>6 DEF Alike, Kept, Port
  <2> QED
    BY <2>3b, <2>4, <2>5, <2>6
<1> HIDE DEF r
<1> QED
  BY <1>1, <1>2 DEF r, Kept

-----------------------------------------------------------------------------
(* The world around ovn-controller.                                        *)

DbTypes ==
    /\ sbdb \in [Ports -> [chassis : {"none", "us", "other"}, up : BOOLEAN, bind : BOOLEAN]]
    /\ ovsdb \in [Ports -> [iface : BOOLEAN, installed : BOOLEAN]]
    /\ sb_txn \in [Ports -> [chassis : SUBSET {"none", "us"}, up : SUBSET BOOLEAN]]
    /\ ovs_txn \in [Ports -> {Keep, "set", "del"}]

EngineTypes ==
    /\ pc \in {"top", "update", "put", "seqno", "run"}
    /\ tracked \subseteq Ports /\ overlooked \subseteq Ports
    /\ force \in BOOLEAN /\ aborted \in BOOLEAN /\ valid \in BOOLEAN /\ sb_ro \in BOOLEAN
    /\ of_connected \in BOOLEAN
    /\ ro \in [sb : BOOLEAN, ovs : BOOLEAN]

FlowTypes ==
    /\ sent \subseteq Ports /\ sw_flows \subseteq Ports
    /\ conn \in BOOLEAN
    /\ iface_seqno \in Nat /\ cur_cfg \in Nat
    /\ flight \in Seq([req_cfg : Nat, flows : SUBSET Ports])

LEMMA TypeParts ==
    TypeOK <=> /\ SeqnoTypeOK /\ DbTypes /\ EngineTypes /\ FlowTypes
               /\ port \in [Ports -> Port]
               /\ n \in [Budgets -> Nat]
BY DEF TypeOK, DbTypes, EngineTypes, FlowTypes

DropInv == n["drop"] = 0 => NumbersInv /\ FlowsInv

LEMMA InvParts ==
    PortsInv <=> /\ TypeOK /\ AbortedInv /\ ClaimedInv /\ ViewInv /\ BoundInv /\ ForgottenInv
                 /\ DropInv
BY DEF PortsInv, DropInv

\* One more event of kind b.
LEMMA Spends ==
    ASSUME n \in [Budgets -> Nat], NEW b \in Budgets, NEW max, Spend(b, max)
    PROVE  /\ n' \in [Budgets -> Nat]
           /\ n'["drop"] = 0 => n["drop"] = 0 /\ b # "drop"
<1>1. n' = [n EXCEPT ![b] = @ + 1]
  BY Zenon DEF Spend
<1>2. "drop" \in Budgets
  BY DEF Budgets
<1> QED
  BY <1>1, <1>2

\* The invariants of the numbers and flows do not depend on anything else.
LEMMA NumbersFrame ==
    ASSUME DropInv, n'["drop"] = 0 => n["drop"] = 0,
           n'["drop"] = 0 => (of_connected' => conn'),
           pc' = "seqno" => pc = "seqno",
           UNCHANGED <<seqno_vars, iface_seqno, flight, sent, sw_flows, cur_cfg>>,
           \A p \in Ports :
              \/ port'[p].st = port[p].st /\ port'[p].install = port[p].install
              \/ port'[p].st \notin PastFlows \cup {"INSTALL_FLOWS"}
    PROVE  DropInv'
<1> SUFFICES ASSUME n'["drop"] = 0 PROVE NumbersInv' /\ FlowsInv'
  BY DEF DropInv
<1>1. NumbersInv /\ FlowsInv
  BY DEF DropInv
<1>2. NumbersInv'
  BY <1>1 DEF NumbersInv, seqno_vars, Started
<1>3. FlowsInv'
  BY <1>1 DEF FlowsInv, Reached, Awaits, seqno_vars
<1> QED
  BY <1>2, <1>3

\* What a step at the top of the loop may do to the databases.
LEMMA TopFrame ==
    ASSUME BoundInv, ForgottenInv, pc = "top", pc' = "top",
           \A p \in Ports :
              /\ port'[p].st = port[p].st /\ port'[p].lb = port[p].lb
              /\ port'[p].postponed = port[p].postponed
              /\ \/ Unseen(p)'
                 \/ /\ sbdb'[p] = sbdb[p]
                    /\ Unseen(p) => Unseen(p)'
                    /\ \A c \in {"us", "none"} :
                          sb_txn[p].chassis = {c} /\ sbdb[p].chassis # c => sb_txn'[p].chassis = {c}
    PROVE  BoundInv' /\ ForgottenInv'
<1>1. BoundInv'
  BY DEF BoundInv, Writes
<1>2. ForgottenInv'
  BY DEF ForgottenInv, Writes
<1> QED
  BY <1>1, <1>2

\* A step at the top of the loop leaves pc and the tracker alone.
LEMMA WorldFrame ==
    ASSUME World, SeqnoTypeOK
    PROVE  pc = "top" /\ pc' = "top" /\ UNCHANGED seqno_vars /\ SeqnoTypeOK' /\ ViewInv' /\ ~(pc' = "seqno")
BY DEF World, seqno_vars, SeqnoTypeOK, ViewInv

\* Steps that change neither the rows of the Southbound nor the ports.
LEMMA QuietStep ==
    ASSUME PortsInv, World, UNCHANGED <<sbdb, sb_txn, tracked, overlooked, force, aborted, valid, ro, sb_ro, of_connected>>,
           port' \in [Ports -> Port],
           \A p \in Ports : /\ port'[p].st = port[p].st /\ port'[p].lb = port[p].lb
                            /\ port'[p].postponed = port[p].postponed,
           ovsdb' \in [Ports -> [iface : BOOLEAN, installed : BOOLEAN]],
           ovs_txn' \in [Ports -> {Keep, "set", "del"}],
           n' \in [Budgets -> Nat], FlowTypes', DropInv'
    PROVE  PortsInv'
<1>1. /\ TypeOK /\ AbortedInv /\ ClaimedInv /\ BoundInv /\ ForgottenInv
  BY DEF PortsInv
<1>2. /\ SeqnoTypeOK /\ DbTypes /\ EngineTypes /\ port \in [Ports -> Port]
  BY <1>1, TypeParts
<1>3. /\ pc = "top" /\ pc' = "top" /\ SeqnoTypeOK' /\ ViewInv'
  BY <1>2, WorldFrame
<1>5. DbTypes' /\ EngineTypes'
  BY <1>2, <1>3 DEF DbTypes, EngineTypes
<1>6. TypeOK'
  <2>1. (SeqnoTypeOK /\ DbTypes /\ EngineTypes /\ FlowTypes /\ port \in [Ports -> Port] /\ n \in [Budgets -> Nat])'
    BY <1>3, <1>5
  <2> QED
    BY <2>1 DEF TypeOK, DbTypes, EngineTypes, FlowTypes
<1>7. AbortedInv' /\ ClaimedInv'
  BY <1>1 DEF AbortedInv, ClaimedInv
<1>8. BoundInv' /\ ForgottenInv'
  BY <1>1, <1>3, TopFrame DEF Unseen
<1> QED
  BY <1>3, <1>6, <1>7, <1>8 DEF PortsInv, DropInv

LEMMA IfaceChangeStep ==
    ASSUME PortsInv, NEW p \in Ports, IfaceChange(p)
    PROVE  PortsInv'
<1>1. /\ DbTypes /\ FlowTypes /\ DropInv /\ n \in [Budgets -> Nat] /\ SeqnoTypeOK
      /\ port \in [Ports -> Port]
  BY InvParts, TypeParts
<1>2. /\ World /\ Spend("iface", MaxIface) /\ ovsdb' = [ovsdb EXCEPT ![p].iface = ~@]
      /\ UNCHANGED <<sbdb, sb_txn, ovs_txn, port, tracked, overlooked, force, aborted, valid, ro, sb_ro, of_connected,
                     conn, flight, sent, sw_flows, cur_cfg, iface_seqno>>
  BY Zenon DEF IfaceChange, engine_vars, of_vars
<1>3. n' \in [Budgets -> Nat] /\ (n'["drop"] = 0 => n["drop"] = 0)
  BY <1>1, <1>2, Spends DEF Budgets
<1>4. ovsdb' \in [Ports -> [iface : BOOLEAN, installed : BOOLEAN]]
  <2> DEFINE row == [ovsdb[p] EXCEPT !.iface = ~@]
             S == [iface : BOOLEAN, installed : BOOLEAN]
  <2>1. ovsdb \in [Ports -> S] /\ ovsdb[p] \in S
    BY <1>1 DEF DbTypes
  <2>2. row \in S
    BY <2>1
  <2>3. ovsdb' = [ovsdb EXCEPT ![p] = row]
    BY <1>2, Zenon
  <2> HIDE DEF row, S
  <2>4. ovsdb' \in [Ports -> S]
    BY <2>1, <2>2, <2>3
  <2> QED
    BY <2>4 DEF S
<1>5. FlowTypes' /\ ovs_txn' \in [Ports -> {Keep, "set", "del"}]
  BY <1>1, <1>2 DEF FlowTypes, DbTypes
<1>6. DropInv'
  <2>1. n["drop"] = 0 => (of_connected => conn)
    BY <1>1 DEF DropInv, NumbersInv
  <2> QED
    BY <1>1, <1>2, <1>3, <2>1, NumbersFrame, WorldFrame
<1> QED
  BY <1>1, <1>2, <1>3, <1>4, <1>5, <1>6, QuietStep

LEMMA ClockStep ==
    ASSUME PortsInv, NEW p \in Ports, Clock(p)
    PROVE  PortsInv'
<1>1. /\ DbTypes /\ FlowTypes /\ DropInv /\ n \in [Budgets -> Nat] /\ SeqnoTypeOK
      /\ port \in [Ports -> Port]
  BY InvParts, TypeParts
<1>2. /\ World /\ port' = [port EXCEPT ![p].recent = FALSE]
      /\ UNCHANGED <<sbdb, ovsdb, sb_txn, ovs_txn, tracked, overlooked, force, aborted, valid, ro, sb_ro, of_connected,
                     conn, flight, sent, sw_flows, cur_cfg, iface_seqno, n>>
  BY Zenon DEF Clock, db_vars, engine_vars, of_vars
<1>3. /\ port' \in [Ports -> Port]
      /\ \A x \in Ports : /\ port'[x].st = port[x].st /\ port'[x].lb = port[x].lb
                          /\ port'[x].postponed = port[x].postponed /\ port'[x].install = port[x].install
  <2>1. [port[p] EXCEPT !.recent = FALSE] \in Port
    BY <1>1 DEF Port
  <2>2. /\ port' \in [Ports -> Port]
        /\ \A x \in Ports \ {p} : port'[x] = port[x]
        /\ port'[p] = [port[p] EXCEPT !.recent = FALSE]
    BY <1>1, <1>2, <2>1
  <2>3. \A x \in Ports : port[x] \in Port
    BY <1>1
  <2> QED
    BY <2>2, <2>3 DEF Port
<1>4. /\ FlowTypes' /\ ovs_txn' \in [Ports -> {Keep, "set", "del"}]
      /\ ovsdb' \in [Ports -> [iface : BOOLEAN, installed : BOOLEAN]]
  BY <1>1, <1>2 DEF FlowTypes, DbTypes
<1>5. DropInv'
  <2>1. n["drop"] = 0 => (of_connected => conn)
    BY <1>1 DEF DropInv, NumbersInv
  <2> QED
    BY <1>1, <1>2, <1>3, <2>1, NumbersFrame, WorldFrame
<1> QED
  BY <1>1, <1>2, <1>3, <1>4, <1>5, QuietStep

LEMMA OvsAnswerStep ==
    ASSUME PortsInv, OvsCommitted \/ OvsFailed
    PROVE  PortsInv'
<1>1. /\ DbTypes /\ FlowTypes /\ DropInv /\ n \in [Budgets -> Nat] /\ SeqnoTypeOK
      /\ port \in [Ports -> Port]
  BY InvParts, TypeParts
<1>2. /\ World /\ ovs_txn' = NoOvsWrites
      /\ UNCHANGED <<sbdb, sb_txn, port, tracked, overlooked, force, aborted, valid, ro, sb_ro, of_connected,
                     conn, flight, sent, sw_flows, cur_cfg, iface_seqno>>
  BY Zenon DEF OvsCommitted, OvsFailed, engine_vars, of_vars
<1>3. n' \in [Budgets -> Nat] /\ (n'["drop"] = 0 => n["drop"] = 0)
  <2>1. CASE OvsCommitted
    BY <1>1, <2>1, Zenon DEF OvsCommitted
  <2>2. CASE OvsFailed
    <3>1. Spend("ovs", MaxOvsFails)
      BY <2>2, Zenon DEF OvsFailed
    <3> QED
      BY <1>1, <3>1, Spends DEF Budgets
  <2> QED
    BY <2>1, <2>2
<1>4. ovsdb' \in [Ports -> [iface : BOOLEAN, installed : BOOLEAN]]
  <2>1. CASE OvsCommitted
    <3> DEFINE done(q) == CASE ovs_txn[q] = "set" -> TRUE
                            [] ovs_txn[q] = "del" -> FALSE
                            [] OTHER -> ovsdb[q].installed
    <3>1. ovsdb' = [q \in Ports |-> [ovsdb[q] EXCEPT !.installed = done(q)]]
      BY <2>1, Zenon DEF OvsCommitted
    <3>2. ASSUME NEW q \in Ports PROVE done(q) \in BOOLEAN
      BY <1>1 DEF DbTypes
    <3> HIDE DEF done
    <3>3. ASSUME NEW q \in Ports
          PROVE  [ovsdb[q] EXCEPT !.installed = done(q)] \in [iface : BOOLEAN, installed : BOOLEAN]
      <4>1. ovsdb[q] \in [iface : BOOLEAN, installed : BOOLEAN] /\ done(q) \in BOOLEAN
        BY <1>1, <3>2 DEF DbTypes
      <4> QED
        BY <4>1
    <3> QED
      BY <3>1, <3>3
  <2>2. CASE OvsFailed
    BY <1>1, <2>2, Zenon DEF OvsFailed, DbTypes
  <2> QED
    BY <2>1, <2>2
<1>5. FlowTypes' /\ ovs_txn' \in [Ports -> {Keep, "set", "del"}]
  BY <1>1, <1>2 DEF FlowTypes, NoOvsWrites
<1>6. DropInv'
  <2>1. n["drop"] = 0 => (of_connected => conn)
    BY <1>1 DEF DropInv, NumbersInv
  <2> QED
    BY <1>1, <1>2, <1>3, <2>1, NumbersFrame, WorldFrame
<1> QED
  BY <1>1, <1>2, <1>3, <1>4, <1>5, <1>6, QuietStep

LEMMA ConnectStep ==
    ASSUME PortsInv, Connect
    PROVE  PortsInv'
<1>1. /\ DbTypes /\ FlowTypes /\ DropInv /\ n \in [Budgets -> Nat] /\ SeqnoTypeOK
      /\ port \in [Ports -> Port]
  BY InvParts, TypeParts
<1>2. /\ World /\ conn' = TRUE
      /\ UNCHANGED <<sbdb, ovsdb, sb_txn, ovs_txn, port, tracked, overlooked, force, aborted, valid, ro, sb_ro, of_connected,
                     flight, sent, sw_flows, cur_cfg, iface_seqno, n>>
  BY Zenon DEF Connect, db_vars, engine_vars
<1>3. /\ FlowTypes' /\ ovs_txn' \in [Ports -> {Keep, "set", "del"}]
      /\ ovsdb' \in [Ports -> [iface : BOOLEAN, installed : BOOLEAN]]
  BY <1>1, <1>2 DEF FlowTypes, DbTypes
<1>4. DropInv'
  BY <1>1, <1>2, NumbersFrame, WorldFrame
<1> QED
  BY <1>1, <1>2, <1>3, <1>4, QuietStep

\* With the connection go the flows, and what is said of them.
LEMMA DropStep ==
    ASSUME PortsInv, Drop
    PROVE  PortsInv'
<1>1. /\ DbTypes /\ FlowTypes /\ n \in [Budgets -> Nat] /\ port \in [Ports -> Port]
  BY InvParts, TypeParts
<1>2. /\ World /\ Spend("drop", MaxDrops) /\ conn' = FALSE
      /\ flight' = <<>> /\ sent' = {} /\ sw_flows' = {}
      /\ UNCHANGED <<sbdb, ovsdb, sb_txn, ovs_txn, port, tracked, overlooked, force, aborted, valid, ro, sb_ro, of_connected,
                     cur_cfg, iface_seqno>>
  BY Zenon DEF Drop, db_vars, engine_vars
<1>3. n' \in [Budgets -> Nat] /\ n'["drop"] # 0
  BY <1>1, <1>2, Spends DEF Budgets
<1>4. /\ FlowTypes' /\ ovs_txn' \in [Ports -> {Keep, "set", "del"}]
      /\ ovsdb' \in [Ports -> [iface : BOOLEAN, installed : BOOLEAN]]
  <2>1. <<>> \in Seq([req_cfg : Nat, flows : SUBSET Ports])
    OBVIOUS
  <2> QED
    BY <1>1, <1>2, <2>1 DEF FlowTypes, DbTypes
<1>5. DropInv'
  BY <1>3 DEF DropInv
<1> QED
  BY <1>1, <1>2, <1>3, <1>4, <1>5, QuietStep

-----------------------------------------------------------------------------

\* Steps that change rows of the Southbound and keep the ports: the engine will
\* look at the ports whose row has changed.
LEMMA RowStep ==
    ASSUME PortsInv, World, DbTypes', n' \in [Budgets -> Nat], n'["drop"] = 0 => n["drop"] = 0,
           UNCHANGED <<port, overlooked, aborted, valid, ro, sb_ro, of_connected, conn, flight, sent,
                       sw_flows, cur_cfg, iface_seqno>>,
           tracked' \subseteq Ports, tracked \subseteq tracked', force' \in BOOLEAN, force => force',
           \A p \in Ports :
              \/ Unseen(p)'
              \/ /\ sbdb'[p] = sbdb[p]
                 /\ \A c \in {"us", "none"} :
                       sb_txn[p].chassis = {c} /\ sbdb[p].chassis # c => sb_txn'[p].chassis = {c}
    PROVE  PortsInv'
<1>1. /\ SeqnoTypeOK /\ EngineTypes /\ FlowTypes /\ port \in [Ports -> Port] /\ AbortedInv /\ ClaimedInv
      /\ BoundInv /\ ForgottenInv /\ DropInv
  BY InvParts, TypeParts
<1>2. pc = "top" /\ pc' = "top" /\ UNCHANGED seqno_vars /\ SeqnoTypeOK' /\ ViewInv' /\ ~(pc' = "seqno")
  BY <1>1, WorldFrame
<1>3. EngineTypes' /\ FlowTypes'
  BY <1>1, <1>2 DEF EngineTypes, FlowTypes
<1>4. TypeOK'
  <2>1. (SeqnoTypeOK /\ DbTypes /\ EngineTypes /\ FlowTypes /\ port \in [Ports -> Port] /\ n \in [Budgets -> Nat])'
    BY <1>1, <1>2, <1>3
  <2> QED
    BY <2>1 DEF TypeOK, DbTypes, EngineTypes, FlowTypes
<1>5. AbortedInv' /\ ClaimedInv'
  BY <1>1 DEF AbortedInv, ClaimedInv
<1>6. BoundInv' /\ ForgottenInv'
  <2>1. \A p \in Ports : Unseen(p) => Unseen(p)'
    BY DEF Unseen
  <2> QED
    BY <1>1, <1>2, <2>1, TopFrame
<1>7. DropInv'
  <2>1. n["drop"] = 0 => (of_connected => conn)
    BY <1>1 DEF DropInv, NumbersInv
  <2> QED
    BY <1>1, <1>2, <2>1, NumbersFrame
<1> QED
  BY <1>2, <1>4, <1>5, <1>6, <1>7 DEF PortsInv, DropInv

LEMMA RowChangeStep ==
    ASSUME PortsInv, World, NEW b \in Budgets, NEW max, Spend(b, max), NEW p \in Ports,
           NEW row \in [chassis : {"none", "us", "other"}, up : BOOLEAN, bind : BOOLEAN], RowChange(p, row)
    PROVE  PortsInv'
<1>1. /\ DbTypes /\ EngineTypes /\ n \in [Budgets -> Nat]
  BY InvParts, TypeParts
<1>2. /\ sbdb' = [sbdb EXCEPT ![p] = row] /\ tracked' = tracked \cup {p}
      /\ UNCHANGED <<ovsdb, sb_txn, ovs_txn, port, overlooked, force, aborted, valid, ro, sb_ro, of_connected,
                     conn, flight, sent, sw_flows, cur_cfg, iface_seqno>>
  BY Zenon DEF RowChange, of_vars
<1>3. n' \in [Budgets -> Nat] /\ (n'["drop"] = 0 => n["drop"] = 0)
  BY <1>1, Spends
<1>4. DbTypes'
  BY <1>1, <1>2 DEF DbTypes
<1>5. /\ tracked' \subseteq Ports /\ tracked \subseteq tracked'
      /\ force' \in BOOLEAN /\ (force => force')
  BY <1>1, <1>2 DEF EngineTypes
<1>6. \A x \in Ports : Unseen(x)' \/ (sbdb'[x] = sbdb[x] /\ sb_txn'[x] = sb_txn[x])
  BY <1>1, <1>2 DEF DbTypes, Unseen
<1> QED
  BY <1>2, <1>3, <1>4, <1>5, <1>6, RowStep

LEMMA UserStep ==
    ASSUME PortsInv, NEW p \in Ports, BindChange(p) \/ OtherChassis(p)
    PROVE  PortsInv'
<1>1. sbdb[p] \in [chassis : {"none", "us", "other"}, up : BOOLEAN, bind : BOOLEAN]
  BY InvParts, TypeParts DEF DbTypes
<1>2. CASE BindChange(p)
  <2>1. World /\ Spend("bind", MaxBind) /\ RowChange(p, [sbdb[p] EXCEPT !.bind = ~@])
    BY <1>2, Zenon DEF BindChange
  <2>2. [sbdb[p] EXCEPT !.bind = ~@] \in [chassis : {"none", "us", "other"}, up : BOOLEAN, bind : BOOLEAN]
    BY <1>1
  <2>3. "bind" \in Budgets
    BY DEF Budgets
  <2> QED
    BY <2>1, <2>2, <2>3, RowChangeStep
<1>3. CASE OtherChassis(p)
  <2> DEFINE r1 == [sbdb[p] EXCEPT !.chassis = "other"]
             r2 == [sbdb[p] EXCEPT !.up = ~@]
             r3 == [sbdb[p] EXCEPT !.chassis = "none", !.up = FALSE]
  <2>1. World /\ Spend("other", MaxOther) /\ (RowChange(p, r1) \/ RowChange(p, r2) \/ RowChange(p, r3))
    BY <1>3, Zenon DEF OtherChassis
  <2>2. {r1, r2, r3} \subseteq [chassis : {"none", "us", "other"}, up : BOOLEAN, bind : BOOLEAN]
    BY <1>1
  <2>3. "other" \in Budgets
    BY DEF Budgets
  <2> HIDE DEF r1, r2, r3
  <2> QED
    BY <2>1, <2>2, <2>3, RowChangeStep
<1> QED
  BY <1>2, <1>3

\* A transaction that commits leaves nothing to be written, and what it has
\* written is tracked.
LEMMA SbCommittedStep ==
    ASSUME PortsInv, SbCommitted
    PROVE  PortsInv'
<1> DEFINE row(p) == [sbdb[p] EXCEPT !.chassis = Written(@, sb_txn[p].chassis),
                                     !.up = Written(@, sb_txn[p].up)]
<1>1. /\ DbTypes /\ EngineTypes /\ n \in [Budgets -> Nat]
  BY InvParts, TypeParts
<1>2. /\ World /\ sbdb' = [p \in Ports |-> row(p)]
      /\ tracked' = tracked \cup {p \in Ports : row(p) # sbdb[p]}
      /\ sb_txn' = NoSbWrites
      /\ UNCHANGED <<ovsdb, ovs_txn, port, overlooked, force, aborted, valid, ro, sb_ro, of_connected,
                     conn, flight, sent, sw_flows, cur_cfg, iface_seqno, n>>
  BY Zenon DEF SbCommitted, of_vars
<1>3. ASSUME NEW p \in Ports
      PROVE  /\ row(p) \in [chassis : {"none", "us", "other"}, up : BOOLEAN, bind : BOOLEAN]
             /\ row(p).chassis = Written(sbdb[p].chassis, sb_txn[p].chassis)
  <2>1. /\ sbdb[p] \in [chassis : {"none", "us", "other"}, up : BOOLEAN, bind : BOOLEAN]
        /\ sb_txn[p].chassis \subseteq {"none", "us"} /\ sb_txn[p].up \subseteq BOOLEAN
    BY <1>1 DEF DbTypes
  <2>2. Written(sbdb[p].chassis, sb_txn[p].chassis) \in {"none", "us", "other"}
    <3>1. sb_txn[p].chassis # {} => (CHOOSE v \in sb_txn[p].chassis : TRUE) \in sb_txn[p].chassis
      BY Zenon
    <3> QED
      BY <2>1, <3>1 DEF Written
  <2>3. Written(sbdb[p].up, sb_txn[p].up) \in BOOLEAN
    <3>1. sb_txn[p].up # {} => (CHOOSE v \in sb_txn[p].up : TRUE) \in sb_txn[p].up
      BY Zenon
    <3> QED
      BY <2>1, <3>1 DEF Written
  <2> QED
    BY <2>1, <2>2, <2>3
<1>4. ASSUME NEW p \in Ports, NEW c, sb_txn[p].chassis = {c}
      PROVE  row(p).chassis = c
  <2>1. (CHOOSE v \in {c} : TRUE) = c
    <3>1. (CHOOSE v \in {c} : TRUE) \in {c}
      BY Zenon
    <3> QED
      BY <3>1
  <2>2. Written(sbdb[p].chassis, {c}) = c
    BY <2>1 DEF Written
  <2> QED
    BY <1>3, <1>4, <2>2
<1> HIDE DEF row
<1>5. DbTypes'
  BY <1>1, <1>2, <1>3 DEF DbTypes, NoSbWrites
<1>6. /\ tracked' \subseteq Ports /\ tracked \subseteq tracked'
      /\ force' \in BOOLEAN /\ (force => force')
  BY <1>1, <1>2 DEF EngineTypes
<1>7. \A p \in Ports :
              \/ Unseen(p)'
              \/ /\ sbdb'[p] = sbdb[p]
                 /\ \A c \in {"us", "none"} :
                       sb_txn[p].chassis = {c} /\ sbdb[p].chassis # c => sb_txn'[p].chassis = {c}
  <2> SUFFICES ASSUME NEW p \in Ports, row(p) = sbdb[p], NEW c, sb_txn[p].chassis = {c}
               PROVE  sbdb[p].chassis = c
    BY <1>2 DEF Unseen
  <2> QED
    BY <1>4
<1> QED
  BY <1>1, <1>2, <1>5, <1>6, <1>7, RowStep

\* One that fails makes the engine look at every port.
LEMMA SbFailedStep ==
    ASSUME PortsInv, SbFailed
    PROVE  PortsInv'
<1>1. /\ DbTypes /\ EngineTypes /\ n \in [Budgets -> Nat]
  BY InvParts, TypeParts
<1>2. /\ World /\ Spend("sb", MaxSbFails) /\ sb_txn' = NoSbWrites /\ force' = TRUE
      /\ UNCHANGED <<sbdb, ovsdb, ovs_txn, port, tracked, overlooked, aborted, valid, ro, sb_ro, of_connected,
                     conn, flight, sent, sw_flows, cur_cfg, iface_seqno>>
  BY Zenon DEF SbFailed, of_vars
<1>3. n' \in [Budgets -> Nat] /\ (n'["drop"] = 0 => n["drop"] = 0)
  BY <1>1, <1>2, Spends DEF Budgets
<1>4. DbTypes'
  BY <1>1, <1>2 DEF DbTypes, NoSbWrites
<1>5. /\ tracked' \subseteq Ports /\ tracked \subseteq tracked'
      /\ force' \in BOOLEAN /\ (force => force')
      /\ \A p \in Ports : Unseen(p)'
  BY <1>1, <1>2 DEF EngineTypes, Unseen
<1> QED
  BY <1>2, <1>3, <1>4, <1>5, RowStep

LEMMA ForceStep ==
    ASSUME PortsInv, ForceRecompute
    PROVE  PortsInv'
<1>1. /\ DbTypes /\ EngineTypes /\ n \in [Budgets -> Nat]
  BY InvParts, TypeParts
<1>2. /\ World /\ Spend("force", MaxForced) /\ force' = TRUE
      /\ UNCHANGED <<sbdb, ovsdb, sb_txn, ovs_txn, port, tracked, overlooked, aborted, valid, ro, sb_ro, of_connected,
                     conn, flight, sent, sw_flows, cur_cfg, iface_seqno>>
  BY Zenon DEF ForceRecompute, of_vars, db_vars
<1>3. n' \in [Budgets -> Nat] /\ (n'["drop"] = 0 => n["drop"] = 0)
  BY <1>1, <1>2, Spends DEF Budgets
<1>4. DbTypes'
  BY <1>1, <1>2 DEF DbTypes
<1>5. /\ tracked' \subseteq Ports /\ tracked \subseteq tracked'
      /\ force' \in BOOLEAN /\ (force => force')
      /\ \A p \in Ports : Unseen(p)'
  BY <1>1, <1>2 DEF EngineTypes, Unseen
<1> QED
  BY <1>2, <1>3, <1>4, <1>5, RowStep

-----------------------------------------------------------------------------
(* The engine.                                                             *)

\* The record an iteration starts from.
LEMMA LoadedPort ==
    ASSUME TypeOK, NEW p \in Ports
    PROVE  LET q == Loaded(p)
           IN  /\ q \in Port /\ q.chassis = sbdb[p].chassis /\ q.up = sbdb[p].up /\ q.bind = sbdb[p].bind
               /\ q.st = port[p].st /\ q.install = port[p].install /\ q.lb = port[p].lb
               /\ q.postponed = port[p].postponed
<1>1. /\ sbdb[p] \in [chassis : {"none", "us", "other"}, up : BOOLEAN, bind : BOOLEAN]
      /\ ovsdb[p] \in [iface : BOOLEAN, installed : BOOLEAN]
      /\ port[p] \in Port
  BY TypeParts DEF DbTypes
<1>2. /\ sbdb[p].chassis \in {"none", "us", "other"} /\ sbdb[p].up \in BOOLEAN /\ sbdb[p].bind \in BOOLEAN
      /\ ovsdb[p].iface \in BOOLEAN /\ ovsdb[p].installed \in BOOLEAN
  BY <1>1
<1> QED
  BY <1>1, <1>2 DEF Loaded, Port

\* ... and after if_status_mgr_clear(), when the connection was lost.
LEMMA SeenPort ==
    ASSUME TypeOK, NEW p \in Ports, NEW readonly
    PROVE  /\ Moves(Loaded(p), Seen(p), readonly) /\ Seen(p).up = Loaded(p).up /\ Seen(p) \in Port
           /\ of_connected = conn => Seen(p) = Loaded(p)
<1> DEFINE q == Loaded(p)
<1>1. q \in Port
  BY LoadedPort
<1>2. CASE ConnectionLost
  <2>1. Seen(p) = if_status_mgr_clear(q)
    BY <1>2 DEF Seen
  <2>2. of_connected # conn
    BY <1>2 DEF ConnectionLost
  <2> HIDE DEF q
  <2> QED
    BY <1>1, <2>1, <2>2, Cleared DEF q, Moves
<1>3. CASE ~ConnectionLost
  <2>1. Seen(p) = q
    BY <1>3 DEF Seen
  <2> HIDE DEF q
  <2> QED
    BY <1>1, <2>1, HandlesNothing DEF q, Handles
<1> QED
  BY <1>2, <1>3

\* What a run of the engine leaves of port p.
Outcome(p, r, readonly) ==
    /\ Moves(Loaded(p), r, readonly)
    /\ \/ force' \/ p \in overlooked'
       \/ Bound(r) /\ Forgotten(r)
       \/ /\ ~ByPortBinding(p) /\ ~force /\ p \notin overlooked
          /\ Handles(Loaded(p), r, readonly)

\* The handlers of the changes, one after the other.
LEMMA HandledPort ==
    ASSUME TypeOK, NEW p \in Ports, NEW readonly \in BOOLEAN
    PROVE  LET q1 == PortBindingHandled(Seen(p), p, readonly)
               q2 == SbRoHandled(q1, readonly)
               r == InterfaceHandled(q2, readonly)
           IN  /\ Moves(Loaded(p), q1, readonly)
               /\ Moves(Loaded(p), q2, readonly)
               /\ InterfaceOk(q2, readonly) => Moves(Loaded(p), r, readonly)
               /\ /\ PortBindingOk(Seen(p), p, readonly) /\ InterfaceOk(q2, readonly)
                  /\ of_connected = conn /\ ~force
                  /\ p \in overlooked /\ ~ByPortBinding(p) => p \in overlooked'
                  => Outcome(p, r, readonly)
<1> DEFINE q == Loaded(p)
           s == Seen(p)
           q1 == PortBindingHandled(s, p, readonly)
           q2 == SbRoHandled(q1, readonly)
           r == InterfaceHandled(q2, readonly)
<1>1. /\ Moves(q, s, readonly) /\ s.up = q.up /\ s \in Port
      /\ of_connected = conn => s = q
  BY SeenPort
<1> HIDE DEF q, s
<1>2. /\ Moves(s, q1, readonly) /\ q1.up = s.up
      /\ PortBindingOk(s, p, readonly) => Handles(s, q1, readonly)
      /\ ByPortBinding(p) => Bound(q1)
      /\ ByPortBinding(p) /\ PortBindingOk(s, p, readonly) => Forgotten(q1)
  BY <1>1, ByPortBindingMoves
<1> HIDE DEF q1
<1>3. Moves(q, q1, readonly) /\ q1.up = q.up /\ q1 \in Port
  BY <1>1, <1>2, MovesTwice DEF Moves
<1>4. Handles(q1, q2, readonly) /\ q2.up = q1.up
  BY <1>3, BySbRoHandles
<1> HIDE DEF q2
<1>5. Moves(q, q2, readonly) /\ q2.up = q.up /\ q2 \in Port
  BY <1>3, <1>4, MovesTwice DEF Moves, Handles
<1>6. InterfaceOk(q2, readonly) => Handles(q2, r, readonly)
  BY <1>5, ByInterfaceHandles
<1> HIDE DEF r
<1>7. InterfaceOk(q2, readonly) => Moves(q, r, readonly)
  BY <1>5, <1>6, MovesTwice DEF Handles
<1>8. ASSUME PortBindingOk(s, p, readonly), InterfaceOk(q2, readonly), of_connected = conn, ~force,
             p \in overlooked /\ ~ByPortBinding(p) => p \in overlooked'
      PROVE  Outcome(p, r, readonly)
  <2>1. Moves(q, r, readonly)
    BY <1>7, <1>8
  <2>2. CASE ByPortBinding(p)
    <3>1. Bound(q2) /\ Forgotten(q2)
      BY <1>2, <1>4, <1>8, <2>2 DEF Handles
    <3>2. Bound(r) /\ Forgotten(r)
      BY <1>6, <1>8, <3>1 DEF Handles
    <3> QED
      BY <2>1, <3>2 DEF Outcome, q
  <2>3. CASE ~ByPortBinding(p)
    <3>1. Handles(q, q1, readonly)
      BY <1>1, <1>2, <1>8
    <3>2. Handles(q, q2, readonly)
      BY <1>3, <1>4, <3>1, HandlesTwice
    <3>3. Handles(q, r, readonly)
      BY <1>5, <1>6, <1>8, <3>2, HandlesTwice
    <3> QED
      BY <1>8, <2>1, <2>3, <3>3 DEF Outcome, q
  <2> QED
    BY <2>2, <2>3
<1> QED
  BY <1>3, <1>5, <1>7, <1>8 DEF q, s, q1, q2, r

\* The handlers when the failure of one row is overlooked.
LEMMA OverlookedPort ==
    ASSUME TypeOK, NEW p \in Ports, NEW readonly \in BOOLEAN, NEW done \in SUBSET tracked,
           of_connected = conn, ~force, HandledAfterAll(done, readonly)
    PROVE  LET q1 == LateHandled(done, p, readonly)
               r == InterfaceHandled(q1, readonly)
           IN  /\ Moves(Loaded(p), q1, readonly)
               /\ InterfaceOk(q1, readonly) => Moves(Loaded(p), r, readonly)
               /\ /\ InterfaceOk(q1, readonly)
                  /\ overlooked' = (overlooked \cup tracked) \ (done \cup Late(done, readonly))
                  => Outcome(p, r, readonly)
<1> DEFINE q == Loaded(p)
           l == Looped(done, p, readonly)
           q1 == LateHandled(done, p, readonly)
           r == InterfaceHandled(q1, readonly)
<1>1. q \in Port /\ q.postponed = port[p].postponed /\ Seen(p) = q
  BY LoadedPort, SeenPort
<1>2. l = IF p \in done THEN consider_vif_lport(q, readonly) ELSE q
  BY <1>1 DEF Looped
<1>3. q1 = IF p \in Late(done, readonly) THEN consider_vif_lport(l, readonly) ELSE l
  BY DEF LateHandled
<1>4. p \in done => consider_vif_lport_ok(q, readonly)
  BY <1>1 DEF HandledAfterAll
<1>5. p \in Late(done, readonly) => consider_vif_lport_ok(l, readonly)
  BY DEF HandledAfterAll
<1>6. p \notin Late(done, readonly) => ~l.postponed
  BY DEF Late
<1> HIDE DEF q, l, q1, r
<1>7. /\ Moves(q, l, readonly) /\ l.up = q.up /\ l \in Port
      /\ p \in done => Bound(l) /\ Forgotten(l)
  BY <1>1, <1>2, <1>4, ConsiderVif, HandlesNothing DEF Moves, Handles
<1>8. /\ Moves(l, q1, readonly) /\ q1.up = l.up /\ q1 \in Port
      /\ p \in Late(done, readonly) => Bound(q1) /\ Forgotten(q1)
  BY <1>3, <1>5, <1>7, ConsiderVif, HandlesNothing DEF Moves, Handles
<1>9. Moves(q, q1, readonly) /\ q1.up = q.up
  BY <1>7, <1>8, MovesTwice
<1>10. InterfaceOk(q1, readonly) => Handles(q1, r, readonly)
  BY <1>8, ByInterfaceHandles DEF r
<1>11. InterfaceOk(q1, readonly) => Moves(q, r, readonly)
  BY <1>9, <1>10, MovesTwice DEF Handles
<1>12. ASSUME InterfaceOk(q1, readonly),
              overlooked' = (overlooked \cup tracked) \ (done \cup Late(done, readonly))
       PROVE  Outcome(p, r, readonly)
  <2>1. CASE p \in done \cup Late(done, readonly)
    <3>1. Bound(q1) /\ Forgotten(q1)
      BY <1>3, <1>7, <1>8, <2>1
    <3>2. Bound(r) /\ Forgotten(r)
      BY <1>10, <1>12, <3>1 DEF Handles
    <3> QED
      BY <1>11, <1>12, <3>2 DEF Outcome, q
  <2>2. CASE p \notin done \cup Late(done, readonly) /\ p \in overlooked \cup tracked
    BY <1>11, <1>12, <2>2 DEF Outcome, q
  <2>3. CASE p \notin done \cup Late(done, readonly) /\ p \notin overlooked \cup tracked
    <3>1. q1 = q
      BY <1>2, <1>3, <2>3
    <3>2. ~ByPortBinding(p)
      BY <1>1, <1>2, <1>6, <2>3 DEF ByPortBinding
    <3> QED
      BY <1>10, <1>11, <1>12, <2>3, <3>1, <3>2 DEF Outcome, q
  <2> QED
    BY <2>1, <2>2, <2>3
<1> QED
  BY <1>9, <1>11, <1>12 DEF q, q1, r

\* Every way for the engine to run.
LEMMA EngineOutcome ==
    ASSUME TypeOK, Engine
    PROVE  /\ \A p \in Ports : Outcome(p, port'[p], sb_readonly_now)
           /\ DOMAIN port' = Ports /\ port' = [p \in Ports |-> port'[p]]
           /\ valid' \in BOOLEAN /\ aborted' = ~valid' /\ force' = ~valid' /\ tracked' = {}
           /\ overlooked' \subseteq Ports
<1> DEFINE readonly == sb_readonly_now
           q1(p) == PortBindingHandled(Seen(p), p, readonly)
           q2(p) == SbRoHandled(q1(p), readonly)
           bad1 == {p \in Ports : ~PortBindingOk(Seen(p), p, readonly)}
           bad2 == {p \in Ports : ~InterfaceOk(q2(p), readonly)}
<1>0. readonly \in BOOLEAN
  BY DEF sb_readonly_now
<1>o. overlooked \subseteq Ports /\ tracked \subseteq Ports
  BY TypeParts DEF EngineTypes
<1>1. ASSUME NEW f, NEW ok \in BOOLEAN, NEW left \in SUBSET Ports,
             EngineEnd([p \in Ports |-> f[p]], ok, left),
             \A p \in Ports : Moves(Loaded(p), f[p], readonly),
             ok /\ overlooked' = left => \A p \in Ports : Outcome(p, f[p], readonly)
      PROVE  /\ \A p \in Ports : Outcome(p, port'[p], sb_readonly_now)
             /\ DOMAIN port' = Ports /\ port' = [p \in Ports |-> port'[p]]
             /\ valid' \in BOOLEAN /\ aborted' = ~valid' /\ force' = ~valid' /\ tracked' = {}
             /\ overlooked' \subseteq Ports
  <2>1. /\ port' = [p \in Ports |-> f[p]]
        /\ valid' = ok /\ aborted' = ~ok /\ force' = ~ok /\ tracked' = {}
        /\ overlooked' = left
    BY <1>1 DEF EngineEnd
  <2>2. CASE ok
    BY <1>1, <2>1, <2>2
  <2>3. CASE ~ok
    BY <1>1, <2>1, <2>3 DEF Outcome
  <2> QED
    BY <2>2, <2>3
<1>2. CASE aborted /\ readonly
  <2> DEFINE f == [p \in Ports |-> Loaded(p)]
  <2>1. EngineEnd([p \in Ports |-> Loaded(p)], FALSE, overlooked)
    BY <1>2, Zenon DEF Engine
  <2>2. \A p \in Ports : f[p] = Loaded(p)
    OBVIOUS
  <2>3. [p \in Ports |-> Loaded(p)] = [p \in Ports |-> f[p]]
    BY <2>2
  <2>4. \A p \in Ports : Moves(Loaded(p), Loaded(p), readonly)
    BY LoadedPort, HandlesNothing DEF Handles
  <2>5. EngineEnd([p \in Ports |-> f[p]], FALSE, overlooked)
    BY <2>1, <2>3, Zenon
  <2> HIDE DEF f, readonly
  <2> QED
    BY <1>1, <1>o, <2>2, <2>4, <2>5
<1>3. CASE Incremental(readonly)
  <2> DEFINE f == [p \in Ports |-> InterfaceHandled(q2(p), readonly)]
             left == {p \in overlooked : ~ByPortBinding(p)}
  <2>1. /\ ~force /\ of_connected = conn
        /\ \A p \in Ports : PortBindingOk(Seen(p), p, readonly) /\ InterfaceOk(q2(p), readonly)
        /\ EngineEnd([p \in Ports |-> InterfaceHandled(q2(p), readonly)], TRUE, left)
    BY <1>3, Zenon DEF Incremental
  <2>2. \A p \in Ports : f[p] = InterfaceHandled(q2(p), readonly)
    OBVIOUS
  <2>3. [p \in Ports |-> InterfaceHandled(q2(p), readonly)] = [p \in Ports |-> f[p]]
    BY <2>2
  <2>4. EngineEnd([p \in Ports |-> f[p]], TRUE, left)
    BY <2>1, <2>3, Zenon
  <2>5. overlooked' = left => \A p \in Ports : Outcome(p, f[p], readonly)
    <3> HIDE DEF readonly
    <3> QED
      BY <1>0, <2>1, <2>2, HandledPort
  <2>6. left \subseteq Ports /\ overlooked' = left
    BY <1>o, <2>4 DEF EngineEnd
  <2>7. \A p \in Ports : Moves(Loaded(p), f[p], readonly)
    BY <2>5, <2>6 DEF Outcome
  <2> HIDE DEF f, readonly, left
  <2> QED
    BY <1>1, <2>4, <2>5, <2>6, <2>7
<1>o1. CASE Overlooked(readonly)
  <2>1. PICK done \in SUBSET tracked :
          LET o1(p) == LateHandled(done, p, readonly)
              bad == {p \in Ports : ~InterfaceOk(o1(p), readonly)}
              left == (overlooked \cup tracked) \ (done \cup Late(done, readonly))
          IN  /\ ~force /\ of_connected = conn
              /\ HandledAfterAll(done, readonly)
              /\ \/ /\ bad = {}
                    /\ EngineEnd([p \in Ports |-> InterfaceHandled(o1(p), readonly)], TRUE, left)
                 \/ /\ bad # {}
                    /\ \E before \in SUBSET (Ports \ bad) :
                          EngineEnd([p \in Ports |-> IF p \in before
                                                     THEN InterfaceHandled(o1(p), readonly)
                                                     ELSE o1(p)], FALSE, left)
    BY <1>o1, Zenon DEF Overlooked
  <2> DEFINE o1(p) == LateHandled(done, p, readonly)
             bad == {p \in Ports : ~InterfaceOk(o1(p), readonly)}
             left == (overlooked \cup tracked) \ (done \cup Late(done, readonly))
  <2>2. left \subseteq Ports
    BY <1>o
  <2>3. \A p \in Ports :
          /\ Moves(Loaded(p), o1(p), readonly)
          /\ InterfaceOk(o1(p), readonly)
                => Moves(Loaded(p), InterfaceHandled(o1(p), readonly), readonly)
          /\ InterfaceOk(o1(p), readonly) /\ overlooked' = left
                => Outcome(p, InterfaceHandled(o1(p), readonly), readonly)
    <3> HIDE DEF readonly
    <3> QED
      BY <1>0, <2>1, OverlookedPort
  <2>4. CASE bad = {} /\ EngineEnd([p \in Ports |-> InterfaceHandled(o1(p), readonly)], TRUE, left)
    <3> DEFINE f == [p \in Ports |-> InterfaceHandled(o1(p), readonly)]
    <3>1. \A p \in Ports : f[p] = InterfaceHandled(o1(p), readonly) /\ InterfaceOk(o1(p), readonly)
      BY <2>4
    <3>2. f = [p \in Ports |-> f[p]]
      OBVIOUS
    <3>3. EngineEnd([p \in Ports |-> f[p]], TRUE, left)
      BY <2>4, <3>2, Zenon
    <3> HIDE DEF f, readonly, o1, left
    <3>4. \A p \in Ports : Moves(Loaded(p), f[p], readonly)
      BY <2>3, <3>1
    <3>5. overlooked' = left => \A p \in Ports : Outcome(p, f[p], readonly)
      BY <2>3, <3>1
    <3> QED
      BY <1>1, <2>2, <3>3, <3>4, <3>5
  <2>5. ASSUME NEW before \in SUBSET (Ports \ bad),
               EngineEnd([p \in Ports |-> IF p \in before THEN InterfaceHandled(o1(p), readonly)
                                          ELSE o1(p)], FALSE, left)
        PROVE  \E f : /\ EngineEnd([p \in Ports |-> f[p]], FALSE, left)
                      /\ \A p \in Ports : Moves(Loaded(p), f[p], readonly)
    <3> DEFINE f == [p \in Ports |-> IF p \in before THEN InterfaceHandled(o1(p), readonly)
                                     ELSE o1(p)]
    <3>1. \A p \in Ports : \/ f[p] = o1(p)
                           \/ f[p] = InterfaceHandled(o1(p), readonly) /\ InterfaceOk(o1(p), readonly)
      OBVIOUS
    <3>2. f = [p \in Ports |-> f[p]]
      OBVIOUS
    <3>3. EngineEnd([p \in Ports |-> f[p]], FALSE, left)
      BY <2>5, <3>2, Zenon
    <3> HIDE DEF f, readonly, o1, left
    <3> QED
      BY <2>3, <3>1, <3>3
  <2>6. \/ bad = {} /\ EngineEnd([p \in Ports |-> InterfaceHandled(o1(p), readonly)], TRUE, left)
        \/ \E f : /\ EngineEnd([p \in Ports |-> f[p]], FALSE, left)
                  /\ \A p \in Ports : Moves(Loaded(p), f[p], readonly)
    <3> HIDE DEF readonly, o1, left, bad
    <3>1. \/ bad = {} /\ EngineEnd([p \in Ports |-> InterfaceHandled(o1(p), readonly)], TRUE, left)
          \/ \E before \in SUBSET (Ports \ bad) :
                EngineEnd([p \in Ports |-> IF p \in before THEN InterfaceHandled(o1(p), readonly)
                                           ELSE o1(p)], FALSE, left)
      BY <2>1, Zenon DEF o1, left, bad
    <3> QED
      BY <2>5, <3>1, Zenon
  <2> HIDE DEF readonly, left, o1, bad
  <2> QED
    BY <1>1, <2>2, <2>4, <2>6
<1>4. CASE Failed(readonly)
  <2>1. \/ \E done \in SUBSET (Ports \ bad1) :
              EngineEnd([p \in Ports |-> IF p \in done THEN q1(p) ELSE Seen(p)], FALSE, overlooked)
        \/ \E done \in SUBSET (Ports \ bad2) :
              EngineEnd([p \in Ports |-> IF p \in done THEN InterfaceHandled(q2(p), readonly)
                                         ELSE q2(p)], FALSE, overlooked)
    BY <1>4, Zenon DEF Failed
  <2>2. ASSUME NEW done \in SUBSET (Ports \ bad1),
               EngineEnd([p \in Ports |-> IF p \in done THEN q1(p) ELSE Seen(p)], FALSE, overlooked)
        PROVE  \E f : /\ EngineEnd([p \in Ports |-> f[p]], FALSE, overlooked)
                      /\ \A p \in Ports : Moves(Loaded(p), f[p], readonly)
    <3> DEFINE f == [p \in Ports |-> IF p \in done THEN q1(p) ELSE Seen(p)]
    <3>1. \A p \in Ports : f[p] \in {q1(p), Seen(p)}
      OBVIOUS
    <3>2. f = [p \in Ports |-> f[p]]
      OBVIOUS
    <3>3. EngineEnd([p \in Ports |-> f[p]], FALSE, overlooked)
      BY <2>2, <3>2, Zenon
    <3>4. \A p \in Ports : Moves(Loaded(p), q1(p), readonly) /\ Moves(Loaded(p), Seen(p), readonly)
      <4> HIDE DEF readonly
      <4> QED
        BY <1>0, HandledPort, SeenPort
    <3> HIDE DEF f, readonly, q1
    <3> QED
      BY <3>1, <3>3, <3>4
  <2>3. ASSUME NEW done \in SUBSET (Ports \ bad2),
               EngineEnd([p \in Ports |-> IF p \in done THEN InterfaceHandled(q2(p), readonly)
                                          ELSE q2(p)], FALSE, overlooked)
        PROVE  \E f : /\ EngineEnd([p \in Ports |-> f[p]], FALSE, overlooked)
                      /\ \A p \in Ports : Moves(Loaded(p), f[p], readonly)
    <3> DEFINE f == [p \in Ports |-> IF p \in done THEN InterfaceHandled(q2(p), readonly) ELSE q2(p)]
    <3>1. \A p \in Ports : \/ f[p] = q2(p)
                           \/ f[p] = InterfaceHandled(q2(p), readonly) /\ InterfaceOk(q2(p), readonly)
      OBVIOUS
    <3>2. f = [p \in Ports |-> f[p]]
      OBVIOUS
    <3>3. EngineEnd([p \in Ports |-> f[p]], FALSE, overlooked)
      BY <2>3, <3>2, Zenon
    <3>4. \A p \in Ports :
             /\ Moves(Loaded(p), q2(p), readonly)
             /\ InterfaceOk(q2(p), readonly) => Moves(Loaded(p), InterfaceHandled(q2(p), readonly), readonly)
      <4> HIDE DEF readonly
      <4> QED
        BY <1>0, HandledPort
    <3> HIDE DEF f, readonly, q2
    <3> QED
      BY <3>1, <3>3, <3>4
  <2>4. \E f : /\ EngineEnd([p \in Ports |-> f[p]], FALSE, overlooked)
               /\ \A p \in Ports : Moves(Loaded(p), f[p], readonly)
    BY <2>1, <2>2, <2>3
  <2> HIDE DEF readonly
  <2> QED
    BY <1>1, <1>o, <2>4
<1>5. CASE Recompute(readonly)
  <2> DEFINE f == [p \in Ports |-> recompute(Seen(p), FALSE)]
  <2>1. ~readonly /\ EngineEnd([p \in Ports |-> recompute(Seen(p), readonly)], TRUE, {})
    BY <1>5, Zenon DEF Recompute
  <2>2. readonly = FALSE
    BY <1>0, <2>1
  <2>3. f = [p \in Ports |-> f[p]] /\ \A p \in Ports : f[p] = recompute(Seen(p), FALSE)
    OBVIOUS
  <2>4. EngineEnd(f, TRUE, {})
    BY <2>1, <2>2, Zenon
  <2>5. EngineEnd([p \in Ports |-> f[p]], TRUE, {})
    BY <2>3, <2>4, Zenon
  <2>6. ASSUME NEW p \in Ports PROVE Outcome(p, f[p], FALSE)
    <3> DEFINE r == recompute(Seen(p), FALSE)
    <3>1. Moves(Loaded(p), Seen(p), FALSE) /\ Seen(p).up = Loaded(p).up /\ Seen(p) \in Port
      BY SeenPort
    <3>2. Moves(Seen(p), r, FALSE) /\ Bound(r) /\ Forgotten(r)
      BY <3>1, Recomputed
    <3> HIDE DEF r
    <3>3. Moves(Loaded(p), r, FALSE)
      BY <3>1, <3>2, MovesTwice
    <3> QED
      BY <2>3, <3>2, <3>3 DEF Outcome, r
  <2> HIDE DEF f
  <2>7. \A p \in Ports : Outcome(p, f[p], readonly) /\ Moves(Loaded(p), f[p], readonly)
    BY <2>2, <2>6, Zenon DEF Outcome
  <2> HIDE DEF readonly
  <2>8. {} \in SUBSET Ports
    OBVIOUS
  <2> QED
    BY <1>1, <2>5, <2>7, <2>8
<1>6. CASE Refused(readonly)
  <2> DEFINE f == [p \in Ports |-> Seen(p)]
  <2>1. EngineEnd(f, FALSE, overlooked)
    BY <1>6, Zenon DEF Refused
  <2>2. f = [p \in Ports |-> f[p]] /\ \A p \in Ports : f[p] = Seen(p)
    OBVIOUS
  <2>3. EngineEnd([p \in Ports |-> f[p]], FALSE, overlooked)
    BY <2>1, <2>2, Zenon
  <2>4. \A p \in Ports : Moves(Loaded(p), Seen(p), readonly)
    BY SeenPort
  <2> HIDE DEF f, readonly
  <2> QED
    BY <1>1, <1>o, <2>2, <2>3, <2>4
<1>7. \/ (aborted /\ readonly) \/ Incremental(readonly) \/ Overlooked(readonly) \/ Failed(readonly)
      \/ Recompute(readonly) \/ Refused(readonly)
  BY Zenon DEF Engine
<1> HIDE DEF readonly
<1> QED
  BY <1>2, <1>3, <1>o1, <1>4, <1>5, <1>6, <1>7

\* The parts of the invariant that speak of one port, after the engine has run.
LEMMA EnginePort ==
    ASSUME PortsInv, pc = "top", pc' = "update", UNCHANGED <<sbdb, sb_txn>>,
           ro'.sb = sb_readonly_now, NEW p \in Ports, Outcome(p, port'[p], sb_readonly_now)
    PROVE  /\ port'[p] \in Port
           /\ port'[p].st \in ClaimedStates => port'[p].lb
           /\ \/ port'[p].st = port[p].st /\ port'[p].install = port[p].install
              \/ port'[p].st \notin PastFlows \cup {"INSTALL_FLOWS"}
           /\ View(p)'
           /\ port'[p].st = "INSTALLED" =>
                \/ sbdb[p].chassis = "us" /\ sbdb[p].up
                \/ Unseen(p)' \/ port'[p].postponed
                \/ sbdb[p].chassis # "us" /\ Writes(p, "us")'
           /\ port'[p].st = "NULL" /\ sbdb[p].chassis = "us" /\ sbdb[p].up =>
                \/ port'[p].lb /\ sbdb[p].bind
                \/ Unseen(p)'
                \/ Writes(p, "none")'
<1> DEFINE q == Loaded(p)
           r == port'[p]
<1>1. TypeOK /\ ClaimedInv /\ BoundInv /\ ForgottenInv
  BY InvParts
<1>2. /\ q \in Port /\ q.chassis = sbdb[p].chassis /\ q.up = sbdb[p].up /\ q.bind = sbdb[p].bind
      /\ q.st = port[p].st /\ q.install = port[p].install /\ q.lb = port[p].lb
      /\ q.postponed = port[p].postponed
  BY <1>1, LoadedPort
<1>3. /\ Moves(q, r, sb_readonly_now)
      /\ \/ Unseen(p)' \/ (Bound(r) /\ Forgotten(r))
         \/ (~ByPortBinding(p) /\ ~force /\ p \notin overlooked /\ Handles(q, r, sb_readonly_now))
  BY DEF Outcome, Unseen
<1>4. sb_readonly_now \in BOOLEAN /\ (~sb_readonly_now => sb_txn[p].chassis = {})
  BY DEF sb_readonly_now, NoSbWrites
<1> HIDE DEF q, r
<1>5. /\ r \in Port
      /\ r.bind = sbdb[p].bind
      /\ r.chassis \in {sbdb[p].chassis, "none", "us"}
      /\ sb_readonly_now => r.chassis = sbdb[p].chassis /\ r.up = sbdb[p].up
      /\ r.up # sbdb[p].up => ~r.up /\ r.chassis # "us"
      /\ (r.st = port[p].st /\ r.install = port[p].install) \/ r.st \in {"NULL", "CLAIMED", "MARK_DOWN"}
      /\ HasBinding(q) => HasBinding(r)
  BY <1>2, <1>3 DEF Moves
<1>6. HasBinding(r)
  BY <1>1, <1>2, <1>5 DEF HasBinding, ClaimedInv
<1>7. View(p)'
  BY <1>5 DEF View, r
<1>8. r.st \in IfStates /\ r.up \in BOOLEAN /\ sbdb[p].up \in BOOLEAN
  BY <1>2, <1>5 DEF Port
<1>w. \A c : Writes(p, c)' <=> IF sb_readonly_now THEN sb_txn[p].chassis = {c} ELSE r.chassis = c
  BY DEF Writes, r
<1>9. ASSUME r.st = "INSTALLED", ~Unseen(p)', ~r.postponed, ~(sbdb[p].chassis = "us" /\ sbdb[p].up)
      PROVE  sbdb[p].chassis # "us" /\ Writes(p, "us")'
  <2>1. CASE Bound(r)
    <3>1. r.chassis = "us" /\ r.up
      BY <1>9, <2>1 DEF Bound
    <3>2. sbdb[p].up /\ sbdb[p].chassis # "us"
      BY <1>5, <1>8, <1>9, <3>1
    <3> QED
      BY <1>4, <1>5, <1>w, <3>1, <3>2
  <2>2. CASE ~Bound(r) /\ ~ByPortBinding(p) /\ ~force /\ p \notin overlooked
             /\ Handles(q, r, sb_readonly_now)
    <3>1. port[p].st = "INSTALLED" /\ ~Bound(q)
      BY <1>5, <1>9, <2>2 DEF Handles
    <3>2. ~Unseen(p) /\ ~port[p].postponed
      BY <2>2 DEF ByPortBinding, Unseen
    <3>3. sbdb[p].chassis # "us" /\ Writes(p, "us")
      BY <1>1, <1>9, <3>1, <3>2 DEF BoundInv
    <3>4. sb_txn[p].chassis = {"us"}
      BY <3>3 DEF Writes
    <3> QED
      BY <1>4, <1>w, <3>3, <3>4
  <2> QED
    BY <1>3, <1>9, <2>1, <2>2
<1>10. ASSUME r.st = "NULL", sbdb[p].chassis = "us", sbdb[p].up, ~(r.lb /\ sbdb[p].bind), ~Unseen(p)'
       PROVE  Writes(p, "none")'
  <2>1. CASE Forgotten(r)
    <3>1. ~(r.chassis = "us" /\ r.up)
      BY <1>5, <1>10, <2>1 DEF Forgotten
    <3>2. r.chassis # "us" /\ ~sb_readonly_now
      BY <1>4, <1>5, <1>8, <1>10, <3>1
    <3> QED
      BY <1>5, <1>10, <1>w, <3>2
  <2>2. CASE ~Forgotten(r) /\ ~ByPortBinding(p) /\ ~force /\ p \notin overlooked
             /\ Handles(q, r, sb_readonly_now)
    <3>1. ~Forgotten(q)
      BY <2>2 DEF Handles
    <3>2. port[p].st = "NULL" /\ ~(port[p].lb /\ sbdb[p].bind)
      BY <1>2, <3>1 DEF Forgotten
    <3>3. ~Unseen(p)
      BY <2>2 DEF ByPortBinding, Unseen
    <3>4. sb_txn[p].chassis = {"none"}
      BY <1>1, <1>10, <3>2, <3>3 DEF ForgottenInv, Writes
    <3> QED
      BY <1>4, <1>w, <3>4
  <2> QED
    BY <1>3, <1>10, <2>1, <2>2
<1>11. (r.st = port[p].st /\ r.install = port[p].install) \/ r.st \notin PastFlows \cup {"INSTALL_FLOWS"}
  BY <1>5 DEF PastFlows
<1> QED
  BY <1>5, <1>6, <1>7, <1>9, <1>10, <1>11 DEF r, HasBinding

\* engine_run().
LEMMA EngineStep ==
    ASSUME PortsInv, Engine
    PROVE  PortsInv'
<1>1. /\ SeqnoTypeOK /\ DbTypes /\ EngineTypes /\ FlowTypes /\ n \in [Budgets -> Nat] /\ TypeOK /\ DropInv
  BY InvParts, TypeParts
<1>2. /\ pc = "top" /\ Started
      /\ ro' = [sb |-> sb_readonly_now, ovs |-> ovs_readonly_now]
      /\ \/ UNCHANGED <<sb_ro, of_connected, seqno_vars>>
         \/ /\ sb_ro' = sb_readonly_now /\ of_connected' = conn
            /\ IF ConnectionLost THEN Flush ELSE UNCHANGED seqno_vars
      /\ pc' = "update"
      /\ UNCHANGED <<sbdb, ovsdb, sb_txn, ovs_txn, conn, flight, sent, sw_flows, cur_cfg, iface_seqno, n>>
  BY Zenon DEF Engine, db_vars, of_vars
<1>3. /\ \A p \in Ports : Outcome(p, port'[p], sb_readonly_now)
      /\ DOMAIN port' = Ports /\ port' = [p \in Ports |-> port'[p]]
      /\ valid' \in BOOLEAN /\ aborted' = ~valid' /\ force' = ~valid' /\ tracked' = {}
      /\ overlooked' \subseteq Ports
  BY <1>1, EngineOutcome
<1>4. sb_readonly_now \in BOOLEAN /\ ovs_readonly_now \in BOOLEAN
  BY DEF sb_readonly_now, ovs_readonly_now
<1>5. ro'.sb = sb_readonly_now
  BY <1>2
<1>6. \A p \in Ports :
           /\ port'[p] \in Port
           /\ port'[p].st \in ClaimedStates => port'[p].lb
           /\ \/ port'[p].st = port[p].st /\ port'[p].install = port[p].install
              \/ port'[p].st \notin PastFlows \cup {"INSTALL_FLOWS"}
           /\ View(p)'
           /\ port'[p].st = "INSTALLED" =>
                \/ sbdb[p].chassis = "us" /\ sbdb[p].up
                \/ Unseen(p)' \/ port'[p].postponed
                \/ sbdb[p].chassis # "us" /\ Writes(p, "us")'
           /\ port'[p].st = "NULL" /\ sbdb[p].chassis = "us" /\ sbdb[p].up =>
                \/ port'[p].lb /\ sbdb[p].bind
                \/ Unseen(p)'
                \/ Writes(p, "none")'
  BY <1>2, <1>3, <1>5, EnginePort
<1>7. SeqnoTypeOK'
  <2>1. CASE UNCHANGED seqno_vars
    BY <1>1, <2>1 DEF SeqnoTypeOK, seqno_vars
  <2>2. CASE Flush
    BY <1>1, <2>2 DEF SeqnoTypeOK, Flush
  <2> QED
    BY <1>2, <2>1, <2>2
<1>8. DbTypes' /\ FlowTypes'
  BY <1>1, <1>2 DEF DbTypes, FlowTypes
<1>9. EngineTypes'
  <2>1. ro' \in [sb : BOOLEAN, ovs : BOOLEAN]
    BY <1>2, <1>4
  <2>2. sb_ro' \in BOOLEAN /\ of_connected' \in BOOLEAN
    BY <1>1, <1>2, <1>4 DEF EngineTypes, FlowTypes
  <2> QED
    BY <1>2, <1>3, <2>1, <2>2 DEF EngineTypes
<1>10. port' \in [Ports -> Port]
  BY <1>3, <1>6
<1>11. TypeOK'
  <2>1. (SeqnoTypeOK /\ DbTypes /\ EngineTypes /\ FlowTypes /\ port \in [Ports -> Port] /\ n \in [Budgets -> Nat])'
    BY <1>1, <1>2, <1>7, <1>8, <1>9, <1>10
  <2> QED
    BY <2>1 DEF TypeOK, DbTypes, EngineTypes, FlowTypes
<1>12. AbortedInv'
  BY <1>3 DEF AbortedInv
<1>13. ClaimedInv' /\ ViewInv'
  BY <1>6 DEF ClaimedInv, ViewInv
<1>14. BoundInv'
  BY <1>2, <1>6 DEF BoundInv
<1>15. ForgottenInv'
  BY <1>2, <1>6 DEF ForgottenInv
<1>16. DropInv'
  <2>1. CASE n["drop"] = 0
    <3>1. of_connected => conn
      BY <1>1, <2>1 DEF DropInv, NumbersInv
    <3>2. UNCHANGED seqno_vars /\ (of_connected' => conn')
      BY <1>2, <3>1 DEF ConnectionLost
    <3> QED
      BY <1>1, <1>2, <1>6, <3>2, NumbersFrame
  <2>2. CASE n["drop"] # 0
    BY <1>2, <2>2 DEF DropInv
  <2> QED
    BY <2>1, <2>2
<1> QED
  BY <1>11, <1>12, <1>13, <1>14, <1>15, <1>16 DEF PortsInv, DropInv

-----------------------------------------------------------------------------
(* if_status_mgr_update().                                                 *)

\* The parts of the invariant that speak of one port.
LEMMA MgrUpdatePort ==
    ASSUME PortsInv, pc = "update", pc' = "put", UNCHANGED <<sbdb, sb_txn, ro, tracked, overlooked, force>>,
           NEW p \in Ports, NEW seqno, Updates(port[p], port'[p], ro.sb, seqno)
    PROVE  /\ port'[p].st \in ClaimedStates => port'[p].lb
           /\ View(p)'
           /\ port'[p].st = "INSTALLED" =>
                \/ sbdb[p].chassis = "us" /\ sbdb[p].up
                \/ Unseen(p)' \/ port'[p].postponed
                \/ sbdb[p].chassis # "us" /\ Writes(p, "us")'
           /\ port'[p].st = "NULL" /\ sbdb[p].chassis = "us" /\ sbdb[p].up =>
                \/ port'[p].lb /\ sbdb[p].bind
                \/ Unseen(p)'
                \/ Writes(p, "none")'
<1> DEFINE q == port[p]
           r == port'[p]
<1>1. TypeOK /\ ClaimedInv /\ BoundInv /\ ForgottenInv /\ View(p)
  BY InvParts DEF ViewInv
<1>2. /\ q \in Port /\ sbdb[p] \in [chassis : {"none", "us", "other"}, up : BOOLEAN, bind : BOOLEAN]
      /\ ro.sb \in BOOLEAN
  BY <1>1, TypeParts DEF DbTypes, EngineTypes
<1>3. /\ q.up \in BOOLEAN /\ sbdb[p].up \in BOOLEAN
  BY <1>2 DEF Port
<1>4. /\ q.bind = sbdb[p].bind
      /\ q.chassis \in {sbdb[p].chassis, "none", "us"}
      /\ ro.sb => q.chassis = sbdb[p].chassis /\ q.up = sbdb[p].up
      /\ q.up # sbdb[p].up => ~q.up /\ q.chassis # "us"
  BY <1>1 DEF View
<1>5. /\ r \in Port
      /\ r.lb = q.lb /\ r.bind = q.bind
      /\ r.chassis \in {q.chassis, "none", "us"}
      /\ ro.sb => r.chassis = q.chassis /\ r.up = q.up
      /\ r.up => q.up
      /\ q.postponed => r.postponed
      /\ r.st \in ClaimedStates <=> q.st \in ClaimedStates
      /\ r.st = "INSTALLED" =>
           \/ q.st = "INSTALLED" /\ r.chassis = q.chassis /\ r.up = q.up
           \/ r.chassis = "us" /\ r.up
      /\ r.st = "NULL" =>
           \/ q.st = "NULL" /\ r.chassis = q.chassis /\ r.up = q.up
           \/ r.chassis # "us"
           \/ ~q.up /\ r.chassis = q.chassis
  BY DEF Updates
<1>6. \A c : /\ Writes(p, c) <=> IF ro.sb THEN sb_txn[p].chassis = {c} ELSE q.chassis = c
             /\ Writes(p, c)' <=> IF ro.sb THEN sb_txn[p].chassis = {c} ELSE r.chassis = c
  BY DEF Writes
<1>7. Unseen(p)' <=> Unseen(p)
  BY DEF Unseen
<1> HIDE DEF q, r
<1>8. r.st \in ClaimedStates => r.lb
  BY <1>1, <1>5 DEF ClaimedInv, q
<1>9. View(p)'
  BY <1>4, <1>5 DEF View, r
<1>10. ASSUME r.st = "INSTALLED"
       PROVE  \/ sbdb[p].chassis = "us" /\ sbdb[p].up
              \/ Unseen(p)' \/ r.postponed
              \/ sbdb[p].chassis # "us" /\ Writes(p, "us")'
  <2>1. CASE q.st = "INSTALLED" /\ r.chassis = q.chassis
    <3>1. \/ sbdb[p].chassis = "us" /\ sbdb[p].up
          \/ Unseen(p) \/ q.postponed
          \/ sbdb[p].chassis # "us" /\ Writes(p, "us")
      BY <1>1, <2>1 DEF BoundInv, q
    <3> QED
      BY <1>5, <1>6, <1>7, <2>1, <3>1
  <2>2. CASE r.chassis = "us" /\ r.up
    BY <1>3, <1>4, <1>5, <1>6, <2>2
  <2> QED
    BY <1>5, <1>10, <2>1, <2>2
<1>11. ASSUME r.st = "NULL", sbdb[p].chassis = "us", sbdb[p].up
       PROVE  \/ r.lb /\ sbdb[p].bind
              \/ Unseen(p)'
              \/ Writes(p, "none")'
  <2>1. CASE q.st = "NULL" /\ r.chassis = q.chassis
    <3>1. \/ q.lb /\ sbdb[p].bind
          \/ Unseen(p)
          \/ Writes(p, "none")
      BY <1>1, <1>11, <2>1 DEF ForgottenInv, q
    <3> QED
      BY <1>5, <1>6, <1>7, <2>1, <3>1
  <2>2. CASE r.chassis # "us" \/ (~q.up /\ r.chassis = q.chassis)
    BY <1>3, <1>4, <1>5, <1>6, <1>11, <2>2
  <2> QED
    BY <1>5, <1>11, <2>1, <2>2
<1> QED
  BY <1>8, <1>9, <1>10, <1>11 DEF r

\* What becomes of the numbers: a claimed port gets the next one, and so does
\* the request for the flows of all of them.
LEMMA MgrUpdateNumbers ==
    ASSUME TypeOK, DropInv, pc' = "put", UNCHANGED <<of_connected, conn, flight, sent, sw_flows, cur_cfg, n>>,
           \A p \in Ports : /\ Updates(port[p], port'[p], ro.sb, iface_seqno)
                            /\ port'[p].st = "INSTALL_FLOWS" /\ port[p].st = "CLAIMED" => valid,
           IF {p \in Ports : valid /\ ~ro.sb /\ port[p].st = "CLAIMED"} # {}
           THEN iface_seqno' = iface_seqno + 1 /\ UpdateCreate(Iface, iface_seqno + 1)
           ELSE UNCHANGED <<iface_seqno, seqno_vars>>
    PROVE  DropInv'
<1> SUFFICES ASSUME n["drop"] = 0 PROVE NumbersInv' /\ FlowsInv'
  BY DEF DropInv
<1>1. NumbersInv /\ FlowsInv /\ SeqnoTypeOK /\ FlowTypes
  BY TypeParts DEF DropInv
<1>2. ASSUME NEW p \in Ports
      PROVE  /\ port'[p].st \in PastFlows => port[p].st \in PastFlows
             /\ port'[p].st = "INSTALL_FLOWS" =>
                   \/ port[p].st = "INSTALL_FLOWS" /\ port'[p].install = port[p].install
                   \/ /\ port[p].st = "CLAIMED" /\ ~ro.sb /\ valid
                      /\ port'[p].install = iface_seqno + 1
  BY DEF Updates
<1>3. CASE {p \in Ports : valid /\ ~ro.sb /\ port[p].st = "CLAIMED"} = {}
  <2>1. UNCHANGED <<iface_seqno, seqno_vars>>
    BY <1>3
  <2>2. NumbersInv'
    BY <1>1, <2>1 DEF NumbersInv, seqno_vars, Started
  <2>3. FlowsInv'
    BY <1>1, <1>2, <1>3, <2>1 DEF FlowsInv, Reached, Awaits, seqno_vars
  <2> QED
    BY <2>2, <2>3
<1>4. CASE {p \in Ports : valid /\ ~ro.sb /\ port[p].st = "CLAIMED"} # {}
  <2> DEFINE u == NewUpdate(Iface, iface_seqno + 1)
             us == ofctrl_seqno_updates
  <2>1. iface_seqno' = iface_seqno + 1 /\ UpdateCreate(Iface, iface_seqno + 1)
    BY <1>4
  <2>2. Iface \in Types /\ type_req_cfg \in [Types -> Nat] /\ us \in Seq(Update) /\ ofctrl_req_seqno \in Nat
        /\ iface_seqno \in Nat /\ cur_cfg \in Nat
    BY <1>1 DEF Types, Iface, SeqnoTypeOK, FlowTypes
  <2>3. UpdateIsNew(Iface, iface_seqno + 1)
    BY <1>1, <2>2 DEF UpdateIsNew, NumbersInv
  <2>4. /\ Started /\ Started'
        /\ type_req_cfg' = [type_req_cfg EXCEPT ![Iface] = iface_seqno + 1]
        /\ ofctrl_req_seqno' = ofctrl_req_seqno + 1
        /\ ofctrl_seqno_updates' = Append(us, u)
        /\ UNCHANGED <<acked_cfgs, run_cfg>>
    BY <2>1, <2>3 DEF UpdateCreate, PushBack, Started
  <2>5. u.flow_cfg = ofctrl_req_seqno + 1 /\ u.req_cfg = iface_seqno + 1
    BY DEF NewUpdate
  <2>6. u \in Update
    BY <2>2 DEF NewUpdate, Update
  <2> HIDE DEF u
  <2>7. \A i \in DOMAIN ofctrl_seqno_updates' :
            \/ i \in DOMAIN us /\ ofctrl_seqno_updates'[i] = us[i]
            \/ ofctrl_seqno_updates'[i] = u
    <3>1. us \in Seq(Update)
      BY <2>2
    <3> HIDE DEF us
    <3>2. \A i \in DOMAIN Append(us, u) : (i \in DOMAIN us /\ Append(us, u)[i] = us[i]) \/ Append(us, u)[i] = u
      BY <2>6, <3>1
    <3> QED
      BY <2>4, <3>2, Zenon
  <2>8. /\ \A i \in DOMAIN us : us[i] \in Update
        /\ \A i \in DOMAIN flight : flight[i].req_cfg \in Nat
        /\ \A i \in DOMAIN acked_cfgs[Iface] : acked_cfgs[Iface][i] \in Nat
    <3>1. acked_cfgs[Iface] \in Seq(Nat)
      BY <1>1, <2>2 DEF SeqnoTypeOK
    <3>2. flight \in Seq([req_cfg : Nat, flows : SUBSET Ports])
      BY <1>1 DEF FlowTypes
    <3>3. \A i \in DOMAIN flight : flight[i].req_cfg \in Nat
      <4> DEFINE S == [req_cfg : Nat, flows : SUBSET Ports]
      <4>1. \A s \in S : s.req_cfg \in Nat
        OBVIOUS
      <4> HIDE DEF S
      <4>2. \A i \in DOMAIN flight : flight[i] \in S
        <5>1. flight \in Seq(S)
          BY <3>2 DEF S
        <5> QED
          BY <5>1
      <4> QED
        BY <4>1, <4>2
    <3>4. \A i \in DOMAIN acked_cfgs[Iface] : acked_cfgs[Iface][i] \in Nat
      BY <3>1
    <3>5. \A i \in DOMAIN us : us[i] \in Update
      BY <2>2
    <3> QED
      BY <3>3, <3>4, <3>5
  <2>9. \A i \in DOMAIN us : us[i].flow_cfg \in Nat /\ us[i].req_cfg \in Nat
    BY <2>8 DEF Update
  <2>10. NumbersInv'
    <3>1. type_req_cfg'[Iface] = iface_seqno'
      BY <2>1, <2>2, <2>4
    <3>2. \A i \in DOMAIN ofctrl_seqno_updates' :
            /\ ofctrl_seqno_updates'[i].flow_cfg \in 1 .. ofctrl_req_seqno'
            /\ ofctrl_seqno_updates'[i].req_cfg <= iface_seqno'
      <4>1. \A i \in DOMAIN us : us[i].flow_cfg \in 1 .. ofctrl_req_seqno /\ us[i].req_cfg <= iface_seqno
        BY <1>1 DEF NumbersInv
      <4>2. \A i \in DOMAIN us : us[i].flow_cfg \in 1 .. ofctrl_req_seqno + 1 /\ us[i].req_cfg <= iface_seqno + 1
        <5> SUFFICES ASSUME NEW i \in DOMAIN us
                     PROVE  us[i].flow_cfg \in 1 .. ofctrl_req_seqno + 1 /\ us[i].req_cfg <= iface_seqno + 1
          OBVIOUS
        <5> DEFINE f == us[i].flow_cfg
                   c == us[i].req_cfg
        <5>1. f \in 1 .. ofctrl_req_seqno /\ c <= iface_seqno /\ f \in Nat /\ c \in Nat
          BY <2>9, <4>1
        <5> HIDE DEF f, c
        <5>2. f \in 1 .. ofctrl_req_seqno + 1 /\ c <= iface_seqno + 1
          BY <2>2, <5>1
        <5> QED
          BY <5>2 DEF f, c
      <4>3. u.flow_cfg \in 1 .. ofctrl_req_seqno + 1 /\ u.req_cfg <= iface_seqno + 1
        BY <2>2, <2>5
      <4> HIDE DEF us
      <4> QED
        BY <2>1, <2>4, <2>7, <4>2, <4>3
    <3>3. /\ cur_cfg <= ofctrl_req_seqno'
          /\ \A i \in DOMAIN flight : flight[i].req_cfg <= ofctrl_req_seqno'
          /\ \A i \in DOMAIN acked_cfgs[Iface] : acked_cfgs[Iface][i] <= iface_seqno'
      <4>1. /\ cur_cfg <= ofctrl_req_seqno
            /\ \A i \in DOMAIN flight : flight[i].req_cfg <= ofctrl_req_seqno
            /\ \A i \in DOMAIN acked_cfgs[Iface] : acked_cfgs[Iface][i] <= iface_seqno
        BY <1>1 DEF NumbersInv
      <4>2. ASSUME NEW k \in Nat, NEW m \in Nat, k <= m PROVE k <= m + 1
        BY <4>2
      <4>3. /\ cur_cfg <= ofctrl_req_seqno + 1
            /\ \A i \in DOMAIN flight : flight[i].req_cfg <= ofctrl_req_seqno + 1
            /\ \A i \in DOMAIN acked_cfgs[Iface] : acked_cfgs[Iface][i] <= iface_seqno + 1
        BY <2>2, <2>8, <4>1, <4>2, Zenon
      <4> QED
        BY <2>1, <2>4, <4>3, Zenon
    <3> QED
      BY <1>1, <2>4, <3>1, <3>2, <3>3 DEF NumbersInv
  <2>11. FlowsInv'
    <3>1. \A p \in Ports : port'[p].st \in PastFlows => Reached(p)'
      BY <1>1, <1>2 DEF FlowsInv, Reached
    <3>2. ASSUME NEW p \in Ports, port'[p].st = "INSTALL_FLOWS"
          PROVE  /\ port'[p].install <= iface_seqno'
                 /\ \A i \in DOMAIN acked_cfgs[Iface] :
                       acked_cfgs[Iface][i] = port'[p].install => Reached(p)'
                 /\ \A i \in DOMAIN ofctrl_seqno_updates' :
                       ofctrl_seqno_updates'[i].req_cfg = port'[p].install
                           => Awaits(p, ofctrl_seqno_updates[i].flow_cfg)'
      <4>0. port[p] \in Port
        BY TypeParts
      <4>1. CASE port[p].st = "INSTALL_FLOWS" /\ port'[p].install = port[p].install
        <5>1. /\ port[p].install <= iface_seqno /\ port[p].install \in Nat
              /\ \A i \in DOMAIN acked_cfgs[Iface] : acked_cfgs[Iface][i] = port[p].install => Reached(p)
              /\ \A i \in DOMAIN us : us[i].req_cfg = port[p].install => Awaits(p, us[i].flow_cfg)
          BY <1>1, <4>0, <4>1 DEF FlowsInv, Port
        <5>2. Reached(p) => Reached(p)'
          BY DEF Reached
        <5>3. \A f : Awaits(p, f) => Awaits(p, f)'
          BY DEF Awaits, Reached
        <5>4. u.req_cfg # port[p].install
          BY <2>2, <2>5, <5>1
        <5>5. ASSUME NEW i \in DOMAIN ofctrl_seqno_updates',
                     ofctrl_seqno_updates'[i].req_cfg = port'[p].install
              PROVE  Awaits(p, ofctrl_seqno_updates[i].flow_cfg)'
          <6>1. i \in DOMAIN us /\ ofctrl_seqno_updates'[i] = us[i]
            BY <2>7, <4>1, <5>4, <5>5
          <6>2. \A f : f = ofctrl_seqno_updates'[i].flow_cfg => Awaits(p, f)'
            BY <4>1, <5>1, <5>3, <5>5, <6>1
          <6> QED
            BY <6>2 DEF Awaits
        <5> QED
          BY <2>1, <2>2, <4>1, <5>1, <5>2, <5>5
      <4>2. CASE port'[p].install = iface_seqno + 1
        <5>1. \A i \in DOMAIN acked_cfgs[Iface] : acked_cfgs[Iface][i] # port'[p].install
          BY <1>1, <2>2, <2>8, <4>2 DEF NumbersInv
        <5>2. \A i \in DOMAIN us : us[i].req_cfg # port'[p].install
          BY <1>1, <2>2, <2>9, <4>2 DEF NumbersInv
        <5>3. ASSUME NEW i \in DOMAIN ofctrl_seqno_updates',
                     ofctrl_seqno_updates'[i].req_cfg = port'[p].install
              PROVE  Awaits(p, ofctrl_seqno_updates[i].flow_cfg)'
          <6>1. ofctrl_seqno_updates'[i].flow_cfg = ofctrl_req_seqno + 1
            BY <2>5, <2>7, <5>2, <5>3
          <6>2. /\ ~(cur_cfg >= ofctrl_req_seqno + 1)
                /\ \A j \in DOMAIN flight : ~(flight[j].req_cfg >= ofctrl_req_seqno + 1)
            <7>1. ASSUME NEW k \in Nat, NEW m \in Nat, k <= m PROVE ~(k >= m + 1)
              BY <7>1
            <7>2. cur_cfg <= ofctrl_req_seqno /\ \A j \in DOMAIN flight : flight[j].req_cfg <= ofctrl_req_seqno
              BY <1>1, Zenon DEF NumbersInv
            <7> QED
              BY <2>2, <2>8, <7>1, <7>2, Zenon
          <6> QED
            BY <6>1, <6>2 DEF Awaits
        <5> QED
          BY <2>1, <2>2, <4>2, <5>1, <5>3
      <4> QED
        BY <1>2, <3>2, <4>1, <4>2
    <3> QED
      BY <2>4, <3>1, <3>2 DEF FlowsInv
  <2> QED
    BY <2>10, <2>11
<1> QED
  BY <1>3, <1>4

LEMMA MgrUpdateStep ==
    ASSUME PortsInv, MgrUpdate
    PROVE  PortsInv'
<1>1. /\ SeqnoTypeOK /\ DbTypes /\ EngineTypes /\ FlowTypes /\ n \in [Budgets -> Nat] /\ TypeOK /\ DropInv
      /\ AbortedInv /\ port \in [Ports -> Port]
  BY InvParts, TypeParts
<1>2. /\ pc = "update"
      /\ port' = [p \in Ports |-> if_status_mgr_update(port[p], valid, ro.sb, ro.ovs, iface_seqno)]
      /\ IF {p \in Ports : valid /\ ~ro.sb /\ port[p].st = "CLAIMED"} # {}
         THEN iface_seqno' = iface_seqno + 1 /\ UpdateCreate(Iface, iface_seqno + 1)
         ELSE UNCHANGED <<iface_seqno, seqno_vars>>
      /\ pc' = "put"
      /\ UNCHANGED <<sbdb, ovsdb, sb_txn, ovs_txn, tracked, overlooked, force, aborted, valid, ro, sb_ro, of_connected,
                     conn, flight, sent, sw_flows, cur_cfg, n>>
  BY Zenon DEF MgrUpdate, db_vars, engine_vars, of_vars
<1>3. valid \in BOOLEAN /\ ro.sb \in BOOLEAN /\ ro.ovs \in BOOLEAN /\ iface_seqno \in Nat
  BY <1>1 DEF EngineTypes, FlowTypes
<1>4. ASSUME NEW p \in Ports
      PROVE  /\ Updates(port[p], port'[p], ro.sb, iface_seqno)
             /\ port'[p].st = "INSTALL_FLOWS" /\ port[p].st = "CLAIMED" => valid
  <2>1. port'[p] = if_status_mgr_update(port[p], valid, ro.sb, ro.ovs, iface_seqno) /\ port[p] \in Port
    BY <1>1, <1>2
  <2> QED
    BY <1>3, <2>1, MgrUpdates
<1>5. SeqnoTypeOK' /\ iface_seqno' \in Nat
  <2>1. CASE UNCHANGED <<iface_seqno, seqno_vars>>
    BY <1>1, <1>3, <2>1 DEF SeqnoTypeOK, seqno_vars
  <2>2. CASE iface_seqno' = iface_seqno + 1 /\ UpdateCreate(Iface, iface_seqno + 1)
    <3>1. Iface \in Types /\ NewUpdate(Iface, iface_seqno + 1) \in Update
      BY <1>1, <1>3 DEF Iface, Types, NewUpdate, Update, SeqnoTypeOK
    <3>2. /\ \/ /\ type_req_cfg' = [type_req_cfg EXCEPT ![Iface] = iface_seqno + 1]
                /\ ofctrl_req_seqno' = ofctrl_req_seqno + 1
                /\ ofctrl_seqno_updates' = Append(ofctrl_seqno_updates, NewUpdate(Iface, iface_seqno + 1))
             \/ UNCHANGED <<ofctrl_seqno_updates, ofctrl_req_seqno, type_req_cfg>>
          /\ UNCHANGED <<n_ofctrl_seqno_states, acked_cfgs, type_cur_cfg, run_cfg>>
      BY <2>2, Zenon DEF UpdateCreate, PushBack
    <3>3. ofctrl_seqno_updates \in Seq(Update) /\ type_req_cfg \in [Types -> Nat] /\ ofctrl_req_seqno \in Nat
      BY <1>1 DEF SeqnoTypeOK
    <3>4. ofctrl_seqno_updates' \in Seq(Update) /\ type_req_cfg' \in [Types -> Nat] /\ ofctrl_req_seqno' \in Nat
      <4> DEFINE u == NewUpdate(Iface, iface_seqno + 1)
                 cfg == iface_seqno + 1
      <4>1. cfg \in Nat /\ u \in Update
        BY <1>3, <3>1
      <4> HIDE DEF u, cfg
      <4>2. Append(ofctrl_seqno_updates, u) \in Seq(Update) /\ [type_req_cfg EXCEPT ![Iface] = cfg] \in [Types -> Nat]
        BY <3>1, <3>3, <4>1
      <4> QED
        <5>1. /\ \/ /\ type_req_cfg' = [type_req_cfg EXCEPT ![Iface] = cfg]
                   /\ ofctrl_req_seqno' = ofctrl_req_seqno + 1
                   /\ ofctrl_seqno_updates' = Append(ofctrl_seqno_updates, u)
                \/ UNCHANGED <<ofctrl_seqno_updates, ofctrl_req_seqno, type_req_cfg>>
          BY <3>2, Zenon DEF u, cfg
        <5>2. ofctrl_seqno_updates' \in Seq(Update) /\ type_req_cfg' \in [Types -> Nat]
          BY <3>3, <4>2, <5>1
        <5>3. ofctrl_req_seqno' \in Nat
          BY <3>3, <5>1
        <5> QED
          BY <5>2, <5>3
    <3>5. iface_seqno' \in Nat
      BY <1>3, <2>2
    <3>6. UNCHANGED <<n_ofctrl_seqno_states, acked_cfgs, type_cur_cfg, run_cfg>>
      BY <3>2, Zenon
    <3> QED
      BY <1>1, <3>4, <3>5, <3>6 DEF SeqnoTypeOK
  <2> QED
    BY <1>2, <2>1, <2>2
<1>6. TypeOK'
  <2>1. port' \in [Ports -> Port]
    BY <1>2, <1>4 DEF Updates
  <2>2. (SeqnoTypeOK /\ DbTypes /\ EngineTypes /\ FlowTypes /\ port \in [Ports -> Port] /\ n \in [Budgets -> Nat])'
    BY <1>1, <1>2, <1>5, <2>1 DEF DbTypes, EngineTypes, FlowTypes
  <2> QED
    BY <2>2 DEF TypeOK, DbTypes, EngineTypes, FlowTypes
<1>7. \A p \in Ports :
           /\ port'[p].st \in ClaimedStates => port'[p].lb
           /\ View(p)'
           /\ port'[p].st = "INSTALLED" =>
                \/ sbdb[p].chassis = "us" /\ sbdb[p].up
                \/ Unseen(p)' \/ port'[p].postponed
                \/ sbdb[p].chassis # "us" /\ Writes(p, "us")'
           /\ port'[p].st = "NULL" /\ sbdb[p].chassis = "us" /\ sbdb[p].up =>
                \/ port'[p].lb /\ sbdb[p].bind
                \/ Unseen(p)'
                \/ Writes(p, "none")'
  BY <1>2, <1>4, MgrUpdatePort
<1>8. AbortedInv' /\ ClaimedInv' /\ ViewInv'
  BY <1>1, <1>2, <1>7 DEF AbortedInv, ClaimedInv, ViewInv
<1>9. BoundInv' /\ ForgottenInv'
  BY <1>2, <1>7 DEF BoundInv, ForgottenInv
<1>10. DropInv'
  BY <1>1, <1>2, <1>4, MgrUpdateNumbers
<1> QED
  BY <1>6, <1>8, <1>9, <1>10 DEF PortsInv, DropInv

-----------------------------------------------------------------------------
(* ofctrl_put() and ofctrl_seqno_run().                                    *)

\* The updates on their way.
FlightTypes(f) ==
    /\ Len(f) \in Nat /\ DOMAIN f = 1 .. Len(f)
    /\ \A i \in 1 .. Len(f) : f[i].req_cfg \in Nat /\ f[i].flows \in SUBSET Ports

LEMMA FlightParts ==
    ASSUME NEW f \in Seq([req_cfg : Nat, flows : SUBSET Ports])
    PROVE  FlightTypes(f) /\ \A i \in 1 .. Len(f) : f[i] \in [req_cfg : Nat, flows : SUBSET Ports]
<1> DEFINE S == [req_cfg : Nat, flows : SUBSET Ports]
<1>1. \A s \in S : s.req_cfg \in Nat /\ s.flows \in SUBSET Ports
  OBVIOUS
<1>2. f \in Seq(S)
  OBVIOUS
<1> HIDE DEF S
<1>3. Len(f) \in Nat /\ DOMAIN f = 1 .. Len(f) /\ \A i \in 1 .. Len(f) : f[i] \in S
  BY <1>2
<1> QED
  BY <1>1, <1>3 DEF FlightTypes, S

\* A new update goes last, and the others keep their flows.
Sends(f, g, cfg, flows) ==
    /\ Len(g) = Len(f) + 1
    /\ g[Len(f) + 1].req_cfg = cfg /\ g[Len(f) + 1].flows = flows
    /\ \A i \in 1 .. Len(f) : /\ g[i].flows = f[i].flows
                              /\ g[i].req_cfg \in {f[i].req_cfg, 0}
                              /\ g[i].req_cfg < cfg \/ g[i].req_cfg = 0

LEMMA Sent ==
    ASSUME NEW f \in Seq([req_cfg : Nat, flows : SUBSET Ports]), NEW cfg \in Nat, NEW flows \in SUBSET Ports
    PROVE  LET g == Append(Superseded(f, cfg), [req_cfg |-> cfg, flows |-> flows])
           IN  g \in Seq([req_cfg : Nat, flows : SUBSET Ports]) /\ Sends(f, g, cfg, flows)
<1> DEFINE S == [req_cfg : Nat, flows : SUBSET Ports]
           s == Superseded(f, cfg)
           u == [req_cfg |-> cfg, flows |-> flows]
           g == Append(s, u)
<1>1. Len(f) \in Nat /\ DOMAIN f = 1 .. Len(f) /\ \A i \in 1 .. Len(f) : f[i] \in S /\ f[i].req_cfg \in Nat
  BY FlightParts DEF FlightTypes
<1>2. ASSUME NEW i \in 1 .. Len(f)
      PROVE  /\ s[i] \in S /\ s[i].flows = f[i].flows /\ s[i].req_cfg \in {f[i].req_cfg, 0}
             /\ s[i].req_cfg < cfg \/ s[i].req_cfg = 0
  <2>1. s[i] = IF f[i].req_cfg >= cfg THEN [f[i] EXCEPT !.req_cfg = 0] ELSE f[i]
    BY <1>1 DEF Superseded
  <2>2. f[i] \in S /\ f[i].req_cfg \in Nat
    BY <1>1
  <2> HIDE DEF s
  <2>3. CASE f[i].req_cfg >= cfg
    <3> DEFINE r == f[i]
               t == [r EXCEPT !.req_cfg = 0]
    <3>1. r \in S
      BY <2>2
    <3> HIDE DEF r
    <3>2. t \in S /\ t.flows = r.flows /\ t.req_cfg = 0
      BY <3>1
    <3>3. s[i] = t
      BY <2>1, <2>3 DEF r
    <3> HIDE DEF t
    <3> QED
      BY <3>2, <3>3 DEF r
  <2>4. CASE ~(f[i].req_cfg >= cfg)
    BY <2>1, <2>2, <2>4
  <2> QED
    BY <2>3, <2>4
<1>3. u \in S /\ u.req_cfg = cfg /\ u.flows = flows
  OBVIOUS
<1>4. DOMAIN s = 1 .. Len(f) /\ s = [i \in 1 .. Len(f) |-> s[i]]
  BY <1>1 DEF Superseded
<1> HIDE DEF S, s, u
<1>5. s \in Seq(S) /\ Len(s) = Len(f)
  <2>1. \A i \in 1 .. Len(f) : s[i] \in S
    BY <1>2
  <2> QED
    BY <1>1, <1>4, <2>1, IsASeq
<1>6. /\ g \in Seq(S) /\ Len(g) = Len(f) + 1 /\ g[Len(f) + 1] = u
      /\ \A i \in 1 .. Len(f) : g[i] = s[i]
  BY <1>1, <1>3, <1>5
<1> HIDE DEF g
<1> QED
  BY <1>2, <1>3, <1>6 DEF S, s, u, g, Sends

\* The newest update is made to stand for a later number.
LEMMA Relabelled ==
    ASSUME NEW f \in Seq([req_cfg : Nat, flows : SUBSET Ports]), NEW cfg \in Nat, f # <<>>
    PROVE  LET g == [f EXCEPT ![Len(f)].req_cfg = cfg]
           IN  /\ g \in Seq([req_cfg : Nat, flows : SUBSET Ports])
               /\ Len(g) = Len(f) /\ Len(f) \in 1 .. Len(f)
               /\ g[Len(f)].req_cfg = cfg /\ g[Len(f)].flows = f[Len(f)].flows
               /\ \A i \in 1 .. Len(f) \ {Len(f)} : g[i] = f[i]
<1> DEFINE S == [req_cfg : Nat, flows : SUBSET Ports]
           u == [f[Len(f)] EXCEPT !.req_cfg = cfg]
           g == [f EXCEPT ![Len(f)] = u]
<1>1. Len(f) \in Nat /\ DOMAIN f = 1 .. Len(f) /\ \A i \in 1 .. Len(f) : f[i] \in S
  BY FlightParts DEF FlightTypes
<1>2. Len(f) \in 1 .. Len(f)
  <2>1. f \in Seq(S)
    OBVIOUS
  <2> HIDE DEF S
  <2> QED
    BY <2>1, EmptySeq, <1>1
<1>3. u \in S /\ u.req_cfg = cfg /\ u.flows = f[Len(f)].flows
  <2>1. f[Len(f)] \in S
    BY <1>1, <1>2
  <2> QED
    BY <2>1
<1>4. f \in Seq(S)
  OBVIOUS
<1> HIDE DEF S, u
<1>5. g \in Seq(S) /\ Len(g) = Len(f) /\ g[Len(f)] = u /\ \A i \in 1 .. Len(f) \ {Len(f)} : g[i] = f[i]
  <2> DEFINE k == Len(f)
  <2>1. k \in 1 .. Len(f) /\ u \in S
    BY <1>2, <1>3
  <2> HIDE DEF k
  <2>2. /\ [f EXCEPT ![k] = u] \in Seq(S)
        /\ Len([f EXCEPT ![k] = u]) = Len(f)
        /\ \A j \in 1 .. Len(f) : [f EXCEPT ![k] = u][j] = IF j = k THEN u ELSE f[j]
    BY <1>4, <2>1, ExceptSeq
  <2> QED
    BY <2>1, <2>2 DEF k
<1> QED
  BY <1>2, <1>3, <1>5 DEF S, u

\* Steps between if_status_mgr_update() and if_status_mgr_run(): they concern
\* the flows and their numbers alone.
LEMMA MiddleStep ==
    ASSUME PortsInv, pc \in {"put", "seqno"}, pc' \in {"seqno", "run"},
           UNCHANGED <<sbdb, ovsdb, sb_txn, ovs_txn, port, tracked, overlooked, force, aborted, valid, ro, sb_ro,
                       of_connected, n>>,
           SeqnoTypeOK', FlowTypes', DropInv'
    PROVE  PortsInv'
<1>1. /\ DbTypes /\ EngineTypes /\ n \in [Budgets -> Nat] /\ AbortedInv /\ ClaimedInv /\ ViewInv
      /\ BoundInv /\ ForgottenInv /\ port \in [Ports -> Port]
  BY InvParts, TypeParts
<1>2. TypeOK'
  <2>1. (SeqnoTypeOK /\ DbTypes /\ EngineTypes /\ FlowTypes /\ port \in [Ports -> Port] /\ n \in [Budgets -> Nat])'
    BY <1>1 DEF DbTypes, EngineTypes
  <2> QED
    BY <2>1 DEF TypeOK, DbTypes, EngineTypes, FlowTypes
<1>3. AbortedInv' /\ ClaimedInv'
  BY <1>1 DEF AbortedInv, ClaimedInv
<1>4. ViewInv'
  BY <1>1 DEF ViewInv, View
<1>5. BoundInv' /\ ForgottenInv'
  BY <1>1 DEF BoundInv, ForgottenInv, Unseen, Writes
<1> QED
  BY <1>2, <1>3, <1>4, <1>5 DEF PortsInv, DropInv

\* A position before the last is one of the updates there were.
LEMMA EarlierUpdates ==
    ASSUME NEW L \in Nat, NEW i \in 1 .. L + 1, NEW j \in i .. L + 1, j # L + 1
    PROVE  j \in 1 .. L /\ i \in 1 .. L /\ j \in i .. L
OBVIOUS

\* What ofctrl_put() does to the flows on their way: every port with a local
\* binding keeps its flows, and no number is confirmed too early.
LEMMA PutKeeps ==
    ASSUME FlowTypes, NumbersInv, ofctrl_req_seqno \in Nat, UNCHANGED sw_flows,
           PutSkipped \/ PutFlows \/ PutCovered \/ PutUpToDate
    PROVE  /\ cur_cfg' <= ofctrl_req_seqno
           /\ \A i \in DOMAIN flight' : flight'[i].req_cfg <= ofctrl_req_seqno
           /\ sent' = IF flight' = <<>> THEN sw_flows ELSE flight'[Len(flight')].flows
           /\ \A p \in wanted : /\ Reached(p) => Reached(p)'
                                /\ \A f \in 1 .. ofctrl_req_seqno : Awaits(p, f) => Awaits(p, f)'
<1> DEFINE R == ofctrl_req_seqno
           S == [req_cfg : Nat, flows : SUBSET Ports]
<1>1. /\ FlightTypes(flight) /\ flight \in Seq(S) /\ cur_cfg \in Nat
      /\ cur_cfg <= R
      /\ \A i \in DOMAIN flight : flight[i].req_cfg <= R
      /\ sent = IF flight = <<>> THEN sw_flows ELSE flight[Len(flight)].flows
  BY FlightParts DEF FlowTypes, NumbersInv
<1>2. /\ Len(flight) \in Nat /\ DOMAIN flight = 1 .. Len(flight)
      /\ \A i \in 1 .. Len(flight) : flight[i].req_cfg \in Nat
  BY <1>1 DEF FlightTypes
<1>3. CASE PutSkipped
  BY <1>1, <1>3 DEF PutSkipped, Reached, Awaits
<1>4. CASE PutFlows
  <2> DEFINE L == Len(flight)
  <2>0. wanted \in SUBSET Ports
    BY DEF wanted
  <2>1. /\ flight' = Append(Superseded(flight, R), [req_cfg |-> R, flows |-> wanted])
        /\ sent' = wanted /\ cur_cfg' = cur_cfg
    BY <1>4 DEF PutFlows
  <2>2. /\ flight' \in Seq(S) /\ Len(flight') = L + 1
        /\ flight'[L + 1].req_cfg = R /\ flight'[L + 1].flows = wanted
        /\ \A i \in 1 .. L : /\ flight'[i].flows = flight[i].flows
                             /\ flight'[i].req_cfg \in {flight[i].req_cfg, 0}
                             /\ flight'[i].req_cfg < R \/ flight'[i].req_cfg = 0
    <3> DEFINE g == Append(Superseded(flight, R), [req_cfg |-> R, flows |-> wanted])
    <3>1. g \in Seq(S) /\ Sends(flight, g, R, wanted)
      BY <1>1, <2>0, Sent
    <3>2. flight' = g
      BY <2>1
    <3> HIDE DEF g
    <3> QED
      BY <3>1, <3>2, Zenon DEF Sends
  <2>3. DOMAIN flight' = 1 .. L + 1 /\ flight' # <<>>
    BY <1>2, <2>2, EmptySeq
  <2>4. \A i \in DOMAIN flight' : i \in 1 .. L \/ i = L + 1
    BY <1>2, <2>3
  <2> HIDE DEF S
  <2>5. \A i \in DOMAIN flight' : flight'[i].req_cfg <= R
    <3>1. \A i \in 1 .. L : flight'[i].req_cfg <= R
      <4>1. /\ \A i \in 1 .. L : flight[i].req_cfg <= R
            /\ \A i \in 1 .. L : flight'[i].req_cfg \in {flight[i].req_cfg, 0}
        BY <1>1, <1>2, <2>2, Zenon
      <4>2. 0 <= R
        OBVIOUS
      <4> HIDE DEF R
      <4> QED
        BY <4>1, <4>2, Zenon
    <3> QED
      BY <2>2, <2>4, <3>1
  <2>6. sent' = IF flight' = <<>> THEN sw_flows ELSE flight'[Len(flight')].flows
    BY <2>1, <2>2, <2>3
  <2>7. ASSUME NEW p \in wanted, Reached(p) PROVE Reached(p)'
    <3>1. \A i \in 1 .. L : p \in flight'[i].flows
      BY <1>2, <2>2, <2>7 DEF Reached
    <3>2. \A i \in DOMAIN flight' : p \in flight'[i].flows
      BY <2>2, <2>4, <3>1
    <3> QED
      BY <2>7, <3>2 DEF Reached
  <2>8. ASSUME NEW p \in wanted, NEW f \in 1 .. R, Awaits(p, f) PROVE Awaits(p, f)'
    <3>1. cur_cfg' >= f => Reached(p)'
      BY <2>1, <2>7, <2>8 DEF Awaits
    <3>2. ASSUME NEW i \in DOMAIN flight', flight'[i].req_cfg >= f, NEW j \in i .. Len(flight')
          PROVE  p \in flight'[j].flows
      <4>1. CASE j = L + 1
        BY <2>2, <4>1
      <4>2. CASE j # L + 1
        <5>0. L \in Nat /\ i \in 1 .. L + 1 /\ j \in i .. L + 1
          BY <1>2, <2>2, <2>3, <3>2, Zenon
        <5> HIDE DEF L
        <5>1. j \in 1 .. L /\ i \in 1 .. L /\ j \in i .. L
          BY <4>2, <5>0, EarlierUpdates
        <5>2. flight'[i].req_cfg = flight[i].req_cfg
          <6>1. flight'[i].req_cfg \in {flight[i].req_cfg, 0}
            BY <2>2, <5>1, Zenon
          <6>2. f \in Nat /\ f > 0 /\ flight'[i].req_cfg >= f
            BY <2>8, <3>2
          <6>3. flight'[i].req_cfg # 0
            BY <6>2
          <6> QED
            BY <6>1, <6>3, Zenon
        <5>3. p \in flight[j].flows
          BY <1>2, <2>8, <3>2, <5>1, <5>2 DEF Awaits, L
        <5> QED
          BY <2>2, <5>1, <5>3
      <4> QED
        BY <4>1, <4>2
    <3> QED
      BY <3>1, <3>2 DEF Awaits
  <2> QED
    BY <1>1, <2>1, <2>5, <2>6, <2>7, <2>8
<1>5. CASE PutCovered
  <2> DEFINE L == Len(flight)
  <2>1. /\ wanted = sent /\ flight # <<>> /\ sent' = sent /\ cur_cfg' = cur_cfg
        /\ flight' = [flight EXCEPT ![Len(flight)].req_cfg = R]
    BY <1>5 DEF PutCovered
  <2>2. /\ flight' \in Seq(S) /\ Len(flight') = L /\ L \in 1 .. L
        /\ flight'[L].req_cfg = R /\ flight'[L].flows = flight[L].flows
        /\ \A i \in 1 .. L \ {L} : flight'[i] = flight[i]
    <3> DEFINE g == [flight EXCEPT ![Len(flight)].req_cfg = R]
    <3>1. /\ g \in Seq(S) /\ Len(g) = Len(flight) /\ Len(flight) \in 1 .. Len(flight)
          /\ g[Len(flight)].req_cfg = R /\ g[Len(flight)].flows = flight[Len(flight)].flows
          /\ \A i \in 1 .. Len(flight) \ {Len(flight)} : g[i] = flight[i]
      BY <1>1, <2>1, Relabelled, Zenon
    <3>2. flight' = g
      BY <2>1
    <3> HIDE DEF g
    <3> QED
      BY <3>1, <3>2, Zenon
  <2> HIDE DEF S
  <2>3. DOMAIN flight' = 1 .. L /\ flight' # <<>>
    <3>1. flight' \in Seq(S) /\ Len(flight') = L /\ L \in 1 .. L
      BY <2>2, Zenon
    <3> HIDE DEF L
    <3>2. DOMAIN flight' = 1 .. L
      BY <3>1
    <3> QED
      BY <3>1, <3>2
  <2>4. wanted = flight[L].flows /\ \A i \in 1 .. L : flight'[i].flows = flight[i].flows
    BY <1>1, <2>1, <2>2
  <2>5. \A i \in DOMAIN flight' : flight'[i].req_cfg <= R
    <3>1. \A i \in 1 .. L \ {L} : flight'[i].req_cfg <= R
      BY <1>1, <1>2, <2>2
    <3>2. R <= R
      OBVIOUS
    <3> HIDE DEF L, R
    <3> QED
      BY <2>2, <2>3, <3>1, <3>2
  <2>6. sent' = IF flight' = <<>> THEN sw_flows ELSE flight'[Len(flight')].flows
    BY <2>1, <2>2, <2>3, <2>4
  <2>7. ASSUME NEW p \in wanted, Reached(p) PROVE Reached(p)'
    BY <1>2, <2>3, <2>4, <2>7 DEF Reached
  <2>8. ASSUME NEW p \in wanted, NEW f \in 1 .. R, Awaits(p, f) PROVE Awaits(p, f)'
    <3>1. cur_cfg' >= f => Reached(p)'
      BY <2>1, <2>7, <2>8 DEF Awaits
    <3>2. ASSUME NEW i \in DOMAIN flight', flight'[i].req_cfg >= f, NEW j \in i .. Len(flight')
          PROVE  p \in flight'[j].flows
      <4>1. CASE j = L
        BY <2>2, <2>4, <4>1
      <4>2. CASE j # L
        <5>0. L \in Nat /\ i \in 1 .. L /\ j \in i .. L
          BY <1>2, <2>2, <2>3, <3>2
        <5> HIDE DEF L
        <5>1. j \in 1 .. L /\ i \in 1 .. L /\ j \in i .. L /\ i # L
          BY <4>2, <5>0
        <5>2. flight'[i].req_cfg = flight[i].req_cfg
          BY <2>2, <5>1
        <5>3. p \in flight[j].flows
          BY <1>2, <2>8, <3>2, <5>1, <5>2 DEF Awaits, L
        <5> QED
          BY <2>4, <5>1, <5>3
      <4> QED
        BY <4>1, <4>2
    <3> QED
      BY <3>1, <3>2 DEF Awaits
  <2> QED
    BY <1>1, <2>1, <2>5, <2>6, <2>7, <2>8
<1>6. CASE PutUpToDate
  <2>1. /\ wanted = sent /\ flight = <<>> /\ cur_cfg' = R /\ flight' = <<>> /\ sent' = sent
    BY <1>6 DEF PutUpToDate
  <2>2. \A p \in wanted : p \in sw_flows /\ Reached(p)'
    BY <1>1, <2>1 DEF Reached
  <2> QED
    BY <1>1, <2>1, <2>2 DEF Awaits
<1> QED
  BY <1>3, <1>4, <1>5, <1>6

LEMMA PutStep ==
    ASSUME PortsInv, Put
    PROVE  PortsInv'
<1>1. /\ SeqnoTypeOK /\ FlowTypes /\ DropInv /\ ClaimedInv /\ port \in [Ports -> Port]
  BY InvParts, TypeParts
<1>2. /\ pc = "put" /\ (PutSkipped \/ PutFlows \/ PutCovered \/ PutUpToDate)
      /\ Started /\ run_cfg' = cur_cfg'
      /\ UNCHANGED <<ofctrl_seqno_updates, ofctrl_req_seqno, n_ofctrl_seqno_states,
                     acked_cfgs, type_cur_cfg, type_req_cfg>>
      /\ pc' = "seqno"
      /\ UNCHANGED <<sbdb, ovsdb, sb_txn, ovs_txn, port, tracked, overlooked, force, aborted, valid, ro, sb_ro, of_connected,
                     conn, sw_flows, iface_seqno, n>>
  BY Zenon DEF Put, RunStart, tracker, db_vars, engine_vars
<1>3. ofctrl_req_seqno \in Nat
  BY <1>1 DEF SeqnoTypeOK
<1>4. FlowTypes'
  <2> DEFINE S == [req_cfg : Nat, flows : SUBSET Ports]
  <2>1. /\ sent \subseteq Ports /\ sw_flows \subseteq Ports /\ conn \in BOOLEAN /\ iface_seqno \in Nat
        /\ cur_cfg \in Nat /\ flight \in Seq(S)
    BY <1>1 DEF FlowTypes
  <2>2. wanted \in SUBSET Ports
    BY DEF wanted
  <2>3. sent' \subseteq Ports /\ cur_cfg' \in Nat
    BY <1>2, <1>3, <2>1, <2>2 DEF PutSkipped, PutFlows, PutCovered, PutUpToDate
  <2>4. flight' \in Seq(S)
    <3>1. CASE flight' = flight
      BY <2>1, <3>1
    <3>2. CASE PutFlows
      <4>1. flight' = Append(Superseded(flight, ofctrl_req_seqno), [req_cfg |-> ofctrl_req_seqno, flows |-> wanted])
        BY <3>2 DEF PutFlows
      <4> QED
        BY <1>3, <2>1, <2>2, <4>1, Sent
    <3>3. CASE PutCovered
      <4>1. flight # <<>> /\ flight' = [flight EXCEPT ![Len(flight)].req_cfg = ofctrl_req_seqno]
        BY <3>3 DEF PutCovered
      <4> QED
        BY <1>3, <2>1, <4>1, Relabelled
    <3> QED
      BY <1>2, <3>1, <3>2, <3>3 DEF PutSkipped, PutUpToDate
  <2> HIDE DEF S
  <2> QED
    BY <1>2, <2>1, <2>3, <2>4 DEF FlowTypes, S
<1>5. SeqnoTypeOK'
  <2>1. cur_cfg' \in Nat
    BY <1>4 DEF FlowTypes
  <2> QED
    BY <1>1, <1>2, <2>1 DEF SeqnoTypeOK
<1>6. DropInv'
  <2> SUFFICES ASSUME n["drop"] = 0 PROVE NumbersInv' /\ FlowsInv'
    BY <1>2 DEF DropInv
  <2>1. NumbersInv /\ FlowsInv
    BY <1>1 DEF DropInv
  <2>2. /\ cur_cfg' <= ofctrl_req_seqno
        /\ \A i \in DOMAIN flight' : flight'[i].req_cfg <= ofctrl_req_seqno
        /\ sent' = IF flight' = <<>> THEN sw_flows ELSE flight'[Len(flight')].flows
        /\ \A p \in wanted : /\ Reached(p) => Reached(p)'
                             /\ \A f \in 1 .. ofctrl_req_seqno : Awaits(p, f) => Awaits(p, f)'
    BY <1>1, <1>2, <1>3, <2>1, PutKeeps
  <2>3. NumbersInv'
    BY <1>2, <2>1, <2>2 DEF NumbersInv, Started
  <2>4. FlowsInv'
    <3>1. \A p \in Ports : port[p].st \in PastFlows \cup {"INSTALL_FLOWS"} => p \in wanted
      BY <1>1 DEF ClaimedInv, ClaimedStates, IfStates, PastFlows, wanted
    <3>2. \A i \in DOMAIN ofctrl_seqno_updates : ofctrl_seqno_updates[i].flow_cfg \in 1 .. ofctrl_req_seqno
      BY <2>1 DEF NumbersInv
    <3>3. ASSUME NEW p \in Ports, port[p].st = "INSTALL_FLOWS"
          PROVE  /\ port[p].install <= iface_seqno
                 /\ \A i \in DOMAIN acked_cfgs[Iface] :
                       acked_cfgs[Iface][i] = port[p].install => Reached(p)'
                 /\ \A i \in DOMAIN ofctrl_seqno_updates :
                       ofctrl_seqno_updates[i].req_cfg = port[p].install
                           => Awaits(p, ofctrl_seqno_updates[i].flow_cfg)'
      <4>1. /\ port[p].install <= iface_seqno
            /\ \A i \in DOMAIN acked_cfgs[Iface] : acked_cfgs[Iface][i] = port[p].install => Reached(p)
            /\ \A i \in DOMAIN ofctrl_seqno_updates :
                  ofctrl_seqno_updates[i].req_cfg = port[p].install
                      => Awaits(p, ofctrl_seqno_updates[i].flow_cfg)
        BY <2>1, <3>3 DEF FlowsInv
      <4>2. p \in wanted
        BY <3>1, <3>3
      <4>3. ASSUME NEW i \in DOMAIN ofctrl_seqno_updates, ofctrl_seqno_updates[i].req_cfg = port[p].install
            PROVE  Awaits(p, ofctrl_seqno_updates[i].flow_cfg)'
        <5> DEFINE f == ofctrl_seqno_updates[i].flow_cfg
        <5>1. PICK g \in 1 .. ofctrl_req_seqno : g = f
          BY <3>2
        <5>2. Awaits(p, g)'
          BY <2>2, <4>1, <4>2, <4>3, <5>1
        <5>3. g = ofctrl_seqno_updates'[i].flow_cfg
          BY <1>2, <5>1
        <5> QED
          BY <5>2, <5>3 DEF Awaits
      <4> QED
        BY <2>2, <4>1, <4>2, <4>3
    <3>4. \A p \in Ports : port[p].st \in PastFlows => Reached(p)'
      BY <2>1, <2>2, <3>1 DEF FlowsInv
    <3> QED
      BY <1>2, <3>3, <3>4 DEF FlowsInv
  <2> QED
    BY <2>3, <2>4
<1> QED
  BY <1>2, <1>4, <1>5, <1>6, MiddleStep

\* The tracker has one type.
LEMMA OneType == Types = {0} /\ Iface \in Types
BY DEF Types, Iface

\* A request that is acknowledged is one whose flows have reached the switch.
LEMMA SeqnoRunStep ==
    ASSUME PortsInv, SeqnoRun
    PROVE  PortsInv'
<1>1. /\ SeqnoTypeOK /\ FlowTypes /\ DropInv /\ port \in [Ports -> Port]
  BY InvParts, TypeParts
<1>2. /\ pc = "seqno"
      /\ (RunPop /\ pc' = pc) \/ (RunEnd /\ pc' = "run")
      /\ UNCHANGED <<sbdb, ovsdb, sb_txn, ovs_txn, port, tracked, overlooked, force, aborted, valid, ro, sb_ro, of_connected,
                     conn, flight, sent, sw_flows, cur_cfg, iface_seqno, n>>
  BY Zenon DEF SeqnoRun, db_vars, engine_vars, of_vars
<1>3. FlowTypes'
  BY <1>1, <1>2 DEF FlowTypes
<1>4. CASE RunEnd /\ pc' = "run"
  <2>1. /\ UNCHANGED <<ofctrl_seqno_updates, ofctrl_req_seqno, n_ofctrl_seqno_states,
                       acked_cfgs, type_cur_cfg, type_req_cfg>>
        /\ run_cfg' = Idle
    BY <1>4, Zenon DEF RunEnd, tracker
  <2>2. SeqnoTypeOK'
    BY <1>1, <2>1 DEF SeqnoTypeOK
  <2>3. DropInv'
    BY <1>1, <1>2, <1>4, <2>1 DEF DropInv, NumbersInv, FlowsInv, Reached, Awaits, Started
  <2> QED
    BY <1>2, <1>3, <1>4, <2>2, <2>3, MiddleStep
<1>5. CASE RunPop /\ pc' = pc
  <2> DEFINE us == ofctrl_seqno_updates
             u == Head(us)
             a == acked_cfgs[Iface]
  <2>1. /\ us # <<>> /\ run_cfg >= u.flow_cfg
        /\ ofctrl_seqno_updates' = Tail(us)
        /\ acked_cfgs' = [acked_cfgs EXCEPT ![u.seqno_type] = Append(@, u.req_cfg)]
        /\ type_cur_cfg' = [type_cur_cfg EXCEPT ![u.seqno_type] = u.req_cfg]
        /\ UNCHANGED <<ofctrl_req_seqno, n_ofctrl_seqno_states, type_req_cfg, run_cfg>>
    BY <1>5, Zenon DEF RunPop, Covered, Acked, CurCfgAfter
  <2>2. /\ us \in Seq(Update) /\ acked_cfgs \in [Types -> Seq(Nat)] /\ type_cur_cfg \in [Types -> Nat]
        /\ a \in Seq(Nat)
    BY <1>1, OneType DEF SeqnoTypeOK
  <2>3. /\ u \in Update /\ u = us[1] /\ 1 \in DOMAIN us
        /\ Tail(us) \in Seq(Update)
        /\ \A i \in DOMAIN Tail(us) : Tail(us)[i] = us[i + 1] /\ i + 1 \in DOMAIN us
    BY <2>1, <2>2, HeadTailProperties, EmptySeq
  <2>4. u.seqno_type = 0 /\ u.seqno_type = Iface /\ u.req_cfg \in Nat /\ u.flow_cfg \in Nat
    BY <2>3, OneType DEF Update, Iface
  <2> HIDE DEF u
  <2>5. /\ acked_cfgs'[Iface] = Append(a, u.req_cfg)
        /\ acked_cfgs' \in [Types -> Seq(Nat)] /\ type_cur_cfg' \in [Types -> Nat]
    BY <2>1, <2>2, <2>4, OneType
  <2>6. SeqnoTypeOK'
    BY <1>1, <2>1, <2>3, <2>5 DEF SeqnoTypeOK
  <2>7. \A i \in DOMAIN acked_cfgs'[Iface] : \/ i \in DOMAIN a /\ acked_cfgs'[Iface][i] = a[i]
                                             \/ acked_cfgs'[Iface][i] = u.req_cfg
    <3> DEFINE x == u.req_cfg
    <3>1. a \in Seq(Nat) /\ x \in Nat /\ acked_cfgs'[Iface] = Append(a, x)
      BY <2>2, <2>4, <2>5
    <3> HIDE DEF a, x
    <3>2. \A i \in DOMAIN Append(a, x) : (i \in DOMAIN a /\ Append(a, x)[i] = a[i]) \/ Append(a, x)[i] = x
      BY <3>1
    <3> QED
      BY <3>1, <3>2, Zenon DEF x
  <2>8. DropInv'
    <3> SUFFICES ASSUME n["drop"] = 0 PROVE NumbersInv' /\ FlowsInv'
      BY <1>2 DEF DropInv
    <3>1. NumbersInv /\ FlowsInv
      BY <1>1 DEF DropInv
    <3>2. NumbersInv'
      <4>1. \A i \in DOMAIN ofctrl_seqno_updates' :
               /\ ofctrl_seqno_updates'[i].flow_cfg \in 1 .. ofctrl_req_seqno
               /\ ofctrl_seqno_updates'[i].req_cfg <= iface_seqno
        BY <2>1, <2>3, <3>1 DEF NumbersInv
      <4>2. \A i \in DOMAIN acked_cfgs'[Iface] : acked_cfgs'[Iface][i] <= iface_seqno
        BY <2>3, <2>7, <3>1 DEF NumbersInv
      <4> QED
        BY <1>2, <1>5, <2>1, <3>1, <4>1, <4>2 DEF NumbersInv, Started
    <3>3. FlowsInv'
      <4>1. ASSUME NEW p \in Ports, port[p].st = "INSTALL_FLOWS"
            PROVE  /\ port[p].install <= iface_seqno
                   /\ \A i \in DOMAIN acked_cfgs'[Iface] :
                         acked_cfgs'[Iface][i] = port[p].install => Reached(p)
                   /\ \A i \in DOMAIN ofctrl_seqno_updates' :
                         ofctrl_seqno_updates'[i].req_cfg = port[p].install
                             => Awaits(p, ofctrl_seqno_updates'[i].flow_cfg)
        <5>1. /\ port[p].install <= iface_seqno
              /\ \A i \in DOMAIN a : a[i] = port[p].install => Reached(p)
              /\ \A i \in DOMAIN us : us[i].req_cfg = port[p].install => Awaits(p, us[i].flow_cfg)
          BY <3>1, <4>1 DEF FlowsInv
        <5>2. u.req_cfg = port[p].install => Reached(p)
          <6>1. run_cfg = cur_cfg
            BY <1>2, <3>1 DEF NumbersInv
          <6> QED
            BY <2>1, <2>3, <5>1, <6>1 DEF Awaits
        <5>3. \A i \in DOMAIN acked_cfgs'[Iface] : acked_cfgs'[Iface][i] = port[p].install => Reached(p)
          BY <2>7, <5>1, <5>2
        <5>4. \A i \in DOMAIN ofctrl_seqno_updates' :
                 ofctrl_seqno_updates'[i].req_cfg = port[p].install
                     => Awaits(p, ofctrl_seqno_updates'[i].flow_cfg)
          BY <2>1, <2>3, <5>1
        <5> QED
          BY <5>1, <5>3, <5>4
      <4> QED
        BY <1>2, <3>1, <4>1 DEF FlowsInv, Reached, Awaits
    <3> QED
      BY <3>2, <3>3
  <2> QED
    BY <1>2, <1>3, <1>5, <2>6, <2>8, MiddleStep
<1> QED
  BY <1>2, <1>4, <1>5

\* The larger of two numbers.
LEMMA MaxOfTwo ==
    ASSUME NEW a \in Nat, NEW b \in Nat
    PROVE  Max({a, b}) = IF a >= b THEN a ELSE b
<1> DEFINE m == IF a >= b THEN a ELSE b
<1>1. m \in {a, b} /\ \A y \in {a, b} : m >= y
  OBVIOUS
<1>2. \A x \in {a, b} : (\A y \in {a, b} : x >= y) => x = m
  OBVIOUS
<1> HIDE DEF m
<1>3. (CHOOSE x \in {a, b} : \A y \in {a, b} : x >= y) = m
  BY <1>1, <1>2
<1> QED
  BY <1>3 DEF Max, m

\* A position of the tail of a sequence of length L, and the next ones.
LEMMA Later ==
    ASSUME NEW L \in Nat, NEW i \in 1 .. L - 1, NEW j \in i .. L - 1
    PROVE  /\ i \in 1 .. L - 1 /\ j \in 1 .. L - 1
           /\ j + 1 \in (i + 1) .. L /\ i + 1 \in 1 .. L
OBVIOUS

\* The oldest update is applied: its flows replace the ones in the switch.
LEMMA SwitchReplyStep ==
    ASSUME PortsInv, SwitchReply
    PROVE  PortsInv'
<1> DEFINE S == [req_cfg : Nat, flows : SUBSET Ports]
           h == Head(flight)
<1>1. /\ SeqnoTypeOK /\ DbTypes /\ FlowTypes /\ DropInv /\ port \in [Ports -> Port] /\ n \in [Budgets -> Nat]
  BY InvParts, TypeParts
<1>2. /\ World /\ flight # <<>> /\ sw_flows' = h.flows /\ cur_cfg' = Max({cur_cfg, h.req_cfg})
      /\ flight' = Tail(flight)
      /\ UNCHANGED <<sbdb, ovsdb, sb_txn, ovs_txn, port, tracked, overlooked, force, aborted, valid, ro, sb_ro, of_connected,
                     conn, sent, iface_seqno, n>>
  BY Zenon DEF SwitchReply, db_vars, engine_vars
<1>3. /\ flight \in Seq(S) /\ FlightTypes(flight) /\ cur_cfg \in Nat
  BY <1>1, FlightParts DEF FlowTypes
<1>4. Len(flight) \in Nat /\ DOMAIN flight = 1 .. Len(flight)
  BY <1>3 DEF FlightTypes
<1> HIDE DEF S
<1>5. /\ h = flight[1] /\ Len(flight) >= 1
      /\ Tail(flight) \in Seq(S) /\ Len(Tail(flight)) = Len(flight) - 1
      /\ \A i \in 1 .. Len(flight) - 1 : Tail(flight)[i] = flight[i + 1]
  BY <1>2, <1>3, <1>4, HeadTailProperties, EmptySeq
<1> HIDE DEF h
<1>6. /\ Len(flight') = Len(flight) - 1 /\ DOMAIN flight' = 1 .. Len(flight) - 1
      /\ \A i \in 1 .. Len(flight) - 1 : flight'[i] = flight[i + 1] /\ i + 1 \in 1 .. Len(flight)
      /\ 1 \in 1 .. Len(flight)
  BY <1>2, <1>4, <1>5
<1>7. h.req_cfg \in Nat /\ h.flows \in SUBSET Ports
  BY <1>3, <1>5, <1>6 DEF FlightTypes
<1>8. cur_cfg' = IF cur_cfg >= h.req_cfg THEN cur_cfg ELSE h.req_cfg
  BY <1>2, <1>3, <1>7, MaxOfTwo
<1>9. FlowTypes'
  <2>1. cur_cfg' \in Nat
    BY <1>3, <1>7, <1>8
  <2> QED
    BY <1>1, <1>2, <1>5, <1>7, <2>1 DEF FlowTypes, S
<1>10. UNCHANGED seqno_vars /\ ~(pc' = "seqno")
  BY <1>1, <1>2, WorldFrame
<1>11. DropInv'
  <2> SUFFICES ASSUME n["drop"] = 0 PROVE NumbersInv' /\ FlowsInv'
    BY <1>2 DEF DropInv
  <2>1. NumbersInv /\ FlowsInv
    BY <1>1 DEF DropInv
  <2>2. /\ cur_cfg' <= ofctrl_req_seqno
        /\ \A i \in DOMAIN flight' : flight'[i].req_cfg <= ofctrl_req_seqno
    <3>1. cur_cfg <= ofctrl_req_seqno /\ \A i \in 1 .. Len(flight) : flight[i].req_cfg <= ofctrl_req_seqno
      BY <1>4, <2>1, Zenon DEF NumbersInv
    <3>2. h.req_cfg <= ofctrl_req_seqno
      BY <1>5, <1>6, <3>1, Zenon
    <3>3. cur_cfg' \in {cur_cfg, h.req_cfg}
      BY <1>8, Zenon
    <3> QED
      BY <1>6, <3>1, <3>2, <3>3, Zenon
  <2>3. sent = IF flight' = <<>> THEN sw_flows' ELSE flight'[Len(flight')].flows
    <3>1. sent = flight[Len(flight)].flows
      BY <1>2, <2>1 DEF NumbersInv
    <3>2. CASE flight' = <<>>
      <4>1. Len(flight') = 0
        BY <3>2
      <4>2. Len(flight) - 1 = 0 /\ Len(flight) \in Nat
        BY <1>4, <1>6, <4>1, Zenon
      <4>3. Len(flight) = 1
        BY <4>2
      <4> QED
        BY <1>2, <1>5, <3>1, <3>2, <4>3
    <3>3. CASE flight' # <<>>
      <4>1. Len(flight') \in Nat \ {0}
        BY <1>2, <1>5, <3>3, EmptySeq
      <4>2. Len(flight) - 1 \in 1 .. Len(flight) - 1
        <5> DEFINE L == Len(flight)
        <5>1. L \in Nat /\ L - 1 \in Nat \ {0}
          BY <1>4, <1>6, <4>1, Zenon
        <5> HIDE DEF L
        <5>2. L - 1 \in 1 .. L - 1
          BY <5>1
        <5> QED
          BY <5>2 DEF L
      <4>3. flight'[Len(flight) - 1] = flight[Len(flight) - 1 + 1] /\ Len(flight) - 1 + 1 = Len(flight)
        BY <1>4, <1>6, <4>2
      <4> QED
        BY <1>6, <3>1, <3>3, <4>3
    <3> QED
      BY <3>2, <3>3
  <2>4. NumbersInv'
    BY <1>2, <1>10, <2>1, <2>2, <2>3 DEF NumbersInv, seqno_vars, Started
  <2>5. ASSUME NEW p \in Ports, \A i \in 1 .. Len(flight) : p \in flight[i].flows PROVE Reached(p)'
    BY <1>2, <1>5, <1>6, <2>5 DEF Reached
  <2>6. ASSUME NEW p \in Ports, Reached(p) PROVE Reached(p)'
    BY <1>4, <2>5, <2>6 DEF Reached
  <2>7. ASSUME NEW p \in Ports, NEW f \in Nat, Awaits(p, f) PROVE Awaits(p, f)'
    <3>1. cur_cfg' >= f => Reached(p)'
      <4>1. CASE cur_cfg' = cur_cfg
        BY <2>6, <2>7, <4>1 DEF Awaits
      <4>2. CASE cur_cfg' = h.req_cfg
        <5>1. h.req_cfg >= f => \A j \in 1 .. Len(flight) : p \in flight[j].flows
          BY <1>4, <1>5, <1>6, <2>7 DEF Awaits
        <5> QED
          BY <2>5, <4>2, <5>1
      <4> QED
        BY <1>8, <4>1, <4>2
    <3>2. ASSUME NEW i \in DOMAIN flight', flight'[i].req_cfg >= f, NEW j \in i .. Len(flight')
          PROVE  p \in flight'[j].flows
      <4>1. i \in 1 .. Len(flight) - 1 /\ j \in 1 .. Len(flight) - 1 /\ j + 1 \in (i + 1) .. Len(flight)
            /\ i + 1 \in 1 .. Len(flight)
        <5> DEFINE L == Len(flight)
        <5>1. L \in Nat /\ i \in 1 .. L - 1 /\ j \in i .. L - 1
          BY <1>4, <1>6, <3>2, Zenon
        <5> HIDE DEF L
        <5>2. i \in 1 .. L - 1 /\ j \in 1 .. L - 1 /\ j + 1 \in (i + 1) .. L /\ i + 1 \in 1 .. L
          BY <5>1, Later
        <5> QED
          BY <5>2 DEF L
      <4>2. p \in flight[j + 1].flows
        <5>1. flight[i + 1].req_cfg >= f /\ i + 1 \in DOMAIN flight
          BY <1>4, <1>6, <3>2, <4>1, Zenon
        <5>2. \A k \in (i + 1) .. Len(flight) : p \in flight[k].flows
          BY <2>7, <5>1, Zenon DEF Awaits
        <5> QED
          BY <4>1, <5>2, Zenon
      <4> QED
        BY <1>6, <4>1, <4>2
    <3> QED
      BY <3>1, <3>2 DEF Awaits
  <2>8. FlowsInv'
    <3>1. \A i \in DOMAIN ofctrl_seqno_updates : ofctrl_seqno_updates[i].flow_cfg \in Nat
      <4>1. \A i \in DOMAIN ofctrl_seqno_updates : ofctrl_seqno_updates[i] \in Update
        BY <1>1 DEF SeqnoTypeOK
      <4>2. \A u \in Update : u.flow_cfg \in Nat
        BY DEF Update
      <4> QED
        BY <4>1, <4>2, Zenon
    <3>2. ASSUME NEW p \in Ports, NEW i \in DOMAIN ofctrl_seqno_updates,
                 Awaits(p, ofctrl_seqno_updates[i].flow_cfg)
          PROVE  Awaits(p, ofctrl_seqno_updates[i].flow_cfg)'
      <4>1. PICK f \in Nat : f = ofctrl_seqno_updates[i].flow_cfg
        BY <3>1
      <4>2. Awaits(p, f)' /\ f = ofctrl_seqno_updates'[i].flow_cfg
        BY <1>10, <2>7, <3>2, <4>1 DEF seqno_vars
      <4> QED
        BY <4>2 DEF Awaits
    <3>3. ofctrl_seqno_updates' = ofctrl_seqno_updates /\ acked_cfgs' = acked_cfgs
      BY <1>10 DEF seqno_vars
    <3> QED
      BY <1>2, <2>1, <2>6, <3>2, <3>3 DEF FlowsInv
  <2> QED
    BY <2>4, <2>8
<1>12. /\ ovs_txn' \in [Ports -> {Keep, "set", "del"}]
       /\ ovsdb' \in [Ports -> [iface : BOOLEAN, installed : BOOLEAN]]
  BY <1>1, <1>2 DEF DbTypes
<1> QED
  BY <1>1, <1>2, <1>9, <1>11, <1>12, QuietStep

-----------------------------------------------------------------------------
(* if_status_mgr_run(), and the start.                                     *)

LEMMA UnloadedPort ==
    ASSUME NEW q \in Port
    PROVE  /\ Unloaded(q) \in Port
           /\ Unloaded(q).st = q.st /\ Unloaded(q).install = q.install
           /\ Unloaded(q).lb = q.lb /\ Unloaded(q).postponed = q.postponed
BY DEF Unloaded, Port, Keep

\* The acknowledged numbers are consumed and the transactions are sent.
LEMMA MgrRunStep ==
    ASSUME PortsInv, MgrRun
    PROVE  PortsInv'
<1> DEFINE acked == {acked_cfgs[Iface][i] : i \in DOMAIN acked_cfgs[Iface]}
           q(p) == if_status_mgr_run(port[p], valid, acked, ro.sb, ro.ovs)
           writes == [p \in Ports |-> [chassis |-> Write(sbdb[p].chassis, q(p).chassis),
                                       up |-> Write(sbdb[p].up, q(p).up)]]
<1>1. /\ SeqnoTypeOK /\ DbTypes /\ EngineTypes /\ FlowTypes /\ DropInv /\ port \in [Ports -> Port]
      /\ n \in [Budgets -> Nat] /\ AbortedInv /\ ClaimedInv /\ ViewInv /\ BoundInv /\ ForgottenInv
  BY InvParts, TypeParts
<1>2. /\ pc = "run" /\ AckedSeqnosGet(Iface)
      /\ port' = [p \in Ports |-> Unloaded(q(p))]
      /\ sb_txn' = IF ro.sb THEN sb_txn ELSE writes
      /\ ovs_txn' = IF ro.ovs THEN ovs_txn ELSE [p \in Ports |-> q(p).op]
      /\ ro' = [sb |-> FALSE, ovs |-> FALSE] /\ valid' = FALSE /\ pc' = "top"
      /\ UNCHANGED <<sbdb, ovsdb, tracked, overlooked, force, aborted, sb_ro, of_connected,
                     conn, flight, sent, sw_flows, cur_cfg, iface_seqno, n>>
  BY Zenon DEF MgrRun, of_vars
<1>3. /\ acked_cfgs' = [acked_cfgs EXCEPT ![Iface] = <<>>]
      /\ UNCHANGED <<ofctrl_seqno_updates, ofctrl_req_seqno, n_ofctrl_seqno_states,
                     type_cur_cfg, type_req_cfg, run_cfg>>
  BY <1>2, Zenon DEF AckedSeqnosGet
<1>4. valid \in BOOLEAN /\ ro.sb \in BOOLEAN /\ ro.ovs \in BOOLEAN
  BY <1>1 DEF EngineTypes
<1>5. ASSUME NEW p \in Ports
      PROVE  /\ q(p) \in Port
             /\ q(p).lb = port[p].lb /\ q(p).postponed = port[p].postponed /\ q(p).chassis = port[p].chassis
             /\ \/ q(p).st = port[p].st /\ q(p).install = port[p].install
                \/ /\ port[p].st = "INSTALL_FLOWS" /\ port[p].install \in acked
                   /\ q(p).st \in {"REM_OLD_OVN_INST", "MARK_UP"}
  <2>1. port[p] \in Port
    BY <1>1
  <2> HIDE DEF acked
  <2> QED
    BY <1>4, <2>1, MgrRuns
<1> HIDE DEF q, acked
<1>6. ASSUME NEW p \in Ports
      PROVE  /\ port'[p] \in Port
             /\ port'[p].lb = port[p].lb /\ port'[p].postponed = port[p].postponed
             /\ \/ port'[p].st = port[p].st /\ port'[p].install = port[p].install
                \/ /\ port[p].st = "INSTALL_FLOWS" /\ port[p].install \in acked
                   /\ port'[p].st \in {"REM_OLD_OVN_INST", "MARK_UP"}
  <2>1. port'[p] = Unloaded(q(p))
    BY <1>2
  <2> QED
    BY <1>5, <2>1, UnloadedPort
<1>7. ASSUME NEW p \in Ports
      PROVE  /\ port[p].chassis \in {sbdb[p].chassis, "none", "us"}
             /\ q(p).up \in BOOLEAN /\ q(p).op \in {Keep, "set", "del"}
  <2>1. q(p) \in Port
    BY <1>5
  <2> QED
    BY <1>1, <1>2, <2>1 DEF ViewInv, View, Port, Keep
<1>8. ~ro.sb => \A p \in Ports : /\ sb_txn'[p].chassis = Write(sbdb[p].chassis, port[p].chassis)
                                 /\ sb_txn'[p].up = Write(sbdb[p].up, q(p).up)
  BY <1>2, <1>5
<1>9. DbTypes'
  <2>1. ASSUME NEW p \in Ports, ~ro.sb
        PROVE  writes[p] \in [chassis : SUBSET {"none", "us"}, up : SUBSET BOOLEAN]
    <3>1. /\ Write(sbdb[p].chassis, q(p).chassis) \in SUBSET {"none", "us"}
          /\ Write(sbdb[p].up, q(p).up) \in SUBSET BOOLEAN
      BY <1>5, <1>7 DEF Write
    <3> DEFINE c == Write(sbdb[p].chassis, q(p).chassis)
               u == Write(sbdb[p].up, q(p).up)
    <3>2. writes[p] = [chassis |-> c, up |-> u]
      OBVIOUS
    <3> HIDE DEF writes
    <3> QED
      BY <3>1, <3>2
  <2>2. sb_txn' \in [Ports -> [chassis : SUBSET {"none", "us"}, up : SUBSET BOOLEAN]]
    <3>1. CASE ro.sb
      BY <1>1, <1>2, <3>1 DEF DbTypes
    <3>2. CASE ~ro.sb
      <4>1. sb_txn' = writes /\ writes = [p \in Ports |-> writes[p]]
        BY <1>2, <3>2
      <4> HIDE DEF writes
      <4> QED
        BY <2>1, <3>2, <4>1
    <3> QED
      BY <3>1, <3>2
  <2>3. ovs_txn' \in [Ports -> {Keep, "set", "del"}]
    BY <1>1, <1>2, <1>7 DEF DbTypes
  <2> QED
    BY <1>1, <1>2, <2>2, <2>3 DEF DbTypes
<1> HIDE DEF writes
<1>10. SeqnoTypeOK'
  <2>1. <<>> \in Seq(Nat) /\ acked_cfgs \in [Types -> Seq(Nat)]
    BY <1>1 DEF SeqnoTypeOK
  <2>2. acked_cfgs' \in [Types -> Seq(Nat)]
    BY <1>3, <2>1
  <2> QED
    BY <1>1, <1>3, <2>2 DEF SeqnoTypeOK
<1>11. EngineTypes' /\ FlowTypes'
  BY <1>1, <1>2 DEF EngineTypes, FlowTypes
<1>12. TypeOK'
  <2>1. port' \in [Ports -> Port]
    BY <1>2, <1>6
  <2>2. (SeqnoTypeOK /\ DbTypes /\ EngineTypes /\ FlowTypes /\ port \in [Ports -> Port] /\ n \in [Budgets -> Nat])'
    BY <1>1, <1>2, <1>9, <1>10, <1>11, <2>1
  <2> QED
    BY <2>2 DEF TypeOK, DbTypes, EngineTypes, FlowTypes
<1>13. AbortedInv' /\ ViewInv'
  BY <1>1, <1>2 DEF AbortedInv, ViewInv
<1>14. ClaimedInv'
  BY <1>1, <1>6 DEF ClaimedInv, ClaimedStates, IfStates
<1>15. ASSUME NEW p \in Ports, NEW c, Writes(p, c), sbdb[p].chassis # c
       PROVE  Writes(p, c)'
  <2>1. sb_txn'[p].chassis = {c}
    BY <1>2, <1>4, <1>8, <1>15 DEF Writes, Write
  <2> QED
    BY <1>2, <2>1 DEF Writes
<1>16. BoundInv'
  BY <1>1, <1>2, <1>6, <1>15 DEF BoundInv, Unseen
<1>17. ForgottenInv'
  BY <1>1, <1>2, <1>6, <1>15 DEF ForgottenInv, Unseen
<1>18. DropInv'
  <2> SUFFICES ASSUME n["drop"] = 0 PROVE NumbersInv' /\ FlowsInv'
    BY <1>2 DEF DropInv
  <2>1. NumbersInv /\ FlowsInv
    BY <1>1 DEF DropInv
  <2>2. acked_cfgs'[Iface] = <<>> /\ DOMAIN acked_cfgs'[Iface] = {}
    BY <1>1, <1>3, OneType DEF SeqnoTypeOK
  <2>3. NumbersInv'
    BY <1>2, <1>3, <2>1, <2>2 DEF NumbersInv, Started
  <2>4. ASSUME NEW p \in Ports, port'[p].st \in PastFlows PROVE Reached(p)
    <3>1. CASE port'[p].st = port[p].st
      BY <2>1, <2>4, <3>1 DEF FlowsInv
    <3>2. CASE port[p].st = "INSTALL_FLOWS" /\ port[p].install \in acked
      BY <2>1, <3>2 DEF FlowsInv, acked
    <3> QED
      BY <1>6, <3>1, <3>2
  <2>5. FlowsInv'
    <3>1. \A p \in Ports : Reached(p) <=> Reached(p)'
      BY <1>2 DEF Reached
    <3>2. \A p \in Ports, i \in DOMAIN ofctrl_seqno_updates :
             Awaits(p, ofctrl_seqno_updates[i].flow_cfg) <=> Awaits(p, ofctrl_seqno_updates[i].flow_cfg)'
      BY <1>2, <1>3 DEF Awaits, Reached
    <3> QED
      BY <1>2, <1>3, <1>6, <2>1, <2>2, <2>4, <3>1, <3>2 DEF FlowsInv
  <2> QED
    BY <2>3, <2>5
<1> QED
  BY <1>12, <1>13, <1>14, <1>16, <1>17, <1>18 DEF PortsInv, DropInv

\* The interface status manager registers its type.
LEMMA StartStep ==
    ASSUME PortsInv, Start
    PROVE  PortsInv'
<1>1. /\ SeqnoTypeOK /\ DbTypes /\ EngineTypes /\ FlowTypes /\ DropInv /\ port \in [Ports -> Port]
      /\ n \in [Budgets -> Nat] /\ AbortedInv /\ ClaimedInv /\ ViewInv /\ BoundInv /\ ForgottenInv
  BY InvParts, TypeParts
<1>2. /\ ~Started
      /\ n_ofctrl_seqno_states' = n_ofctrl_seqno_states + 1
      /\ acked_cfgs' = [acked_cfgs EXCEPT ![n_ofctrl_seqno_states] = <<>>]
      /\ type_cur_cfg' = [t \in Types |-> 0]
      /\ type_req_cfg' = [t \in Types |-> 0]
      /\ UNCHANGED <<ofctrl_seqno_updates, ofctrl_req_seqno, run_cfg>>
      /\ UNCHANGED <<pc, sbdb, ovsdb, sb_txn, ovs_txn, port, tracked, overlooked, force, aborted, valid, ro, sb_ro,
                     of_connected, conn, flight, sent, sw_flows, cur_cfg, iface_seqno, n>>
  BY Zenon DEF Start, AddType, db_vars, engine_vars, of_vars
<1>3. n_ofctrl_seqno_states = 0
  BY <1>1, <1>2 DEF Started, SeqnoTypeOK
<1>4. SeqnoTypeOK'
  BY <1>1, <1>2, <1>3, OneType DEF SeqnoTypeOK
<1>5. TypeOK'
  <2>1. (SeqnoTypeOK /\ DbTypes /\ EngineTypes /\ FlowTypes /\ port \in [Ports -> Port] /\ n \in [Budgets -> Nat])'
    BY <1>1, <1>2, <1>4 DEF DbTypes, EngineTypes, FlowTypes
  <2> QED
    BY <2>1 DEF TypeOK, DbTypes, EngineTypes, FlowTypes
<1>6. AbortedInv' /\ ClaimedInv' /\ ViewInv'
  BY <1>1, <1>2 DEF AbortedInv, ClaimedInv, ViewInv, View
<1>7. BoundInv' /\ ForgottenInv'
  BY <1>1, <1>2 DEF BoundInv, ForgottenInv, Unseen, Writes
<1>8. DropInv'
  <2> SUFFICES ASSUME n["drop"] = 0 PROVE NumbersInv' /\ FlowsInv'
    BY <1>2 DEF DropInv
  <2>1. NumbersInv /\ FlowsInv
    BY <1>1 DEF DropInv
  <2>2. acked_cfgs'[Iface] = <<>> /\ DOMAIN acked_cfgs'[Iface] = {}
    BY <1>1, <1>2, <1>3, OneType DEF SeqnoTypeOK, Iface
  <2>3. iface_seqno = 0 /\ type_req_cfg'[Iface] = 0
    BY <1>2, <2>1, OneType DEF NumbersInv
  <2>4. NumbersInv'
    BY <1>2, <2>1, <2>2, <2>3 DEF NumbersInv
  <2>5. FlowsInv'
    BY <1>2, <2>1, <2>2 DEF FlowsInv, Reached, Awaits
  <2> QED
    BY <2>4, <2>5
<1> QED
  BY <1>5, <1>6, <1>7, <1>8 DEF PortsInv, DropInv

-----------------------------------------------------------------------------
(* The theorems.                                                           *)

LEMMA InitInv == Init => PortsInv
<1> SUFFICES ASSUME Init PROVE PortsInv
  OBVIOUS
<1> DEFINE r0 == [st |-> "NULL", install |-> 0, uninstall |-> FALSE, lb |-> FALSE,
                  recent |-> FALSE, postponed |-> FALSE, chassis |-> "none", up |-> FALSE,
                  bind |-> FALSE, iface |-> FALSE, installed |-> FALSE, op |-> Keep]
<1>1. /\ SeqnoInit /\ pc = "top"
      /\ sbdb = [p \in Ports |-> [chassis |-> IF p \in Earlier THEN "us" ELSE "none",
                                  up |-> p \in Earlier, bind |-> TRUE]]
      /\ ovsdb = [p \in Ports |-> [iface |-> p \in Earlier, installed |-> p \in Earlier]]
      /\ sb_txn = NoSbWrites /\ ovs_txn = NoOvsWrites
      /\ port = [p \in Ports |-> r0]
      /\ tracked = Ports /\ overlooked = {} /\ force = FALSE /\ aborted = FALSE /\ valid = FALSE
      /\ ro = [sb |-> FALSE, ovs |-> FALSE] /\ sb_ro = FALSE
      /\ conn = FALSE /\ of_connected = FALSE
      /\ iface_seqno = 0
      /\ flight = <<>> /\ sent = {} /\ sw_flows = {} /\ cur_cfg = 0
      /\ n = [b \in Budgets |-> 0]
  BY Zenon DEF Init
<1>2. r0 \in Port /\ r0.st = "NULL"
  BY DEF Port, IfStates, Keep
<1> HIDE DEF r0
<1>3. SeqnoTypeOK
  BY <1>1, OneType DEF SeqnoInit, SeqnoTypeOK, Idle
<1>4. DbTypes
  <2>1. ASSUME NEW p \in Ports
        PROVE  /\ (IF p \in Earlier THEN "us" ELSE "none") \in {"none", "us", "other"}
               /\ (p \in Earlier) \in BOOLEAN
    OBVIOUS
  <2>2. sbdb \in [Ports -> [chassis : {"none", "us", "other"}, up : BOOLEAN, bind : BOOLEAN]]
    BY <1>1, <2>1
  <2>3. ovsdb \in [Ports -> [iface : BOOLEAN, installed : BOOLEAN]]
    BY <1>1, <2>1
  <2> QED
    BY <1>1, <2>2, <2>3 DEF DbTypes, NoSbWrites, NoOvsWrites
<1>5. EngineTypes
  BY <1>1 DEF EngineTypes
<1>6. FlowTypes
  <2>1. <<>> \in Seq([req_cfg : Nat, flows : SUBSET Ports])
    OBVIOUS
  <2> QED
    BY <1>1, <2>1 DEF FlowTypes
<1>7. TypeOK
  BY <1>1, <1>2, <1>3, <1>4, <1>5, <1>6, TypeParts
<1>8. \A p \in Ports : port[p].st = "NULL"
  BY <1>1, <1>2
<1>9. AbortedInv /\ ClaimedInv /\ ViewInv
  BY <1>1, <1>8 DEF AbortedInv, ClaimedInv, ViewInv, ClaimedStates
<1>10. BoundInv /\ ForgottenInv
  BY <1>1, <1>8 DEF BoundInv, ForgottenInv, Unseen
<1>11. NumbersInv
  BY <1>1, OneType DEF NumbersInv, SeqnoInit
<1>12. FlowsInv
  BY <1>8 DEF FlowsInv, PastFlows
<1> QED
  BY <1>7, <1>9, <1>10, <1>11, <1>12 DEF PortsInv

LEMMA NextInv == PortsInv /\ [Next]_claim_vars => PortsInv'
<1> SUFFICES ASSUME PortsInv, [Next]_claim_vars PROVE PortsInv'
  OBVIOUS
<1>1. CASE UNCHANGED claim_vars
  <2>1. /\ UNCHANGED <<pc, sbdb, ovsdb, sb_txn, ovs_txn, port, tracked, overlooked, force, aborted, valid, ro, sb_ro,
                       conn, of_connected, iface_seqno, flight, sent, sw_flows, cur_cfg, n>>
        /\ UNCHANGED <<ofctrl_seqno_updates, ofctrl_req_seqno, n_ofctrl_seqno_states,
                       acked_cfgs, type_cur_cfg, type_req_cfg, run_cfg>>
    BY <1>1, Zenon DEF claim_vars, seqno_vars
  <2>2. TypeOK'
    BY <2>1 DEF PortsInv, TypeOK, SeqnoTypeOK
  <2>3. AbortedInv' /\ ClaimedInv' /\ ViewInv' /\ BoundInv' /\ ForgottenInv'
    BY <2>1 DEF PortsInv, AbortedInv, ClaimedInv, ViewInv, View, BoundInv, ForgottenInv, Unseen, Writes
  <2>4. DropInv'
    BY <2>1 DEF PortsInv, DropInv, NumbersInv, FlowsInv, Reached, Awaits, Started
  <2> QED
    BY <2>2, <2>3, <2>4 DEF PortsInv, DropInv
<1>2. CASE Start
  BY <1>2, StartStep
<1>3. CASE Loop
  BY <1>3, EngineStep, MgrUpdateStep, PutStep, SeqnoRunStep, MgrRunStep DEF Loop
<1>4. CASE Environment
  BY <1>4, IfaceChangeStep, UserStep, ClockStep, ForceStep, SbCommittedStep, SbFailedStep, OvsAnswerStep,
     ConnectStep, DropStep, SwitchReplyStep DEF Environment
<1> QED
  BY <1>1, <1>2, <1>3, <1>4 DEF Next

LEMMA PortsInvariant == Spec => []PortsInv
BY InitInv, NextInv, PTL DEF Spec

\* Every variable of the claims keeps its type: in particular no handler, loop
\* or transaction leaves a port in a state that enum if_state does not have.
THEOREM PortTypes == Spec => []TypeOK
<1>1. PortsInv => TypeOK
  BY DEF PortsInv
<1> QED
  BY <1>1, PortsInvariant, PTL

\* Until the OpenFlow connection is lost, if_status_mgr_run() takes an interface
\* past INSTALL_FLOWS, and so marks its port up and ovn-installed, only when the
\* switch has the flows of the port; and they stay there as long as it is bound.
THEOREM PortUpOnlyIfInstalled == Spec => []UpOnlyIfInstalled
<1>1. PortsInv => UpOnlyIfInstalled
  BY DEF PortsInv, FlowsInv, PastFlows, Reached, UpOnlyIfInstalled
<1> QED
  BY <1>1, PortsInvariant, PTL

\* An interface that if_status_mgr_update() has left in OIF_INSTALLED is bound
\* here and up once nothing that concerns it is on its way.  The one exception is
\* a changed row that binding_handle_port_binding_changes() overlooked because
\* the row of another port failed while a port was postponed.
THEOREM InstalledPortIsBound == Spec => []InstalledIsBound
<1>1. PortsInv => InstalledIsBound
  <2> SUFFICES ASSUME PortsInv, NEW p \in Ports \ overlooked, Settled(p), port[p].st = "INSTALLED"
               PROVE  sbdb[p].chassis = "us" /\ sbdb[p].up
    BY DEF InstalledIsBound
  <2>1. BoundInv
    BY DEF PortsInv
  <2>2. pc = "top" /\ sb_txn = NoSbWrites /\ p \notin tracked /\ ~force /\ ~port[p].postponed
    BY DEF Settled, sb_readonly_now
  <2>3. ~Unseen(p) /\ ~Writes(p, "us")
    BY <2>2 DEF Unseen, Writes, NoSbWrites
  <2> QED
    BY <2>1, <2>2, <2>3 DEF BoundInv
<1> QED
  BY <1>1, PortsInvariant, PTL

\* A port without an interface, or meant for another chassis, is not bound here
\* and up once if_status_mgr has destroyed its entry and nothing that concerns it
\* is on its way, with the same exception of a changed row that was overlooked.
THEOREM PortHandedOver == Spec => []HandedOver
<1>1. PortsInv => HandedOver
  <2> SUFFICES ASSUME PortsInv, NEW p \in Ports \ overlooked, Settled(p), port[p].st = "NULL",
                      ~(ovsdb[p].iface /\ sbdb[p].bind), sbdb[p].chassis = "us", sbdb[p].up
               PROVE  FALSE
    BY DEF HandedOver
  <2>1. ForgottenInv
    BY DEF PortsInv
  <2>2. pc = "top" /\ sb_txn = NoSbWrites /\ p \notin tracked /\ ~force /\ ovsdb[p].iface = port[p].lb
    BY DEF Settled, sb_readonly_now
  <2>3. ~Unseen(p) /\ ~Writes(p, "none")
    BY <2>2 DEF Unseen, Writes, NoSbWrites
  <2> QED
    BY <2>1, <2>2, <2>3 DEF ForgottenInv
<1> QED
  BY <1>1, PortsInvariant, PTL
=============================================================================
