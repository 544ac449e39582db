----------------------------- MODULE HealthCheck -----------------------------
(***************************************************************************)
(* The health checks of load balancer backends: northd keeps one           *)
(* Service_Monitor row per backend, the chassis that binds the backend's   *)
(* port probes it from the pinctrl_handler thread, its main thread writes  *)
(* what it found to the row, and northd leaves a backend that is offline   *)
(* out of the load balancer's flows.                                       *)
(*                                                                         *)
(* One backend of one protocol is modelled.  A TCP probe carries a new     *)
(* sequence number and source port, so that an answer to an earlier probe  *)
(* is not taken: the answers in flight are those to the last one.  A UDP   *)
(* probe keeps its source port.  Every run of the main thread and of       *)
(* northd writes what it computes where the row differs, so a failed       *)
(* transaction is one that did not happen.                                 *)
(***************************************************************************)
EXTENDS Integers, FiniteSets

CONSTANTS
    HcChassis,      \* chassis that may bind the port
    SuccessCount, FailureCount,   \* options of the health check
    MaxHcEvents,    \* bound: changes of backend, port and load balancer, restarts
                    \* and late answers
    MaxHcLate       \* bound: answers that come after the timeout of the probe

VARIABLES
    hcproto,        \* "tcp" or "udp"
    hcbackend,      \* "serving", "refusing" or "silent"
    hcport,         \* the port's binding: [chassis, up]
    hcwanted,       \* the load balancer has a health check for the backend
    hcrow,          \* the Service_Monitor row: {} or {status}
    hcmon,          \* each chassis' svc_monitor: {} or one record
    hcnet,          \* answers on their way to each chassis
    hccount         \* events and late answers so far

hcVars == <<hcproto, hcbackend, hcport, hcwanted, hcrow, hcmon, hcnet, hccount>>

Nobody == "none"

NewMonitor == [state |-> "init", status |-> "unknown", ok |-> 0, bad |-> 0]

HealthCheckInit ==
    /\ hcproto \in {"tcp", "udp"} /\ hcbackend = "serving"
    /\ hcport = [chassis |-> Nobody, up |-> FALSE]
    /\ hcwanted = TRUE /\ hcrow = {}
    /\ hcmon = [c \in HcChassis |-> {}] /\ hcnet = [c \in HcChassis |-> {}]
    /\ hccount = [events |-> 0, late |-> 0]

HealthCheckTypeOK ==
    /\ hcrow \subseteq {"unset", "online", "offline"} /\ Cardinality(hcrow) <= 1
    /\ \A c \in HcChassis :
        /\ hcnet[c] \subseteq {"syn_ack", "rst", "icmp"}
        /\ hcmon[c] \subseteq [state : {"init", "waiting", "online", "offline"},
                               status : {"unknown", "online", "offline"},
                               ok : 0..(SuccessCount + 1), bad : 0..(FailureCount + 1)]

(***************************************************************************)
(* The environment.                                                        *)
(***************************************************************************)
HcEvent ==
    /\ hccount.events + hccount.late < MaxHcEvents
    /\ hccount' = [hccount EXCEPT !.events = @ + 1]

BackendChanges ==
    /\ HcEvent
    /\ \E b \in {"serving", "refusing", "silent"} \ {hcbackend} : hcbackend' = b
    /\ UNCHANGED <<hcproto, hcport, hcwanted, hcrow, hcmon, hcnet>>

\* The port is claimed, released or moved; it is up once its flows are in.
HcPortMoves ==
    /\ HcEvent
    /\ \E c \in HcChassis \cup {Nobody} : hcport' = [chassis |-> c, up |-> FALSE]
    /\ UNCHANGED <<hcproto, hcbackend, hcwanted, hcrow, hcmon, hcnet>>

HcPortUp ==
    /\ hcport.chassis # Nobody /\ ~hcport.up
    /\ hcport' = [hcport EXCEPT !.up = TRUE]
    /\ UNCHANGED <<hcproto, hcbackend, hcwanted, hcrow, hcmon, hcnet, hccount>>

LbChanges ==
    /\ HcEvent
    /\ hcwanted' = ~hcwanted
    /\ UNCHANGED <<hcproto, hcbackend, hcport, hcrow, hcmon, hcnet>>

HcRestart(c) ==
    /\ HcEvent
    /\ hcmon[c] # {}
    /\ hcmon' = [hcmon EXCEPT ![c] = {}]
    /\ hcnet' = [hcnet EXCEPT ![c] = {}]
    /\ UNCHANGED <<hcproto, hcbackend, hcport, hcwanted, hcrow>>

(***************************************************************************)
(* northd: build_lb_svcs() and build_lb_vip_actions().                     *)
(***************************************************************************)
\* ovn_lb_svc_create(): the row exists, and an "online" that the port cannot
\* have any more becomes "offline".
ovn_lb_svc_create(row) ==
    IF row = {} THEN {"unset"} ELSE IF ~hcport.up /\ row = {"online"} THEN {"offline"} ELSE row

build_lb_svcs ==
    /\ hcrow' = IF hcwanted THEN ovn_lb_svc_create(hcrow) ELSE {}
    /\ UNCHANGED <<hcproto, hcbackend, hcport, hcwanted, hcmon, hcnet, hccount>>

\* The backend is in the flows of the load balancer.
build_lb_vip_actions == ~hcwanted \/ (hcrow # {} /\ hcrow # {"offline"})

(***************************************************************************)
(* The main thread of chassis c.                                           *)
(***************************************************************************)
\* The status is written only while the row has none.
StatusOnce(row, m) == IF m.status = "unknown" \/ row # {"unset"} THEN row ELSE {m.status}

StatusWritten(row, m) == IF m.status = "unknown" THEN row ELSE {m.status}

sync_svc_monitors(c) ==
    LET mine == hcport.chassis = c /\ hcrow # {}
        m == IF hcmon[c] = {} THEN NewMonitor ELSE CHOOSE x \in hcmon[c] : TRUE
    IN  /\ hcmon' = [hcmon EXCEPT ![c] = IF mine THEN {m} ELSE {}]
        /\ hcrow' = IF mine THEN StatusWritten(hcrow, m) ELSE hcrow
        /\ hcnet' = IF mine /\ hcmon[c] # {} THEN hcnet ELSE [hcnet EXCEPT ![c] = {}]
        /\ UNCHANGED <<hcproto, hcbackend, hcport, hcwanted, hccount>>

(***************************************************************************)
(* The pinctrl_handler thread of chassis c.                                *)
(***************************************************************************)
Answer ==
    CASE hcproto = "tcp" /\ hcbackend = "serving" -> {"syn_ack"}
      [] hcproto = "tcp" /\ hcbackend = "refusing" -> {"rst"}
      [] hcproto = "udp" /\ hcbackend = "refusing" -> {"icmp"}
      [] OTHER -> {}

\* svc_monitor_send_health_check()
HealthCheckSent(c, m) ==
    /\ hcmon' = [hcmon EXCEPT ![c] = {[m EXCEPT !.state = "waiting"]}]
    /\ hcnet' = [hcnet EXCEPT ![c] = IF hcport.chassis # c THEN {}
                                     ELSE IF hcproto = "tcp" THEN Answer ELSE @ \cup Answer]

\* The counters are folded into the status when the next probe is due; they
\* are not reset by an answer of the other kind.
Folded(m) ==
    CASE m.state = "online" /\ m.ok >= SuccessCount ->
           [m EXCEPT !.status = "online", !.ok = 0, !.bad = 0]
      [] m.state = "offline" /\ m.bad >= FailureCount ->
           [m EXCEPT !.status = "offline", !.ok = 0, !.bad = 0]
      [] OTHER -> m

\* A probe that is not answered: an error for TCP, the normal case for UDP.
TimedOut(m) ==
    IF hcproto = "tcp" THEN [m EXCEPT !.state = "offline", !.bad = @ + 1]
    ELSE [m EXCEPT !.state = "online", !.ok = @ + 1]

\* svc_monitors_run(), when the timer of the monitor is over.
svc_monitors_run(c) ==
    \E m \in hcmon[c] :
        /\ \/ m.state # "waiting" /\ HealthCheckSent(c, Folded(m)) /\ UNCHANGED hccount
           \/ /\ m.state = "waiting"
              /\ \/ hcnet[c] = {} /\ UNCHANGED hccount
                 \/ /\ hcnet[c] # {}
                    /\ hccount.late < MaxHcLate /\ hccount.events + hccount.late < MaxHcEvents
                    /\ hccount' = [hccount EXCEPT !.late = @ + 1]
              /\ hcmon' = [hcmon EXCEPT ![c] = {TimedOut(m)}]
              /\ UNCHANGED hcnet
        /\ UNCHANGED <<hcproto, hcbackend, hcport, hcwanted, hcrow>>

\* svc_monitors_run() before that: only the status changes.
FoldStatus(c) ==
    /\ \E m \in hcmon[c] : Folded(m) # m /\ hcmon' = [hcmon EXCEPT ![c] = {Folded(m)}]
    /\ UNCHANGED <<hcproto, hcbackend, hcport, hcwanted, hcrow, hcnet, hccount>>

\* pinctrl_handle_svc_check(), in any state of the monitor.
pinctrl_handle_svc_check(c, a) ==
    /\ a \in hcnet[c]
    /\ hcnet' = [hcnet EXCEPT ![c] = @ \ {a}]
    /\ hcmon' = [hcmon EXCEPT ![c] =
                    {IF a = "syn_ack" THEN [m EXCEPT !.state = "online", !.ok = @ + 1]
                     ELSE [m EXCEPT !.state = "offline", !.bad = @ + 1] : m \in @}]
    /\ UNCHANGED <<hcproto, hcbackend, hcport, hcwanted, hcrow, hccount>>

HealthCheckNext ==
    \/ BackendChanges \/ HcPortMoves \/ HcPortUp \/ LbChanges \/ build_lb_svcs
    \/ \E c \in HcChassis :
        \/ HcRestart(c) \/ sync_svc_monitors(c) \/ svc_monitors_run(c) \/ FoldStatus(c)
        \/ \E a \in {"syn_ack", "rst", "icmp"} : pinctrl_handle_svc_check(c, a)

HealthCheckSpec == HealthCheckInit /\ [][HealthCheckNext]_hcVars

\* The threads and northd run whenever there is something to do.
HealthCheckFairness ==
    /\ WF_hcVars(HcPortUp) /\ WF_hcVars(build_lb_svcs)
    /\ \A c \in HcChassis :
        /\ WF_hcVars(sync_svc_monitors(c))
        /\ WF_hcVars(svc_monitors_run(c))
        /\ WF_hcVars(FoldStatus(c))
        /\ WF_hcVars(\E a \in {"syn_ack", "rst", "icmp"} : pinctrl_handle_svc_check(c, a))

HealthCheckFairSpec == HealthCheckSpec /\ HealthCheckFairness

(***************************************************************************)
(* Properties.                                                             *)
(***************************************************************************)
HcFails == hcbackend = "refusing" \/ (hcproto = "tcp" /\ hcbackend = "silent")

\* A backend that stays as it is ends up in the flows exactly if it serves and
\* its port is bound, after any sequence of failures, recoveries, migrations
\* and restarts: an "online" left by another chassis or by northd's view of the
\* port never stays.
BackendFollows ==
    /\ <>[](hcwanted /\ hcport.chassis # Nobody /\ HcFails) => <>[]~build_lb_vip_actions
    /\ <>[](hcport.chassis # Nobody /\ ~HcFails) => <>[]build_lb_vip_actions
=============================================================================
