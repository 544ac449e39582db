-------------------------------- MODULE Bfd --------------------------------
(***************************************************************************)
(* One BFD session, from the Northbound row to the peer: ovn-northd        *)
(* (build_bfd_table() and what it does for a static route that names the   *)
(* row), the two threads of pinctrl.c that share bfd_monitor_map under     *)
(* pinctrl_mutex, and the peer, a speaker as in RFC 5880 (external).       *)
(*                                                                         *)
(* A tick is one transmission interval: in each, every speaker that        *)
(* transmits sends one packet, which arrives or is lost before the tick    *)
(* ends.  The detection timeout is Detect ticks on both sides.             *)
(*                                                                         *)
(* Both speakers use one interval: the negotiation of min_tx and min_rx    *)
(* and the poll sequences that change them are not here.                   *)
(***************************************************************************)
EXTENDS Integers, FiniteSets, TLC

CONSTANTS
    Detect,         \* detection multiplier times interval, in ticks
    MaxBfdLost,     \* bound: packets lost before the peer dies
    MaxBfdUser,     \* bound: changes of the route, and of the peer's life
    MaxBfdFaults,   \* bound: restarts of ovn-controller, failed transactions
    MaxBfdEvents    \* bound: all of these together

VARIABLES
    bfnb,           \* status of the Northbound row
    bfsb,           \* status of the Southbound row
    bfref,          \* a static route names the row
    bfent,          \* struct bfd_entry of ovn-controller ({} before there is one)
    bftxn,          \* Southbound transaction of ovn-controller without an answer
    bfpeer,         \* the peer
    bfnet,          \* packets in flight, and who has sent in this tick
    bfcount         \* lost packets, user actions and faults so far

bfVars == <<bfnb, bfsb, bfref, bfent, bftxn, bfpeer, bfnet, bfcount>>

Up(s) == s \in {"init", "up"}

NewSpeaker(s) == [state |-> s, disc |-> FALSE, age |-> 0]

BfdInit ==
    /\ bfnb = "admin_down"
    /\ bfsb = "admin_down"
    /\ bfref = FALSE
    /\ bfent = {}
    /\ bftxn = {}
    /\ bfpeer = [NewSpeaker("down") EXCEPT !.age = Detect] @@ [alive |-> TRUE]
    /\ bfnet = [toOvn |-> {}, toPeer |-> {}, sent |-> {}]
    /\ bfcount = [lost |-> 0, user |-> 0, restart |-> 0, failed |-> 0, unrouted |-> FALSE]

BfdMayHappen == bfcount.lost + bfcount.user + bfcount.restart + bfcount.failed < MaxBfdEvents

(***************************************************************************)
(* ovn-northd.                                                             *)
(***************************************************************************)

\* build_bfd_table(): admin_down goes down to SB and leaves it the same way,
\* every other status comes up from SB.
FromSb == bfnb # "admin_down" /\ bfsb # "admin_down"

build_bfd_table == IF FromSb THEN [nb |-> bfsb, sb |-> bfsb] ELSE [nb |-> bfnb, sb |-> bfnb]

\* A route starts the session (parsed_routes_add()); without a user it is
\* stopped (bfd_cleanup_connections()).
ByRoutes(nb) == IF ~bfref THEN "admin_down"
                ELSE IF nb = "admin_down" THEN "down" ELSE nb

northd_bfd ==
    /\ bfsb' = build_bfd_table.sb
    /\ bfnb' = ByRoutes(build_bfd_table.nb)
    /\ UNCHANGED <<bfref, bfent, bftxn, bfpeer, bfnet, bfcount>>

(***************************************************************************)
(* The main thread: bfd_monitor_run().  hastxn is ovnsb_idl_txn.           *)
(***************************************************************************)
NewEntry == NewSpeaker("admin_down") @@ [change |-> FALSE]

bfd_monitor_run ==
    LET hastxn == bftxn = {} IN
    /\ bfent' = IF bfent = {} THEN {NewEntry}
                ELSE {IF bfsb = "admin_down" /\ e.state # "admin_down"
                      THEN [e EXCEPT !.state = "admin_down", !.change = FALSE, !.disc = FALSE]
                      ELSE IF bfsb # "admin_down" /\ e.state = "admin_down"
                      THEN [e EXCEPT !.state = "down", !.change = FALSE, !.disc = FALSE]
                      ELSE IF e.change /\ hastxn
                      THEN [e EXCEPT !.change = FALSE, !.disc = @ /\ e.state # "down"]
                      ELSE e : e \in bfent}
    /\ bftxn' = IF hastxn
                THEN {e.state : e \in {x \in bfent : /\ x.change
                                                    /\ (bfsb = "admin_down") = (x.state = "admin_down")}}
                ELSE bftxn
    /\ UNCHANGED <<bfnb, bfsb, bfref, bfpeer, bfnet, bfcount>>

\* The Southbound answers; a failed transaction is not repeated.
BfdAnswer(ok) ==
    /\ bftxn # {}
    /\ IF ok THEN \E s \in bftxn : bfsb' = s /\ UNCHANGED bfcount
       ELSE /\ bfcount.failed + bfcount.restart < MaxBfdFaults /\ BfdMayHappen
            /\ bfcount' = [bfcount EXCEPT !.failed = @ + 1]
            /\ UNCHANGED bfsb
    /\ bftxn' = {}
    /\ UNCHANGED <<bfnb, bfref, bfent, bfpeer, bfnet>>

(***************************************************************************)
(* The pinctrl_handler thread.                                             *)
(***************************************************************************)
Changed(e, s) == [e EXCEPT !.state = s, !.change = TRUE]

\* The timeout is looked at only in the state Up.
TimeoutIfUp(e) == IF e.state = "up" /\ e.age >= Detect THEN Changed(e, "down") ELSE e

bfd_check_detection_timeout(e) ==
    IF Up(e.state) /\ e.age >= Detect THEN Changed(e, "down") ELSE e

Packet(who) == [state |-> who.state, my |-> TRUE, your |-> who.disc]

\* bfd_monitor_send_msg(): the periodic work on the entry.
Transmits(e) == e.state # "admin_down"

bfd_monitor_send_msg ==
    /\ "ovn" \notin bfnet.sent
    /\ \E e \in bfent :
        LET f == bfd_check_detection_timeout(e) IN
        /\ bfent' = {f}
        /\ bfnet' = [bfnet EXCEPT !.sent = @ \cup {"ovn"},
                                  !.toPeer = IF Transmits(f) THEN {Packet(f)} ELSE {}]
    /\ UNCHANGED <<bfnb, bfsb, bfref, bftxn, bfpeer, bfcount>>

\* pinctrl_check_bfd_msg() and the lookup by your_disc: a packet that does not
\* carry the local discriminator finds no entry.
Accepted(m) == m.my /\ m.your

\* The state machine of pinctrl_handle_bfd_msg().
NextState(s, peer) ==
    CASE peer = "admin_down" /\ Up(s) -> "down"
      [] s = "down" /\ peer = "down" -> "init"
      [] s = "down" /\ peer = "init" -> "up"
      [] s = "init" /\ peer \in {"init", "up"} -> "up"
      [] s = "up" /\ peer = "down" -> "down"
      [] OTHER -> s

pinctrl_handle_bfd_msg ==
    /\ \E m \in bfnet.toOvn :
        bfent' = {IF ~Accepted(m) THEN e
                  ELSE LET s == NextState(e.state, m.state) IN
                       [e EXCEPT !.disc = TRUE, !.state = s,
                                 !.age = IF e.state = "admin_down" THEN @ ELSE 0,
                                 !.change = @ \/ s # e.state] : e \in bfent}
    /\ bfnet' = [bfnet EXCEPT !.toOvn = {}]
    /\ UNCHANGED <<bfnb, bfsb, bfref, bftxn, bfpeer, bfcount>>

(***************************************************************************)
(* The peer, the network, time (external).  The peer does not look up a    *)
(* session by discriminator while its your_disc is zero.                   *)
(***************************************************************************)
PeerState(s, m) ==
    CASE m.state = "admin_down" /\ Up(s) -> "down"
      [] s = "down" /\ m.state = "down" -> "init"
      [] s = "down" /\ m.state = "init" -> "up"
      [] s = "init" /\ m.state \in {"init", "up"} -> "up"
      [] s = "up" /\ m.state = "down" -> "down"
      [] OTHER -> s

PeerReceives ==
    /\ \E m \in bfnet.toPeer :
        bfpeer' = IF ~bfpeer.alive \/ (~m.your /\ m.state \in {"init", "up"}) THEN bfpeer
                  ELSE [bfpeer EXCEPT !.state = PeerState(@, m), !.disc = TRUE, !.age = 0]
    /\ bfnet' = [bfnet EXCEPT !.toPeer = {}]
    /\ UNCHANGED <<bfnb, bfsb, bfref, bfent, bftxn, bfcount>>

PeerSends ==
    /\ bfpeer.alive
    /\ "peer" \notin bfnet.sent
    /\ LET p == IF Up(bfpeer.state) /\ bfpeer.age >= Detect
                THEN [bfpeer EXCEPT !.state = "down", !.disc = FALSE] ELSE bfpeer
       IN  /\ bfpeer' = p
           /\ bfnet' = [bfnet EXCEPT !.sent = @ \cup {"peer"}, !.toOvn = {Packet(p)}]
    /\ UNCHANGED <<bfnb, bfsb, bfref, bfent, bftxn, bfcount>>

Lose ==
    /\ bfcount.lost < MaxBfdLost /\ BfdMayHappen
    /\ bfcount' = [bfcount EXCEPT !.lost = @ + 1]
    /\ \/ bfnet.toOvn # {} /\ bfnet' = [bfnet EXCEPT !.toOvn = {}]
       \/ bfnet.toPeer # {} /\ bfnet' = [bfnet EXCEPT !.toPeer = {}]
    /\ UNCHANGED <<bfnb, bfsb, bfref, bfent, bftxn, bfpeer>>

Older(n) == IF n < Detect THEN n + 1 ELSE n

BfdTick ==
    /\ bfnet.toOvn = {} /\ bfnet.toPeer = {}
    /\ bfent # {} => "ovn" \in bfnet.sent
    /\ bfpeer.alive => "peer" \in bfnet.sent
    /\ bfnet' = [bfnet EXCEPT !.sent = {}]
    /\ bfent' = {[e EXCEPT !.age = Older(@)] : e \in bfent}
    /\ bfpeer' = [bfpeer EXCEPT !.age = Older(@)]
    /\ UNCHANGED <<bfnb, bfsb, bfref, bftxn, bfcount>>

\* The route is added or deleted; the peer dies or comes back anew.
BfdUser ==
    /\ bfcount.user < MaxBfdUser /\ BfdMayHappen
    /\ \/ /\ bfref' = ~bfref
          /\ bfcount' = [bfcount EXCEPT !.user = @ + 1, !.unrouted = @ \/ bfref]
          /\ UNCHANGED bfpeer
       \/ /\ bfpeer' = [bfpeer EXCEPT !.alive = ~@, !.state = "down", !.disc = FALSE]
          /\ bfcount' = [bfcount EXCEPT !.user = @ + 1]
          /\ UNCHANGED bfref
    /\ UNCHANGED <<bfnb, bfsb, bfent, bftxn, bfnet>>

\* ovn-controller restarts: bfd_monitor_destroy() and bfd_monitor_init().
BfdRestart ==
    /\ bfcount.failed + bfcount.restart < MaxBfdFaults /\ BfdMayHappen
    /\ bfcount' = [bfcount EXCEPT !.restart = @ + 1]
    /\ bfent' = {}
    /\ bftxn' = {}
    /\ bfnet' = [bfnet EXCEPT !.sent = @ \ {"ovn"}]
    /\ UNCHANGED <<bfnb, bfsb, bfref, bfpeer>>

BfdNext == northd_bfd \/ bfd_monitor_run \/ (\E ok \in BOOLEAN : BfdAnswer(ok))
           \/ bfd_monitor_send_msg \/ pinctrl_handle_bfd_msg
           \/ PeerReceives \/ PeerSends \/ Lose \/ BfdTick \/ BfdUser \/ BfdRestart

\* Fairness: both daemons and both threads keep running, time passes, and
\* packets that are not lost arrive.
BfdFair ==
    /\ WF_bfVars(northd_bfd) /\ WF_bfVars(bfd_monitor_run) /\ WF_bfVars(BfdAnswer(TRUE))
    /\ WF_bfVars(bfd_monitor_send_msg) /\ WF_bfVars(pinctrl_handle_bfd_msg)
    /\ WF_bfVars(PeerReceives) /\ WF_bfVars(PeerSends) /\ WF_bfVars(BfdTick)

BfdSpec == BfdInit /\ [][BfdNext]_bfVars
BfdFairSpec == BfdSpec /\ BfdFair

(***************************************************************************)
(* Properties.                                                             *)
(***************************************************************************)
Undisturbed == bfcount.failed = 0 /\ bfcount.restart = 0

\* A peer that stays dead is seen: in the end the Northbound status, which
\* northd selects the next hops by, is not up (build_bfd_table(),
\* bfd_is_running()).
FailureDetected == <>[]~bfpeer.alive => <>[](bfnb \in {"down", "admin_down"})

\* So it is as long as ovn-controller does not restart and no transaction of
\* its fails: bfd_monitor_run() writes a change once, and forgets it.
FailureSeen == <>[]~bfpeer.alive => <>[](Undisturbed => bfnb \in {"down", "admin_down"})

\* The session of a route in use with a living peer is up for northd in the
\* end, over lost packets and peers that come back, unless the route was ever
\* deleted: bfd_monitor_run() does not see a stop and a start that northd
\* made one after the other, and then nothing writes "up" again.
RecoverySeen == <>[](bfpeer.alive /\ bfref)
                => <>[](Undisturbed /\ ~bfcount.unrouted => bfnb = "up")
=============================================================================
