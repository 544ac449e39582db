---------------------------- MODULE OfctrlSeqno ----------------------------
(***************************************************************************)
(* controller/ofctrl-seqno.c: the tracker of application sequence numbers. *)
(* An application (the nb_cfg reporter, the interface status manager) asks *)
(* to be told when everything it saw so far has reached the switch.  Every *)
(* request of every application takes the next value of one local counter, *)
(* ofctrl_req_seqno, and waits in one list until ofctrl.c says that a      *)
(* barrier covering that value was answered.                               *)
(*                                                                         *)
(* The module is a component: the modules that compose it with ofctrl.c    *)
(* and if-status.c conjoin its actions with their own.  Spec is the        *)
(* tracker under an arbitrary caller.                                      *)
(***************************************************************************)
EXTENDS Integers, Sequences

CONSTANTS
    NTypes,     \* calls of ofctrl_seqno_add_type() at start-up
    Cfgs,       \* application sequence numbers a caller may ask for
    MaxSeqno    \* bound: largest value of ofctrl_req_seqno explored

ASSUME NTypesAssumption == NTypes \in Nat \ {0}
ASSUME CfgsAssumption == Cfgs \subseteq Nat
ASSUME MaxSeqnoAssumption == MaxSeqno \in Nat

VARIABLES
    ofctrl_seqno_updates,   \* the requests in flight, oldest first
    ofctrl_req_seqno,       \* last sequence number requested of the switch
    n_ofctrl_seqno_states,  \* types registered so far
    acked_cfgs,             \* per type: acks not consumed yet
    type_cur_cfg,           \* per type: cur_cfg, last acked number
    type_req_cfg,           \* per type: req_cfg, last requested number
    run_cfg                 \* argument of a running ofctrl_seqno_run(), or Idle

tracker == <<ofctrl_seqno_updates, ofctrl_req_seqno, n_ofctrl_seqno_states,
             acked_cfgs, type_cur_cfg, type_req_cfg>>
seqno_vars == <<ofctrl_seqno_updates, ofctrl_req_seqno, n_ofctrl_seqno_states,
                acked_cfgs, type_cur_cfg, type_req_cfg, run_cfg>>

Types == 0 .. NTypes - 1
Idle == -1

Update == [seqno_type : Types, flow_cfg : Nat, req_cfg : Nat]


-----------------------------------------------------------------------------

\* ofctrl_seqno_init(): an empty list, no type yet.
SeqnoInit ==
    /\ ofctrl_seqno_updates = <<>>
    /\ ofctrl_req_seqno = 0
    /\ n_ofctrl_seqno_states = 0
    /\ acked_cfgs = [t \in Types |-> <<>>]
    /\ type_cur_cfg = [t \in Types |-> 0]
    /\ type_req_cfg = [t \in Types |-> 0]
    /\ run_cfg = Idle

\* main() registers every type before the first iteration of its loop.
Started == n_ofctrl_seqno_states = NTypes

\* The state array is reallocated: the lists of acks are moved and the new one
\* is empty, the two numbers of every type start again from zero.
AddType ==
    /\ ~Started
    /\ n_ofctrl_seqno_states' = n_ofctrl_seqno_states + 1
    /\ acked_cfgs' = [acked_cfgs EXCEPT ![n_ofctrl_seqno_states] = <<>>]
    /\ type_cur_cfg' = [t \in Types |-> 0]
    /\ type_req_cfg' = [t \in Types |-> 0]
    /\ UNCHANGED <<ofctrl_seqno_updates, ofctrl_req_seqno, run_cfg>>

\* ofctrl_seqno_update_create() does nothing for the number it was last asked
\* for; any other number becomes a request with the next flow_cfg.
UpdateIsNew(t, new_cfg) == new_cfg # type_req_cfg[t]

\* Mutant: flow_cfg is read before the counter is incremented.
NewUpdateStaleSeqno(t, new_cfg) ==
    [seqno_type |-> t, flow_cfg |-> ofctrl_req_seqno, req_cfg |-> new_cfg]

\* The request ofctrl_seqno_update_create__() builds.
NewUpdate(t, new_cfg) ==
    [seqno_type |-> t, flow_cfg |-> ofctrl_req_seqno + 1, req_cfg |-> new_cfg]

\* Mutant: ovs_list_push_front() for ovs_list_push_back().
PushFront(update) == <<update>> \o ofctrl_seqno_updates

\* ovs_list_push_back(&ofctrl_seqno_updates, update).
PushBack(update) == Append(ofctrl_seqno_updates, update)

UpdateCreate(t, new_cfg) ==
    /\ Started /\ run_cfg = Idle
    /\ IF UpdateIsNew(t, new_cfg)
       THEN /\ type_req_cfg' = [type_req_cfg EXCEPT ![t] = new_cfg]
            /\ ofctrl_req_seqno' = ofctrl_req_seqno + 1
            /\ ofctrl_seqno_updates' = PushBack(NewUpdate(t, new_cfg))
       ELSE UNCHANGED <<ofctrl_seqno_updates, ofctrl_req_seqno, type_req_cfg>>
    /\ UNCHANGED <<n_ofctrl_seqno_states, acked_cfgs, type_cur_cfg, run_cfg>>

\* ofctrl_seqno_run(flow_cfg): a loop over the list, oldest request first, that
\* stops at the first request the switch has not covered yet.
RunStart(flow_cfg) ==
    /\ Started /\ run_cfg = Idle
    /\ run_cfg' = flow_cfg
    /\ UNCHANGED tracker

Covered(flow_cfg) ==
    /\ ofctrl_seqno_updates # <<>>
    /\ flow_cfg >= Head(ofctrl_seqno_updates).flow_cfg

\* ofctrl_seqno_cfg_run(): the request moves to its type's list of acks ...
Acked(update) ==
    [acked_cfgs EXCEPT ![update.seqno_type] = Append(@, update.req_cfg)]

\* ... and is its type's last acknowledged number.
CurCfgAfter(update) ==
    [type_cur_cfg EXCEPT ![update.seqno_type] = update.req_cfg]

\* One turn of the loop takes the oldest request.
RunPop ==
    /\ run_cfg # Idle
    /\ Covered(run_cfg)
    /\ ofctrl_seqno_updates' = Tail(ofctrl_seqno_updates)
    /\ acked_cfgs' = Acked(Head(ofctrl_seqno_updates))
    /\ type_cur_cfg' = CurCfgAfter(Head(ofctrl_seqno_updates))
    /\ UNCHANGED <<ofctrl_req_seqno, n_ofctrl_seqno_states, type_req_cfg,
                   run_cfg>>

RunEnd ==
    /\ run_cfg # Idle
    /\ ~Covered(run_cfg)
    /\ run_cfg' = Idle
    /\ UNCHANGED tracker

\* ofctrl_acked_seqnos_get(): the caller takes every ack since its last call.
\* last_acked starts from cur_cfg and follows the acks taken.
LastAcked(t) ==
    IF acked_cfgs[t] = <<>> THEN type_cur_cfg[t]
    ELSE acked_cfgs[t][Len(acked_cfgs[t])]

AckedSeqnosGet(t) ==
    /\ Started /\ run_cfg = Idle
    /\ acked_cfgs' = [acked_cfgs EXCEPT ![t] = <<>>]
    /\ UNCHANGED <<ofctrl_seqno_updates, ofctrl_req_seqno, n_ofctrl_seqno_states,
                   type_cur_cfg, type_req_cfg, run_cfg>>

\* ofctrl_seqno_flush(): both kinds of list are emptied and the counter starts
\* again; cur_cfg and req_cfg of every type keep their values.
Flush ==
    /\ Started /\ run_cfg = Idle
    /\ acked_cfgs' = [t \in Types |-> <<>>]
    /\ ofctrl_seqno_updates' = <<>>
    /\ ofctrl_req_seqno' = 0
    /\ UNCHANGED <<n_ofctrl_seqno_states, type_cur_cfg, type_req_cfg, run_cfg>>

-----------------------------------------------------------------------------

\* What happens while the OpenFlow connection stays up ...
ConnectedNext ==
    \/ AddType
    \/ \E t \in Types, new_cfg \in Cfgs :
          ofctrl_req_seqno < MaxSeqno /\ UpdateCreate(t, new_cfg)
    \/ \E flow_cfg \in 0 .. MaxSeqno : RunStart(flow_cfg)
    \/ RunPop
    \/ RunEnd
    \/ \E t \in Types : AckedSeqnosGet(t)

\* ... and what may happen.
SeqnoNext == ConnectedNext \/ Flush

SeqnoSpec == SeqnoInit /\ [][SeqnoNext]_seqno_vars
ConnectedSpec == SeqnoInit /\ [][ConnectedNext]_seqno_vars

-----------------------------------------------------------------------------

\* Type correctness of the tracker's globals.
SeqnoTypeOK ==
    /\ ofctrl_seqno_updates \in Seq(Update)
    /\ ofctrl_req_seqno \in Nat
    /\ n_ofctrl_seqno_states \in 0 .. NTypes
    /\ acked_cfgs \in [Types -> Seq(Nat)]
    /\ type_cur_cfg \in [Types -> Nat]
    /\ type_req_cfg \in [Types -> Nat]
    /\ run_cfg \in Nat \cup {Idle}

\* The list is the last Len(list) values of the counter, in order and without
\* a gap.  ofctrl_seqno_run() relies on it: its loop breaks at the first
\* request that is not covered and so must not leave a covered one behind.
UpdatesContiguous ==
    \A i \in 1 .. Len(ofctrl_seqno_updates) :
        ofctrl_seqno_updates[i].flow_cfg =
            ofctrl_req_seqno - Len(ofctrl_seqno_updates) + i

\* When ofctrl_seqno_run(flow_cfg) leaves its loop no request it should have
\* acknowledged is left anywhere in the list.
RunLeavesNoneBehind ==
    [][RunEnd => \A i \in 1 .. Len(ofctrl_seqno_updates) :
                     ofctrl_seqno_updates[i].flow_cfg > run_cfg]_seqno_vars

\* cur_cfg, which store_nb_cfg() reports even when there is nothing new to
\* consume, is the newest acknowledged request of its type.
CurCfgIsLastAcked ==
    \A t \in Types : LastAcked(t) = type_cur_cfg[t]

\* The comment in ofctrl_seqno_update_create(): a number equal to the last one
\* requested needs no new request because an update for it is pending, or was
\* acknowledged already.
LastRequestPendingOrAcked ==
    \A t \in Types :
        \/ type_req_cfg[t] = type_cur_cfg[t]
        \/ \E i \in 1 .. Len(ofctrl_seqno_updates) :
              /\ ofctrl_seqno_updates[i].seqno_type = t
              /\ ofctrl_seqno_updates[i].req_cfg = type_req_cfg[t]
=============================================================================
