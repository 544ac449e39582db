---------------------------- MODULE PinctrlQueues ----------------------------
(***************************************************************************)
(* What the pinctrl_handler threads of several chassis learn from packets, *)
(* and how pinctrl_run() in their main threads writes it to the            *)
(* Southbound: MAC bindings and the packets that wait for them, FDB        *)
(* entries, claims of a virtual port.  Each queue is a map under           *)
(* pinctrl_mutex; a step here holds the mutex.                             *)
(*                                                                         *)
(* Every chassis reads its own copy of the Southbound, which may be old,   *)
(* and writes rows by their UUID.  A column that is set to the value it    *)
(* has in the copy is not written.  A transaction is in flight until the   *)
(* Southbound answers, and pinctrl_run() has none to write to meanwhile.   *)
(*                                                                         *)
(* No map reaches its limit of 1000 entries (MAC bindings, FDB entries,    *)
(* claims of virtual ports, buffered packets), beyond which a request is   *)
(* dropped.                                                                *)
(***************************************************************************)
EXTENDS Integers, Sequences, FiniteSets

CONSTANTS
    PqChassis,      \* chassis
    PqMacs,         \* MAC addresses a neighbour may have
    PqKinds,        \* what is learnt in a run: subset of {"mb", "fdb", "vport"}
    BufferDepth,    \* BUFFER_QUEUE_DEPTH of mac-cache.c
    MaxPqPackets,   \* bound: packets that reach the handlers
    MaxPqFails      \* bound: transactions that fail, rows that age out

VARIABLES
    pqkind,         \* what is learnt in this behaviour
    pqsb,           \* Southbound rows: {} or one row of each kind
    pqidl,          \* each chassis' copy
    pqtxn,          \* each chassis' transaction in flight
    pqq,            \* each chassis' queues
    pqcount         \* packets, failures, rows so far; chassis with an open claim

pqVars == <<pqkind, pqsb, pqidl, pqtxn, pqq, pqcount>>

EmptyQueue == [mb |-> {}, fdb |-> {}, vport |-> {}, buffered |-> 0, ready |-> {}]

\* next_cfg of the database loop counts committed transactions, cfg of a
\* virtual port binding holds its value when it was last carried out.
EmptyLoop == [ops |-> {}, flying |-> FALSE, cur |-> 0]

PinctrlQueuesInit ==
    /\ pqkind \in PqKinds
    /\ pqsb = [mb |-> {}, fdb |-> {}, vport |-> {[chassis |-> "none", backoff |-> 0]}]
    /\ pqidl = [c \in PqChassis |-> pqsb]
    /\ pqtxn = [c \in PqChassis |-> EmptyLoop]
    /\ pqq = [c \in PqChassis |-> EmptyQueue]
    /\ pqcount = [packets |-> 0, fails |-> 0, rows |-> 0, asked |-> {}]

PinctrlQueuesTypeOK ==
    \A c \in PqChassis :
        /\ Cardinality(pqq[c].mb) <= 1 /\ Cardinality(pqq[c].fdb) <= 1
        /\ Cardinality(pqq[c].vport) <= 1
        /\ pqq[c].buffered \in 0..BufferDepth
        /\ ~pqtxn[c].flying => pqtxn[c].ops = {}

(***************************************************************************)
(* The pinctrl_handler threads.                                            *)
(***************************************************************************)
PqPacket(k) ==
    /\ pqkind = k /\ pqcount.packets < MaxPqPackets
    /\ UNCHANGED <<pqkind, pqsb, pqidl, pqtxn>>

CountPacket == pqcount' = [pqcount EXCEPT !.packets = @ + 1]

\* pinctrl_handle_put_mac_binding(): a multicast ARP reply waits for a random
\* delay before it may be written.
pinctrl_handle_put_mac_binding(c, m, multicast) ==
    /\ PqPacket("mb") /\ CountPacket
    /\ pqq' = [pqq EXCEPT ![c].mb = {[mac |-> m, due |-> ~multicast]}]

PqDelayOver(c) ==
    /\ \E b \in pqq[c].mb : ~b.due /\ pqq' = [pqq EXCEPT ![c].mb = {[b EXCEPT !.due = TRUE]}]
    /\ UNCHANGED <<pqkind, pqsb, pqidl, pqtxn, pqcount>>

\* pinctrl_handle_buffered_packets(): the oldest packet is dropped when the
\* queue of the address is full.
pinctrl_handle_buffered_packets(c) ==
    /\ PqPacket("mb") /\ CountPacket
    /\ pqq' = [pqq EXCEPT ![c].buffered = IF @ = BufferDepth THEN @ ELSE @ + 1]

\* send_mac_binding_buffered_pkts()
send_mac_binding_buffered_pkts(c) ==
    /\ pqq[c].ready # {}
    /\ pqq' = [pqq EXCEPT ![c].ready = {}]
    /\ UNCHANGED <<pqkind, pqsb, pqidl, pqtxn, pqcount>>

pinctrl_handle_put_fdb(c, port) ==
    /\ PqPacket("fdb") /\ CountPacket
    /\ pqq' = [pqq EXCEPT ![c].fdb = {port}]

pinctrl_handle_bind_vport(c) ==
    /\ PqPacket("vport")
    /\ pqcount' = [pqcount EXCEPT !.packets = @ + 1, !.asked = @ \cup {c}]
    /\ pqq' = [pqq EXCEPT ![c].vport = {[cfg |-> -1]}]

(***************************************************************************)
(* The main threads: the parts of pinctrl_run(), each a function from the  *)
(* queues and the copy of c to the new queues and the operations of the    *)
(* transaction.                                                            *)
(***************************************************************************)
\* mac_binding_add_to_sb(): the row of the copy, or a new one.
MbOps(c) ==
    LET due == {b \in pqq[c].mb : b.due} IN
    {[table |-> "mb", row |-> IF pqidl[c].mb = {} THEN 0 ELSE (CHOOSE r \in pqidl[c].mb : TRUE).id,
      value |-> b.mac] : b \in {x \in due : \A r \in pqidl[c].mb : r.mac # x.mac}}

run_put_mac_bindings(c, q) == [q EXCEPT !.mb = {b \in @ : ~b.due}]

\* "Do not have localnet overwrite a previous vif entry"
VifStays(old, new) == old = "vif" /\ new = "localnet"

FdbOps(c) ==
    {[table |-> "fdb", row |-> IF pqidl[c].fdb = {} THEN 0 ELSE (CHOOSE r \in pqidl[c].fdb : TRUE).id,
      value |-> p] : p \in {x \in pqq[c].fdb :
                                \A r \in pqidl[c].fdb : r.port # x /\ ~VifStays(r.port, x)}}

run_put_fdbs(c, q) == [q EXCEPT !.fdb = {}]

\* The binding is forgotten once it was carried out, committed or not.
ForgottenAtOnce(v, cur) == v.cfg >= 0

\* pinctrl_is_sb_commited()
pinctrl_is_sb_commited(v, cur) == v.cfg >= 0 /\ cur > v.cfg

\* run_put_vport_binding(): a claim waits for the backoff that the previous
\* claim left; otherwise the backoff grows.
VportOps(c) ==
    {[table |-> "vport", row |-> 1, value |-> IF r.backoff = 0 THEN c ELSE "postponed"] :
        r \in {x \in pqidl[c].vport : /\ x.chassis # c
                                      /\ \E v \in pqq[c].vport : ~pinctrl_is_sb_commited(v, pqtxn[c].cur)}}

run_put_vport_bindings(c, q) ==
    [q EXCEPT !.vport = {[cfg |-> pqtxn[c].cur] : v \in {x \in @ : ~pinctrl_is_sb_commited(x, pqtxn[c].cur)}}]

\* run_buffered_binding(): packets whose address is known in the copy.
run_buffered_binding(c, q) ==
    IF pqidl[c].mb = {} \/ q.buffered = 0 THEN q
    ELSE [q EXCEPT !.buffered = 0, !.ready = {r.mac : r \in pqidl[c].mb}]

pinctrl_run(c) ==
    LET q == run_put_fdbs(c, run_put_vport_bindings(c, run_put_mac_bindings(c, pqq[c])))
        ops == MbOps(c) \cup FdbOps(c) \cup VportOps(c)
    IN  /\ pqq' = [pqq EXCEPT ![c] = run_buffered_binding(c, IF pqtxn[c].flying THEN @ ELSE q)]
        /\ pqtxn' = IF pqtxn[c].flying THEN pqtxn
                    ELSE IF ops = {} THEN [pqtxn EXCEPT ![c].cur = IF q = pqq[c] THEN @ ELSE @ + 1]
                    ELSE [pqtxn EXCEPT ![c].ops = ops, ![c].flying = TRUE]
        /\ pqcount' = [pqcount EXCEPT !.asked =
                          IF ~pqtxn[c].flying /\ \A r \in pqidl[c].vport : r.chassis = c
                          THEN @ \ {c} ELSE @]
        /\ UNCHANGED <<pqkind, pqsb, pqidl>>

\* buffered_packets_ctx_run(): packets older than BUFFERED_PACKETS_TIMEOUT_MS.
Expire(c) ==
    /\ pqq[c].buffered > 0
    /\ pqq' = [pqq EXCEPT ![c].buffered = 0]
    /\ UNCHANGED <<pqkind, pqsb, pqidl, pqtxn, pqcount>>

(***************************************************************************)
(* The Southbound (external): a row inserted while another with its key    *)
(* exists violates the index and fails the transaction; an update of a row *)
(* that is gone does nothing.                                              *)
(***************************************************************************)
Conflicts(o) == o.table \in {"mb", "fdb"} /\ o.row = 0 /\ pqsb[o.table] # {}

Written(o) ==
    CASE o.table = "vport" ->
           {IF o.value = "postponed" THEN [r EXCEPT !.backoff = 1]
            ELSE [chassis |-> o.value, backoff |-> 1] : r \in pqsb.vport}
      [] o.row = 0 -> {IF o.table = "mb" THEN [id |-> pqcount.rows + 1, mac |-> o.value]
                       ELSE [id |-> pqcount.rows + 1, port |-> o.value]}
      [] OTHER -> {IF r.id # o.row THEN r
                   ELSE IF o.table = "mb" THEN [r EXCEPT !.mac = o.value]
                   ELSE [r EXCEPT !.port = o.value] : r \in pqsb[o.table]}

PqCommit(c) ==
    /\ pqtxn[c].flying /\ \A o \in pqtxn[c].ops : ~Conflicts(o)
    /\ pqsb' = [t \in DOMAIN pqsb |->
                   IF \E o \in pqtxn[c].ops : o.table = t
                   THEN Written(CHOOSE o \in pqtxn[c].ops : o.table = t) ELSE pqsb[t]]
    /\ pqcount' = [pqcount EXCEPT !.rows = @ + Cardinality({o \in pqtxn[c].ops : o.row = 0}),
                                  !.asked = IF \E o \in pqtxn[c].ops : o.table = "vport" THEN @ \ {c} ELSE @]
    /\ pqtxn' = [pqtxn EXCEPT ![c] = [ops |-> {}, flying |-> FALSE, cur |-> @.cur + 1]]
    /\ pqidl' = [pqidl EXCEPT ![c] = pqsb']
    /\ UNCHANGED <<pqkind, pqq>>

PqFail(c) ==
    /\ pqtxn[c].flying
    /\ \/ (\E o \in pqtxn[c].ops : Conflicts(o)) /\ UNCHANGED pqcount
       \/ /\ pqcount.fails < MaxPqFails
          /\ pqcount' = [pqcount EXCEPT !.fails = @ + 1]
    /\ pqtxn' = [pqtxn EXCEPT ![c].ops = {}, ![c].flying = FALSE]
    /\ UNCHANGED <<pqkind, pqsb, pqidl, pqq>>

PqUpdate(c) ==
    /\ pqidl[c] # pqsb
    /\ pqidl' = [pqidl EXCEPT ![c] = pqsb]
    /\ UNCHANGED <<pqkind, pqsb, pqtxn, pqq, pqcount>>

\* The row ages out; the backoff of the virtual port is over.
PqAge ==
    /\ pqcount.fails < MaxPqFails
    /\ pqcount' = [pqcount EXCEPT !.fails = @ + 1]
    /\ \/ pqsb.mb # {} /\ pqsb' = [pqsb EXCEPT !.mb = {}]
       \/ pqsb.fdb # {} /\ pqsb' = [pqsb EXCEPT !.fdb = {}]
       \/ pqkind = "vport" /\ pqsb' = [pqsb EXCEPT !.vport = {[r EXCEPT !.backoff = 0] : r \in @}]
    /\ UNCHANGED <<pqkind, pqidl, pqtxn, pqq>>

PinctrlQueuesNext ==
    \/ \E c \in PqChassis :
        \/ \E m \in PqMacs, b \in BOOLEAN : pinctrl_handle_put_mac_binding(c, m, b)
        \/ \E p \in {"vif", "localnet"} : pinctrl_handle_put_fdb(c, p)
        \/ pinctrl_handle_bind_vport(c) \/ pinctrl_handle_buffered_packets(c)
        \/ PqDelayOver(c) \/ send_mac_binding_buffered_pkts(c) \/ pinctrl_run(c) \/ Expire(c)
        \/ PqCommit(c) \/ PqFail(c) \/ PqUpdate(c)
    \/ PqAge

PinctrlQueuesSpec == PinctrlQueuesInit /\ [][PinctrlQueuesNext]_pqVars

(***************************************************************************)
(* Properties.                                                             *)
(***************************************************************************)
\* A MAC address known behind a VIF is never moved to a localnet port while the
\* FDB row lives, though a chassis decides by an old copy: a write it bases on
\* an older localnet entry changes nothing there and is not sent.
FdbVifKept ==
    [][\A r \in pqsb.fdb : \A s \in pqsb'.fdb :
           r.id = s.id /\ r.port = "vif" => s.port = "vif"]_pqVars

\* A request to bind a virtual port stays queued until a transaction that
\* carried it out was committed, or the port was found claimed by the chassis:
\* put_vport_binding.cfg makes up for transactions that fail.
VportNotForgotten == \A c \in pqcount.asked : pqq[c].vport # {}
=============================================================================
