----------------------------- MODULE NorthdMain -----------------------------
(***************************************************************************)
(* The main loop of ovn-northd (northd/ovn-northd.c) with the sequence     *)
(* numbers that ovn-nbctl --wait uses.  Several instances of ovn-northd    *)
(* run; the one that holds the lock "ovn_northd" of the Southbound is      *)
(* active.  An iteration may start a transaction in each database; the     *)
(* answers arrive later and independently.  The contents of a database     *)
(* are known by the number of the Northbound change they reflect.          *)
(*                                                                         *)
(* Every chassis counts for hv_cfg: the rows of remote chassis, which the  *)
(* code skips, are not here. The numbers do not come near the limits that  *)
(* the code detects overflow by.                                           *)
(***************************************************************************)
EXTENDS Integers, FiniteSets, FiniteSetsExt

CONSTANTS
    Hypervisors,    \* chassis
    Northds,        \* instances of ovn-northd
    Nobody,         \* no instance
    MaxNbCfg,       \* bound: commands of ovn-nbctl --wait
    MaxSbFails,     \* bound: Southbound transactions of northd that fail
    MaxNdFaults     \* bound: crashes, pauses and failed Northbound transactions

ASSUME NobodyAssumption == Nobody \notin Northds
ASSUME MaxNbCfgAssumption == MaxNbCfg \in Nat

VARIABLES
    nbcfg,          \* NB_Global: nb_cfg, sb_cfg, hv_cfg
    sbcfg,          \* SB_Global.nb_cfg, and the contents of the Southbound
    hvcfg,          \* per chassis: Chassis_Private.nb_cfg
    hvflows,        \* per chassis: contents of the flow tables of its switch
    ndlock,         \* the holder of the lock
    ndpaused,       \* per instance: state.paused
    ndcfg,          \* per instance: cur_cfg and next_cfg of ovnsb_idl_loop
    ndsb,           \* per instance: change in its Southbound transaction ({} if none)
    ndnb,           \* per instance: columns in its Northbound transaction ({} if none)
    waiting,        \* commands of ovn-nbctl that wait: <<what for, next_cfg>>
    failed,         \* history: change in a failed Southbound transaction, till one commits
    exited,         \* commands that exited
    late,           \* those among them whose change was in a failed transaction
    ndfaults        \* failed Southbound transactions and other faults

ndVars == <<nbcfg, sbcfg, hvcfg, hvflows, ndlock, ndpaused, ndcfg, ndsb, ndnb, waiting, failed, exited, late, ndfaults>>

NorthdMainInit ==
    /\ nbcfg = [nb |-> 0, sb |-> 0, hv |-> 0]
    /\ sbcfg = [nb |-> 0, content |-> 0]
    /\ hvcfg = [h \in Hypervisors |-> 0]
    /\ hvflows = [h \in Hypervisors |-> 0]
    /\ ndlock = Nobody
    /\ ndpaused = [i \in Northds |-> FALSE]
    /\ ndcfg = [i \in Northds |-> [cur |-> 0, next |-> 0]]
    /\ ndsb = [i \in Northds |-> {}]
    /\ ndnb = [i \in Northds |-> {}]
    /\ waiting = {}
    /\ failed = 0
    /\ exited = {}
    /\ late = {}
    /\ ndfaults = [sb |-> 0, other |-> 0]

(***************************************************************************)
(* ovn-nbctl.                                                              *)
(***************************************************************************)
\* nbctl_pre_execute() and the commands: a change, and nb_cfg incremented in
\* the same transaction.
nbctl_pre_execute(w) ==
    /\ nbcfg.nb < MaxNbCfg
    /\ nbcfg' = [nbcfg EXCEPT !.nb = @ + 1]
    /\ waiting' = waiting \cup {<<w, nbcfg.nb + 1>>}
    /\ UNCHANGED <<sbcfg, hvcfg, hvflows, ndlock, ndpaused, ndcfg, ndsb, ndnb, failed, exited, late, ndfaults>>

MinOf(m, n) == IF m <= n THEN m ELSE n

nbctl_post_execute(w, n) ==
    /\ <<w, n>> \in waiting
    /\ n <= IF w = "sb" THEN nbcfg.sb ELSE MinOf(nbcfg.sb, nbcfg.hv)
    /\ waiting' = waiting \ {<<w, n>>}
    /\ IF n > failed \/ (w = "hv" /\ Hypervisors # {})
       THEN exited' = exited \cup {<<w, n>>} /\ late' = late
       ELSE late' = late \cup {<<w, n>>} /\ exited' = exited
    /\ UNCHANGED <<nbcfg, sbcfg, hvcfg, hvflows, ndlock, ndpaused, ndcfg, ndsb, ndnb, failed, ndfaults>>

(***************************************************************************)
(* An iteration of the active instance.                                    *)
(***************************************************************************)
\* The number that has just gone down instead of cur_cfg.
sb_cfg_early(c) == nbcfg.nb
\* "Also set up to update sb_cfg once our southbound transaction commits."
sb_cfg(c) == c.cur

\* "Find minimum nb_cfg among all chassis."  Those of other zones (is-remote) are
\* skipped: Hypervisors are the chassis of this one.  The wrap-around of the
\* numbers, 2^31 commands away, is out of the bound MaxNbCfg.
hv_cfg == Min({hvcfg[h] : h \in Hypervisors} \cup {nbcfg.nb})

\* update_sequence_numbers(): the columns of NB_Global that change.  The
\* transaction also holds nb_cfg_timestamp when the number goes down.
update_sequence_numbers(i) ==
    LET cur == sb_cfg(ndcfg[i])
        sb == IF cur # 0 /\ nbcfg.sb # cur THEN {cur} ELSE {}
        hv == IF nbcfg.hv # hv_cfg THEN {hv_cfg} ELSE {}
    IN  IF sb = {} /\ hv = {} /\ nbcfg.nb = sbcfg.nb THEN {} ELSE {[sb |-> sb, hv |-> hv]}

\* inc_proc_northd_run(), update_sequence_numbers() and both commits.  An empty
\* Southbound transaction succeeds at once.
northd_run(i) ==
    /\ ndlock = i /\ ~ndpaused[i] /\ ndsb[i] = {} /\ ndnb[i] = {}
    /\ LET changed == sbcfg.nb # nbcfg.nb \/ sbcfg.content # nbcfg.nb IN
        /\ ndsb' = [ndsb EXCEPT ![i] = IF changed THEN {nbcfg.nb} ELSE {}]
        /\ ndcfg' = [ndcfg EXCEPT ![i] = [next |-> nbcfg.nb,
                                          cur |-> IF changed THEN @.cur ELSE nbcfg.nb]]
    /\ ndnb' = [ndnb EXCEPT ![i] = update_sequence_numbers(i)]
    /\ UNCHANGED <<nbcfg, sbcfg, hvcfg, hvflows, ndlock, ndpaused, waiting, failed, exited, late, ndfaults>>

\* An iteration in which the engine does not run: its Northbound transaction has
\* no answer yet, or the backoff.  The Southbound transaction is empty, and
\* ovsdb_idl_loop_commit_and_wait() sets cur_cfg to next_cfg.  (Without the lock
\* the transaction fails and changes nothing.)
northd_skip(i) ==
    /\ ndlock = i /\ ~ndpaused[i] /\ ndsb[i] = {}
    /\ ndcfg[i].cur # ndcfg[i].next
    /\ ndcfg' = [ndcfg EXCEPT ![i].cur = ndcfg[i].next]
    /\ UNCHANGED <<nbcfg, sbcfg, hvcfg, hvflows, ndlock, ndpaused, ndsb, ndnb, waiting, failed, exited, late, ndfaults>>

(***************************************************************************)
(* The databases (external).  A Southbound transaction of northd holds the *)
(* assertion that it has the lock.                                         *)
(***************************************************************************)
SbCommit(i) ==
    /\ ndlock = i
    /\ \E v \in ndsb[i] : sbcfg' = [nb |-> v, content |-> v]
    /\ ndsb' = [ndsb EXCEPT ![i] = {}]
    /\ ndcfg' = [ndcfg EXCEPT ![i].cur = ndcfg[i].next]
    /\ failed' = 0
    /\ UNCHANGED <<nbcfg, hvcfg, hvflows, ndlock, ndpaused, ndnb, waiting, exited, late, ndfaults>>

\* An error, or the connection and with it the lock is lost.
SbFail(i) ==
    /\ ndfaults.sb < MaxSbFails
    /\ \E v \in ndsb[i] : failed' = v
    /\ ndsb' = [ndsb EXCEPT ![i] = {}]
    /\ ndlock' \in {ndlock, Nobody}
    /\ ndfaults' = [ndfaults EXCEPT !.sb = @ + 1]
    /\ UNCHANGED <<nbcfg, sbcfg, hvcfg, hvflows, ndpaused, ndcfg, ndnb, waiting, exited, late>>

Column(old, new) == IF new = {} THEN old ELSE CHOOSE v \in new : TRUE

NbCommit(i) ==
    /\ \E t \in ndnb[i] : nbcfg' = [nbcfg EXCEPT !.sb = Column(@, t.sb), !.hv = Column(@, t.hv)]
    /\ ndnb' = [ndnb EXCEPT ![i] = {}]
    /\ UNCHANGED <<sbcfg, hvcfg, hvflows, ndlock, ndpaused, ndcfg, ndsb, waiting, failed, exited, late, ndfaults>>

OtherFault == ndfaults.other < MaxNdFaults /\ ndfaults' = [ndfaults EXCEPT !.other = @ + 1]

NbFail(i) ==
    /\ ndnb[i] # {} /\ OtherFault
    /\ ndnb' = [ndnb EXCEPT ![i] = {}]
    /\ UNCHANGED <<nbcfg, sbcfg, hvcfg, hvflows, ndlock, ndpaused, ndcfg, ndsb, waiting, failed, exited, late>>

(***************************************************************************)
(* The lock, ovn-appctl pause and resume, and crashes.  The server carries *)
(* out what an instance sent before it carries out its unlock.             *)
(***************************************************************************)
AcquireLock(i) ==
    /\ ndlock = Nobody /\ ~ndpaused[i]
    /\ ndlock' = i
    /\ UNCHANGED <<nbcfg, sbcfg, hvcfg, hvflows, ndpaused, ndcfg, ndsb, ndnb, waiting, failed, exited, late, ndfaults>>

\* A paused instance that keeps the lock.
PausedWithLock(i) ==
    /\ ~ndpaused[i] /\ ndsb[i] = {} /\ OtherFault
    /\ ndpaused' = [ndpaused EXCEPT ![i] = TRUE]
    /\ UNCHANGED <<nbcfg, sbcfg, hvcfg, hvflows, ndlock, ndcfg, ndsb, ndnb, waiting, failed, exited, late>>
ovn_northd_pause(i) ==
    /\ ~ndpaused[i] /\ ndsb[i] = {} /\ OtherFault
    /\ ndpaused' = [ndpaused EXCEPT ![i] = TRUE]
    /\ ndlock' = IF ndlock = i THEN Nobody ELSE ndlock
    /\ UNCHANGED <<nbcfg, sbcfg, hvcfg, hvflows, ndcfg, ndsb, ndnb, waiting, failed, exited, late>>

ovn_northd_resume(i) ==
    /\ ndpaused[i]
    /\ ndpaused' = [ndpaused EXCEPT ![i] = FALSE]
    /\ UNCHANGED <<nbcfg, sbcfg, hvcfg, hvflows, ndlock, ndcfg, ndsb, ndnb, waiting, failed, exited, late, ndfaults>>

NdCrash(i) ==
    /\ OtherFault
    /\ ndcfg' = [ndcfg EXCEPT ![i] = [cur |-> 0, next |-> 0]]
    /\ ndsb' = [ndsb EXCEPT ![i] = {}]
    /\ ndnb' = [ndnb EXCEPT ![i] = {}]
    /\ ndpaused' = [ndpaused EXCEPT ![i] = FALSE]
    /\ ndlock' = IF ndlock = i THEN Nobody ELSE ndlock
    /\ UNCHANGED <<nbcfg, sbcfg, hvcfg, hvflows, waiting, failed, exited, late>>

(***************************************************************************)
(* The chassis, as FlowInstall shows it while the switch stays connected:  *)
(* flows first, then the number (store_nb_cfg()).                          *)
(***************************************************************************)
HvInstall(h) ==
    /\ hvflows[h] # sbcfg.content
    /\ hvflows' = [hvflows EXCEPT ![h] = sbcfg.content]
    /\ UNCHANGED <<nbcfg, sbcfg, hvcfg, ndlock, ndpaused, ndcfg, ndsb, ndnb, waiting, failed, exited, late, ndfaults>>

store_nb_cfg(h) ==
    /\ hvcfg[h] # hvflows[h]
    /\ hvcfg' = [hvcfg EXCEPT ![h] = hvflows[h]]
    /\ UNCHANGED <<nbcfg, sbcfg, hvflows, ndlock, ndpaused, ndcfg, ndsb, ndnb, waiting, failed, exited, late, ndfaults>>

NorthdMainNext ==
    \/ \E w \in {"sb", "hv"} : nbctl_pre_execute(w)
    \/ \E w \in {"sb", "hv"}, n \in 1..MaxNbCfg : nbctl_post_execute(w, n)
    \/ \E i \in Northds : \/ northd_run(i) \/ northd_skip(i)
                          \/ SbCommit(i) \/ SbFail(i) \/ NbCommit(i) \/ NbFail(i)
                          \/ AcquireLock(i) \/ ovn_northd_pause(i) \/ ovn_northd_resume(i) \/ NdCrash(i)
    \/ \E h \in Hypervisors : HvInstall(h) \/ store_nb_cfg(h)

NorthdMainSpec == NorthdMainInit /\ [][NorthdMainNext]_ndVars

\* The daemons loop, the server answers and gives the lock to who waits for it;
\* ovn-nbctl polls.
NorthdMainFairness ==
    /\ \A i \in Northds : /\ WF_ndVars(northd_run(i)) /\ WF_ndVars(AcquireLock(i))
                          /\ WF_ndVars(SbCommit(i)) /\ WF_ndVars(NbCommit(i))
    /\ \A h \in Hypervisors : WF_ndVars(HvInstall(h)) /\ WF_ndVars(store_nb_cfg(h))
    /\ \A w \in {"sb", "hv"}, n \in 1..MaxNbCfg : WF_ndVars(nbctl_post_execute(w, n))

NorthdMainFairSpec == NorthdMainSpec /\ NorthdMainFairness

(***************************************************************************)
(* Properties.                                                             *)
(***************************************************************************)
NorthdMainTypeOK ==
    /\ nbcfg \in [nb : Nat, sb : Nat, hv : Nat]
    /\ sbcfg \in [nb : Nat, content : Nat]
    /\ hvcfg \in [Hypervisors -> Nat]
    /\ hvflows \in [Hypervisors -> Nat]
    /\ ndlock \in Northds \cup {Nobody}
    /\ ndpaused \in [Northds -> BOOLEAN]
    /\ ndcfg \in [Northds -> [cur : Nat, next : Nat]]
    /\ ndsb \in [Northds -> SUBSET Nat]
    /\ ndnb \in [Northds -> SUBSET [sb : SUBSET Nat, hv : SUBSET Nat]]
    /\ waiting \subseteq {"sb", "hv"} \X Nat
    /\ failed \in Nat
    /\ exited \subseteq {"sb", "hv"} \X Nat
    /\ late \subseteq {"sb", "hv"} \X Nat
    /\ ndfaults \in [sb : Nat, other : Nat]

\* The detailed specification implements the barrier that the manual of
\* ovn-nbctl describes, whatever fails, for every command with --wait=hv of a
\* network with chassis, and for every other command except one that exits while
\* its change was in a Southbound transaction that failed and no later one has
\* committed: see WaitedIsInSb.
Barrier == INSTANCE NbBarrier WITH asked <- nbcfg.nb, insb <- sbcfg.content,
                                   inhv <- hvflows, returned <- exited
WaitIsBarrier == Barrier!BSpec

\* ovn-nbctl.8.xml on --wait=sb: "before ovn-nbctl exits, it waits for ovn-northd
\* to bring the southbound database up-to-date with the northbound database
\* updates".  Every command that exited has its change in the Southbound.
WaitedIsInSb == \A e \in exited \cup late : e[2] <= sbcfg.content

\* Every command that waits exits in the end, whatever instance of ovn-northd
\* was active, as long as one of them is not paused for good.
WaitsEnd == <>[](\E i \in Northds : ~ndpaused[i]) => <>[](waiting = {})
=============================================================================
