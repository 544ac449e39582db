------------------------------- MODULE IcSync -------------------------------
(***************************************************************************)
(* Transit switches and sequence numbers of the interconnection databases  *)
(* (ic/ovn-ic.c).  Every availability zone runs one ovn-ic.  All of them   *)
(* share INB (interconnection Northbound) and ISB (Southbound); each has   *)
(* its own NB.  An iteration of the main loop reads the databases and      *)
(* starts at most one transaction in each; the answers come later and      *)
(* independently, so what a transaction holds may be out of date by then,  *)
(* and a database whose answer is outstanding gets no new transaction      *)
(* (ovsdb_idl_loop_run() returns NULL).                                    *)
(*                                                                         *)
(* The name of a zone does not change (az_run() would rename or delete its *)
(* row), and every ovn-ic holds its lock and is not paused.                *)
(***************************************************************************)
EXTENDS Integers, FiniteSets, SequencesExt

CONSTANTS
    AZs,            \* availability zones
    Switches,       \* names of transit switches
    MinKey, MaxKey, \* OVN_MIN_DP_KEY_GLOBAL .. OVN_MAX_DP_KEY_GLOBAL
    MaxIcCfg,       \* bound: commands of ovn-ic-nbctl --wait=sb
    MaxIcFaults     \* bound: failed transactions and restarts of ovn-ic

VARIABLES
    inb,            \* Transit_Switch rows, nb_ic_cfg and sb_ic_cfg
    isb,            \* Datapath_Binding rows, nb_ic_cfg, and the AZ rows
    icnb,           \* per AZ: requested-tnl-key of each transit switch in NB
    ictxn,          \* per AZ: the transaction without an answer, if any ({} or {t})
    iccfg,          \* per AZ: cur_cfg and next_cfg of the ISB loop, and hint
    icseen,         \* history: newest INB whose ISB changes the AZ committed,
                    \* and the one current when the AZ registered
    icrows,         \* history: the Datapath_Binding rows that ever existed
    icfaults        \* the faults that happened

icVars == <<inb, isb, icnb, ictxn, iccfg, icseen, icrows, icfaults>>

NoTxn == {}
Absent == -1

IcSyncInit ==
    /\ inb = [ts |-> {}, nb_ic_cfg |-> 0, sb_ic_cfg |-> 0]
    /\ isb = [dps |-> {}, nb_ic_cfg |-> 0, az |-> [a \in AZs |-> Absent]]
    /\ icnb = [a \in AZs |-> [t \in Switches |-> Absent]]
    /\ ictxn = [a \in AZs |-> [isb |-> NoTxn, inb |-> NoTxn]]
    /\ iccfg = [a \in AZs |-> [cur |-> 0, next |-> 0, hint |-> MinKey]]
    /\ icseen = [a \in AZs |-> [saw |-> 0, joined |-> 0]]
    /\ icrows = {}
    /\ icfaults = <<>>

(***************************************************************************)
(* Tunnel keys (lib/ovn-util.c).                                           *)
(***************************************************************************)
next_tnlid(k) == IF k + 1 <= MaxKey THEN k + 1 ELSE MinKey

\* The i-th key tried by a search that starts at k.
Probe(k, i) == MinKey + ((k - MinKey + i) % (MaxKey - MinKey + 1))

\* [key |-> 0] when every key is taken; the hint moves in both cases.
ovn_allocate_tnlid(used, hint) ==
    LET first == next_tnlid(hint)
        free  == {i \in 0 .. MaxKey - MinKey : Probe(first, i) \notin used}
        key   == Probe(first, CHOOSE i \in free : \A j \in free : i <= j)
    IN  IF free = {} THEN [key |-> 0, hint |-> first]
                     ELSE [key |-> key, hint |-> key]

(***************************************************************************)
(* ts_run().  Two rows may name the same switch, since only tunnel_key is  *)
(* an index of Datapath_Binding; the hash table isb_dps finds either one,  *)
(* and the others count as extra.                                          *)
(***************************************************************************)
RowsOf(S, t) == {d \in S.dps : d.ts = t}

Found(S) == {K \in SUBSET S.dps : \A t \in Switches :
                 Cardinality(K \cap RowsOf(S, t)) = (IF RowsOf(S, t) = {} THEN 0 ELSE 1)}

KeyIn(K, t) == (CHOOSE d \in K : d.ts = t).key

\* "Create ISB Datapath_Binding" for the switches that lack one.
Missing(I, S) == {t \in I.ts : RowsOf(S, t) = {}}

ts_run_add(a, I, S) ==
    LET step(acc, t) ==
            LET got == ovn_allocate_tnlid(acc.used, acc.hint) IN
            [used |-> acc.used \cup ({got.key} \ {0}), hint |-> got.hint,
             rows |-> IF got.key = 0 THEN acc.rows
                      ELSE acc.rows \cup {[ts |-> t, key |-> got.key]}]
        start == [used |-> {d.key : d \in S.dps}, hint |-> iccfg[a].hint, rows |-> {}]
    IN  FoldLeft(step, start, SetToSeq(Missing(I, S)))

\* The rows of vanished switches are left to whoever created them.
KeepExtra(I, S, K) == {d \in S.dps : d.ts \in I.ts /\ d \notin K}

\* "Delete extra ISB Datapath_Binding".
ts_run_del(I, S, K) == {d \in S.dps : d.ts \notin I.ts \/ d \notin K}

\* "Sync INB TS to AZ NB": the key is copied from the committed row.
ts_run_nb(a, I, K) ==
    [t \in Switches |->
        IF t \notin I.ts THEN Absent
        ELSE IF \E d \in K : d.ts = t THEN KeyIn(K, t)
        ELSE IF icnb[a][t] = Absent THEN 0 ELSE icnb[a][t]]

(***************************************************************************)
(* update_sequence_numbers(): what it adds to the ISB and INB transactions *)
(* of an AZ whose row holds v (0 when az_run() just created it).           *)
(***************************************************************************)
NoSeq == [inc |-> FALSE, az |-> Absent, isb |-> Absent, inb |-> Absent]

\* Reporting as soon as this AZ is done.
ReportAlone(a, I, S, v) ==
    IF I.nb_ic_cfg # S.nb_ic_cfg /\ I.nb_ic_cfg # v
    THEN [NoSeq EXCEPT !.inc = TRUE]
    ELSE IF v # iccfg[a].cur THEN [NoSeq EXCEPT !.az = iccfg[a].cur]
    ELSE IF I.nb_ic_cfg = S.nb_ic_cfg THEN NoSeq
    ELSE [NoSeq EXCEPT !.isb = v, !.inb = v]

update_sequence_numbers(a, I, S, v) ==
    IF I.nb_ic_cfg # S.nb_ic_cfg /\ I.nb_ic_cfg # v
    THEN [NoSeq EXCEPT !.inc = TRUE]
    ELSE IF v # iccfg[a].cur THEN [NoSeq EXCEPT !.az = iccfg[a].cur]
    ELSE IF (\E b \in AZs : b # a /\ S.az[b] \notin {Absent, v}) \/ I.nb_ic_cfg = S.nb_ic_cfg
    THEN NoSeq
    ELSE [NoSeq EXCEPT !.isb = v, !.inb = v]

(***************************************************************************)
(* One iteration of the main loop of AZ a: az_run(), ts_run() and          *)
(* update_sequence_numbers() run and the transactions go out.  The NB has  *)
(* no other writer of these columns and commits at once.                   *)
(***************************************************************************)
az_run(S, a) == IF S.az[a] = Absent THEN 0 ELSE S.az[a]

Iteration(a) ==
    LET I == inb
        S == isb
        isbfree == ictxn[a].isb = NoTxn
        inbfree == ictxn[a].inb = NoTxn
        seq == IF inbfree THEN update_sequence_numbers(a, I, S, az_run(S, a)) ELSE NoSeq
        add == ts_run_add(a, I, S)
    IN  \E K \in Found(S) :
        LET del == ts_run_del(I, S, K)
            txn == [reg |-> S.az[a] = Absent, add |-> add.rows, del |-> del,
                    seq |-> seq, saw |-> I.nb_ic_cfg]
            empty == ~txn.reg /\ add.rows = {} /\ del = {} /\ seq = NoSeq
        IN
        /\ S.az[a] # Absent \/ isbfree         \* else az_run() returns NULL
        /\ icnb' = [icnb EXCEPT ![a] = ts_run_nb(a, I, K)]
        /\ IF isbfree
           THEN /\ ictxn' = [ictxn EXCEPT ![a] =
                       [isb |-> IF empty THEN NoTxn ELSE {txn},
                        inb |-> IF seq.inb # Absent THEN {seq.inb} ELSE @.inb]]
                /\ LET next == IF seq.inc THEN I.nb_ic_cfg ELSE iccfg[a].next IN
                   iccfg' = [iccfg EXCEPT ![a] =
                       [cur |-> IF empty THEN next ELSE @.cur,
                        next |-> next, hint |-> add.hint]]
           ELSE UNCHANGED <<ictxn, iccfg>>
        /\ UNCHANGED <<inb, isb, icseen, icrows, icfaults>>

(***************************************************************************)
(* Answers of ISB (external).  A duplicate tunnel key refuses the whole    *)
(* transaction; deleting a row that is gone does nothing.  When a          *)
(* transaction has succeeded the local copy shows it.                      *)
(***************************************************************************)
KeyTaken(txn) == \E d \in txn.add : \E e \in isb.dps \ txn.del : d.key = e.key

Applied(a, txn) ==
    [dps |-> (isb.dps \ txn.del) \cup txn.add,
     nb_ic_cfg |-> IF txn.seq.isb # Absent THEN txn.seq.isb ELSE isb.nb_ic_cfg,
     az |-> [isb.az EXCEPT ![a] =
                 LET v == IF @ = Absent THEN 0 ELSE @ IN
                 IF txn.seq.inc THEN v + 1
                 ELSE IF txn.seq.az # Absent THEN txn.seq.az ELSE v]]

Refused(a) == \E txn \in ictxn[a].isb : KeyTaken(txn)

Drop(a, db) == [ictxn EXCEPT ![a][db] = NoTxn]

IsbCommit(a) ==
  \E txn \in ictxn[a].isb :
    /\ ~KeyTaken(txn)
    /\ isb' = Applied(a, txn)
    /\ iccfg' = [iccfg EXCEPT ![a].cur = iccfg[a].next]
    /\ icseen' = [icseen EXCEPT ![a] =
           [saw |-> IF txn.saw > @.saw THEN txn.saw ELSE @.saw,
            joined |-> IF isb.az[a] = Absent THEN inb.nb_ic_cfg ELSE @.joined]]
    /\ icrows' = icrows \cup isb'.dps
    /\ ictxn' = Drop(a, "isb")
    /\ UNCHANGED <<inb, icnb, icfaults>>

IcFault(kind) ==
    /\ Len(icfaults) < MaxIcFaults
    /\ icfaults' = Append(icfaults, kind)

\* Refused for a duplicate key, or lost with the connection.
IsbFail(a) ==
    /\ ictxn[a].isb # NoTxn
    /\ \/ Refused(a) /\ UNCHANGED icfaults
       \/ IcFault("isb")
    /\ ictxn' = Drop(a, "isb")
    /\ UNCHANGED <<inb, isb, icnb, iccfg, icseen, icrows>>

InbCommit(a) ==
    /\ \E v \in ictxn[a].inb : inb' = [inb EXCEPT !.sb_ic_cfg = v]
    /\ ictxn' = Drop(a, "inb")
    /\ UNCHANGED <<isb, icnb, iccfg, icseen, icrows, icfaults>>

InbFail(a) ==
    /\ ictxn[a].inb # NoTxn
    /\ IcFault("inb")
    /\ ictxn' = Drop(a, "inb")
    /\ UNCHANGED <<inb, isb, icnb, iccfg, icseen, icrows>>

\* ovn-ic starts again: static variables and loop counters are lost.
IcRestart(a) ==
    /\ IcFault("restart")
    /\ ictxn' = [ictxn EXCEPT ![a] = [isb |-> NoTxn, inb |-> NoTxn]]
    /\ iccfg' = [iccfg EXCEPT ![a] = [cur |-> 0, next |-> 0, hint |-> MinKey]]
    /\ UNCHANGED <<inb, isb, icnb, icseen, icrows>>

(***************************************************************************)
(* ovn-ic-nbctl --wait=sb ts-add / ts-del: the change and the increment of *)
(* nb_ic_cfg are one transaction.                                          *)
(***************************************************************************)
ic_nbctl_ts_add(t) == t \notin inb.ts /\ inb' = [inb EXCEPT !.ts = @ \cup {t}, !.nb_ic_cfg = @ + 1]

ic_nbctl_ts_del(t) == t \in inb.ts /\ inb' = [inb EXCEPT !.ts = @ \ {t}, !.nb_ic_cfg = @ + 1]

do_ic_nbctl ==
    /\ inb.nb_ic_cfg < MaxIcCfg
    /\ \E t \in Switches : ic_nbctl_ts_add(t) \/ ic_nbctl_ts_del(t)
    /\ UNCHANGED <<isb, icnb, ictxn, iccfg, icseen, icrows, icfaults>>

IcSyncNext ==
    \/ do_ic_nbctl
    \/ \E a \in AZs :
        \/ Iteration(a)
        \/ IsbCommit(a)
        \/ IsbFail(a)
        \/ InbCommit(a)
        \/ InbFail(a)
        \/ IcRestart(a)

(***************************************************************************)
(* Fairness: the loop wakes whenever a database changes, the copies catch  *)
(* up, NB accepts in the end, and every transaction is answered.           *)
(***************************************************************************)
IcSyncFair ==
    \A a \in AZs : /\ WF_icVars(Iteration(a))
                   /\ WF_icVars(IsbCommit(a))
                   /\ WF_icVars(IsbFail(a) /\ Refused(a))
                   /\ WF_icVars(InbCommit(a))

IcSyncSpec == IcSyncInit /\ [][IcSyncNext]_icVars
IcSyncFairSpec == IcSyncSpec /\ IcSyncFair

(***************************************************************************)
(* Properties.                                                             *)
(***************************************************************************)
IcSyncTypeOK ==
    /\ inb \in [ts : SUBSET Switches, nb_ic_cfg : 0 .. MaxIcCfg, sb_ic_cfg : 0 .. MaxIcCfg]
    /\ isb.dps \subseteq [ts : Switches, key : MinKey .. MaxKey]
    /\ \A a \in AZs : isb.az[a] \in Absent .. MaxIcCfg

\* A change made after an AZ registered is reported in INB.sb_ic_cfg only when
\* that AZ has committed its part to ISB (the comment of
\* update_sequence_numbers(): "all the AZs are done with ISB changes").
ReportedByAll ==
    \A a \in AZs : isb.az[a] # Absent /\ inb.sb_ic_cfg > icseen[a].joined
                       => inb.sb_ic_cfg <= icseen[a].saw

\* NB only ever asks for a key some committed Datapath_Binding of that switch
\* had ("avoid uncommitted ISB datapath tunnel key to be synced back to AZ").
KeysFromCommitted ==
    \A a \in AZs, t \in Switches :
        icnb[a][t] > 0 => \E d \in icrows : d.ts = t /\ d.key = icnb[a][t]

\* AZ a waits for no answer, and an iteration would find nothing to change.
IcResting(a) ==
    LET add == ts_run_add(a, inb, isb) IN
    /\ ictxn[a] = [isb |-> NoTxn, inb |-> NoTxn]
    /\ isb.az[a] # Absent
    /\ add.rows = {}
    /\ update_sequence_numbers(a, inb, isb, isb.az[a]) = NoSeq
    /\ iccfg[a] = [cur |-> iccfg[a].next, next |-> iccfg[a].next, hint |-> add.hint]
    /\ \A K \in Found(isb) : ts_run_del(inb, isb, K) = {} /\ ts_run_nb(a, inb, K) = icnb[a]
IcQuiet == \A a \in AZs : IcResting(a)

\* When all have come to rest a switch that is gone from INB is gone from ISB
\* and every NB, also when transactions that remove it failed.
GoneEverywhere ==
    IcQuiet => \A t \in Switches \ inb.ts :
        RowsOf(isb, t) = {} /\ \A a \in AZs : icnb[a][t] = Absent

\* When all have come to rest a switch has one row in ISB, if any, and every NB
\* has its key.  (That there is one is not certain while all keep working: two
\* ovn-ics that inserted a row each may delete each other's.)
KeysAgree ==
    IcQuiet => \A t \in Switches, d \in isb.dps :
        d.ts = t => RowsOf(isb, t) = {d} /\ \A a \in AZs : icnb[a][t] = d.key

\* ovn-ic-nbctl --wait=sb ends: sb_ic_cfg gets to nb_ic_cfg ("A transaction
\* failed. Wake up immediately to give opportunity to send the proper
\* transaction", says the main loop).
ReportArrives == <>[](inb.sb_ic_cfg = inb.nb_ic_cfg)

\* It does unless the one INB transaction that carries the report is lost.
ReportArrivesOnce ==
    <>[](inb.sb_ic_cfg = inb.nb_ic_cfg \/ \E i \in DOMAIN icfaults : icfaults[i] # "isb")
=============================================================================
