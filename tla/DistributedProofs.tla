------------------------- MODULE DistributedProofs -------------------------
(***************************************************************************)
(* Proofs about the protocols that several daemons carry out together.     *)
(***************************************************************************)
EXTENDS MCDistributed, FiniteSetTheorems, WellFoundedInduction, TLAPS

-----------------------------------------------------------------------------
(***************************************************************************)
(* ovn-ic.c update_sequence_numbers(): a report only when every zone is    *)
(* done, for any number of zones, switches, keys, changes and faults.      *)
(***************************************************************************)

Registered(a) == isb.az[a] # Absent

\* What an ISB transaction of AZ a carries, which has seen nb_ic_cfg = t.saw.
IsIsbTxn(a, t) ==
    /\ t.saw \in Nat /\ t.saw <= inb.nb_ic_cfg
    /\ t.seq.inc \in BOOLEAN /\ t.seq.az \in Nat \cup {Absent}
    /\ t.seq.inc => az_run(isb, a) < t.saw
    /\ t.seq.az # Absent => t.seq.az <= t.saw

\* AZ a has a part in the report of v only if it has committed v.
Covers(a, v) == Registered(a) => v <= icseen[a].joined \/ v <= icseen[a].saw

IcShape ==
    /\ inb = [ts |-> inb.ts, nb_ic_cfg |-> inb.nb_ic_cfg, sb_ic_cfg |-> inb.sb_ic_cfg]
    /\ inb.nb_ic_cfg \in Nat
    /\ isb.az = [a \in AZs |-> isb.az[a]]
    /\ ictxn = [a \in AZs |-> ictxn[a]]
    /\ iccfg = [a \in AZs |-> iccfg[a]]
    /\ icseen = [a \in AZs |-> icseen[a]]
    /\ \A a \in AZs :
          /\ ictxn[a] = [isb |-> ictxn[a].isb, inb |-> ictxn[a].inb]
          /\ iccfg[a] = [cur |-> iccfg[a].cur, next |-> iccfg[a].next, hint |-> iccfg[a].hint]
          /\ icseen[a] = [saw |-> icseen[a].saw, joined |-> icseen[a].joined]

\* What AZ a knows and says is no newer than INB, and what it says of itself no
\* newer than what it has committed.
IcZone(a) ==
    /\ isb.az[a] \in Nat \cup {Absent}
    /\ iccfg[a].cur \in 0 .. inb.nb_ic_cfg /\ iccfg[a].next \in 0 .. inb.nb_ic_cfg
    /\ icseen[a].saw \in 0 .. inb.nb_ic_cfg /\ icseen[a].joined \in 0 .. inb.nb_ic_cfg
    /\ isb.az[a] <= icseen[a].saw
    /\ \A t \in ictxn[a].isb : IsIsbTxn(a, t)

\* A report, made or on its way, is covered by every AZ.
IsReport(v) == v \in 0 .. inb.nb_ic_cfg /\ \A b \in AZs : Covers(b, v)

IcInv ==
    /\ IcShape
    /\ \A a \in AZs : IcZone(a)
    /\ IsReport(inb.sb_ic_cfg)
    /\ \A a \in AZs : \A v \in ictxn[a].inb : IsReport(v)

\* Nothing is reported, registered or on its way at first.
LEMMA IcInitially == IcSyncInit => IcInv
<1> SUFFICES ASSUME IcSyncInit PROVE IcInv
  OBVIOUS
<1>1. /\ inb = [ts |-> {}, nb_ic_cfg |-> 0, sb_ic_cfg |-> 0]
      /\ isb.az = [a \in AZs |-> Absent]
      /\ ictxn = [a \in AZs |-> [isb |-> NoTxn, inb |-> NoTxn]]
      /\ iccfg = [a \in AZs |-> [cur |-> 0, next |-> 0, hint |-> MinKey]]
      /\ icseen = [a \in AZs |-> [saw |-> 0, joined |-> 0]]
  BY DEF IcSyncInit
<1>2. IcShape
  BY <1>1 DEF IcShape
<1>3. \A a \in AZs : IcZone(a)
  BY <1>1 DEF IcZone, NoTxn, Absent
<1>4. IsReport(inb.sb_ic_cfg)
  BY <1>1 DEF IsReport, Covers, Registered
<1>5. \A a \in AZs : ictxn[a].inb = {}
  BY <1>1 DEF NoTxn
<1> QED
  BY <1>2, <1>3, <1>4, <1>5 DEF IcInv

\* ovn-ic-nbctl makes a change: INB gets newer, and nothing else moves.
LEMMA IcUser == IcInv /\ do_ic_nbctl => IcInv'
<1> SUFFICES ASSUME IcInv, do_ic_nbctl PROVE IcInv'
  OBVIOUS
<1>1. /\ UNCHANGED <<isb, ictxn, iccfg, icseen>>
      /\ \E T : inb' = [inb EXCEPT !.ts = T, !.nb_ic_cfg = @ + 1]
  BY DEF do_ic_nbctl, ic_nbctl_ts_add, ic_nbctl_ts_del
<1>2. /\ inb' = [ts |-> inb'.ts, nb_ic_cfg |-> inb'.nb_ic_cfg, sb_ic_cfg |-> inb'.sb_ic_cfg]
      /\ inb'.nb_ic_cfg = inb.nb_ic_cfg + 1 /\ inb'.sb_ic_cfg = inb.sb_ic_cfg
      /\ inb.nb_ic_cfg \in Nat
  BY <1>1 DEF IcInv, IcShape
<1>3. IcShape'
  BY <1>1, <1>2 DEF IcInv, IcShape
<1>4. ASSUME NEW a \in AZs PROVE IcZone(a)'
  <2>1. IcZone(a)
    BY DEF IcInv
  <2>2. \A t \in ictxn[a].isb : IsIsbTxn(a, t)'
    BY <1>1, <1>2, <2>1 DEF IcZone, IsIsbTxn, az_run, Absent
  <2> QED
    BY <1>1, <1>2, <2>1, <2>2 DEF IcZone
<1>5. \A v : IsReport(v) => IsReport(v)'
  BY <1>1, <1>2 DEF IsReport, Covers, Registered
<1> QED
  BY <1>1, <1>2, <1>3, <1>4, <1>5 DEF IcInv

\* What update_sequence_numbers() may ask for.
LEMMA SequenceNumbers ==
    ASSUME NEW a, NEW I, NEW S, NEW v
    PROVE  LET seq == update_sequence_numbers(a, I, S, v) IN
           /\ seq.inc \in BOOLEAN /\ (seq.inc => I.nb_ic_cfg # v)
           /\ seq.az = Absent \/ seq.az = iccfg[a].cur
           /\ seq.inb = Absent \/ seq.inb = v
           /\ seq.inb # Absent => \A b \in AZs : b # a => S.az[b] = Absent \/ S.az[b] = v
  BY DEF update_sequence_numbers, NoSeq, Absent

\* The value of the row of AZ a, just created or not.
LEMMA RowOf ==
    ASSUME inb.nb_ic_cfg \in Nat, NEW a \in AZs, IcZone(a)
    PROVE  LET v == az_run(isb, a) IN
           /\ v \in Nat /\ v <= icseen[a].saw /\ v <= inb.nb_ic_cfg
           /\ Registered(a) => v = isb.az[a]
           /\ ~Registered(a) => v = 0
<1>1. CASE Registered(a)
  <2>1. az_run(isb, a) = isb.az[a] /\ isb.az[a] \in Nat
    BY <1>1 DEF az_run, Registered, IcZone
  <2> QED
    BY <1>1, <2>1 DEF IcZone
<1>2. CASE ~Registered(a)
  <2>1. az_run(isb, a) = 0
    BY <1>2 DEF az_run, Registered
  <2> QED
    BY <1>2, <2>1 DEF IcZone
<1> QED
  BY <1>1, <1>2

\* What an iteration of the main loop changes.
IterationTo(a, txn, e, next, h) ==
    /\ ictxn[a].isb = {}
    /\ e \in BOOLEAN
    /\ ictxn' = [ictxn EXCEPT ![a] =
           [isb |-> IF e THEN {} ELSE {txn},
            inb |-> IF txn.seq.inb # Absent THEN {txn.seq.inb} ELSE @.inb]]
    /\ iccfg' = [iccfg EXCEPT ![a] =
           [cur |-> IF e THEN next ELSE @.cur, next |-> next, hint |-> h]]

\* An iteration of ovn-ic that may write is of that form.
LEMMA IterationIs ==
    ASSUME NEW a \in AZs, Iteration(a)
    PROVE  /\ UNCHANGED <<inb, isb, icseen>>
           /\ \/ UNCHANGED <<ictxn, iccfg>>
              \/ \E txn, e, next, h :
                  /\ IterationTo(a, txn, e, next, h)
                  /\ txn.saw = inb.nb_ic_cfg
                  /\ next = inb.nb_ic_cfg \/ next = iccfg[a].next
                  /\ txn.seq = NoSeq \/ txn.seq = update_sequence_numbers(a, inb, isb, az_run(isb, a))
<1>1. UNCHANGED <<inb, isb, icseen>>
  BY Zenon DEF Iteration
<1>2. CASE ictxn[a].isb # NoTxn
  BY <1>1, <1>2, Zenon DEF Iteration
<1>3. CASE ictxn[a].isb = NoTxn
  <2> DEFINE seq == IF ictxn[a].inb = NoTxn
                    THEN update_sequence_numbers(a, inb, isb, az_run(isb, a)) ELSE NoSeq
             add == ts_run_add(a, inb, isb)
             txn(K) == [reg |-> isb.az[a] = Absent, add |-> add.rows, del |-> ts_run_del(inb, isb, K),
                        seq |-> seq, saw |-> inb.nb_ic_cfg]
             e(K) == ~txn(K).reg /\ add.rows = {} /\ ts_run_del(inb, isb, K) = {} /\ seq = NoSeq
             next == IF seq.inc THEN inb.nb_ic_cfg ELSE iccfg[a].next
  <2>1. PICK K \in Found(isb) :
          /\ ictxn' = [ictxn EXCEPT ![a] =
                 [isb |-> IF e(K) THEN NoTxn ELSE {txn(K)},
                  inb |-> IF seq.inb # Absent THEN {seq.inb} ELSE @.inb]]
          /\ iccfg' = [iccfg EXCEPT ![a] =
                 [cur |-> IF e(K) THEN next ELSE @.cur, next |-> next, hint |-> add.hint]]
    BY <1>3, Zenon DEF Iteration
  <2>2. txn(K).seq = seq /\ txn(K).saw = inb.nb_ic_cfg
    OBVIOUS
  <2>3. seq = NoSeq \/ seq = update_sequence_numbers(a, inb, isb, az_run(isb, a))
    OBVIOUS
  <2>4. next = inb.nb_ic_cfg \/ next = iccfg[a].next
    OBVIOUS
  <2>5. e(K) \in BOOLEAN
    OBVIOUS
  <2> HIDE DEF seq, add, txn, e, next
  <2>6. IterationTo(a, txn(K), e(K), next, add.hint)
    BY <1>3, <2>1, <2>2, <2>5 DEF IterationTo, NoTxn
  <2> QED
    BY <1>1, <2>2, <2>3, <2>4, <2>6
<1> QED
  BY <1>2, <1>3

\* An iteration keeps the invariant: what it is about to write is covered.
LEMMA IcIteration == ASSUME IcInv, NEW a \in AZs, Iteration(a) PROVE IcInv'
<1>1. UNCHANGED <<inb, isb, icseen>>
  BY IterationIs
<1>2. CASE UNCHANGED <<ictxn, iccfg>>
  <2>1. IcShape'
    BY <1>1, <1>2 DEF IcInv, IcShape
  <2>2. \A b \in AZs : IcZone(b)'
    BY <1>1, <1>2 DEF IcInv, IcZone, IsIsbTxn, az_run
  <2>3. \A v : IsReport(v) => IsReport(v)'
    BY <1>1 DEF IsReport, Covers, Registered
  <2> QED
    BY <1>1, <1>2, <2>1, <2>2, <2>3 DEF IcInv
<1>3. ASSUME NEW txn, NEW e, NEW next, NEW h, IterationTo(a, txn, e, next, h),
             txn.saw = inb.nb_ic_cfg, next = inb.nb_ic_cfg \/ next = iccfg[a].next,
             txn.seq = NoSeq \/ txn.seq = update_sequence_numbers(a, inb, isb, az_run(isb, a))
      PROVE  IcInv'
  <2> DEFINE v == az_run(isb, a)
  <2>1. /\ IcShape /\ IcZone(a) /\ inb.nb_ic_cfg \in Nat
        /\ v \in Nat /\ v <= icseen[a].saw /\ v <= inb.nb_ic_cfg /\ (Registered(a) => v = isb.az[a])
        /\ (~Registered(a) => v = 0)
    <3>1. IcShape /\ IcZone(a)
      BY DEF IcInv
    <3> QED
      BY <3>1, RowOf DEF IcShape
  <2> HIDE DEF v
  <2>2. /\ txn.seq.inc \in BOOLEAN /\ (txn.seq.inc => inb.nb_ic_cfg # v)
        /\ txn.seq.az = Absent \/ txn.seq.az = iccfg[a].cur
        /\ txn.seq.inb = Absent \/ txn.seq.inb = v
        /\ txn.seq.inb # Absent => \A b \in AZs : b # a => isb.az[b] = Absent \/ isb.az[b] = v
    <3>1. CASE txn.seq = NoSeq
      BY <3>1 DEF NoSeq
    <3>2. CASE txn.seq = update_sequence_numbers(a, inb, isb, v)
      <4> DEFINE s == update_sequence_numbers(a, inb, isb, v)
      <4>1. /\ s.inc \in BOOLEAN /\ (s.inc => inb.nb_ic_cfg # v)
            /\ s.az = Absent \/ s.az = iccfg[a].cur
            /\ s.inb = Absent \/ s.inb = v
            /\ s.inb # Absent => \A b \in AZs : b # a => isb.az[b] = Absent \/ isb.az[b] = v
        BY SequenceNumbers
      <4> HIDE DEF s
      <4>2. txn.seq = s
        BY <3>2 DEF s
      <4> QED
        BY <4>1, <4>2
    <3> QED
      BY <1>3, <3>1, <3>2 DEF v
  <2>3. IsIsbTxn(a, txn)'
    BY <1>1, <1>3, <2>1, <2>2 DEF IsIsbTxn, IcZone, v, Absent
  <2>4. txn.seq.inb # Absent => IsReport(txn.seq.inb)'
    <3>1. SUFFICES ASSUME txn.seq.inb # Absent, NEW b \in AZs, Registered(b) PROVE v <= icseen[b].saw
      BY <1>1, <2>1, <2>2 DEF IsReport, Covers, Registered
    <3>2. CASE b = a
      BY <2>1, <3>2
    <3>3. CASE b # a
      <4>1. isb.az[b] = v
        BY <2>2, <3>1, <3>3 DEF Registered
      <4> QED
        BY <4>1 DEF IcInv, IcZone
    <3> QED
      BY <3>2, <3>3
  <2>5. /\ ictxn'[a].isb = (IF e THEN {} ELSE {txn})
        /\ ictxn'[a].inb = (IF txn.seq.inb # Absent THEN {txn.seq.inb} ELSE ictxn[a].inb)
        /\ \A b \in AZs \ {a} : ictxn'[b] = ictxn[b]
        /\ ictxn' = [b \in AZs |-> ictxn'[b]]
        /\ \A b \in AZs : ictxn'[b] = [isb |-> ictxn'[b].isb, inb |-> ictxn'[b].inb]
    BY <1>3, <2>1 DEF IterationTo, IcShape
  <2>6. /\ iccfg'[a].cur = (IF e THEN next ELSE iccfg[a].cur) /\ iccfg'[a].next = next
        /\ \A b \in AZs \ {a} : iccfg'[b] = iccfg[b]
        /\ iccfg' = [b \in AZs |-> iccfg'[b]]
        /\ \A b \in AZs : iccfg'[b] = [cur |-> iccfg'[b].cur, next |-> iccfg'[b].next, hint |-> iccfg'[b].hint]
    BY <1>3, <2>1 DEF IterationTo, IcShape
  <2>7. IcShape'
    BY <1>1, <2>1, <2>5, <2>6 DEF IcShape
  <2>8. IcZone(a)'
    BY <1>1, <1>3, <2>1, <2>3, <2>5, <2>6 DEF IcZone
  <2>9. \A b \in AZs \ {a} : IcZone(b)'
    <3>1. \A b \in AZs \ {a} : IcZone(b)
      BY DEF IcInv
    <3> QED
      BY <1>1, <2>5, <2>6, <3>1 DEF IcZone, IsIsbTxn, az_run
  <2>10. \A w : IsReport(w) => IsReport(w)'
    BY <1>1 DEF IsReport, Covers, Registered
  <2>11. \A b \in AZs : \A w \in ictxn'[b].inb : IsReport(w)'
    BY <2>4, <2>5, <2>10 DEF IcInv
  <2> QED
    BY <1>1, <2>7, <2>8, <2>9, <2>10, <2>11 DEF IcInv
<1> QED
  BY <1>2, <1>3, IterationIs

\* The answer of ISB: the rows change as the transaction says, its AZ has
\* committed what it had seen, and joins if it was not there.
LEMMA IcCommits == ASSUME IcInv, NEW a \in AZs, IsbCommit(a) PROVE IcInv'
<1>1. PICK txn \in ictxn[a].isb :
          /\ isb' = Applied(a, txn)
          /\ iccfg' = [iccfg EXCEPT ![a].cur = iccfg[a].next]
          /\ icseen' = [icseen EXCEPT ![a] =
                 [saw |-> IF txn.saw > @.saw THEN txn.saw ELSE @.saw,
                  joined |-> IF isb.az[a] = Absent THEN inb.nb_ic_cfg ELSE @.joined]]
          /\ ictxn' = Drop(a, "isb")
          /\ UNCHANGED inb
  BY Zenon DEF IsbCommit
<1> DEFINE v == az_run(isb, a)
<1>2. /\ IcShape /\ IcZone(a) /\ IsIsbTxn(a, txn) /\ inb.nb_ic_cfg \in Nat
      /\ v \in Nat /\ v <= icseen[a].saw
  <2>1. IcShape /\ IcZone(a)
    BY DEF IcInv
  <2> QED
    BY <1>1, <2>1, RowOf DEF IcShape, IcZone
<1>3. /\ isb'.az = [isb.az EXCEPT ![a] =
             IF txn.seq.inc THEN v + 1 ELSE IF txn.seq.az # Absent THEN txn.seq.az ELSE v]
  BY <1>1, <1>2 DEF Applied, IcShape, az_run
<1>4. /\ isb'.az[a] = IF txn.seq.inc THEN v + 1 ELSE IF txn.seq.az # Absent THEN txn.seq.az ELSE v
      /\ \A b \in AZs \ {a} : isb'.az[b] = isb.az[b]
      /\ isb'.az = [b \in AZs |-> isb'.az[b]]
  BY <1>2, <1>3 DEF IcShape
<1>5. /\ icseen'[a].saw = (IF txn.saw > icseen[a].saw THEN txn.saw ELSE icseen[a].saw)
      /\ icseen'[a].joined = (IF isb.az[a] = Absent THEN inb.nb_ic_cfg ELSE icseen[a].joined)
      /\ \A b \in AZs \ {a} : icseen'[b] = icseen[b]
      /\ icseen' = [b \in AZs |-> icseen'[b]]
      /\ \A b \in AZs : icseen'[b] = [saw |-> icseen'[b].saw, joined |-> icseen'[b].joined]
  BY <1>1, <1>2 DEF IcShape
<1>6. /\ iccfg'[a].cur = iccfg[a].next /\ iccfg'[a].next = iccfg[a].next
      /\ \A b \in AZs \ {a} : iccfg'[b] = iccfg[b]
      /\ iccfg' = [b \in AZs |-> iccfg'[b]]
      /\ \A b \in AZs : iccfg'[b] = [cur |-> iccfg'[b].cur, next |-> iccfg'[b].next, hint |-> iccfg'[b].hint]
  <2>1. /\ iccfg = [b \in AZs |-> iccfg[b]]
        /\ \A b \in AZs : iccfg[b] = [cur |-> iccfg[b].cur, next |-> iccfg[b].next, hint |-> iccfg[b].hint]
    BY <1>2 DEF IcShape
  <2>2. iccfg'[a] = [iccfg[a] EXCEPT !.cur = iccfg[a].next] /\ \A b \in AZs \ {a} : iccfg'[b] = iccfg[b]
    BY <1>1, <2>1
  <2>3. iccfg'[a] = [cur |-> iccfg[a].next, next |-> iccfg[a].next, hint |-> iccfg[a].hint]
    BY <2>1, <2>2
  <2> QED
    BY <1>1, <2>1, <2>2, <2>3
<1>7. /\ ictxn'[a].isb = {} /\ ictxn'[a].inb = ictxn[a].inb
      /\ \A b \in AZs \ {a} : ictxn'[b] = ictxn[b]
      /\ ictxn' = [b \in AZs |-> ictxn'[b]]
      /\ \A b \in AZs : ictxn'[b] = [isb |-> ictxn'[b].isb, inb |-> ictxn'[b].inb]
  <2>1. ictxn' = [ictxn EXCEPT ![a] = [@ EXCEPT !.isb = {}]]
    BY <1>1 DEF Drop, NoTxn
  <2>2. /\ ictxn = [b \in AZs |-> ictxn[b]]
        /\ \A b \in AZs : ictxn[b] = [isb |-> ictxn[b].isb, inb |-> ictxn[b].inb]
    BY <1>2 DEF IcShape
  <2>3. ictxn'[a] = [ictxn[a] EXCEPT !.isb = {}] /\ \A b \in AZs \ {a} : ictxn'[b] = ictxn[b]
    BY <2>1, <2>2
  <2>4. ictxn'[a] = [isb |-> {}, inb |-> ictxn[a].inb]
    BY <2>2, <2>3
  <2> QED
    BY <2>1, <2>2, <2>3, <2>4
<1>8. IcShape'
  BY <1>1, <1>2, <1>4, <1>5, <1>6, <1>7 DEF IcShape
<1>9. IcZone(a)'
  <2>1. isb'.az[a] \in Nat /\ isb'.az[a] <= icseen'[a].saw
    BY <1>2, <1>4, <1>5 DEF IsIsbTxn, IcZone, Absent
  <2>2. icseen'[a].saw \in 0 .. inb.nb_ic_cfg /\ icseen'[a].joined \in 0 .. inb.nb_ic_cfg
    BY <1>2, <1>5 DEF IsIsbTxn, IcZone
  <2> QED
    BY <1>1, <1>2, <1>6, <1>7, <2>1, <2>2 DEF IcZone
<1>10. \A b \in AZs \ {a} : IcZone(b)'
  <2>1. \A b \in AZs \ {a} : IcZone(b)
    BY DEF IcInv
  <2> QED
    BY <1>1, <1>4, <1>5, <1>6, <1>7, <2>1 DEF IcZone, IsIsbTxn, az_run, Absent
<1>11. ASSUME NEW w, IsReport(w) PROVE IsReport(w)'
  <2>1. Covers(a, w)'
    <3>1. CASE Registered(a)
      BY <1>2, <1>5, <1>11, <3>1 DEF IsReport, Covers, Registered, IsIsbTxn, IcZone
    <3>2. CASE ~Registered(a)
      BY <1>5, <1>11, <3>2 DEF IsReport, Covers, Registered
    <3> QED
      BY <3>1, <3>2
  <2>2. \A b \in AZs \ {a} : Covers(b, w)'
    BY <1>4, <1>5, <1>11 DEF IsReport, Covers, Registered
  <2> QED
    BY <1>1, <1>11, <2>1, <2>2 DEF IsReport
<1> QED
  BY <1>1, <1>7, <1>8, <1>9, <1>10, <1>11 DEF IcInv

\* A transaction fails, a report arrives or ovn-ic starts again.
LEMMA IcOthers ==
    ASSUME IcInv, NEW a \in AZs, IsbFail(a) \/ InbCommit(a) \/ InbFail(a) \/ IcRestart(a)
    PROVE  IcInv'
<1>1. /\ UNCHANGED <<isb, icseen>>
      /\ UNCHANGED inb \/ \E v \in ictxn[a].inb : inb' = [inb EXCEPT !.sb_ic_cfg = v]
      /\ UNCHANGED iccfg \/ iccfg' = [iccfg EXCEPT ![a] = [cur |-> 0, next |-> 0, hint |-> MinKey]]
  BY Zenon DEF IsbFail, InbCommit, InbFail, IcRestart
<1>2. /\ \A b \in AZs : ictxn'[b].isb \subseteq ictxn[b].isb /\ ictxn'[b].inb \subseteq ictxn[b].inb
      /\ ictxn' = [b \in AZs |-> ictxn'[b]]
      /\ \A b \in AZs : ictxn'[b] = [isb |-> ictxn'[b].isb, inb |-> ictxn'[b].inb]
  <2>1. \/ ictxn' = Drop(a, "isb") \/ ictxn' = Drop(a, "inb")
        \/ ictxn' = [ictxn EXCEPT ![a] = [isb |-> NoTxn, inb |-> NoTxn]]
    BY Zenon DEF IsbFail, InbCommit, InbFail, IcRestart
  <2>2. IcShape
    BY DEF IcInv
  <2>3. /\ ictxn = [b \in AZs |-> ictxn[b]]
        /\ \A b \in AZs : ictxn[b] = [isb |-> ictxn[b].isb, inb |-> ictxn[b].inb]
    BY <2>2 DEF IcShape
  <2>4. /\ ictxn' = [b \in AZs |-> ictxn'[b]] /\ \A b \in AZs \ {a} : ictxn'[b] = ictxn[b]
        /\ \/ ictxn'[a] = [ictxn[a] EXCEPT !.isb = {}] \/ ictxn'[a] = [ictxn[a] EXCEPT !.inb = {}]
           \/ ictxn'[a] = [isb |-> {}, inb |-> {}]
    BY <2>1, <2>3 DEF Drop, NoTxn
  <2>5. \/ ictxn'[a] = [isb |-> {}, inb |-> ictxn[a].inb]
        \/ ictxn'[a] = [isb |-> ictxn[a].isb, inb |-> {}]
        \/ ictxn'[a] = [isb |-> {}, inb |-> {}]
    BY <2>3, <2>4
  <2> QED
    BY <2>3, <2>4, <2>5
<1>3. /\ inb'.nb_ic_cfg = inb.nb_ic_cfg
      /\ inb' = [ts |-> inb'.ts, nb_ic_cfg |-> inb'.nb_ic_cfg, sb_ic_cfg |-> inb'.sb_ic_cfg]
      /\ inb'.sb_ic_cfg = inb.sb_ic_cfg \/ inb'.sb_ic_cfg \in ictxn[a].inb
  BY <1>1 DEF IcInv, IcShape
<1>4. /\ \A b \in AZs : /\ iccfg'[b].cur = iccfg[b].cur \/ iccfg'[b].cur = 0
                        /\ iccfg'[b].next = iccfg[b].next \/ iccfg'[b].next = 0
      /\ iccfg' = [b \in AZs |-> iccfg'[b]]
      /\ \A b \in AZs : iccfg'[b] = [cur |-> iccfg'[b].cur, next |-> iccfg'[b].next, hint |-> iccfg'[b].hint]
  <2>1. /\ iccfg = [b \in AZs |-> iccfg[b]]
        /\ \A b \in AZs : iccfg[b] = [cur |-> iccfg[b].cur, next |-> iccfg[b].next, hint |-> iccfg[b].hint]
    BY DEF IcInv, IcShape
  <2>2. /\ iccfg' = [b \in AZs |-> iccfg'[b]] /\ \A b \in AZs \ {a} : iccfg'[b] = iccfg[b]
        /\ iccfg'[a] = iccfg[a] \/ iccfg'[a] = [cur |-> 0, next |-> 0, hint |-> MinKey]
    BY <1>1, <2>1
  <2> QED
    BY <2>1, <2>2
<1>5. IcShape'
  BY <1>1, <1>2, <1>3, <1>4 DEF IcInv, IcShape
<1>6. ASSUME NEW b \in AZs PROVE IcZone(b)'
  <2>1. IcZone(b) /\ inb.nb_ic_cfg \in Nat
    BY DEF IcInv, IcShape
  <2>2. \A t \in ictxn'[b].isb : IsIsbTxn(b, t)'
    BY <1>1, <1>2, <1>3, <2>1 DEF IcZone, IsIsbTxn, az_run
  <2> QED
    BY <1>1, <1>3, <1>4, <2>1, <2>2 DEF IcZone
<1>7. \A w : IsReport(w) => IsReport(w)'
  BY <1>1, <1>3 DEF IsReport, Covers, Registered
<1> QED
  BY <1>2, <1>3, <1>5, <1>6, <1>7 DEF IcInv

\* Every step keeps the invariant.
LEMMA IcStep == IcInv /\ [IcSyncNext]_icVars => IcInv'
<1> SUFFICES ASSUME IcInv, [IcSyncNext]_icVars PROVE IcInv'
  OBVIOUS
<1>1. CASE UNCHANGED icVars
  <2>1. UNCHANGED <<inb, isb, ictxn, iccfg, icseen>>
    BY <1>1 DEF icVars
  <2>2. IcShape'
    BY <2>1 DEF IcInv, IcShape
  <2>3. \A a \in AZs : IcZone(a)'
    BY <2>1 DEF IcInv, IcZone, IsIsbTxn, az_run
  <2>4. \A v : IsReport(v) => IsReport(v)'
    BY <2>1 DEF IsReport, Covers, Registered
  <2> QED
    BY <2>1, <2>2, <2>3, <2>4 DEF IcInv
<1>2. CASE IcSyncNext
  BY <1>2, IcUser, IcIteration, IcCommits, IcOthers DEF IcSyncNext
<1> QED
  BY <1>1, <1>2

\* The invariant implies the property.
LEMMA IcSafe == IcInv => ReportedByAll
<1> SUFFICES ASSUME IcInv, NEW a \in AZs, isb.az[a] # Absent, inb.sb_ic_cfg > icseen[a].joined
             PROVE  inb.sb_ic_cfg <= icseen[a].saw
  BY DEF ReportedByAll
<1>1. Covers(a, inb.sb_ic_cfg) /\ inb.sb_ic_cfg \in Int /\ icseen[a].joined \in Int
  BY DEF IcInv, IcShape, IcZone, IsReport
<1> QED
  BY <1>1 DEF Covers, Registered

\* For any number of zones, switches, keys, changes and faults: a change made
\* after a zone registered is reported in INB.sb_ic_cfg only when that zone has
\* committed its part to ISB, whichever transactions were lost or refused and
\* whichever ovn-ic restarted.
THEOREM ReportOnlyWhenDone == IcSyncSpec => []ReportedByAll
<1>1. IcSyncSpec => []IcInv
  BY IcInitially, IcStep, PTL DEF IcSyncSpec
<1> QED
  BY <1>1, IcSafe, PTL

\* The property of the run: the other protocols leave the zones alone.
THEOREM IcReportTheorem == MCSpec => []IcReportRight
<1> DEFINE Inv == part = "ic" => IcInv
<1>1. MCInit => Inv
  BY IcInitially DEF MCInit, IcIs
<1>2. Inv /\ [MCNext]_vars => Inv'
  <2> SUFFICES ASSUME Inv, [MCNext]_vars, part' = "ic" PROVE IcInv'
    OBVIOUS
  <2>1. part = "ic" /\ [IcSyncNext]_icVars
    BY Zenon DEF MCNext, vars, Alone, Parts
  <2> QED
    BY <2>1, IcStep
<1>3. Inv => IcReportRight
  BY IcSafe DEF IcReportRight
<1> QED
  BY <1>1, <1>2, <1>3, PTL DEF MCSpec

-----------------------------------------------------------------------------
(***************************************************************************)
(* ovn-ic.c ts_run(): when all have come to rest a transit switch that is  *)
(* gone from INB is gone everywhere, the others have one key everywhere,   *)
(* and no Northbound ever has a key that ISB did not accept.               *)
(***************************************************************************)

\* isb_dps finds one row of every switch that has some, whichever it is.
LEMMA RowsFound ==
    \E K \in Found(isb) : \A t \in Switches, d \in K, e \in K : d.ts = t /\ e.ts = t => d = e
<1> DEFINE Row(t) == CHOOSE d \in RowsOf(isb, t) : TRUE
           K == {Row(t) : t \in {u \in Switches : RowsOf(isb, u) # {}}}
<1>1. ASSUME NEW t \in Switches, RowsOf(isb, t) # {} PROVE Row(t) \in RowsOf(isb, t)
  BY <1>1, Zenon
<1>2. ASSUME NEW t \in Switches, RowsOf(isb, t) # {} PROVE Row(t) \in isb.dps /\ Row(t).ts = t
  <2>1. Row(t) \in RowsOf(isb, t)
    BY <1>1, <1>2
  <2> HIDE DEF Row
  <2> QED
    BY <2>1, Zenon DEF RowsOf
<1> HIDE DEF Row
<1>3. K \in SUBSET isb.dps
  BY <1>2, Zenon
<1>4. ASSUME NEW t \in Switches, NEW d \in K, d.ts = t PROVE d = Row(t)
  <2>1. PICK u \in Switches : RowsOf(isb, u) # {} /\ d = Row(u)
    BY <1>4, Zenon
  <2>2. d.ts = u
    BY <1>2, <2>1, Zenon
  <2> QED
    BY <1>4, <2>1, <2>2, Zenon
<1>5. ASSUME NEW t \in Switches
      PROVE  Cardinality(K \cap RowsOf(isb, t)) = (IF RowsOf(isb, t) = {} THEN 0 ELSE 1)
  <2>1. CASE RowsOf(isb, t) = {}
    <3>1. K \cap RowsOf(isb, t) = {}
      BY <2>1, Zenon
    <3> QED
      BY <2>1, <3>1, FS_EmptySet
  <2>2. CASE RowsOf(isb, t) # {}
    <3>1. Row(t) \in K /\ Row(t) \in RowsOf(isb, t)
      BY <1>1, <2>2, Zenon
    <3>2. ASSUME NEW d \in K \cap RowsOf(isb, t) PROVE d = Row(t)
      BY <1>4, <3>2, Zenon DEF RowsOf
    <3>3. K \cap RowsOf(isb, t) = {Row(t)}
      BY <3>1, <3>2, Zenon
    <3>4. Cardinality({Row(t)}) = 1
      BY FS_Singleton
    <3> QED
      BY <2>2, <3>3, <3>4, Zenon
  <2> QED
    BY <2>1, <2>2
<1>6. K \in Found(isb)
  BY <1>3, <1>5, Zenon DEF Found
<1> HIDE DEF K
<1>7. \A t \in Switches, d \in K, e \in K : d.ts = t /\ e.ts = t => d = e
  BY <1>4, Zenon
<1> QED
  BY <1>6, <1>7, Zenon

\* What an iteration that changes nothing finds, whatever came before.
LEMMA NothingLeft == AZs # {} => GoneEverywhere /\ KeysAgree
<1> SUFFICES ASSUME AZs # {}, IcQuiet PROVE GoneEverywhere /\ KeysAgree
  BY Zenon DEF GoneEverywhere, KeysAgree
<1>1. PICK K \in Found(isb) : \A t \in Switches, d \in K, e \in K : d.ts = t /\ e.ts = t => d = e
  BY RowsFound, Zenon
<1>2. \A a \in AZs : ts_run_del(inb, isb, K) = {} /\ ts_run_nb(a, inb, K) = icnb[a]
  BY <1>1, Zenon DEF IcQuiet, IcResting
<1>3. \A d \in isb.dps : d.ts \in inb.ts /\ d \in K
  BY <1>2, Zenon DEF ts_run_del
<1>4. ASSUME NEW t \in Switches, t \notin inb.ts, NEW a \in AZs
      PROVE  RowsOf(isb, t) = {} /\ icnb[a][t] = Absent
  <2>1. RowsOf(isb, t) = {}
    BY <1>3, <1>4, Zenon DEF RowsOf
  <2>2. icnb[a] = ts_run_nb(a, inb, K)
    BY <1>2, Zenon
  <2> QED
    BY <1>4, <2>1, <2>2, Zenon DEF ts_run_nb
<1>5. ASSUME NEW t \in Switches, NEW d \in isb.dps, d.ts = t
      PROVE  RowsOf(isb, t) = {d} /\ \A a \in AZs : icnb[a][t] = d.key
  <2>1. \A e \in isb.dps : e.ts = t => e = d
    BY <1>1, <1>3, <1>5, Zenon
  <2>2. RowsOf(isb, t) = {d}
    BY <1>5, <2>1, Zenon DEF RowsOf
  <2>3. KeyIn(K, t) = d.key
    <3>1. PICK e : e = CHOOSE x \in K : x.ts = t
      OBVIOUS
    <3>2. e \in K /\ e.ts = t
      BY <1>3, <1>5, <3>1, Zenon
    <3>3. e = d
      BY <1>1, <1>3, <1>5, <3>2, Zenon
    <3> QED
      BY <3>1, <3>3, Zenon DEF KeyIn
  <2>4. ASSUME NEW a \in AZs PROVE icnb[a][t] = d.key
    <3>1. icnb[a] = ts_run_nb(a, inb, K)
      BY <1>2, Zenon
    <3>2. t \in inb.ts /\ \E x \in K : x.ts = t
      BY <1>3, <1>5, Zenon
    <3> QED
      BY <2>3, <3>1, <3>2, Zenon DEF ts_run_nb
  <2> QED
    BY <2>2, <2>4, Zenon
<1> QED
  BY <1>4, <1>5, Zenon DEF GoneEverywhere, KeysAgree

\* The rows that exist are among those that ever did.
KeysInv == DOMAIN icnb = AZs /\ isb.dps \subseteq icrows /\ KeysFromCommitted

\* k is no key, or one that a row of the switch has had.
Committed(t, k, rows) == k > 0 => \E d \in rows : d.ts = t /\ d.key = k

LEMMA KeysInvInit == IcSyncInit => KeysInv
<1> SUFFICES ASSUME IcSyncInit PROVE KeysInv
  OBVIOUS
<1>1. DOMAIN icnb = AZs /\ \A a \in AZs, t \in Switches : icnb[a][t] = -1
  BY DEF IcSyncInit, Absent
<1>2. isb.dps = {}
  BY DEF IcSyncInit
<1> QED
  BY <1>1, <1>2 DEF KeysInv, KeysFromCommitted

LEMMA KeysInvStep == KeysInv /\ [IcSyncNext]_icVars => KeysInv'
<1> SUFFICES ASSUME KeysInv, [IcSyncNext]_icVars PROVE KeysInv'
  OBVIOUS
<1>1. ASSUME NEW a \in AZs, Iteration(a) PROVE KeysInv'
  <2>1. PICK K \in Found(isb) : icnb' = [icnb EXCEPT ![a] = ts_run_nb(a, inb, K)]
    BY <1>1, Zenon DEF Iteration
  <2>2. K \subseteq icrows
    BY <2>1, Zenon DEF Found, KeysInv
  <2>3. UNCHANGED <<isb, icrows>>
    BY <1>1, Zenon DEF Iteration
  <2>4. ASSUME NEW t \in Switches
        PROVE  Committed(t, ts_run_nb(a, inb, K)[t], icrows)
    <3>1. PICK k : k = ts_run_nb(a, inb, K)[t]
      OBVIOUS
    <3>2. k = -1 \/ k = 0 \/ k = icnb[a][t] \/ ((\E d \in K : d.ts = t) /\ k = KeyIn(K, t))
      BY <3>1 DEF ts_run_nb, Absent
    <3>3. CASE (\E d \in K : d.ts = t) /\ k = KeyIn(K, t)
      <4>1. PICK e : e = CHOOSE x \in K : x.ts = t
        OBVIOUS
      <4>2. e \in K /\ e.ts = t
        BY <3>3, <4>1, Zenon
      <4>3. k = e.key
        BY <3>3, <4>1, Zenon DEF KeyIn
      <4> QED
        BY <2>2, <3>1, <4>2, <4>3, Zenon DEF Committed
    <3>4. CASE k = icnb[a][t]
      <4>1. Committed(t, icnb[a][t], icrows)
        BY Zenon DEF KeysInv, KeysFromCommitted, Committed
      <4> QED
        BY <3>1, <3>4, <4>1, Zenon
    <3>5. CASE k = -1 \/ k = 0
      BY <3>1, <3>5 DEF Committed
    <3> QED
      BY <3>2, <3>3, <3>4, <3>5
  <2>5. DOMAIN icnb' = AZs
    BY <2>1 DEF KeysInv
  <2>6. ASSUME NEW b \in AZs, NEW t \in Switches
        PROVE  Committed(t, icnb'[b][t], icrows)
    <3>1. CASE b = a
      <4>1. icnb'[b] = ts_run_nb(a, inb, K)
        BY <2>1, <3>1 DEF KeysInv
      <4> QED
        BY <2>4, <4>1, Zenon
    <3>2. CASE b # a
      <4>1. icnb'[b] = icnb[b]
        BY <2>1, <3>2 DEF KeysInv
      <4>2. Committed(t, icnb[b][t], icrows)
        BY Zenon DEF KeysInv, KeysFromCommitted, Committed
      <4> QED
        BY <4>1, <4>2, Zenon
    <3> QED
      BY <3>1, <3>2
  <2> QED
    BY <2>3, <2>5, <2>6, Zenon DEF KeysInv, KeysFromCommitted, Committed
<1>2. ASSUME NEW a \in AZs, IsbCommit(a) PROVE KeysInv'
  <2>1. icrows' = icrows \cup isb'.dps /\ icnb' = icnb
    BY <1>2, Zenon DEF IsbCommit
  <2>2. \A b \in AZs, t \in Switches :
           icnb[b][t] > 0 => \E d \in icrows : d.ts = t /\ d.key = icnb[b][t]
    BY Zenon DEF KeysInv, KeysFromCommitted
  <2>3. \A d \in icrows : d \in icrows'
    BY <2>1, Zenon
  <2>4. ASSUME NEW b \in AZs, NEW t \in Switches, icnb[b][t] > 0
        PROVE  \E d \in icrows' : d.ts = t /\ d.key = icnb[b][t]
    BY <2>2, <2>3, <2>4, Zenon
  <2>5. KeysFromCommitted'
    BY <2>1, <2>4, Zenon DEF KeysFromCommitted
  <2> QED
    BY <2>1, <2>5, Zenon DEF KeysInv
<1>3. CASE UNCHANGED <<isb, icnb, icrows>>
  BY <1>3, Zenon DEF KeysInv, KeysFromCommitted
<1>4. UNCHANGED <<isb, icnb, icrows>> \/ \E a \in AZs : Iteration(a) \/ IsbCommit(a)
  BY Zenon DEF IcSyncNext, icVars, do_ic_nbctl, IsbFail, InbCommit, InbFail, IcRestart
<1> QED
  BY <1>1, <1>2, <1>3, <1>4, Zenon

\* For any number of zones, switches, keys, changes and faults: once no ovn-ic
\* has anything to do, a transit switch that was deleted from INB has no row in
\* ISB and none in the Northbound of any zone, and every Northbound knows a
\* switch that ISB has by the key of its only row; at all times a key that a
\* Northbound asks for was committed to ISB for that switch ("avoid uncommitted
\* ISB datapath tunnel key to be synced back to AZ").
THEOREM IcSwitchesTheorem == ASSUME AZs # {} PROVE MCSpec => []IcSwitchesRight
<1> DEFINE Inv == part = "ic" => KeysInv
<1>1. MCInit => Inv
  BY KeysInvInit DEF MCInit, IcIs
<1>2. Inv /\ [MCNext]_vars => Inv'
  <2> SUFFICES ASSUME Inv, [MCNext]_vars, part' = "ic" PROVE KeysInv'
    OBVIOUS
  <2>1. part = "ic" /\ [IcSyncNext]_icVars
    BY Zenon DEF MCNext, vars, Alone, Parts
  <2> QED
    BY <2>1, KeysInvStep
<1>3. Inv => IcSwitchesRight
  BY NothingLeft DEF IcSwitchesRight, KeysInv
<1> QED
  BY <1>1, <1>2, <1>3, PTL DEF MCSpec

-----------------------------------------------------------------------------
(***************************************************************************)
(* ovn-nbctl.c: a command takes away only what it names, for any number of *)
(* clients, commands, keys and values.  A key belongs to an id for ever,   *)
(* so that a command which finds its rows in an old copy still meets only  *)
(* rows of the keys it was given.                                          *)
(***************************************************************************)

\* The topics whose rows keep their key as long as they live.
RowTopics ==
    {"ls", "lr", "lsp", "addresses", "lrp", "mirror", "meter", "fwd_group", "pg", "ha_group", "dhcp",
     "acl", "qos", "policy", "ls_lb", "lr_lb", "mirrors", "nat", "route", "static_mac", "ha_chassis"}

NbRow == [id : Nat, key : NbKeys, val : NbVals]

\* What a command that has looked at S asks for: rows of S that have the keys it
\* names, new rows, or the whole column when it names every key.
Plain(o, S) ==
    /\ o = [del |-> o.del, put |-> o.put, names |-> o.names, all |-> o.all, verify |-> o.verify]
    /\ o.all \in BOOLEAN
    /\ o.all => o.names = NbKeys
    /\ \A d \in o.del : \E r \in S : r.id = d /\ r.key \in o.names
    /\ \A x \in o.put : /\ x \in NbRow
                        /\ x.id = 0 \/ \E r \in S : r.id = x.id /\ r.key = x.key /\ r.key \in o.names
    /\ \A x, y \in o.put : x.id = 0 /\ y.id = 0 => x.key = y.key
AllPlain(ops, S) == \A o \in ops : Plain(o, S)

\* An operation of Op() is plain when its rows are.
LEMMA OpPlain ==
    ASSUME NEW D, NEW W, NEW N, NEW S,
           \A d \in D : \E r \in S : r.id = d /\ r.key \in N,
           \A x \in W : /\ x \in NbRow
                        /\ x.id = 0 \/ \E r \in S : r.id = x.id /\ r.key = x.key /\ r.key \in N,
           \A x, y \in W : x.id = 0 /\ y.id = 0 => x.key = y.key
    PROVE  AllPlain(Op(D, W, N), S)
<1> DEFINE o == [del |-> D, put |-> W, names |-> N, all |-> FALSE, verify |-> {}]
<1>1. Op(D, W, N) = {o}
  BY DEF Op
<1>2. o.del = D /\ o.put = W /\ o.names = N /\ o.all = FALSE /\ o.verify = {}
  OBVIOUS
<1>3. o = [del |-> o.del, put |-> o.put, names |-> o.names, all |-> o.all, verify |-> o.verify]
  OBVIOUS
<1> HIDE DEF o
<1>4. Plain(o, S)
  <2>1. o.all \in BOOLEAN /\ (o.all => o.names = NbKeys)
    BY <1>2, Zenon
  <2>2. o.del = D /\ o.put = W /\ o.names = N
    BY <1>2, Zenon
  <2>3. \A d \in o.del : \E r \in S : r.id = d /\ r.key \in o.names
    BY <2>2
  <2>4. \A x \in o.put : /\ x \in NbRow
                         /\ x.id = 0 \/ \E r \in S : r.id = x.id /\ r.key = x.key /\ r.key \in o.names
    BY <2>2
  <2>5. \A x, y \in o.put : x.id = 0 /\ y.id = 0 => x.key = y.key
    BY <2>2
  <2> QED
    BY <1>3, <2>1, <2>3, <2>4, <2>5, Zenon DEF Plain
<1> QED
  BY <1>1, <1>4, Zenon DEF AllPlain

\* Setting one of the flags.
LEMMA FlagsSet ==
    ASSUME NEW o, NEW e,
           o = [del |-> o.del, put |-> o.put, names |-> o.names, all |-> o.all, verify |-> o.verify]
    PROVE  /\ [o EXCEPT !.verify = e] =
                [del |-> o.del, put |-> o.put, names |-> o.names, all |-> o.all, verify |-> e]
           /\ [o EXCEPT !.all = e] =
                [del |-> o.del, put |-> o.put, names |-> o.names, all |-> e, verify |-> o.verify]
  OBVIOUS
\* The fields of an operation.
LEMMA FieldsOf ==
    ASSUME NEW D, NEW W, NEW N, NEW e, NEW f, NEW o,
           o = [del |-> D, put |-> W, names |-> N, all |-> e, verify |-> f]
    PROVE  /\ o.del = D /\ o.put = W /\ o.names = N /\ o.all = e /\ o.verify = f
           /\ o = [del |-> o.del, put |-> o.put, names |-> o.names, all |-> o.all, verify |-> o.verify]
  OBVIOUS

\* The parts that the commands are made of.
LEMMA PlainParts ==
    ASSUME NEW S \in SUBSET NbRow, NEW a \in NbArgs
    PROVE  /\ AllPlain({}, S) /\ AllPlain(Insert(a), S) /\ AllPlain(NbRemove(S, a), S)
           /\ AllPlain(Update(S, a), S) /\ AllPlain(NbEmpty(S), S)
           /\ AllPlain(Op(Ids(S), {}, NbKeys), S)
           /\ \A r \in At(S, a) : AllPlain(Op({}, {[r EXCEPT !.val = a.val]}, {a.key}), S)
<1>1. a.key \in NbKeys /\ a.val \in NbVals
  BY DEF NbArgs
<1>2. \A r \in At(S, a) : r \in S /\ r \in NbRow /\ r.key = a.key
  BY DEF At
<1>3. \A r \in At(S, a) : LET x == [r EXCEPT !.val = a.val] IN x \in NbRow /\ x.id = r.id /\ x.key = r.key
  BY <1>1, <1>2 DEF NbRow
<1>4. AllPlain({}, S)
  BY DEF AllPlain
<1>5. AllPlain(Insert(a), S)
  <2> DEFINE x == [id |-> 0, key |-> a.key, val |-> a.val]
  <2>1. x \in NbRow /\ x.id = 0
    BY <1>1 DEF NbRow
  <2> HIDE DEF x
  <2>2. AllPlain(Op({}, {x}, {a.key}), S)
    BY <2>1, OpPlain
  <2> QED
    BY <2>2 DEF Insert, x
<1>6. AllPlain(NbRemove(S, a), S)
  <2>1. \A d \in Ids(At(S, a)) : \E r \in S : r.id = d /\ r.key \in {a.key}
    BY <1>2 DEF Ids
  <2>2. AllPlain(Op(Ids(At(S, a)), {}, {a.key}), S)
    BY <2>1, OpPlain
  <2> QED
    BY <1>4, <2>2 DEF NbRemove, Nothing
<1>7. AllPlain(Update(S, a), S)
  <2> DEFINE W == {[r EXCEPT !.val = a.val] : r \in At(S, a)}
  <2>1. \A x \in W : x \in NbRow /\ \E r \in S : r.id = x.id /\ r.key = x.key /\ r.key \in {a.key}
    BY <1>2, <1>3
  <2>3. \A x, y \in W : x.key = y.key
    BY <1>2, <1>3
  <2> HIDE DEF W
  <2>2. AllPlain(Op({}, W, {a.key}), S)
    BY <2>1, <2>3, OpPlain
  <2> QED
    BY <2>2 DEF Update, W
<1>8. AllPlain(NbEmpty(S), S)
  <2> DEFINE o == [del |-> {}, put |-> {}, names |-> NbKeys, all |-> FALSE, verify |-> {}]
             v == [o EXCEPT !.all = TRUE]
  <2>1. NbEmpty(S) = {v}
    BY DEF NbEmpty, SetColumn, Op
  <2>2. /\ o.del = {} /\ o.put = {} /\ o.names = NbKeys /\ o.verify = {}
        /\ o = [del |-> o.del, put |-> o.put, names |-> o.names, all |-> o.all, verify |-> o.verify]
    BY FieldsOf, Zenon
  <2> HIDE DEF o
  <2>3. v = [del |-> {}, put |-> {}, names |-> NbKeys, all |-> TRUE, verify |-> {}]
    BY <2>2, FlagsSet, Zenon
  <2> HIDE DEF v
  <2>4. /\ v.del = {} /\ v.put = {} /\ v.names = NbKeys /\ v.all = TRUE /\ v.verify = {}
        /\ v = [del |-> v.del, put |-> v.put, names |-> v.names, all |-> v.all, verify |-> v.verify]
    BY <2>3, FieldsOf, Zenon
  <2>5. Plain(v, S)
    BY <2>4, Zenon DEF Plain
  <2> QED
    BY <2>1, <2>5, Zenon DEF AllPlain
<1>9. AllPlain(Op(Ids(S), {}, NbKeys), S)
  <2>1. \A d \in Ids(S) : \E r \in S : r.id = d /\ r.key \in NbKeys
    BY DEF Ids, NbRow
  <2> QED
    BY <2>1, OpPlain
<1>10. ASSUME NEW r \in At(S, a) PROVE AllPlain(Op({}, {[r EXCEPT !.val = a.val]}, {a.key}), S)
  <2> DEFINE x == [r EXCEPT !.val = a.val]
  <2>1. x \in NbRow /\ r \in S /\ r.id = x.id /\ r.key = x.key /\ r.key \in {a.key}
    BY <1>2, <1>3
  <2> HIDE DEF x
  <2>2. AllPlain(Op({}, {x}, {a.key}), S)
    BY <2>1, OpPlain
  <2> QED
    BY <2>2 DEF x
<1> QED
  BY <1>4, <1>5, <1>6, <1>7, <1>8, <1>9, <1>10

\* Verifying something changes nothing of that.
LEMMA PlainVerified ==
    ASSUME NEW ops, NEW S, AllPlain(ops, S), NEW w PROVE AllPlain(Verify(w, ops), S)
<1> SUFFICES ASSUME NEW o \in ops PROVE Plain([o EXCEPT !.verify = w], S)
  BY DEF AllPlain, Verify
<1> DEFINE v == [o EXCEPT !.verify = w]
<1>1. Plain(o, S)
  BY DEF AllPlain
<1>2. v = [del |-> o.del, put |-> o.put, names |-> o.names, all |-> o.all, verify |-> w]
  BY <1>1, FlagsSet, Zenon DEF Plain
<1> HIDE DEF v
<1>3. /\ v.del = o.del /\ v.put = o.put /\ v.names = o.names /\ v.all = o.all /\ v.verify = w
      /\ v = [del |-> v.del, put |-> v.put, names |-> v.names, all |-> v.all, verify |-> v.verify]
  BY <1>2, FieldsOf, Zenon
<1>4. Plain(v, S)
  <2>1. v.all \in BOOLEAN /\ (v.all => v.names = NbKeys)
    BY <1>1, <1>3, Zenon DEF Plain
  <2>2. \A d \in v.del : \E r \in S : r.id = d /\ r.key \in v.names
    BY <1>1, <1>3, Zenon DEF Plain
  <2>3. \A x \in v.put :
            x \in NbRow /\ (x.id = 0 \/ \E r \in S : r.id = x.id /\ r.key = x.key /\ r.key \in v.names)
    BY <1>1, <1>3, Zenon DEF Plain
  <2>4. \A x, y \in v.put : x.id = 0 /\ y.id = 0 => x.key = y.key
    <3>1. \A x, y \in o.put : x.id = 0 /\ y.id = 0 => x.key = y.key
      BY <1>1 DEF Plain
    <3> QED
      BY <1>3, <3>1
  <2> QED
    BY <1>3, <2>1, <2>2, <2>3, <2>4, Zenon DEF Plain
<1> QED
  BY <1>4, Zenon DEF v

\* Every command of such a topic.
LEMMA CommandsPlain ==
    ASSUME NEW S \in SUBSET NbRow, NEW a \in NbArgs, NEW t \in RowTopics
    PROVE  AllPlain(Commands(t, S, a), S)
<1> DEFINE P(ops) == AllPlain(ops, S)
<1>1. /\ P({}) /\ P(Insert(a)) /\ P(NbRemove(S, a)) /\ P(Update(S, a)) /\ P(NbEmpty(S))
      /\ P(Op(Ids(S), {}, NbKeys))
  BY PlainParts
<1>2. \A w : P(Verify(w, NbEmpty(S))) /\ P(Verify(w, Update(S, a))) /\ P(Verify(w, {}))
  BY <1>1, PlainVerified
<1>3. P(AddOnce(S, a)) /\ P(SetOfOne(S, a)) /\ P(AddOrSet(S, a)) /\ \A w : P(Verify(w, SetOfOne(S, a)))
  BY <1>1, <1>2 DEF AddOnce, SetOfOne, AddOrSet, Nothing
<1>4. ASSUME NEW A, NEW B, P(A), P(B) PROVE P(A \cup B)
  BY <1>4 DEF AllPlain
<1>5. P(nbctl_lr_route_add(S, a))
  <2>1. ASSUME NEW r \in nbctl_lr_get_route(S, a)
        PROVE  P(Verify({"column", "rows"}, Op({}, {[r EXCEPT !.val = a.val]}, {a.key})))
    <3>1. r \in At(S, a)
      BY DEF nbctl_lr_get_route
    <3>2. P(Op({}, {[r EXCEPT !.val = a.val]}, {a.key}))
      BY <3>1, PlainParts
    <3> HIDE DEF P
    <3> QED
      BY <3>2, PlainVerified DEF P
  <2>2. P(UNION {Verify({"column", "rows"}, Op({}, {[r EXCEPT !.val = a.val]}, {a.key})) :
                  r \in nbctl_lr_get_route(S, a)})
    BY <2>1 DEF AllPlain
  <2> HIDE DEF P
  <2> QED
    BY <1>1, <2>2, Zenon DEF nbctl_lr_route_add, Nothing
<1> SUFFICES P(Commands(t, S, a))
  OBVIOUS
<1> HIDE DEF P
<1>6. /\ P(nbctl_ls_add(S, a)) /\ P(nbctl_ls_del(S, a)) /\ P(nbctl_lr_add(S, a)) /\ P(nbctl_lr_del(S, a))
      /\ P(nbctl_lsp_add(S, a)) /\ P(nbctl_lsp_del(S, a)) /\ P(nbctl_lrp_add(S, a)) /\ P(nbctl_lrp_del(S, a))
  BY <1>1, <1>3, Zenon DEF nbctl_ls_add, nbctl_ls_del, nbctl_lr_add, nbctl_lr_del, nbctl_lsp_add,
     nbctl_lsp_del, nbctl_lrp_add, nbctl_lrp_del, Nothing
<1>7. /\ P(nbctl_mirror_add(S, a)) /\ P(nbctl_mirror_del(S, a)) /\ P(nbctl_meter_add(S, a))
      /\ P(nbctl_meter_del(S, a)) /\ P(nbctl_fwd_group_add(S, a)) /\ P(nbctl_fwd_group_del(S, a))
  BY <1>1, <1>3, Zenon DEF nbctl_mirror_add, nbctl_mirror_del, nbctl_meter_add, nbctl_meter_del,
     nbctl_fwd_group_add, nbctl_fwd_group_del, Nothing
<1>8. /\ P(cmd_pg_add(S, a)) /\ P(cmd_pg_del(S, a)) /\ P(cmd_ha_ch_grp_add(S, a))
      /\ P(cmd_ha_ch_grp_del(S, a)) /\ P(nbctl_dhcp_options_del(S, a)) /\ P(nbctl_lsp_set_options(S, a))
      /\ P(nbctl_lsp_set_type(S, a)) /\ P(nbctl_lsp_set_addresses(S, a))
  BY <1>1, <1>3, Zenon DEF cmd_pg_add, cmd_pg_del, cmd_ha_ch_grp_add, cmd_ha_ch_grp_del,
     nbctl_dhcp_options_del, nbctl_lsp_set_options, nbctl_lsp_set_type, nbctl_lsp_set_addresses, Nothing
<1>9. /\ P(nbctl_lrp_set_options(S, a)) /\ P(nbctl_dhcp_options_set_options(S, a))
      /\ P(cmd_pg_set_ports(S, a)) /\ P(cmd_ha_ch_grp_set_chassis_prio(S, a))
      /\ P(nbctl_acl_add(S, a)) /\ P(nbctl_acl_del(S, a)) /\ P(nbctl_qos_add(S, a)) /\ P(nbctl_qos_del(S, a))
  BY <1>1, <1>2, <1>3, Zenon DEF nbctl_lrp_set_options, nbctl_dhcp_options_set_options, cmd_pg_set_ports,
     cmd_ha_ch_grp_set_chassis_prio, nbctl_acl_add, nbctl_acl_del, nbctl_qos_add, nbctl_qos_del
<1>10. /\ P(nbctl_lr_policy_add(S, a)) /\ P(nbctl_lr_policy_del(S, a)) /\ P(nbctl_ls_lb_add(S, a))
       /\ P(nbctl_ls_lb_del(S, a)) /\ P(nbctl_lr_lb_add(S, a)) /\ P(nbctl_lr_lb_del(S, a))
       /\ P(nbctl_lsp_attach_mirror(S, a)) /\ P(nbctl_lsp_detach_mirror(S, a))
  BY <1>1, <1>2, <1>3, Zenon DEF nbctl_lr_policy_add, nbctl_lr_policy_del, nbctl_ls_lb_add, nbctl_ls_lb_del,
     nbctl_lr_lb_add, nbctl_lr_lb_del, nbctl_lsp_attach_mirror, nbctl_lsp_detach_mirror
<1>11. /\ P(nbctl_lr_nat_add(S, a)) /\ P(nbctl_lr_nat_del(S, a)) /\ P(nbctl_lr_nat_set_ext_ips(S, a))
       /\ P(nbctl_lr_route_del(S, a))
  BY <1>1, <1>2, <1>3, Zenon DEF nbctl_lr_nat_add, RewriteNat, nbctl_lr_nat_del, nbctl_lr_nat_set_ext_ips,
     nbctl_lr_route_del, Nothing
<1>12. /\ P(nbctl_static_mac_binding_add(S, a)) /\ P(nbctl_static_mac_binding_del(S, a))
       /\ P(cmd_ha_ch_grp_add_chassis(S, a)) /\ P(cmd_ha_ch_grp_remove_chassis(S, a))
  BY <1>1, <1>2, <1>3, Zenon DEF nbctl_static_mac_binding_add, nbctl_static_mac_binding_del,
     cmd_ha_ch_grp_add_chassis, cmd_ha_ch_grp_remove_chassis, Nothing
<1>13. CASE t \in {"ls", "lr", "lsp", "addresses", "lrp"}
  BY <1>13, <1>4, <1>6, <1>8, <1>9 DEF Commands
<1>14. CASE t \in {"mirror", "meter", "fwd_group", "pg", "ha_group", "dhcp"}
  BY <1>14, <1>1, <1>4, <1>7, <1>8, <1>9 DEF Commands
<1>15. CASE t \in {"acl", "qos", "policy", "ls_lb", "lr_lb", "mirrors"}
  BY <1>15, <1>4, <1>9, <1>10 DEF Commands
<1>16. CASE t \in {"nat", "route", "static_mac", "ha_chassis"}
  BY <1>16, <1>4, <1>5, <1>9, <1>11, <1>12 DEF Commands
<1> QED
  BY <1>13, <1>14, <1>15, <1>16 DEF RowTopics

\* nbctl_lb_add(), whose rows are the vips of load balancers, several to an id:
\* a new row, or the vips of the copy with one replaced, if they still are those.
WholeMap(o, S) ==
    /\ o.all = FALSE /\ o.del = {} /\ o.verify \in {{}, {"rows"}}
    /\ \A x \in o.put : x \in NbRow /\ (x.id = 0 \/ \E r \in S : r.id = x.id)
    /\ o.verify = {"rows"} => \A r \in S : r \in o.put \/ r.key \in o.names
    /\ o.verify = {} => \A x \in o.put : x.id = 0

\* nbctl_lb_add() does one or the other.
LEMMA LbAddWhole ==
    ASSUME NEW S \in SUBSET NbRow, NEW a \in NbArgs, NEW o \in Commands("lb_add", S, a)
    PROVE  WholeMap(o, S)
<1>1. a.key \in NbKeys /\ a.val \in NbVals
  BY DEF NbArgs
<1>2. o \in nbctl_lb_add(S, a)
  BY DEF Commands
<1>3. CASE o \in Insert(a)
  <2> DEFINE x == [id |-> 0, key |-> a.key, val |-> a.val]
  <2>1. x \in NbRow /\ x.id = 0
    BY <1>1 DEF NbRow
  <2> HIDE DEF x
  <2>2. o = [del |-> {}, put |-> {x}, names |-> {a.key}, all |-> FALSE, verify |-> {}]
    BY <1>3, Zenon DEF Insert, Op, x
  <2>3. o.del = {} /\ o.put = {x} /\ o.all = FALSE /\ o.verify = {}
    BY <2>2, FieldsOf, Zenon
  <2>4. o.verify # {"rows"}
    BY <2>3
  <2>5. \A y \in o.put : y \in NbRow /\ y.id = 0
    BY <2>1, <2>3
  <2> QED
    BY <2>3, <2>4, <2>5, Zenon DEF WholeMap
<1>4. CASE o \in Verify({"rows"}, Op({}, WithEntry(S, a), {a.key}))
  <2> DEFINE W == WithEntry(S, a)
  <2>1. \A x \in W : x \in NbRow /\ \E r \in S : r.id = x.id
    BY <1>1 DEF WithEntry, NbRow, At
  <2>2. \A r \in S : r \in W \/ r.key \in {a.key}
    BY DEF WithEntry, At
  <2> HIDE DEF W
  <2> DEFINE p == [del |-> {}, put |-> W, names |-> {a.key}, all |-> FALSE, verify |-> {}]
  <2>3. o = [p EXCEPT !.verify = {"rows"}]
    BY <1>4, Zenon DEF Verify, Op, W
  <2>4. /\ p.del = {} /\ p.put = W /\ p.names = {a.key} /\ p.all = FALSE
        /\ p = [del |-> p.del, put |-> p.put, names |-> p.names, all |-> p.all, verify |-> p.verify]
    BY FieldsOf, Zenon
  <2> HIDE DEF p
  <2>5. o = [del |-> {}, put |-> W, names |-> {a.key}, all |-> FALSE, verify |-> {"rows"}]
    BY <2>3, <2>4, FlagsSet, Zenon
  <2>6. o.del = {} /\ o.put = W /\ o.names = {a.key} /\ o.all = FALSE /\ o.verify = {"rows"}
    BY <2>5, FieldsOf, Zenon
  <2>7. o.verify # {}
    BY <2>6
  <2>8. /\ \A x \in o.put : x \in NbRow /\ \E r \in S : r.id = x.id
        /\ \A r \in S : r \in o.put \/ r.key \in o.names
    BY <2>1, <2>2, <2>6
  <2> QED
    BY <2>6, <2>7, <2>8, Zenon DEF WholeMap
<1> QED
  BY <1>2, <1>3, <1>4, Zenon DEF nbctl_lb_add, Nothing

-----------------------------------------------------------------------------
(* The invariant: k gives the key of every id up to n that was ever used.  *)

KeptIn(k, n, S) == \A r \in S : r.id \in 1 .. n /\ k[r.id] = r.key
AimsAt(k, n, o) ==
    /\ o.all \in BOOLEAN /\ (o.all => o.names = NbKeys)
    /\ \A d \in o.del : d \in 1 .. n /\ k[d] \in o.names
    /\ \A x \in o.put : /\ x \in NbRow
                        /\ x.id = 0 \/ (x.id \in 1 .. n /\ k[x.id] = x.key /\ x.key \in o.names)
    /\ \A x, y \in o.put : x.id = 0 /\ y.id = 0 => x.key = y.key
Keyed(k) ==
    /\ KeptIn(k, nbcount.id, nbdb)
    /\ \A c \in NbClients : /\ KeptIn(k, nbcount.id, nbclient[c].copy)
                            /\ \A t \in nbclient[c].txn : AimsAt(k, nbcount.id, t.op)

NbShape ==
    /\ nbtopic \in RowTopics \cup {"lb_add"}
    /\ nbcount = [cmds |-> nbcount.cmds, id |-> nbcount.id] /\ nbcount.id \in Nat
    /\ nbdb \subseteq NbRow /\ \A r \in nbdb : r.id \in 1 .. nbcount.id
    /\ nbclient = [c \in NbClients |-> nbclient[c]]
    /\ \A c \in NbClients :
          /\ nbclient[c] = [copy |-> nbclient[c].copy, txn |-> nbclient[c].txn]
          /\ nbclient[c].copy \subseteq NbRow /\ \A r \in nbclient[c].copy : r.id \in 1 .. nbcount.id
          /\ \A t \in nbclient[c].txn : t.args \in NbArgs

Maps == \A c \in NbClients : \A t \in nbclient[c].txn : WholeMap(t.op, nbclient[c].copy)

NbInv ==
    /\ NbShape
    /\ nbtopic \in RowTopics => \E k : Keyed(k)
    /\ nbtopic = "lb_add" => Maps

\* A command computed from rows that k knows aims at what k says.
LEMMA PlainAims ==
    ASSUME NEW k, NEW n \in Nat, NEW S, KeptIn(k, n, S), NEW o, Plain(o, S)
    PROVE  AimsAt(k, n, o)
<1>1. o.all \in BOOLEAN /\ (o.all => o.names = NbKeys)
  BY Zenon DEF Plain
<1>2. \A d \in o.del : d \in 1 .. n /\ k[d] \in o.names
  BY DEF Plain, KeptIn
<1>3. \A x \in o.put : /\ x \in NbRow
                       /\ x.id = 0 \/ (x.id \in 1 .. n /\ k[x.id] = x.key /\ x.key \in o.names)
  BY DEF Plain, KeptIn
<1>4. \A x, y \in o.put : x.id = 0 /\ y.id = 0 => x.key = y.key
  BY DEF Plain
<1> QED
  BY <1>1, <1>2, <1>3, <1>4, Zenon DEF AimsAt

\* A new id changes nothing for the others.
LEMMA AimsStay ==
    ASSUME NEW k, NEW k2, NEW n \in Nat, NEW n2 \in Nat, n <= n2, \A i \in 1 .. n : k2[i] = k[i]
    PROVE  /\ \A S : KeptIn(k, n, S) => KeptIn(k2, n2, S)
           /\ \A o : AimsAt(k, n, o) => AimsAt(k2, n2, o)
<1>1. \A S : KeptIn(k, n, S) => KeptIn(k2, n2, S)
  BY DEF KeptIn
<1>2. ASSUME NEW o, AimsAt(k, n, o) PROVE AimsAt(k2, n2, o)
  <2>1. o.all \in BOOLEAN /\ (o.all => o.names = NbKeys)
    BY <1>2, Zenon DEF AimsAt
  <2>2. \A d \in o.del : d \in 1 .. n2 /\ k2[d] \in o.names
    BY <1>2 DEF AimsAt
  <2>3. \A x \in o.put : /\ x \in NbRow
                         /\ x.id = 0 \/ (x.id \in 1 .. n2 /\ k2[x.id] = x.key /\ x.key \in o.names)
    BY <1>2 DEF AimsAt
  <2>4. \A x, y \in o.put : x.id = 0 /\ y.id = 0 => x.key = y.key
    BY <1>2 DEF AimsAt
  <2> QED
    BY <2>1, <2>2, <2>3, <2>4, Zenon DEF AimsAt
<1> QED
  BY <1>1, <1>2

\* No rows and no transactions at first.
LEMMA NbInitially == NbTopics \subseteq RowTopics \cup {"lb_add"} /\ NbctlInit => NbInv
<1> SUFFICES ASSUME NbTopics \subseteq RowTopics \cup {"lb_add"}, NbctlInit PROVE NbInv
  OBVIOUS
<1>1. /\ nbtopic \in NbTopics /\ nbdb = {}
      /\ nbclient = [c \in NbClients |-> [copy |-> {}, txn |-> {}]]
      /\ nbcount = [cmds |-> 0, id |-> 0]
  BY DEF NbctlInit
<1>2. \A c \in NbClients : nbclient[c].copy = {} /\ nbclient[c].txn = {}
  BY <1>1
<1>3. NbShape
  BY <1>1, <1>2 DEF NbShape
<1>4. Keyed(<<>>)
  BY <1>1, <1>2 DEF Keyed, KeptIn
<1>5. Maps
  BY <1>2 DEF Maps
<1> QED
  BY <1>3, <1>4, <1>5 DEF NbInv

\* Setting the copy or the transaction of a client.
LEMMA FieldSet ==
    ASSUME NEW r, NEW e, r = [copy |-> r.copy, txn |-> r.txn]
    PROVE  /\ [r EXCEPT !.txn = e] = [copy |-> r.copy, txn |-> e]
           /\ [r EXCEPT !.copy = e] = [copy |-> e, txn |-> r.txn]
  OBVIOUS

\* Setting both, as after a commit.
LEMMA BothSet ==
    ASSUME NEW f, NEW c, NEW S, NEW Cs, c \in Cs, f = [b \in Cs |-> f[b]],
           f[c] = [copy |-> f[c].copy, txn |-> f[c].txn]
    PROVE  [f EXCEPT ![c].txn = {}, ![c].copy = S] = [f EXCEPT ![c] = [copy |-> S, txn |-> {}]]
<1> DEFINE g == [f EXCEPT ![c].txn = {}]
<1>1. g = [f EXCEPT ![c] = [copy |-> f[c].copy, txn |-> {}]]
  <2>1. [f[c] EXCEPT !.txn = {}] = [copy |-> f[c].copy, txn |-> {}]
    BY FieldSet, Zenon
  <2> QED
    BY <2>1, Zenon
<1>2. /\ g = [b \in Cs |-> g[b]] /\ g[c] = [copy |-> f[c].copy, txn |-> {}]
      /\ \A b \in Cs : b # c => g[b] = f[b]
  BY <1>1
<1>3. [f EXCEPT ![c].txn = {}, ![c].copy = S] = [g EXCEPT ![c].copy = S]
  OBVIOUS
<1> HIDE DEF g
<1>4. g[c] = [copy |-> g[c].copy, txn |-> g[c].txn] /\ g[c].txn = {}
  BY <1>2
<1>5. [g EXCEPT ![c].copy = S] = [g EXCEPT ![c] = [copy |-> S, txn |-> {}]]
  <2>1. [g[c] EXCEPT !.copy = S] = [copy |-> S, txn |-> g[c].txn]
    BY <1>4, FieldSet, Zenon
  <2>2. [g[c] EXCEPT !.copy = S] = [copy |-> S, txn |-> {}]
    BY <1>4, <2>1, Zenon
  <2> QED
    BY <2>2, Zenon
<1>6. [g EXCEPT ![c] = [copy |-> S, txn |-> {}]] = [f EXCEPT ![c] = [copy |-> S, txn |-> {}]]
  BY <1>2
<1> QED
  BY <1>3, <1>5, <1>6, Zenon

\* A client whose copy and transaction change: what it sends is what a command
\* makes of the copy.
LEMMA NbClientStep ==
    ASSUME NbInv, NEW c \in NbClients, NEW S, NEW T, UNCHANGED <<nbtopic, nbdb>>,
           nbcount' = [cmds |-> nbcount'.cmds, id |-> nbcount.id],
           nbclient' = [nbclient EXCEPT ![c] = [copy |-> S, txn |-> T]],
           S = nbdb \/ S = nbclient[c].copy,
           \A t \in T : t.args \in NbArgs /\ t.op \in Commands(nbtopic, S, t.args)
    PROVE  NbInv'
<1>1. NbShape
  BY DEF NbInv
<1>2. nbcount'.id = nbcount.id /\ nbcount'.id \in Nat /\ nbcount' = [cmds |-> nbcount'.cmds, id |-> nbcount'.id]
  BY <1>1 DEF NbShape
<1>3. S \in SUBSET NbRow /\ \A r \in S : r.id \in 1 .. nbcount.id
  BY <1>1 DEF NbShape
<1>4. /\ nbclient'[c] = [copy |-> S, txn |-> T] /\ nbclient'[c].copy = S /\ nbclient'[c].txn = T
      /\ \A b \in NbClients \ {c} : nbclient'[b] = nbclient[b]
      /\ nbclient' = [b \in NbClients |-> nbclient'[b]]
  BY <1>1 DEF NbShape
<1>5. NbShape'
  BY <1>1, <1>2, <1>3, <1>4 DEF NbShape
<1>6. ASSUME nbtopic \in RowTopics PROVE \E k : Keyed(k)'
  <2>1. PICK k : Keyed(k)
    BY <1>6 DEF NbInv
  <2>2. KeptIn(k, nbcount.id, S)
    BY <2>1 DEF Keyed
  <2>3. ASSUME NEW t \in T PROVE AimsAt(k, nbcount.id, t.op)
    <3>1. Plain(t.op, S)
      BY <1>3, <1>6, CommandsPlain DEF AllPlain
    <3> QED
      BY <1>1, <2>2, <3>1, PlainAims DEF NbShape
  <2>4. Keyed(k)'
    <3>1. KeptIn(k, nbcount'.id, nbdb')
      BY <1>2, <2>1 DEF Keyed
    <3>2. ASSUME NEW b \in NbClients
          PROVE  KeptIn(k, nbcount'.id, nbclient'[b].copy) /\ \A t \in nbclient'[b].txn : AimsAt(k, nbcount'.id, t.op)
      BY <1>2, <1>4, <2>1, <2>2, <2>3 DEF Keyed
    <3> QED
      BY <3>1, <3>2 DEF Keyed
  <2> QED
    BY <2>4
<1>7. ASSUME nbtopic = "lb_add" PROVE Maps'
  <2>1. Maps
    BY <1>7 DEF NbInv
  <2>2. \A t \in T : WholeMap(t.op, S)
    BY <1>3, <1>7, LbAddWhole
  <2> QED
    BY <1>4, <2>1, <2>2 DEF Maps
<1> QED
  BY <1>5, <1>6, <1>7 DEF NbInv

\* The same, of a client that sends nothing.
LEMMA NbClientRests ==
    ASSUME NbInv, NEW c \in NbClients, NEW S, UNCHANGED <<nbtopic, nbdb>>,
           nbcount' = [cmds |-> nbcount'.cmds, id |-> nbcount.id],
           nbclient' = [nbclient EXCEPT ![c] = [copy |-> S, txn |-> {}]],
           S = nbdb \/ S = nbclient[c].copy
    PROVE  NbInv'
<1> DEFINE T == {}
<1>1. \A t \in T : t.args \in NbArgs /\ t.op \in Commands(nbtopic, S, t.args)
  OBVIOUS
<1>2. nbclient' = [nbclient EXCEPT ![c] = [copy |-> S, txn |-> T]]
  OBVIOUS
<1> HIDE DEF T
<1> QED
  BY <1>1, <1>2, NbClientStep, Zenon

\* Everything but a commit is such a step.
LEMMA NbOthers ==
    ASSUME NbInv, NEW c \in NbClients, do_nbctl(c) \/ NbRead(c) \/ NbAgain(c) \/ NbError(c)
    PROVE  NbInv' /\ nbdb' = nbdb
<1>1. /\ nbclient[c] = [copy |-> nbclient[c].copy, txn |-> nbclient[c].txn]
      /\ nbclient = [b \in NbClients |-> nbclient[b]]
      /\ nbcount = [cmds |-> nbcount.cmds, id |-> nbcount.id]
  BY DEF NbInv, NbShape
<1>2. UNCHANGED <<nbtopic, nbdb>> /\ nbcount' = [cmds |-> nbcount'.cmds, id |-> nbcount.id]
  BY <1>1 DEF do_nbctl, NbRead, NbAgain, NbError
<1>3. CASE do_nbctl(c)
  <2>1. PICK a \in NbArgs : \E op \in Commands(nbtopic, nbclient[c].copy, a) :
            nbclient' = [nbclient EXCEPT ![c].txn = {[args |-> a, op |-> op]}]
    BY <1>3 DEF do_nbctl
  <2>2. PICK op \in Commands(nbtopic, nbclient[c].copy, a) :
            nbclient' = [nbclient EXCEPT ![c].txn = {[args |-> a, op |-> op]}]
    BY <2>1
  <2>3. nbclient' = [nbclient EXCEPT ![c] = [copy |-> nbclient[c].copy, txn |-> {[args |-> a, op |-> op]}]]
    <3>1. [nbclient[c] EXCEPT !.txn = {[args |-> a, op |-> op]}]
            = [copy |-> nbclient[c].copy, txn |-> {[args |-> a, op |-> op]}]
      BY <1>1, FieldSet, Zenon
    <3> QED
      BY <2>2, <3>1, Zenon
  <2>4. \A t \in {[args |-> a, op |-> op]} :
            t.args \in NbArgs /\ t.op \in Commands(nbtopic, nbclient[c].copy, t.args)
    OBVIOUS
  <2> QED
    BY <1>2, <2>3, <2>4, NbClientStep, Zenon
<1>4. CASE NbRead(c)
  <2>1. nbclient' = [nbclient EXCEPT ![c].copy = nbdb] /\ nbclient[c].txn = {}
    BY <1>4 DEF NbRead
  <2>2. nbclient' = [nbclient EXCEPT ![c] = [copy |-> nbdb, txn |-> {}]]
    <3>1. [nbclient[c] EXCEPT !.copy = nbdb] = [copy |-> nbdb, txn |-> nbclient[c].txn]
      BY <1>1, FieldSet, Zenon
    <3>2. [nbclient[c] EXCEPT !.copy = nbdb] = [copy |-> nbdb, txn |-> {}]
      BY <2>1, <3>1, Zenon
    <3> QED
      BY <2>1, <3>2, Zenon
  <2> QED
    BY <1>2, <2>2, NbClientRests, Zenon
<1>5. CASE NbError(c)
  <2>1. nbclient' = [nbclient EXCEPT ![c].txn = {}]
    BY <1>5 DEF NbError
  <2>2. nbclient' = [nbclient EXCEPT ![c] = [copy |-> nbclient[c].copy, txn |-> {}]]
    <3>1. [nbclient[c] EXCEPT !.txn = {}] = [copy |-> nbclient[c].copy, txn |-> {}]
      BY <1>1, FieldSet, Zenon
    <3> QED
      BY <2>1, <3>1, Zenon
  <2> QED
    BY <1>2, <2>2, NbClientRests, Zenon
<1>6. CASE NbAgain(c)
  <2>1. PICK t \in nbclient[c].txn :
            LET again == Commands(nbtopic, nbdb, t.args)
            IN  IF again = {} THEN nbclient' = [nbclient EXCEPT ![c].txn = {}, ![c].copy = nbdb]
                ELSE \E op \in again : nbclient' = [nbclient EXCEPT
                         ![c] = [copy |-> nbdb, txn |-> {[args |-> t.args, op |-> op]}]]
    BY <1>6 DEF NbAgain
  <2>2. t.args \in NbArgs
    BY DEF NbInv, NbShape
  <2>3. CASE nbclient' = [nbclient EXCEPT ![c].txn = {}, ![c].copy = nbdb]
    <3>1. nbclient' = [nbclient EXCEPT ![c] = [copy |-> nbdb, txn |-> {}]]
      BY <1>1, <2>3, BothSet, Zenon
    <3> QED
      BY <1>2, <3>1, NbClientRests, Zenon
  <2>4. ASSUME NEW op \in Commands(nbtopic, nbdb, t.args),
               nbclient' = [nbclient EXCEPT ![c] = [copy |-> nbdb, txn |-> {[args |-> t.args, op |-> op]}]]
        PROVE  NbInv'
    <3>1. \A u \in {[args |-> t.args, op |-> op]} :
              u.args \in NbArgs /\ u.op \in Commands(nbtopic, nbdb, u.args)
      BY <2>2
    <3> QED
      BY <1>2, <2>4, <3>1, NbClientStep, Zenon
  <2> QED
    BY <1>2, <2>1, <2>3, <2>4
<1> QED
  BY <1>2, <1>3, <1>4, <1>5, <1>6

\* What is in the table after a transaction, and what is not.
LEMMA WrittenRows ==
    ASSUME NEW o
    PROVE  /\ \A x \in Written(o) :
                 \/ x \in nbdb
                 \/ \E y \in o.put : /\ y.id # 0 /\ y.id \in Ids(nbdb) /\ x = y
                 \/ \E y \in o.put : /\ y.id = 0 /\ x = [y EXCEPT !.id = nbcount.id + 1]
           /\ \A r \in nbdb : r \in Written(o) \/ o.all \/ r.id \in o.del \/ r.id \in Ids(o.put)
           /\ \A y \in o.put : y.id \in Ids(nbdb) /\ y.id # 0 => y \in Written(o)
<1> DEFINE kept == IF o.all THEN {} ELSE {r \in nbdb : r.id \notin o.del \cup Ids(o.put)}
           new == {IF r.id = 0 THEN [r EXCEPT !.id = nbcount.id + 1] ELSE r :
                      r \in {x \in o.put : x.id \in Ids(nbdb) \cup {0}}}
<1>1. Written(o) = kept \cup new
  BY Zenon DEF Written
<1>2. kept \subseteq nbdb /\ \A r \in nbdb : r \in kept \/ o.all \/ r.id \in o.del \cup Ids(o.put)
  BY Zenon
<1> HIDE DEF kept
<1>3. /\ \A x \in new : \/ \E y \in o.put : y.id # 0 /\ y.id \in Ids(nbdb) /\ x = y
                        \/ \E y \in o.put : y.id = 0 /\ x = [y EXCEPT !.id = nbcount.id + 1]
      /\ \A y \in o.put : y.id \in Ids(nbdb) /\ y.id # 0 => y \in new
  OBVIOUS
<1> HIDE DEF new
<1> QED
  BY <1>1, <1>2, <1>3, Zenon

\* A commit.
LEMMA NbCommits ==
    ASSUME NbInv, NEW c \in NbClients, NbCommit(c)
    PROVE  NbInv' /\ \A r \in nbdb \ nbdb' : r.key \in nbdone'
<1> DEFINE n == nbcount.id
           m == nbcount'.id
<1>1. NbShape
  BY DEF NbInv
<1>2. PICK t \in nbclient[c].txn :
        /\ ~Stale(c, t.op)
        /\ nbdb' = Written(t.op)
        /\ nbcount' = [nbcount EXCEPT !.id = IF Written(t.op) # nbdb THEN @ + 1 ELSE @]
        /\ nbdone' = t.op.names
        /\ nbclient' = [nbclient EXCEPT ![c].txn = {}, ![c].copy = nbdb']
        /\ nbtopic' = nbtopic
  BY DEF NbCommit
<1> DEFINE o == t.op
<1> HIDE DEF o
<1>3. /\ n \in Nat /\ m \in Nat /\ n <= m /\ (nbdb' # nbdb => m = n + 1)
      /\ nbcount' = [cmds |-> nbcount'.cmds, id |-> nbcount'.id]
  BY <1>1, <1>2 DEF NbShape
<1>4. /\ nbclient'[c] = [copy |-> nbclient'[c].copy, txn |-> nbclient'[c].txn]
      /\ nbclient'[c].copy = nbdb' /\ nbclient'[c].txn = {}
      /\ \A b \in NbClients \ {c} : nbclient'[b] = nbclient[b]
      /\ nbclient' = [b \in NbClients |-> nbclient'[b]]
  <2>1. /\ nbclient = [b \in NbClients |-> nbclient[b]]
        /\ nbclient[c] = [copy |-> nbclient[c].copy, txn |-> nbclient[c].txn]
    BY <1>1 DEF NbShape
  <2>2. nbclient' = [nbclient EXCEPT ![c] = [copy |-> nbdb', txn |-> {}]]
    BY <1>2, <2>1, BothSet, Zenon
  <2> QED
    BY <2>1, <2>2
<1>5. /\ \A x \in nbdb' : \/ x \in nbdb
                          \/ \E y \in o.put : y.id # 0 /\ y.id \in Ids(nbdb) /\ x = y
                          \/ \E y \in o.put : y.id = 0 /\ x = [y EXCEPT !.id = n + 1]
      /\ \A r \in nbdb : r \in nbdb' \/ o.all \/ r.id \in o.del \/ r.id \in Ids(o.put)
      /\ \A y \in o.put : y.id \in Ids(nbdb) /\ y.id # 0 => y \in nbdb'
  BY <1>2, WrittenRows, Zenon DEF o
<1>6. nbdb \subseteq NbRow /\ \A r \in nbdb : r.id \in 1 .. n
  BY <1>1 DEF NbShape
<1>7. \A y \in o.put : y \in NbRow
  <2>1. CASE nbtopic \in RowTopics
    BY <2>1 DEF NbInv, Keyed, AimsAt, o
  <2>2. CASE nbtopic = "lb_add"
    BY <2>2 DEF NbInv, Maps, WholeMap, o
  <2> QED
    BY <1>1, <2>1, <2>2 DEF NbShape
<1>8. ASSUME NEW x \in nbdb', x \notin nbdb
      PROVE  /\ m = n + 1 /\ x \in NbRow
             /\ \/ x \in o.put /\ x.id # 0 /\ x.id \in 1 .. n
                \/ x.id = n + 1 /\ \E y \in o.put : y.id = 0 /\ x.key = y.key
  <2>1. m = n + 1
    BY <1>3, <1>8
  <2>2. CASE \E y \in o.put : y.id # 0 /\ y.id \in Ids(nbdb) /\ x = y
    BY <1>6, <1>7, <2>1, <2>2 DEF Ids
  <2>3. ASSUME NEW y \in o.put, y.id = 0, x = [y EXCEPT !.id = n + 1]
        PROVE  x \in NbRow /\ x.id = n + 1 /\ x.key = y.key
    BY <1>3, <1>7, <2>3 DEF NbRow
  <2> QED
    BY <1>5, <1>8, <2>1, <2>2, <2>3
<1>9. nbdb' \subseteq NbRow /\ \A r \in nbdb' : r.id \in 1 .. m
  BY <1>3, <1>6, <1>8
<1>10. NbShape'
  <2>1. \A b \in NbClients : /\ nbclient'[b] = [copy |-> nbclient'[b].copy, txn |-> nbclient'[b].txn]
                             /\ nbclient'[b].copy \subseteq NbRow
                             /\ \A r \in nbclient'[b].copy : r.id \in 1 .. m
                             /\ \A u \in nbclient'[b].txn : u.args \in NbArgs
    BY <1>1, <1>3, <1>4, <1>9 DEF NbShape
  <2> QED
    BY <1>1, <1>2, <1>3, <1>4, <1>9, <2>1 DEF NbShape
<1> HIDE DEF n, m
<1>11. ASSUME nbtopic \in RowTopics
       PROVE  (\E k : Keyed(k)') /\ \A r \in nbdb \ nbdb' : r.key \in o.names
  <2>1. PICK k : Keyed(k)
    BY <1>11 DEF NbInv
  <2>2. AimsAt(k, n, o) /\ KeptIn(k, n, nbdb)
    BY <2>1 DEF Keyed, o, n
  <2>3. PICK k2 : /\ \A i \in 1 .. n : k2[i] = k[i]
                  /\ \A y \in o.put : y.id = 0 => k2[n + 1] = y.key
    <3> DEFINE new == CHOOSE y \in o.put : y.id = 0
               j == [i \in Nat |-> IF i = n + 1 THEN new.key ELSE k[i]]
    <3>1. (\A i \in 1 .. n : j[i] = k[i]) /\ j[n + 1] = new.key
      BY <1>3
    <3>2. \A y \in o.put : y.id = 0 => new \in o.put /\ new.id = 0
      OBVIOUS
    <3>3. \A x, y \in o.put : x.id = 0 /\ y.id = 0 => x.key = y.key
      BY <2>2, Zenon DEF AimsAt
    <3> HIDE DEF j, new
    <3>4. \A y \in o.put : y.id = 0 => j[n + 1] = y.key
      BY <3>1, <3>2, <3>3
    <3> QED
      BY <3>1, <3>4
  <2>6. /\ \A S : KeptIn(k, n, S) => KeptIn(k2, m, S)
        /\ \A p : AimsAt(k, n, p) => AimsAt(k2, m, p)
    BY <1>3, <2>3, AimsStay
  <2>7. KeptIn(k2, m, nbdb')
    <3> SUFFICES ASSUME NEW x \in nbdb' PROVE x.id \in 1 .. m /\ k2[x.id] = x.key
      BY DEF KeptIn
    <3>1. x.id \in 1 .. m
      BY <1>9 DEF m
    <3>2. CASE x \in nbdb
      BY <2>2, <2>6, <3>2 DEF KeptIn
    <3>3. CASE x \in o.put /\ x.id # 0 /\ x.id \in 1 .. n
      <4>1. k[x.id] = x.key
        BY <2>2, <3>3, Zenon DEF AimsAt
      <4> QED
        BY <2>3, <3>1, <3>3, <4>1
    <3>4. ASSUME x.id = n + 1, NEW y \in o.put, y.id = 0, x.key = y.key PROVE k2[x.id] = x.key
      BY <2>3, <3>4
    <3> QED
      BY <1>8, <3>1, <3>2, <3>3, <3>4
  <2>8. Keyed(k2)'
    <3>1. ASSUME NEW b \in NbClients
          PROVE  KeptIn(k2, m, nbclient'[b].copy) /\ \A u \in nbclient'[b].txn : AimsAt(k2, m, u.op)
      BY <1>4, <2>1, <2>6, <2>7 DEF Keyed, n
    <3> QED
      BY <2>7, <3>1 DEF Keyed, m
  <2>9. ASSUME NEW r \in nbdb, r \notin nbdb' PROVE r.key \in o.names
    <3>1. k[r.id] = r.key /\ r.key \in NbKeys
      BY <1>6, <2>2 DEF KeptIn, NbRow
    <3>2. CASE o.all
      <4>1. o.names = NbKeys
        BY <2>2, <3>2, Zenon DEF AimsAt
      <4> QED
        BY <3>1, <4>1
    <3>3. CASE r.id \in o.del
      BY <2>2, <3>1, <3>3 DEF AimsAt
    <3>4. CASE r.id \in Ids(o.put)
      <4>1. PICK y \in o.put : y.id = r.id
        BY <3>4 DEF Ids
      <4>2. r.id # 0
        BY <1>6
      <4> QED
        BY <2>2, <3>1, <4>1, <4>2 DEF AimsAt
    <3> QED
      BY <1>5, <2>9, <3>2, <3>3, <3>4, Zenon
  <2> QED
    BY <2>8, <2>9
<1>12. ASSUME nbtopic = "lb_add"
       PROVE  Maps' /\ \A r \in nbdb \ nbdb' : r.key \in o.names
  <2>1. Maps
    BY <1>12 DEF NbInv
  <2>2. Maps'
    BY <1>4, <2>1 DEF Maps
  <2>3. WholeMap(o, nbclient[c].copy)
    BY <2>1 DEF Maps, o
  <2>4. ASSUME NEW r \in nbdb, r \notin nbdb' PROVE r.key \in o.names
    <3>1. r.id \in Ids(o.put)
      <4>1. ~o.all /\ o.del = {}
        BY <2>3, Zenon DEF WholeMap
      <4> QED
        BY <1>5, <2>4, <4>1, Zenon
    <3>2. PICK y \in o.put : y.id = r.id
      BY <3>1 DEF Ids
    <3>3. y.id # 0
      BY <1>6, <3>2
    <3>4. o.verify = {"rows"}
      BY <2>3, <3>2, <3>3, Zenon DEF WholeMap
    <3>5. RowsWith(nbdb, r.id) = RowsWith(nbclient[c].copy, r.id)
      BY <1>2, <3>1, <3>4 DEF Stale, o
    <3>6. r \in nbclient[c].copy
      BY <2>4, <3>5 DEF RowsWith
    <3>8. r \in o.put \/ r.key \in o.names
      BY <2>3, <3>4, <3>6, Zenon DEF WholeMap
    <3>7. r \in o.put => r \in nbdb'
      BY <1>5, <1>6, <3>2, <3>3 DEF Ids
    <3> QED
      BY <2>4, <3>7, <3>8
  <2> QED
    BY <2>2, <2>4
<1>13. NbInv'
  BY <1>1, <1>2, <1>10, <1>11, <1>12 DEF NbInv
<1>14. \A r \in nbdb \ nbdb' : r.key \in nbdone'
  BY <1>1, <1>2, <1>11, <1>12 DEF NbShape, o
<1> QED
  BY <1>13, <1>14

\* Every step keeps the invariant and takes away only what its command names.
LEMMA NbStep ==
    NbInv /\ [NbctlNext]_nbVars => NbInv' /\ \A r \in nbdb \ nbdb' : r.key \in nbdone'
<1> SUFFICES ASSUME NbInv, [NbctlNext]_nbVars
             PROVE  NbInv' /\ \A r \in nbdb \ nbdb' : r.key \in nbdone'
  OBVIOUS
<1>1. CASE UNCHANGED nbVars
  <2>1. UNCHANGED <<nbtopic, nbdb, nbclient, nbcount>>
    BY <1>1 DEF nbVars
  <2>2. NbShape'
    BY <2>1 DEF NbInv, NbShape
  <2>3. \A k : Keyed(k) => Keyed(k)'
    BY <2>1 DEF Keyed
  <2>4. Maps => Maps'
    BY <2>1 DEF Maps
  <2> QED
    BY <2>1, <2>2, <2>3, <2>4 DEF NbInv
<1>2. CASE NbctlNext
  BY <1>2, NbOthers, NbCommits DEF NbctlNext
<1> QED
  BY <1>1, <1>2

\* For any number of clients, commands, keys and values: a committed command
\* takes away only rows and vips that it names, however old the copy it looked
\* at.  It is about the commands on rows and about lb-add, which verifies; the
\* topics lb, copp and gateway write whole maps or columns that nobody verified.
THEOREM CommandsTakeOnlyTargets ==
    ASSUME NbTopics \subseteq RowTopics \cup {"lb_add"}
    PROVE  NbctlSpec => OnlyTargetsRemoved
<1>1. NbctlInit => NbInv
  BY NbInitially
<1>2. NbInv /\ [NbctlNext]_nbVars
        => NbInv' /\ [nbdb' # nbdb => \A r \in nbdb \ nbdb' : r.key \in nbdone']_nbVars
  BY NbStep
<1> QED
  BY <1>1, <1>2, PTL DEF NbctlSpec, OnlyTargetsRemoved

\* The property of the run.
THEOREM TargetsTheorem ==
    ASSUME NbTopics \subseteq RowTopics \cup {"lb_add"}
    PROVE  MCSpec => TargetsRight
<1> DEFINE Inv == part = "nbctl" => NbInv
<1>1. MCInit => Inv
  BY NbInitially DEF MCInit, NbctlIs
<1>2. Inv /\ [MCNext]_vars
        => Inv' /\ [part = "nbctl" /\ nbdb' # nbdb => \A r \in nbdb \ nbdb' : r.key \in nbdone']_vars
  <2>1. ASSUME [MCNext]_vars, part = "nbctl" \/ part' = "nbctl"
        PROVE  part = "nbctl" /\ [NbctlNext]_nbVars
    BY <2>1, Zenon DEF MCNext, vars, Alone, Parts
  <2> QED
    BY <2>1, NbStep
<1> QED
  BY <1>1, <1>2, PTL DEF MCSpec, TargetsRight
-----------------------------------------------------------------------------
(***************************************************************************)
(* ovn-ic.c gateway_run(), port_binding_run(), route_run(): when all have  *)
(* come to rest the zones mirror each other, for any number of zones that  *)
(* the keys of a transit switch suffice for.                               *)
(***************************************************************************)

\* A port binding of ISB: without a key there is none.
IsPb(pb) == pb = [key |-> pb.key, gw |-> pb.gw] /\ (pb.key = 0 => pb = NoPort)
\* The ISB rows of a zone, in ISB or on their way.
IsRows(rows) == rows = [gw |-> rows.gw, pb |-> rows.pb, routes |-> rows.routes] /\ IsPb(rows.pb)

IsNb(nb) == nb = [mykey |-> nb.mykey, remote |-> nb.remote, learned |-> nb.learned]
IsSb(sb) == sb = [port |-> sb.port, remote |-> sb.remote, chassis |-> sb.chassis, at |-> sb.at]
\* The chassisredirect port is bound only where there is a gateway.
IsCfg(c) == c = [port |-> c.port, gw |-> c.gw, bound |-> c.bound, routes |-> c.routes]
            /\ (c.bound => c.gw # 0)

IpShape ==
    /\ ipcfg = [a \in Zones |-> ipcfg[a]] /\ ipnb = [a \in Zones |-> ipnb[a]]
    /\ ipsb = [a \in Zones |-> ipsb[a]] /\ ipisb = [a \in Zones |-> ipisb[a]]
    /\ iptxn = [a \in Zones |-> iptxn[a]]

IpZone(a) ==
    /\ IsCfg(ipcfg[a]) /\ IsNb(ipnb[a]) /\ IsSb(ipsb[a]) /\ IsRows(ipisb[a])
    /\ \A rows \in iptxn[a] : IsRows(rows)

IpInv == IpShape /\ \A a \in Zones : IpZone(a)

\* The keys of a transit switch suffice for the ports of all zones.
EnoughKeys == IsFiniteSet(Zones) /\ MaxPortKey \in Nat /\ Cardinality(Zones) <= MaxPortKey

\* A set of numbers has a least one.
LEMMA LeastOf ==
    ASSUME NEW S \in SUBSET Nat, S # {}
    PROVE  \E m \in S : \A y \in S : m <= y
<1> DEFINE Less == {p \in Nat \X Nat : p[1] < p[2]}
<1>1. IsWellFoundedOn(Less, Nat)
  BY NatLessThanWellFounded, Zenon DEF OpToRel
<1>2. PICK m \in S : \A y \in S : ~ (<<y, m>> \in Less)
  BY <1>1, WFMin, Zenon
<1>3. ASSUME NEW y \in S, y < m PROVE FALSE
  <2>1. <<y, m>> \in Nat \X Nat /\ <<y, m>>[1] < <<y, m>>[2]
    BY <1>3
  <2>2. <<y, m>> \in Less
    BY <2>1, Zenon
  <2> QED
    BY <1>2, <2>2, Zenon
<1> QED
  BY <1>3

\* A zone that has no key finds one: the others use fewer than there are.
LEMMA KeyAllocated ==
    ASSUME EnoughKeys, NEW a \in Zones, ipisb[a].pb.key = 0
    PROVE  allocate_port_key \in 1 .. MaxPortKey \ Used
<1> DEFINE Rest == Zones \ {a}
           f == [b \in Rest |-> ipisb[b].pb.key]
           T == {ipisb[b].pb.key : b \in Rest}
           Free == {k \in 1 .. MaxPortKey : k \notin Used}
<1>1. IsFiniteSet(Rest) /\ Cardinality(Rest) = Cardinality(Zones) - 1
  BY FS_RemoveElement DEF EnoughKeys
<1>2. f \in Surjection(Rest, T)
  BY DEF Surjection
<1>3. IsFiniteSet(T) /\ Cardinality(T) <= Cardinality(Rest)
  BY <1>1, <1>2, FS_Surjection, Zenon
<1>4. Cardinality(Zones) \in Nat /\ Cardinality(T) \in Nat /\ MaxPortKey \in Nat
  BY <1>3, FS_CardinalityType DEF EnoughKeys
<1>5. Cardinality(1 .. MaxPortKey) = MaxPortKey
  BY <1>4, FS_Interval
<1>6. ~ (1 .. MaxPortKey \subseteq T)
  <2> SUFFICES ASSUME 1 .. MaxPortKey \subseteq T PROVE FALSE
    OBVIOUS
  <2>1. Cardinality(1 .. MaxPortKey) <= Cardinality(T)
    BY <1>3, FS_Subset, Zenon
  <2> QED
    BY <2>1, <1>1, <1>3, <1>4, <1>5 DEF EnoughKeys
<1>7. \A k \in 1 .. MaxPortKey : k \in Used => k \in T
  BY DEF Used
<1>8. Free # {} /\ Free \in SUBSET Nat
  BY <1>4, <1>6, <1>7
<1> HIDE DEF f, T, Rest
<1>9. \E m \in Free : \A y \in Free : m <= y
  BY <1>8, LeastOf
<1>10. \E k \in 1 .. MaxPortKey : k \notin Used /\ \A j \in 1 .. MaxPortKey : j \notin Used => k <= j
  BY <1>9
<1> QED
  BY <1>10, Zenon DEF allocate_port_key

\* Setting one field of a zone's records.
LEMMA RowsSet ==
    ASSUME NEW r, NEW e, r = [gw |-> r.gw, pb |-> r.pb, routes |-> r.routes]
    PROVE  /\ [r EXCEPT !.gw = e] = [gw |-> e, pb |-> r.pb, routes |-> r.routes]
           /\ [r EXCEPT !.pb = e] = [gw |-> r.gw, pb |-> e, routes |-> r.routes]
           /\ [r EXCEPT !.routes = e] = [gw |-> r.gw, pb |-> r.pb, routes |-> e]
  OBVIOUS
LEMMA PbSet ==
    ASSUME NEW r, NEW e, r = [key |-> r.key, gw |-> r.gw]
    PROVE  [r EXCEPT !.gw = e] = [key |-> r.key, gw |-> e]
  OBVIOUS
LEMMA NbSet ==
    ASSUME NEW r, NEW e, r = [mykey |-> r.mykey, remote |-> r.remote, learned |-> r.learned]
    PROVE  /\ [r EXCEPT !.mykey = e] = [mykey |-> e, remote |-> r.remote, learned |-> r.learned]
           /\ [r EXCEPT !.remote = e] = [mykey |-> r.mykey, remote |-> e, learned |-> r.learned]
           /\ [r EXCEPT !.learned = e] = [mykey |-> r.mykey, remote |-> r.remote, learned |-> e]
  OBVIOUS
LEMMA NbBothSet ==
    ASSUME NEW r, NEW e, NEW f, r = [mykey |-> r.mykey, remote |-> r.remote, learned |-> r.learned]
    PROVE  [r EXCEPT !.mykey = e, !.remote = f] = [mykey |-> e, remote |-> f, learned |-> r.learned]
<1>1. PICK g : g = [r EXCEPT !.mykey = e]
  OBVIOUS
<1>2. [r EXCEPT !.mykey = e, !.remote = f] = [g EXCEPT !.remote = f]
  BY <1>1
<1>3. g = [mykey |-> e, remote |-> r.remote, learned |-> r.learned]
  BY <1>1, NbSet
<1>4. /\ g = [mykey |-> g.mykey, remote |-> g.remote, learned |-> g.learned]
      /\ g.mykey = e /\ g.learned = r.learned
  BY <1>3
<1>5. [g EXCEPT !.remote = f] = [mykey |-> g.mykey, remote |-> f, learned |-> g.learned]
  BY <1>4, NbSet
<1> QED
  BY <1>2, <1>4, <1>5, Zenon
LEMMA SbSet ==
    ASSUME NEW r, NEW e,
           r = [port |-> r.port, remote |-> r.remote, chassis |-> r.chassis, at |-> r.at]
    PROVE  /\ [r EXCEPT !.port = e] =
                [port |-> e, remote |-> r.remote, chassis |-> r.chassis, at |-> r.at]
           /\ [r EXCEPT !.remote = e] =
                [port |-> r.port, remote |-> e, chassis |-> r.chassis, at |-> r.at]
           /\ [r EXCEPT !.chassis = e] =
                [port |-> r.port, remote |-> r.remote, chassis |-> e, at |-> r.at]
           /\ [r EXCEPT !.at = e] =
                [port |-> r.port, remote |-> r.remote, chassis |-> r.chassis, at |-> e]
  OBVIOUS
\* The fields of a port binding, and of a configuration.
LEMMA PbFields ==
    ASSUME NEW e, NEW f, NEW r, r = [key |-> e, gw |-> f]
    PROVE  r.key = e /\ r.gw = f /\ r = [key |-> r.key, gw |-> r.gw]
  OBVIOUS
LEMMA CfgFields ==
    ASSUME NEW e, NEW f, NEW g, NEW h, NEW r,
           r = [port |-> e, gw |-> f, bound |-> g, routes |-> h], g => f # 0
    PROVE  r.port = e /\ r.gw = f /\ r.bound = g /\ r.routes = h /\ IsCfg(r)
<1>1. r.port = e /\ r.gw = f /\ r.bound = g /\ r.routes = h
  OBVIOUS
<1> QED
  BY <1>1, Zenon DEF IsCfg

\* What gateway_run() leaves in SB, and northd.
LEMMA GatewayRunSb ==
    ASSUME NEW a, NEW sb, IsSb(sb)
    PROVE  gateway_run_sb(a, sb) =
             [port |-> sb.port, remote |-> sb.remote,
              chassis |-> [b \in Others(a) |-> ipisb[b].gw], at |-> {b \in sb.at : ipisb[b].gw # 0}]
<1>1. PICK e : e = [b \in Others(a) |-> ipisb[b].gw]
  OBVIOUS
<1>2. PICK s : s = [sb EXCEPT !.chassis = e]
  OBVIOUS
<1>3. s = [port |-> sb.port, remote |-> sb.remote, chassis |-> e, at |-> sb.at]
  BY <1>2, SbSet, Zenon DEF IsSb
<1>4. s.at = sb.at /\ IsSb(s) /\ s.port = sb.port /\ s.remote = sb.remote /\ s.chassis = e
  BY <1>3 DEF IsSb
<1>5. PICK f : f = {b \in sb.at : ipisb[b].gw # 0}
  OBVIOUS
<1>6. gateway_run_sb(a, sb) = [s EXCEPT !.at = f]
  BY <1>1, <1>2, <1>4, <1>5, Zenon DEF gateway_run_sb
<1>7. [s EXCEPT !.at = f] = [port |-> s.port, remote |-> s.remote, chassis |-> s.chassis, at |-> f]
  BY <1>4, SbSet, Zenon DEF IsSb
<1> QED
  BY <1>1, <1>4, <1>5, <1>6, <1>7, Zenon

LEMMA PortsInSbIs ==
    ASSUME NEW a, IsSb(ipsb[a])
    PROVE  PortsInSb(a) =
             [port |-> ipcfg[a].port, remote |-> {b \in Others(a) : ipnb[a].remote[b] # 0},
              chassis |-> ipsb[a].chassis, at |-> {b \in ipsb[a].at : ipnb[a].remote[b] # 0}]
<1>1. PICK e : e = ipcfg[a].port
  OBVIOUS
<1>2. PICK r : r = {b \in Others(a) : ipnb[a].remote[b] # 0}
  OBVIOUS
<1>3. PICK f : f = {b \in ipsb[a].at : ipnb[a].remote[b] # 0}
  OBVIOUS
<1>4. PICK s : s = [ipsb[a] EXCEPT !.port = e]
  OBVIOUS
<1>5. PICK t : t = [s EXCEPT !.remote = r]
  OBVIOUS
<1>6. s = [port |-> e, remote |-> ipsb[a].remote, chassis |-> ipsb[a].chassis, at |-> ipsb[a].at]
  BY <1>4, SbSet, Zenon DEF IsSb
<1>7. IsSb(s) /\ s.port = e /\ s.chassis = ipsb[a].chassis /\ s.at = ipsb[a].at
  BY <1>6 DEF IsSb
<1>8. t = [port |-> s.port, remote |-> r, chassis |-> s.chassis, at |-> s.at]
  BY <1>5, <1>7, SbSet, Zenon DEF IsSb
<1>9. IsSb(t) /\ t.port = e /\ t.remote = r /\ t.chassis = ipsb[a].chassis /\ t.at = ipsb[a].at
  BY <1>7, <1>8 DEF IsSb
<1>10. PortsInSb(a) = [t EXCEPT !.at = f]
  BY <1>1, <1>2, <1>3, <1>4, <1>5, <1>7, <1>9, Zenon DEF PortsInSb
<1>11. [t EXCEPT !.at = f] = [port |-> t.port, remote |-> t.remote, chassis |-> t.chassis, at |-> f]
  BY <1>9, SbSet, Zenon DEF IsSb
<1> QED
  BY <1>1, <1>2, <1>3, <1>9, <1>10, <1>11, Zenon

\* What port_binding_run() leaves in SB and in NB.
LEMMA PortRunSb ==
    ASSUME NEW a, NEW sb, IsSb(sb)
    PROVE  sync_remote_port(a, sb) =
             [port |-> sb.port, remote |-> sb.remote, chassis |-> sb.chassis,
              at |-> (sb.at \ {b \in Synced(a, sb) : ~ipisb[b].pb.gw})
                     \cup {b \in Synced(a, sb) : ipisb[b].pb.gw /\ sb.chassis[b] # 0}]
<1>1. PICK f : f = (sb.at \ {b \in Synced(a, sb) : ~ipisb[b].pb.gw})
                   \cup {b \in Synced(a, sb) : ipisb[b].pb.gw /\ sb.chassis[b] # 0}
  OBVIOUS
<1>2. sync_remote_port(a, sb) = [sb EXCEPT !.at = f]
  BY <1>1, Zenon DEF sync_remote_port
<1> QED
  BY <1>1, <1>2, SbSet, Zenon DEF IsSb

LEMMA PortRunNb ==
    ASSUME NEW a, NEW nb, IsNb(nb)
    PROVE  \E k : port_binding_run_nb(a, nb) =
             [mykey |-> k, remote |-> [b \in Others(a) |-> ipisb[b].pb.key], learned |-> nb.learned]
<1>1. PICK k : k = IF IsLocal(a) /\ ipisb[a].pb # NoPort THEN ipisb[a].pb.key ELSE nb.mykey
  OBVIOUS
<1>2. PICK f : f = [b \in Others(a) |-> ipisb[b].pb.key]
  OBVIOUS
<1>3. port_binding_run_nb(a, nb) = [nb EXCEPT !.mykey = k, !.remote = f]
  BY <1>1, <1>2, Zenon DEF port_binding_run_nb
<1>4. port_binding_run_nb(a, nb) = [mykey |-> k, remote |-> f, learned |-> nb.learned]
  BY <1>3, NbBothSet, Zenon DEF IsNb
<1> QED
  BY <1>2, <1>4, Zenon

\* The ISB rows that each function makes of those of its zone.
LEMMA GatewayRunIsb ==
    ASSUME NEW a, NEW rows, IsRows(rows), NEW res, res = gateway_run_isb(a, rows)
    PROVE  IsRows(res) /\ res.gw = ipcfg[a].gw /\ res.pb = rows.pb /\ res.routes = rows.routes
<1>1. res = [gw |-> ipcfg[a].gw, pb |-> rows.pb, routes |-> rows.routes]
  BY RowsSet, Zenon DEF IsRows, gateway_run_isb
<1>2. /\ res.gw = ipcfg[a].gw /\ res.pb = rows.pb /\ res.routes = rows.routes
      /\ res = [gw |-> res.gw, pb |-> res.pb, routes |-> res.routes]
  BY <1>1
<1> QED
  BY <1>2, Zenon DEF IsRows

LEMMA PortRunIsb ==
    ASSUME EnoughKeys, NEW a \in Zones, NEW rows, IsRows(rows), rows.pb = ipisb[a].pb,
           NEW res, res = port_binding_run_isb(a, rows)
    PROVE  /\ IsRows(res) /\ res.gw = rows.gw /\ res.routes = rows.routes
           /\ ~IsLocal(a) => res.pb = NoPort
           /\ IsLocal(a) => res.pb # NoPort /\ res.pb.gw = ipcfg[a].bound
<1>1. PICK pb : pb = IF ~IsLocal(a) THEN NoPort
                     ELSE IF rows.pb = NoPort THEN create_isb_pb(a)
                     ELSE sync_local_port(a, rows.pb)
  OBVIOUS
<1>2. res = [rows EXCEPT !.pb = pb]
  BY <1>1, Zenon DEF port_binding_run_isb
<1>3. res = [gw |-> rows.gw, pb |-> pb, routes |-> rows.routes]
  BY <1>2, RowsSet, Zenon DEF IsRows
<1>4. /\ res.gw = rows.gw /\ res.pb = pb /\ res.routes = rows.routes
      /\ res = [gw |-> res.gw, pb |-> res.pb, routes |-> res.routes]
  BY <1>3
<1>5. NoPort.key = 0 /\ IsPb(NoPort)
  BY DEF NoPort, IsPb
<1>6. ASSUME IsLocal(a)
      PROVE  pb = [key |-> pb.key, gw |-> pb.gw] /\ pb.key # 0 /\ pb.gw = ipcfg[a].bound
  <2>1. CASE rows.pb = NoPort
    <3>1. pb = [key |-> allocate_port_key, gw |-> ipcfg[a].bound]
      BY <1>1, <1>6, <2>1, Zenon DEF create_isb_pb
    <3>2. ipisb[a].pb.key = 0
      BY <1>5, <2>1, Zenon
    <3>3. allocate_port_key # 0
      BY <3>2, KeyAllocated DEF EnoughKeys
    <3> QED
      BY <3>1, <3>3, PbFields, Zenon
  <2>2. CASE rows.pb # NoPort
    <3>1. pb = [key |-> rows.pb.key, gw |-> ipcfg[a].bound]
      BY <1>1, <1>6, <2>2, PbSet, Zenon DEF sync_local_port, IsRows, IsPb
    <3>2. rows.pb.key # 0
      BY <2>2, Zenon DEF IsRows, IsPb
    <3> QED
      BY <3>1, <3>2, PbFields, Zenon
  <2> QED
    BY <2>1, <2>2
<1>7. ~IsLocal(a) => pb = NoPort
  BY <1>1, Zenon
<1>8. IsPb(pb) /\ (IsLocal(a) => pb # NoPort)
  BY <1>5, <1>6, <1>7, Zenon DEF IsPb
<1> QED
  BY <1>4, <1>6, <1>7, <1>8, Zenon DEF IsRows

LEMMA OrphanRoutes ==
    ASSUME NEW a, NEW rows, IsRows(rows), NEW res, res = delete_orphan_ic_routes(a, rows)
    PROVE  /\ IsRows(res) /\ res.gw = rows.gw
           /\ ipcfg[a].port => res = rows
           /\ ~ipcfg[a].port => res.pb = NoPort /\ res.routes = {}
<1>1. CASE ipcfg[a].port
  BY <1>1, Zenon DEF delete_orphan_ic_routes
<1>2. CASE ~ipcfg[a].port
  <2>1. PICK r : r = [rows EXCEPT !.pb = NoPort]
    OBVIOUS
  <2>2. res = [r EXCEPT !.routes = {}]
    BY <1>2, <2>1, Zenon DEF delete_orphan_ic_routes
  <2>3. r = [gw |-> rows.gw, pb |-> NoPort, routes |-> rows.routes]
    BY <2>1, RowsSet, Zenon DEF IsRows
  <2>4. r.gw = rows.gw /\ r.pb = NoPort /\ r = [gw |-> r.gw, pb |-> r.pb, routes |-> r.routes]
    BY <2>3
  <2>5. res = [gw |-> rows.gw, pb |-> NoPort, routes |-> {}]
    BY <2>2, <2>4, RowsSet, Zenon
  <2>6. /\ res.gw = rows.gw /\ res.pb = NoPort /\ res.routes = {}
        /\ res = [gw |-> res.gw, pb |-> res.pb, routes |-> res.routes]
    BY <2>5
  <2>7. IsPb(NoPort)
    BY DEF NoPort, IsPb
  <2> QED
    BY <1>2, <2>6, <2>7, Zenon DEF IsRows
<1> QED
  BY <1>1, <1>2

LEMMA AdvertisedRoutes ==
    ASSUME NEW a, NEW rows, IsRows(rows), NEW res, res = advertise_routes(a, rows)
    PROVE  /\ IsRows(res) /\ res.gw = rows.gw /\ res.pb = rows.pb
           /\ rows.pb = NoPort => res.routes = rows.routes
           /\ rows.pb # NoPort => res.routes = ipcfg[a].routes
<1>1. CASE rows.pb = NoPort
  BY <1>1, Zenon DEF advertise_routes
<1>2. CASE rows.pb # NoPort
  <2>1. res = [gw |-> rows.gw, pb |-> rows.pb, routes |-> ipcfg[a].routes]
    BY <1>2, RowsSet, Zenon DEF advertise_routes, IsRows
  <2>2. /\ res.gw = rows.gw /\ res.pb = rows.pb /\ res.routes = ipcfg[a].routes
        /\ res = [gw |-> res.gw, pb |-> res.pb, routes |-> res.routes]
    BY <2>1
  <2> QED
    BY <1>2, <2>2, Zenon DEF IsRows
<1> QED
  BY <1>1, <1>2

\* The routes a zone learns.
LEMMA LearnedRoutes ==
    ASSUME NEW a, NEW nb, IsNb(nb), NEW rows, NEW res, res = sync_learned_routes(a, nb, rows)
    PROVE  /\ IsNb(res) /\ res.remote = nb.remote
           /\ rows.pb # NoPort =>
                res.learned = {r \in OnSwitch(a, rows) : route_need_learn(a, r)}
<1>1. CASE rows.pb = NoPort
  BY <1>1, Zenon DEF sync_learned_routes
<1>2. CASE rows.pb # NoPort
  <2>1. PICK l : l = {r \in OnSwitch(a, rows) : route_need_learn(a, r)}
    OBVIOUS
  <2>2. res = [mykey |-> nb.mykey, remote |-> nb.remote, learned |-> l]
    BY <1>2, <2>1, NbSet, Zenon DEF sync_learned_routes, IsNb
  <2>3. res.remote = nb.remote /\ res.learned = l /\ IsNb(res)
    BY <2>2 DEF IsNb
  <2> QED
    BY <2>1, <2>3, Zenon
<1> QED
  BY <1>1, <1>2

\* Whatever transactions an iteration lacks, it leaves rows of the right shape.
LEMMA RunShape ==
    ASSUME EnoughKeys, NEW a \in Zones, IpZone(a), NEW busy,
           NEW run, run = ovn_db_run(a, busy)
    PROVE  IsRows(run.isb) /\ IsNb(run.nb) /\ IsSb(run.sb)
<1>1. PICK r1 : r1 = IF "sb" \notin busy THEN gateway_run_isb(a, ipisb[a]) ELSE ipisb[a]
  OBVIOUS
<1>2. PICK s1 : s1 = IF "sb" \notin busy THEN gateway_run_sb(a, ipsb[a]) ELSE ipsb[a]
  OBVIOUS
<1>3. PICK r2 : r2 = IF busy = {} THEN port_binding_run_isb(a, r1) ELSE r1
  OBVIOUS
<1>4. PICK n2 : n2 = IF busy = {} THEN port_binding_run_nb(a, ipnb[a]) ELSE ipnb[a]
  OBVIOUS
<1>5. PICK s2 : s2 = IF busy = {} THEN sync_remote_port(a, s1) ELSE s1
  OBVIOUS
<1>6. PICK r3 : r3 = IF "nb" \notin busy THEN delete_orphan_ic_routes(a, r2) ELSE r2
  OBVIOUS
<1>7. PICK n3 : n3 = IF "nb" \notin busy THEN sync_learned_routes(a, n2, r3) ELSE n2
  OBVIOUS
<1>8. PICK r4 : r4 = IF "nb" \notin busy THEN advertise_routes(a, r3) ELSE r3
  OBVIOUS
<1>9. run = [isb |-> r4, nb |-> n3, sb |-> s2]
  BY <1>1, <1>2, <1>3, <1>4, <1>5, <1>6, <1>7, <1>8, Zenon DEF ovn_db_run
<1>10. IsRows(r1) /\ r1.pb = ipisb[a].pb
  BY <1>1, GatewayRunIsb DEF IpZone
<1>11. IsRows(r2)
  BY <1>3, <1>10, PortRunIsb, Zenon
<1>12. IsRows(r3)
  BY <1>6, <1>11, OrphanRoutes, Zenon
<1>13. IsRows(r4)
  BY <1>8, <1>12, AdvertisedRoutes, Zenon
<1>14. IsSb(s1)
  <2>1. ASSUME NEW sb, IsSb(sb), NEW res, res = gateway_run_sb(a, sb) PROVE IsSb(res)
    BY <2>1, GatewayRunSb DEF IsSb
  <2> QED
    BY <1>2, <2>1, Zenon DEF IpZone
<1>15. IsSb(s2)
  <2>1. ASSUME NEW sb, IsSb(sb), NEW res, res = sync_remote_port(a, sb) PROVE IsSb(res)
    <3>1. PICK f : res = [port |-> sb.port, remote |-> sb.remote, chassis |-> sb.chassis, at |-> f]
      BY <2>1, PortRunSb, Zenon
    <3> QED
      BY <3>1 DEF IsSb
  <2> QED
    BY <1>5, <1>14, <2>1, Zenon
<1>16. IsNb(n2)
  <2>1. ASSUME NEW nb, IsNb(nb), NEW res, res = port_binding_run_nb(a, nb) PROVE IsNb(res)
    <3>1. PICK f : f = [b \in Others(a) |-> ipisb[b].pb.key]
      OBVIOUS
    <3>2. PICK k : res = [mykey |-> k, remote |-> f, learned |-> nb.learned]
      BY <2>1, <3>1, PortRunNb, Zenon
    <3> QED
      BY <3>2 DEF IsNb
  <2> QED
    BY <1>4, <2>1, Zenon DEF IpZone
<1>17. IsNb(n3)
  BY <1>7, <1>16, LearnedRoutes
<1>18. run.isb = r4 /\ run.nb = n3 /\ run.sb = s2
  BY <1>9
<1> QED
  BY <1>13, <1>15, <1>17, <1>18, Zenon

\* What an iteration with all its transactions does: the rows of the own zone,
\* the ports and routes of the others in NB, their chassis and where their
\* ports are in SB.
Outcome(a, rows, nb, sb) ==
    /\ rows.gw = ipcfg[a].gw
    /\ IsLocal(a) => /\ rows.pb # NoPort /\ rows.pb.gw = ipcfg[a].bound
                     /\ rows.routes = ipcfg[a].routes
                     /\ \E own : nb.learned = {r \in OnSwitch(a, own) : route_need_learn(a, r)}
    /\ ~ipcfg[a].port => rows.pb = NoPort /\ rows.routes = {}
    /\ nb.remote = [b \in Others(a) |-> ipisb[b].pb.key]
    /\ sb.chassis = [b \in Others(a) |-> ipisb[b].gw]
    /\ \A b : b \in sb.at <=>
           \/ b \in ipsb[a].at /\ ipisb[b].gw # 0 /\ (b \in Synced(a, ipsb[a]) => ipisb[b].pb.gw)
           \/ b \in Synced(a, ipsb[a]) /\ ipisb[b].pb.gw /\ sb.chassis[b] # 0

LEMMA RunWhole ==
    ASSUME EnoughKeys, NEW a \in Zones, IpZone(a), NEW run, run = ovn_db_run(a, {})
    PROVE  Outcome(a, run.isb, run.nb, run.sb)
<1>1. PICK r1 : r1 = gateway_run_isb(a, ipisb[a])
  OBVIOUS
<1>2. PICK s1 : s1 = gateway_run_sb(a, ipsb[a])
  OBVIOUS
<1>3. PICK r2 : r2 = port_binding_run_isb(a, r1)
  OBVIOUS
<1>4. PICK n2 : n2 = port_binding_run_nb(a, ipnb[a])
  OBVIOUS
<1>5. PICK s2 : s2 = sync_remote_port(a, s1)
  OBVIOUS
<1>6. PICK r3 : r3 = delete_orphan_ic_routes(a, r2)
  OBVIOUS
<1>7. PICK n3 : n3 = sync_learned_routes(a, n2, r3)
  OBVIOUS
<1>8. PICK r4 : r4 = advertise_routes(a, r3)
  OBVIOUS
<1>9. run = [isb |-> r4, nb |-> n3, sb |-> s2]
  BY <1>1, <1>2, <1>3, <1>4, <1>5, <1>6, <1>7, <1>8, Zenon DEF ovn_db_run
<1>10. run.isb = r4 /\ run.nb = n3 /\ run.sb = s2
  BY <1>9
<1>11. IsRows(r1) /\ r1.pb = ipisb[a].pb /\ r1.gw = ipcfg[a].gw
  BY <1>1, GatewayRunIsb DEF IpZone
<1>12. /\ IsRows(r2) /\ r2.gw = ipcfg[a].gw
       /\ ~IsLocal(a) => r2.pb = NoPort
       /\ IsLocal(a) => r2.pb # NoPort /\ r2.pb.gw = ipcfg[a].bound
  BY <1>3, <1>11, PortRunIsb
<1>13. /\ IsRows(r3) /\ r3.gw = ipcfg[a].gw
       /\ ipcfg[a].port => r3 = r2
       /\ ~ipcfg[a].port => r3.pb = NoPort /\ r3.routes = {}
  BY <1>6, <1>12, OrphanRoutes
<1>14. /\ r4.gw = ipcfg[a].gw /\ r4.pb = r3.pb
       /\ r3.pb = NoPort => r4.routes = r3.routes
       /\ r3.pb # NoPort => r4.routes = ipcfg[a].routes
  BY <1>8, <1>13, AdvertisedRoutes
<1>15. PICK k : n2 = [mykey |-> k, remote |-> [b \in Others(a) |-> ipisb[b].pb.key],
                      learned |-> ipnb[a].learned]
  BY <1>4, PortRunNb, Zenon DEF IpZone
<1>16. IsNb(n2) /\ n2.remote = [b \in Others(a) |-> ipisb[b].pb.key]
  <2>1. PICK f : f = [b \in Others(a) |-> ipisb[b].pb.key]
    OBVIOUS
  <2>2. n2 = [mykey |-> k, remote |-> f, learned |-> ipnb[a].learned]
    BY <1>15, <2>1, Zenon
  <2>3. IsNb(n2) /\ n2.remote = f
    BY <2>2 DEF IsNb
  <2> QED
    BY <2>1, <2>3, Zenon
<1>17. /\ n3.remote = [b \in Others(a) |-> ipisb[b].pb.key]
       /\ r3.pb # NoPort => n3.learned = {r \in OnSwitch(a, r3) : route_need_learn(a, r)}
  BY <1>7, <1>16, LearnedRoutes
<1>18. PICK e : e = [b \in Others(a) |-> ipisb[b].gw]
  OBVIOUS
<1>19. PICK A : A = {b \in ipsb[a].at : ipisb[b].gw # 0}
  OBVIOUS
<1>20. s1 = [port |-> ipsb[a].port, remote |-> ipsb[a].remote, chassis |-> e, at |-> A]
  BY <1>2, <1>18, <1>19, GatewayRunSb, Zenon DEF IpZone
<1>21. IsSb(s1) /\ s1.remote = ipsb[a].remote /\ s1.chassis = e /\ s1.at = A
  BY <1>20 DEF IsSb
<1>22. Synced(a, s1) = Synced(a, ipsb[a])
  BY <1>21, Zenon DEF Synced
<1>23. PICK f : f = (A \ {b \in Synced(a, ipsb[a]) : ~ipisb[b].pb.gw})
                    \cup {b \in Synced(a, ipsb[a]) : ipisb[b].pb.gw /\ e[b] # 0}
  OBVIOUS
<1>24. s2 = [port |-> s1.port, remote |-> s1.remote, chassis |-> s1.chassis, at |-> f]
  <2>1. sync_remote_port(a, s1) =
          [port |-> s1.port, remote |-> s1.remote, chassis |-> s1.chassis,
           at |-> (s1.at \ {b \in Synced(a, s1) : ~ipisb[b].pb.gw})
                  \cup {b \in Synced(a, s1) : ipisb[b].pb.gw /\ s1.chassis[b] # 0}]
    BY <1>21, PortRunSb, Zenon
  <2>2. f = (s1.at \ {b \in Synced(a, s1) : ~ipisb[b].pb.gw})
            \cup {b \in Synced(a, s1) : ipisb[b].pb.gw /\ s1.chassis[b] # 0}
    BY <1>21, <1>22, <1>23, Zenon
  <2> QED
    BY <1>5, <2>1, <2>2, Zenon
<1>25. s2.chassis = e /\ s2.at = f
  BY <1>21, <1>24
<1>26. IsLocal(a) => ipcfg[a].port
  BY Zenon DEF IsLocal
<1>27. run.isb.gw = ipcfg[a].gw /\ run.nb.remote = [b \in Others(a) |-> ipisb[b].pb.key]
  BY <1>10, <1>14, <1>17, Zenon
<1>28. run.sb.chassis = [b \in Others(a) |-> ipisb[b].gw]
  BY <1>10, <1>18, <1>25, Zenon
<1>29. ASSUME NEW b
       PROVE  b \in run.sb.at <=>
                \/ b \in ipsb[a].at /\ ipisb[b].gw # 0 /\ (b \in Synced(a, ipsb[a]) => ipisb[b].pb.gw)
                \/ b \in Synced(a, ipsb[a]) /\ ipisb[b].pb.gw /\ run.sb.chassis[b] # 0
  BY <1>10, <1>19, <1>23, <1>25, Zenon
<1>30. ~ipcfg[a].port => run.isb.pb = NoPort /\ run.isb.routes = {}
  BY <1>10, <1>13, <1>14, Zenon
<1>31. IsLocal(a) => /\ run.isb.pb # NoPort /\ run.isb.pb.gw = ipcfg[a].bound
                     /\ run.isb.routes = ipcfg[a].routes
                     /\ run.nb.learned = {r \in OnSwitch(a, r3) : route_need_learn(a, r)}
  BY <1>10, <1>12, <1>13, <1>14, <1>17, <1>26, Zenon
<1> QED
  BY <1>27, <1>28, <1>30, <1>31, <1>29, Zenon DEF Outcome

\* At first nothing has been written anywhere.
LEMMA IpInitially == IcPortsInit => IpInv
<1> SUFFICES ASSUME IcPortsInit PROVE IpInv
  OBVIOUS
<1>1. IpShape
  BY DEF IcPortsInit, IpShape
<1>2. ASSUME NEW a \in Zones PROVE IpZone(a)
  <2>1. ipcfg[a] = [port |-> TRUE, gw |-> 1, bound |-> TRUE, routes |-> {}] /\ iptxn[a] = {}
    BY <1>2, Zenon DEF IcPortsInit
  <2>2. IsCfg(ipcfg[a])
    BY <2>1, CfgFields
  <2>3. PICK e : ipnb[a] = [mykey |-> 0, remote |-> e, learned |-> {}]
    BY <1>2, Zenon DEF IcPortsInit
  <2>4. IsNb(ipnb[a])
    BY <2>3 DEF IsNb
  <2>5. PICK f : ipsb[a] = [port |-> FALSE, remote |-> {}, chassis |-> f, at |-> {}]
    BY <1>2, Zenon DEF IcPortsInit
  <2>6. IsSb(ipsb[a])
    BY <2>5 DEF IsSb
  <2>7. ipisb[a] = [gw |-> 0, pb |-> NoPort, routes |-> {}]
    BY <1>2, Zenon DEF IcPortsInit
  <2>8. IsPb(NoPort)
    BY DEF NoPort, IsPb
  <2>9. ipisb[a].pb = NoPort /\ ipisb[a] = [gw |-> ipisb[a].gw, pb |-> ipisb[a].pb, routes |-> ipisb[a].routes]
    BY <2>7
  <2>10. IsRows(ipisb[a])
    BY <2>8, <2>9, Zenon DEF IsRows
  <2> QED
    BY <2>1, <2>2, <2>4, <2>6, <2>10, Zenon DEF IpZone
<1> QED
  BY <1>1, <1>2 DEF IpInv

\* A function whose value at one zone is replaced.
LEMMA ZoneSet ==
    ASSUME NEW f, NEW g, NEW a \in Zones, NEW v, f = [b \in Zones |-> f[b]], g = [f EXCEPT ![a] = v]
    PROVE  g = [b \in Zones |-> g[b]] /\ g[a] = v /\ \A b \in Zones : b # a => g[b] = f[b]
  OBVIOUS

\* An iteration of the ovn-ic of a zone.
LEMMA IpIterates ==
    ASSUME EnoughKeys, IpInv, NEW a \in Zones, NEW busy, NEW failed, IpIteration(a, busy, failed)
    PROVE  IpInv'
<1>1. PICK run : run = ovn_db_run(a, busy)
  OBVIOUS
<1>2. IsRows(run.isb) /\ IsNb(run.nb) /\ IsSb(run.sb)
  BY <1>1, RunShape, Zenon DEF IpInv
<1>3. /\ iptxn' = IF run.isb # ipisb[a] THEN [iptxn EXCEPT ![a] = {run.isb}] ELSE iptxn
      /\ ipnb' = IF "nb" \in busy \cup failed THEN ipnb ELSE [ipnb EXCEPT ![a] = run.nb]
      /\ ipsb' = IF "sb" \in busy \cup failed THEN ipsb ELSE [ipsb EXCEPT ![a] = run.sb]
      /\ UNCHANGED <<ipcfg, ipisb>>
  BY <1>1, Zenon DEF IpIteration
<1>4. iptxn' = [b \in Zones |-> iptxn'[b]] /\ \A b \in Zones : \A rows \in iptxn'[b] : IsRows(rows)
  <2>1. CASE iptxn' = iptxn
    BY <2>1, Zenon DEF IpInv, IpShape, IpZone
  <2>2. CASE iptxn' = [iptxn EXCEPT ![a] = {run.isb}]
    <3>1. /\ iptxn' = [b \in Zones |-> iptxn'[b]] /\ iptxn'[a] = {run.isb}
          /\ \A b \in Zones : b # a => iptxn'[b] = iptxn[b]
      BY <2>2, ZoneSet DEF IpInv, IpShape
    <3>2. \A rows \in iptxn'[a] : IsRows(rows)
      BY <1>2, <3>1, Zenon
    <3>3. \A b \in Zones : \A rows \in iptxn[b] : IsRows(rows)
      BY Zenon DEF IpInv, IpZone
    <3> QED
      BY <3>1, <3>2, <3>3, Zenon
  <2> QED
    BY <1>3, <2>1, <2>2, Zenon
<1>5. ipnb' = [b \in Zones |-> ipnb'[b]] /\ \A b \in Zones : IsNb(ipnb'[b])
  <2>1. CASE ipnb' = ipnb
    BY <2>1, Zenon DEF IpInv, IpShape, IpZone
  <2>2. CASE ipnb' = [ipnb EXCEPT ![a] = run.nb]
    <3>1. /\ ipnb' = [b \in Zones |-> ipnb'[b]] /\ ipnb'[a] = run.nb
          /\ \A b \in Zones : b # a => ipnb'[b] = ipnb[b]
      BY <2>2, ZoneSet DEF IpInv, IpShape
    <3>2. \A b \in Zones : IsNb(ipnb[b])
      BY Zenon DEF IpInv, IpZone
    <3> QED
      BY <1>2, <3>1, <3>2, Zenon
  <2> QED
    BY <1>3, <2>1, <2>2, Zenon
<1>6. ipsb' = [b \in Zones |-> ipsb'[b]] /\ \A b \in Zones : IsSb(ipsb'[b])
  <2>1. CASE ipsb' = ipsb
    BY <2>1, Zenon DEF IpInv, IpShape, IpZone
  <2>2. CASE ipsb' = [ipsb EXCEPT ![a] = run.sb]
    <3>1. /\ ipsb' = [b \in Zones |-> ipsb'[b]] /\ ipsb'[a] = run.sb
          /\ \A b \in Zones : b # a => ipsb'[b] = ipsb[b]
      BY <2>2, ZoneSet DEF IpInv, IpShape
    <3>2. \A b \in Zones : IsSb(ipsb[b])
      BY Zenon DEF IpInv, IpZone
    <3> QED
      BY <1>2, <3>1, <3>2, Zenon
  <2> QED
    BY <1>3, <2>1, <2>2, Zenon
<1>7. IpShape'
  BY <1>3, <1>4, <1>5, <1>6, Zenon DEF IpInv, IpShape
<1>8. \A b \in Zones : IpZone(b)'
  BY <1>3, <1>4, <1>5, <1>6, Zenon DEF IpInv, IpZone
<1> QED
  BY <1>7, <1>8, Zenon DEF IpInv

\* The answer of ISB to a transaction.
LEMMA IpAnswers == ASSUME IpInv, NEW a \in Zones, IsbAnswer(a) PROVE IpInv'
<1>1. iptxn' = [iptxn EXCEPT ![a] = {}] /\ UNCHANGED <<ipcfg, ipnb, ipsb>>
  BY Zenon DEF IsbAnswer
<1>2. /\ iptxn' = [b \in Zones |-> iptxn'[b]] /\ iptxn'[a] = {}
      /\ \A b \in Zones : b # a => iptxn'[b] = iptxn[b]
  BY <1>1, ZoneSet DEF IpInv, IpShape
<1>3. \A b \in Zones : \A rows \in iptxn[b] : IsRows(rows)
  BY Zenon DEF IpInv, IpZone
<1>4. \A b \in Zones : \A rows \in iptxn'[b] : IsRows(rows)
  BY <1>2, <1>3, Zenon
<1>5. ipisb' = [b \in Zones |-> ipisb'[b]] /\ \A b \in Zones : IsRows(ipisb'[b])
  <2>1. CASE ipisb' = ipisb
    BY <2>1, Zenon DEF IpInv, IpShape, IpZone
  <2>2. ASSUME NEW rows \in iptxn[a], ipisb' = [ipisb EXCEPT ![a] = rows]
        PROVE  ipisb' = [b \in Zones |-> ipisb'[b]] /\ \A b \in Zones : IsRows(ipisb'[b])
    <3>1. /\ ipisb' = [b \in Zones |-> ipisb'[b]] /\ ipisb'[a] = rows
          /\ \A b \in Zones : b # a => ipisb'[b] = ipisb[b]
      BY <2>2, ZoneSet DEF IpInv, IpShape
    <3>2. \A b \in Zones : IsRows(ipisb[b])
      BY Zenon DEF IpInv, IpZone
    <3> QED
      BY <1>3, <3>1, <3>2, Zenon
  <2> QED
    BY <2>1, <2>2, Zenon DEF IsbAnswer
<1>6. IpShape'
  BY <1>1, <1>2, <1>5, Zenon DEF IpInv, IpShape
<1>7. \A b \in Zones : IpZone(b)'
  BY <1>1, <1>4, <1>5, Zenon DEF IpInv, IpZone
<1> QED
  BY <1>6, <1>7, Zenon DEF IpInv

\* northd brings the ports to SB.
LEMMA IpPorts == ASSUME IpInv, NEW a \in Zones, Northd(a) PROVE IpInv'
<1>1. ipsb' = [ipsb EXCEPT ![a] = PortsInSb(a)] /\ UNCHANGED <<ipcfg, ipnb, ipisb, iptxn>>
  BY Zenon DEF Northd
<1>2. PICK s : s = PortsInSb(a)
  OBVIOUS
<1>3. IsSb(s)
  <2>1. PICK e, r, f : s = [port |-> e, remote |-> r, chassis |-> ipsb[a].chassis, at |-> f]
    BY <1>2, PortsInSbIs, Zenon DEF IpInv, IpZone
  <2> QED
    BY <2>1 DEF IsSb
<1>4. /\ ipsb' = [b \in Zones |-> ipsb'[b]] /\ ipsb'[a] = s
      /\ \A b \in Zones : b # a => ipsb'[b] = ipsb[b]
  BY <1>1, <1>2, ZoneSet DEF IpInv, IpShape
<1>5. \A b \in Zones : IsSb(ipsb[b])
  BY Zenon DEF IpInv, IpZone
<1>6. \A b \in Zones : IsSb(ipsb'[b])
  BY <1>3, <1>4, <1>5, Zenon
<1>7. IpShape'
  BY <1>1, <1>4, Zenon DEF IpInv, IpShape
<1>8. \A b \in Zones : IpZone(b)'
  BY <1>1, <1>6, Zenon DEF IpInv, IpZone
<1> QED
  BY <1>7, <1>8, Zenon DEF IpInv

\* A change of the configuration.
LEMMA CfgSet ==
    ASSUME NEW r, NEW e, r = [port |-> r.port, gw |-> r.gw, bound |-> r.bound, routes |-> r.routes]
    PROVE  /\ [r EXCEPT !.port = e] = [port |-> e, gw |-> r.gw, bound |-> r.bound, routes |-> r.routes]
           /\ [r EXCEPT !.gw = e] = [port |-> r.port, gw |-> e, bound |-> r.bound, routes |-> r.routes]
           /\ [r EXCEPT !.bound = e] = [port |-> r.port, gw |-> r.gw, bound |-> e, routes |-> r.routes]
           /\ [r EXCEPT !.routes = e] = [port |-> r.port, gw |-> r.gw, bound |-> r.bound, routes |-> e]
  OBVIOUS
LEMMA GatewaySet ==
    ASSUME IpInv, NEW a \in Zones, NEW g, NEW e, e => g # 0,
           ipcfg' = [ipcfg EXCEPT ![a].gw = g, ![a].bound = e]
    PROVE  \E c : IsCfg(c) /\ ipcfg' = [ipcfg EXCEPT ![a] = c]
<1>1. PICK c0 : c0 = ipcfg[a]
  OBVIOUS
<1>2. /\ ipcfg = [b \in Zones |-> ipcfg[b]]
      /\ c0 = [port |-> c0.port, gw |-> c0.gw, bound |-> c0.bound, routes |-> c0.routes]
  BY <1>1, Zenon DEF IpInv, IpShape, IpZone, IsCfg
<1>3. PICK c1 : c1 = [c0 EXCEPT !.gw = g]
  OBVIOUS
<1>4. PICK c : c = [c1 EXCEPT !.bound = e]
  OBVIOUS
<1>5. c1 = [port |-> c0.port, gw |-> g, bound |-> c0.bound, routes |-> c0.routes]
  BY <1>2, <1>3, CfgSet
<1>6. /\ c1 = [port |-> c1.port, gw |-> c1.gw, bound |-> c1.bound, routes |-> c1.routes]
      /\ c1.port = c0.port /\ c1.gw = g /\ c1.routes = c0.routes
  BY <1>5
<1>7. c = [port |-> c0.port, gw |-> g, bound |-> e, routes |-> c0.routes]
  BY <1>4, <1>6, CfgSet
<1>8. IsCfg(c)
  BY <1>7, CfgFields
<1>9. PICK h : h = [ipcfg EXCEPT ![a] = c1]
  OBVIOUS
<1>10. h = [b \in Zones |-> h[b]] /\ h[a] = c1 /\ \A b \in Zones : b # a => h[b] = ipcfg[b]
  BY <1>2, <1>9, ZoneSet
<1>11. ipcfg' = [h EXCEPT ![a].bound = e]
  BY <1>1, <1>3, <1>9, Zenon
<1>12. ipcfg' = [h EXCEPT ![a] = c]
  BY <1>4, <1>10, <1>11, Zenon
<1>13. [h EXCEPT ![a] = c] = [ipcfg EXCEPT ![a] = c]
  BY <1>2, <1>9, <1>10
<1> QED
  BY <1>8, <1>12, <1>13, Zenon

LEMMA IpUserChanges == ASSUME IpInv, NEW a \in Zones, IpUser(a) PROVE IpInv'
<1>1. UNCHANGED <<ipnb, ipsb, ipisb, iptxn>>
  BY Zenon DEF IpUser
<1>2. /\ ipcfg = [b \in Zones |-> ipcfg[b]] /\ IsCfg(ipcfg[a]) /\ (ipcfg[a].bound => ipcfg[a].gw # 0)
      /\ ipcfg[a] = [port |-> ipcfg[a].port, gw |-> ipcfg[a].gw, bound |-> ipcfg[a].bound,
                     routes |-> ipcfg[a].routes]
  BY Zenon DEF IpInv, IpShape, IpZone, IsCfg
<1>3. PICK c : IsCfg(c) /\ ipcfg' = [ipcfg EXCEPT ![a] = c]
  <2>1. CASE ipcfg' = [ipcfg EXCEPT ![a].port = ~@]
    <3>1. PICK e : e = ~ipcfg[a].port
      OBVIOUS
    <3>2. PICK c : c = [port |-> e, gw |-> ipcfg[a].gw, bound |-> ipcfg[a].bound, routes |-> ipcfg[a].routes]
      OBVIOUS
    <3>3. [ipcfg[a] EXCEPT !.port = e] = c
      BY <1>2, <3>2, CfgSet, Zenon
    <3>4. ipcfg' = [ipcfg EXCEPT ![a] = c]
      BY <2>1, <3>1, <3>3, Zenon
    <3>5. IsCfg(c)
      BY <1>2, <3>2, CfgFields
    <3> QED
      BY <3>4, <3>5, Zenon
  <2>2. ASSUME NEW g \in 0 .. 2, ipcfg' = [ipcfg EXCEPT ![a].gw = g, ![a].bound = (g # 0)]
        PROVE  \E c : IsCfg(c) /\ ipcfg' = [ipcfg EXCEPT ![a] = c]
    <3>1. PICK e : e = (g # 0)
      OBVIOUS
    <3>2. ipcfg' = [ipcfg EXCEPT ![a].gw = g, ![a].bound = e]
      BY <2>2, <3>1, Zenon
    <3>3. e => g # 0
      BY <3>1, Zenon
    <3> QED
      BY <3>2, <3>3, GatewaySet, Zenon
  <2>3. ASSUME NEW p \in IpPrefixes,
               ipcfg' = [ipcfg EXCEPT ![a].routes = IF p \in @ THEN @ \ {p} ELSE @ \cup {p}]
        PROVE  \E c : IsCfg(c) /\ ipcfg' = [ipcfg EXCEPT ![a] = c]
    <3>1. PICK e : e = IF p \in ipcfg[a].routes THEN ipcfg[a].routes \ {p} ELSE ipcfg[a].routes \cup {p}
      OBVIOUS
    <3>2. PICK c : c = [port |-> ipcfg[a].port, gw |-> ipcfg[a].gw, bound |-> ipcfg[a].bound, routes |-> e]
      OBVIOUS
    <3>3. [ipcfg[a] EXCEPT !.routes = e] = c
      BY <1>2, <3>2, CfgSet, Zenon
    <3>4. ipcfg' = [ipcfg EXCEPT ![a] = c]
      BY <2>3, <3>1, <3>3, Zenon
    <3>5. IsCfg(c)
      BY <1>2, <3>2, CfgFields
    <3> QED
      BY <3>4, <3>5, Zenon
  <2> QED
    BY <2>1, <2>2, <2>3, Zenon DEF IpUser
<1>4. /\ ipcfg' = [b \in Zones |-> ipcfg'[b]] /\ ipcfg'[a] = c
      /\ \A b \in Zones : b # a => ipcfg'[b] = ipcfg[b]
  BY <1>2, <1>3, ZoneSet
<1>5. \A b \in Zones : IsCfg(ipcfg[b])
  BY Zenon DEF IpInv, IpZone
<1>6. \A b \in Zones : IsCfg(ipcfg'[b])
  BY <1>3, <1>4, <1>5, Zenon
<1>7. IpShape'
  BY <1>1, <1>4, Zenon DEF IpInv, IpShape
<1>8. \A b \in Zones : IpZone(b)'
  BY <1>1, <1>6, Zenon DEF IpInv, IpZone
<1> QED
  BY <1>7, <1>8, Zenon DEF IpInv

LEMMA IpStep == EnoughKeys /\ IpInv /\ [IcPortsNext]_ipVars => IpInv'
<1> SUFFICES ASSUME EnoughKeys, IpInv, [IcPortsNext]_ipVars PROVE IpInv'
  OBVIOUS
<1>1. CASE UNCHANGED ipVars
  BY <1>1, Zenon DEF ipVars, IpInv, IpShape, IpZone
<1>2. ASSUME NEW a \in Zones, NEW busy \in SUBSET {"nb", "sb"}, NEW failed \in SUBSET {"nb", "sb"},
             IpIteration(a, busy, failed)
      PROVE  IpInv'
  BY <1>2, IpIterates, Zenon
<1> QED
  BY <1>1, <1>2, IpAnswers, IpPorts, IpUserChanges, Zenon DEF IcPortsNext

\* At rest: what the zones offer, ISB has, and what ISB has of the others is in
\* NB and SB.
LEMMA AtRest ==
    ASSUME EnoughKeys, IpInv, IpQuiet, NEW a \in Zones
    PROVE  /\ Outcome(a, ipisb[a], ipnb[a], ipsb[a])
           /\ ipcfg[a].port => IsLocal(a)
           /\ ipsb[a].remote = {b \in Others(a) : ipnb[a].remote[b] # 0}
           /\ ipsb[a].at = {b \in ipsb[a].at : ipnb[a].remote[b] # 0}
<1>1. PICK run : run = ovn_db_run(a, {})
  OBVIOUS
<1>2. run = [isb |-> ipisb[a], nb |-> ipnb[a], sb |-> ipsb[a]] /\ PortsInSb(a) = ipsb[a]
  BY <1>1, Zenon DEF IpQuiet
<1>3. run.isb = ipisb[a] /\ run.nb = ipnb[a] /\ run.sb = ipsb[a]
  BY <1>2
<1>4. IpZone(a) /\ IsSb(ipsb[a])
  BY Zenon DEF IpInv, IpZone
<1>5. PICK R, A : /\ R = {b \in Others(a) : ipnb[a].remote[b] # 0}
                  /\ A = {b \in ipsb[a].at : ipnb[a].remote[b] # 0}
  OBVIOUS
<1>6. ipsb[a] = [port |-> ipcfg[a].port, remote |-> R, chassis |-> ipsb[a].chassis, at |-> A]
  BY <1>2, <1>4, <1>5, PortsInSbIs, Zenon
<1>7. ipsb[a].port = ipcfg[a].port /\ ipsb[a].remote = R /\ ipsb[a].at = A
  BY <1>6
<1>8. ipcfg[a].port => IsLocal(a)
  BY <1>7, Zenon DEF IsLocal
<1>9. Outcome(a, run.isb, run.nb, run.sb)
  BY <1>1, <1>4, RunWhole, Zenon
<1>10. Outcome(a, ipisb[a], ipnb[a], ipsb[a])
  BY <1>3, <1>9, Zenon
<1> QED
  BY <1>5, <1>7, <1>8, <1>10, Zenon

\* Where the port of another zone is: on a chassis exactly if it is offered.
LEMMA PortPlaced ==
    ASSUME EnoughKeys, IpInv, IpQuiet, NEW a \in Zones, NEW b \in Others(a)
    PROVE  b \in ipsb[a].at <=> ipcfg[b].port /\ ipcfg[b].bound
<1>1. b \in Zones /\ IsCfg(ipcfg[b]) /\ IsRows(ipisb[b]) /\ (ipcfg[b].bound => ipcfg[b].gw # 0)
  BY Zenon DEF Others, IpInv, IpZone, IsCfg
<1>2. /\ ipisb[b].gw = ipcfg[b].gw
      /\ ipcfg[b].port => ipisb[b].pb # NoPort /\ ipisb[b].pb.gw = ipcfg[b].bound
      /\ ~ipcfg[b].port => ipisb[b].pb = NoPort
  BY <1>1, AtRest, Zenon DEF Outcome
<1>3. /\ ipnb[a].remote = [c \in Others(a) |-> ipisb[c].pb.key]
      /\ ipsb[a].chassis = [c \in Others(a) |-> ipisb[c].gw]
  BY AtRest, Zenon DEF Outcome
<1>4. /\ ipsb[a].remote = {c \in Others(a) : ipnb[a].remote[c] # 0}
      /\ ipsb[a].at = {c \in ipsb[a].at : ipnb[a].remote[c] # 0}
  BY AtRest, Zenon
<1>5. b \in ipsb[a].at <=>
        \/ b \in ipsb[a].at /\ ipisb[b].gw # 0 /\ (b \in Synced(a, ipsb[a]) => ipisb[b].pb.gw)
        \/ b \in Synced(a, ipsb[a]) /\ ipisb[b].pb.gw /\ ipsb[a].chassis[b] # 0
  BY AtRest, Zenon DEF Outcome
<1>6. ipnb[a].remote[b] = ipisb[b].pb.key /\ ipsb[a].chassis[b] = ipisb[b].gw
  BY <1>3, Zenon
<1>7. ipisb[b].pb.key # 0 <=> ipisb[b].pb # NoPort
  <2>1. NoPort.key = 0
    BY DEF NoPort
  <2> QED
    BY <1>1, <2>1, Zenon DEF IsRows, IsPb
<1>8. b \in Synced(a, ipsb[a]) <=> ipisb[b].pb # NoPort
  BY <1>4, <1>6, <1>7, Zenon DEF Synced
<1>9. ASSUME ipcfg[b].port, ipcfg[b].bound PROVE b \in ipsb[a].at
  <2>1. b \in Synced(a, ipsb[a]) /\ ipisb[b].pb.gw /\ ipsb[a].chassis[b] # 0
    BY <1>1, <1>2, <1>6, <1>8, <1>9, Zenon
  <2> QED
    BY <1>5, <2>1, Zenon
<1>10. ASSUME b \in ipsb[a].at PROVE ipcfg[b].port /\ ipcfg[b].bound
  <2>1. ipnb[a].remote[b] # 0
    BY <1>4, <1>10, Zenon
  <2>2. ipisb[b].pb # NoPort /\ b \in Synced(a, ipsb[a])
    BY <1>6, <1>7, <1>8, <2>1, Zenon
  <2>3. ipisb[b].pb.gw
    BY <1>5, <1>10, <2>2, Zenon
  <2> QED
    BY <1>2, <2>2, <2>3, Zenon
<1> QED
  BY <1>9, <1>10

\* Which routes of another zone a zone with a port has learned.
LEMMA RoutesLearned ==
    ASSUME EnoughKeys, IpInv, IpQuiet, NEW a \in Zones, NEW b \in Others(a), ipcfg[a].port
    PROVE  {r.prefix : r \in {x \in ipnb[a].learned : x.from = b}} =
             (IF ipcfg[b].port THEN ipcfg[b].routes \ ipcfg[a].routes ELSE {})
<1>1. b \in Zones /\ b # a
  BY DEF Others
<1>2. PICK own : ipnb[a].learned = {r \in OnSwitch(a, own) : route_need_learn(a, r)}
  BY AtRest, Zenon DEF Outcome
<1>3. ipcfg[b].port => IsLocal(b)
  BY <1>1, AtRest, Zenon
<1>4. Outcome(b, ipisb[b], ipnb[b], ipsb[b])
  BY <1>1, AtRest, Zenon
<1>5. ipisb[b].routes = IF ipcfg[b].port THEN ipcfg[b].routes ELSE {}
  BY <1>3, <1>4, Zenon DEF Outcome
<1>6. ASSUME NEW x \in OnSwitch(a, own), x.from = b PROVE x.prefix \in ipisb[b].routes
  <2>1. PICK c \in Zones : x \in {[prefix |-> p, from |-> c] : p \in IF c = a THEN own.routes ELSE ipisb[c].routes}
    BY <1>6, Zenon DEF OnSwitch
  <2>2. PICK p \in IF c = a THEN own.routes ELSE ipisb[c].routes : x = [prefix |-> p, from |-> c]
    BY <2>1, Zenon
  <2>3. x.prefix = p /\ x.from = c
    BY <2>2
  <2> QED
    BY <1>1, <1>6, <2>2, <2>3, Zenon
<1>7. ASSUME NEW p \in ipisb[b].routes
      PROVE  \E x \in OnSwitch(a, own) : x.from = b /\ x.prefix = p
  <2>1. PICK x : x = [prefix |-> p, from |-> b]
    OBVIOUS
  <2>2. x.from = b /\ x.prefix = p
    BY <2>1
  <2>3. x \in {[prefix |-> q, from |-> b] : q \in IF b = a THEN own.routes ELSE ipisb[b].routes}
    BY <1>1, <1>7, <2>1, Zenon
  <2>4. x \in OnSwitch(a, own)
    BY <1>1, <2>3, Zenon DEF OnSwitch
  <2> QED
    BY <2>2, <2>4, Zenon
<1>8. \A x : x \in ipnb[a].learned <=>
              x \in OnSwitch(a, own) /\ x.from # a /\ x.prefix \notin ipcfg[a].routes
  BY <1>2, Zenon DEF route_need_learn
<1>9. PICK L : L = {r.prefix : r \in {x \in ipnb[a].learned : x.from = b}}
  OBVIOUS
<1>10. ASSUME NEW p \in L PROVE p \in ipisb[b].routes \ ipcfg[a].routes
  <2>1. PICK x \in ipnb[a].learned : x.from = b /\ p = x.prefix
    BY <1>9, <1>10, Zenon
  <2> QED
    BY <1>6, <1>8, <2>1, Zenon
<1>11. ASSUME NEW p \in ipisb[b].routes \ ipcfg[a].routes PROVE p \in L
  <2>1. PICK x \in OnSwitch(a, own) : x.from = b /\ x.prefix = p
    BY <1>7, <1>11
  <2>2. x \in ipnb[a].learned
    BY <1>1, <1>8, <1>11, <2>1, Zenon
  <2> QED
    BY <1>9, <2>1, <2>2, Zenon
<1>12. L = ipisb[b].routes \ ipcfg[a].routes
  BY <1>10, <1>11
<1>13. CASE ipcfg[b].port
  BY <1>5, <1>9, <1>12, <1>13, Zenon
<1>14. CASE ~ipcfg[b].port
  <2>1. L = {}
    BY <1>5, <1>12, <1>14
  <2> QED
    BY <1>9, <1>14, <2>1, Zenon
<1> QED
  BY <1>13, <1>14

LEMMA IpSafe == EnoughKeys /\ IpInv => ZonesMirrored
<1> SUFFICES ASSUME EnoughKeys, IpInv, IpQuiet, NEW a \in Zones, NEW b \in Others(a)
             PROVE  Mirrored(a, b)
  BY Zenon DEF ZonesMirrored
<1>1. b \in Zones
  BY DEF Others
<1>2. Outcome(a, ipisb[a], ipnb[a], ipsb[a]) /\ Outcome(b, ipisb[b], ipnb[b], ipsb[b])
  BY <1>1, AtRest, Zenon
<1>3. ipcfg[b].port => IsLocal(b)
  BY <1>1, AtRest, Zenon
<1>4. ipnb[a].remote[b] = ipisb[b].pb.key
  <2>1. ipnb[a].remote = [c \in Others(a) |-> ipisb[c].pb.key]
    BY <1>2, Zenon DEF Outcome
  <2> QED
    BY <2>1, Zenon
<1>5. ipcfg[b].port <=> ipisb[b].pb # NoPort
  BY <1>2, <1>3, Zenon DEF Outcome
<1>6. ipsb[a].chassis[b] = ipcfg[b].gw
  <2>1. ipsb[a].chassis = [c \in Others(a) |-> ipisb[c].gw] /\ ipisb[b].gw = ipcfg[b].gw
    BY <1>2, Zenon DEF Outcome
  <2> QED
    BY <2>1, Zenon
<1> QED
  BY <1>4, <1>5, <1>6, PortPlaced, RoutesLearned, Zenon DEF Mirrored

\* For any number of zones, prefixes, changes and faults, as long as the keys
\* of a transit switch suffice for its ports: when the ovn-ics and northds of
\* all zones have come to rest every zone has the ports, keys, chassis and
\* routes that the others offer, and no more.
THEOREM ZonesMirrorEachOther ==
    ASSUME IsFiniteSet(Zones), MaxPortKey \in Nat, Cardinality(Zones) <= MaxPortKey
    PROVE  IcPortsSpec => []ZonesMirrored
<1>1. EnoughKeys
  BY DEF EnoughKeys
<1>2. IpInv /\ [IcPortsNext]_ipVars => IpInv'
  BY <1>1, IpStep
<1>3. IpInv => ZonesMirrored
  BY <1>1, IpSafe
<1> QED
  BY IpInitially, <1>2, <1>3, PTL DEF IcPortsSpec

\* Only an answer of ISB changes its rows, and it refuses a key that is taken.
LEMMA KeysStay == IpInv /\ PortKeysDiffer /\ [IcPortsNext]_ipVars => PortKeysDiffer'
<1> SUFFICES ASSUME IpInv, PortKeysDiffer, [IcPortsNext]_ipVars PROVE PortKeysDiffer'
  OBVIOUS
<1>1. CASE UNCHANGED ipisb
  BY <1>1, Zenon DEF PortKeysDiffer, Others
<1>2. ASSUME NEW a \in Zones, NEW rows \in iptxn[a], ~KeyClash(a, rows),
             ipisb' = [ipisb EXCEPT ![a] = rows]
      PROVE  PortKeysDiffer'
  <2>1. ipisb'[a] = rows /\ \A b \in Zones : b # a => ipisb'[b] = ipisb[b]
    BY <1>2, ZoneSet DEF IpInv, IpShape
  <2>2. rows.pb # NoPort => rows.pb.key # 0
    BY <1>2, Zenon DEF IpInv, IpZone, IsRows, IsPb
  <2>3. rows.pb # NoPort => \A b \in Zones : b # a => ipisb[b].pb.key # rows.pb.key
    BY <1>2, <2>2, Zenon DEF KeyClash, Others
  <2>4. \A b, c \in Zones : b # c /\ ipisb[b].pb # NoPort /\ ipisb[c].pb # NoPort
                            => ipisb[b].pb.key # ipisb[c].pb.key
    BY Zenon DEF PortKeysDiffer, Others
  <2>5. ASSUME NEW b \in Zones, NEW c \in Zones, b # c, ipisb'[b].pb # NoPort, ipisb'[c].pb # NoPort
        PROVE  ipisb'[b].pb.key # ipisb'[c].pb.key
    BY <2>1, <2>3, <2>4, <2>5
  <2> QED
    BY <2>5, Zenon DEF PortKeysDiffer, Others
<1>3. ASSUME NEW a \in Zones, IsbAnswer(a) PROVE PortKeysDiffer'
  BY <1>1, <1>2, <1>3, Zenon DEF IsbAnswer
<1> QED
  BY <1>1, <1>3, Zenon DEF IcPortsNext, ipVars, IpIteration, Northd, IpUser

\* At first nobody has a port.
LEMMA KeysInitially == IcPortsInit => PortKeysDiffer
<1> SUFFICES ASSUME IcPortsInit PROVE PortKeysDiffer
  OBVIOUS
<1>1. ASSUME NEW a \in Zones PROVE ipisb[a].pb = NoPort
  <2>1. ipisb[a] = [gw |-> 0, pb |-> NoPort, routes |-> {}]
    BY <1>1, Zenon DEF IcPortsInit
  <2> QED
    BY <2>1
<1> QED
  BY <1>1, Zenon DEF PortKeysDiffer

\* For the same zones, changes and faults: two ports of a transit switch never
\* have the same key in ISB, although every ovn-ic allocates on its own from
\* what it has seen (allocate_port_key()).
THEOREM PortKeysNeverClash ==
    ASSUME IsFiniteSet(Zones), MaxPortKey \in Nat, Cardinality(Zones) <= MaxPortKey
    PROVE  IcPortsSpec => []PortKeysDiffer
<1>1. EnoughKeys
  BY DEF EnoughKeys
<1>2. IpInv /\ PortKeysDiffer /\ [IcPortsNext]_ipVars => IpInv' /\ PortKeysDiffer'
  BY <1>1, IpStep, KeysStay
<1> QED
  BY IpInitially, KeysInitially, <1>2, PTL DEF IcPortsSpec

\* The property of the run, with a key for every zone's port: at rest the zones
\* mirror each other, and two ports of the switch never have the same key.
THEOREM IcPortsTheorem ==
    ASSUME IsFiniteSet(Zones), MaxPortKey \in Nat, Cardinality(Zones) <= MaxPortKey
    PROVE  MCSpec => []IcPortsRight
<1> DEFINE Inv == part = "icports" => IpInv /\ PortKeysDiffer
<1>1. EnoughKeys
  BY DEF EnoughKeys
<1>2. MCInit => Inv
  BY IpInitially, KeysInitially DEF MCInit, IcportsIs
<1>3. Inv /\ [MCNext]_vars => Inv'
  <2> SUFFICES ASSUME Inv, [MCNext]_vars, part' = "icports" PROVE (IpInv /\ PortKeysDiffer)'
    OBVIOUS
  <2>1. part = "icports" /\ [IcPortsNext]_ipVars
    BY Zenon DEF MCNext, vars, Alone, Parts
  <2> QED
    BY <1>1, <2>1, IpStep, KeysStay
<1>4. Inv => IcPortsRight
  BY <1>1, IpSafe DEF IcPortsRight
<1> QED
  BY <1>2, <1>3, <1>4, PTL DEF MCSpec

-----------------------------------------------------------------------------
(***************************************************************************)
(* pinctrl.c ip_mcast_sync(), en-multicast.c: at rest northd forwards the  *)
(* groups that the chassis has learnt, for any number of groups.           *)
(***************************************************************************)

\* A configuration, and an instance with the groups of its table in order.
IsMcCfg(c) == c = [enabled |-> c.enabled, size |-> c.size, seq |-> c.seq] /\ c.size \in Nat
IsTable(ms) == ms = [max |-> ms.max, lru |-> ms.lru] /\ ms.max \in Nat /\ ms.lru \in Seq(McGroups)
IsSnoop(i) == i = [cfg |-> i.cfg, ms |-> i.ms] /\ IsMcCfg(i.cfg) /\ IsTable(i.ms)

McInv ==
    /\ IsMcCfg(mcrow)
    /\ \A c \in mccfg : IsMcCfg(c)
    /\ \A i \in mcsnoop : IsSnoop(i)

McConstants ==
    /\ IsFiniteSet(McGroups) /\ IsFiniteSet(McKeys)
    /\ McSizes \subseteq Nat /\ DefaultSize \in Nat

\* The elements of a finite set in some order.
LEMMA InOrder ==
    ASSUME NEW S, IsFiniteSet(S)
    PROVE  SetToSeq(S) \in [1 .. Cardinality(S) -> S] /\ Cardinality(S) \in Nat
<1>1. Cardinality(S) \in Nat /\ ExistsBijection(1 .. Cardinality(S), S)
  BY FS_CardinalityType, Zenon
<1>2. PICK f \in [1 .. Cardinality(S) -> S] : IsInjective(f)
  BY <1>1, Zenon DEF ExistsBijection, Bijection, Injection
<1> QED
  BY <1>1, <1>2, Zenon DEF SetToSeq

LEMMA FirstInOrder ==
    ASSUME NEW S, IsFiniteSet(S), S # {}
    PROVE  /\ 1 \in DOMAIN SetToSeq(S) /\ SetToSeq(S)[1] \in S
           /\ Len(SetToSeq(S)) \in Nat /\ 1 <= Len(SetToSeq(S))
<1>1. PICK f : f = SetToSeq(S)
  OBVIOUS
<1>2. f \in [1 .. Cardinality(S) -> S] /\ Cardinality(S) \in Nat
  BY <1>1, InOrder, Zenon
<1>3. Cardinality(S) # 0
  BY FS_EmptySet
<1>4. PICK n \in Nat : n = Cardinality(S) /\ f \in [1 .. n -> S]
  BY <1>2, Zenon
<1>5. Len(f) = Cardinality(S)
  BY <1>4
<1>6. 1 \in DOMAIN f /\ f[1] \in S /\ Len(f) \in Nat /\ 1 <= Len(f)
  BY <1>2, <1>3, <1>5
<1> QED
  BY <1>1, <1>6, Zenon

\* The tables stay sequences of groups.
LEMMA Kept ==
    ASSUME NEW s \in Seq(McGroups), NEW n \in Nat
    PROVE  Newest(s, n) \in Seq(McGroups)
  BY DEF Newest

LEMMA Removed ==
    ASSUME NEW s \in Seq(McGroups), NEW g
    PROVE  RemoveFirst(s, g) \in Seq(McGroups)
<1>1. CASE ~\E i \in 1 .. Len(s) : s[i] = g
  BY <1>1, Zenon DEF RemoveFirst
<1>2. CASE \E i \in 1 .. Len(s) : s[i] = g
  <2>1. PICK k : k = SelectInSeq(s, LAMBDA v : v = g)
    OBVIOUS
  <2>2. k \in 1 .. Len(s)
    <3> DEFINE I == {i \in 1 .. Len(s) : s[i] = g}
    <3>1. I # {} /\ I \in SUBSET Nat
      BY <1>2
    <3>2. k = Min(I)
      BY <2>1, <3>1, Zenon DEF SelectInSeq
    <3>3. \E m \in I : \A y \in I : m <= y
      BY <3>1, LeastOf
    <3>4. Min(I) \in I
      BY <3>3, Zenon DEF Min
    <3> QED
      BY <3>2, <3>4, Zenon
  <2>3. RemoveFirst(s, g) = SubSeq(s, 1, k - 1) \o SubSeq(s, k + 1, Len(s))
    BY <1>2, <2>1, Zenon DEF RemoveFirst, RemoveAt
  <2>4. SubSeq(s, 1, k - 1) \in Seq(McGroups) /\ SubSeq(s, k + 1, Len(s)) \in Seq(McGroups)
    BY <2>2
  <2> QED
    BY <2>3, <2>4
<1> QED
  BY <1>1, <1>2

\* Setting the fields of these records.
LEMMA McCfgSet ==
    ASSUME NEW c, NEW e, IsMcCfg(c)
    PROVE  /\ [c EXCEPT !.enabled = e] = [enabled |-> e, size |-> c.size, seq |-> c.seq]
           /\ [c EXCEPT !.size = e] = [enabled |-> c.enabled, size |-> e, seq |-> c.seq]
           /\ [c EXCEPT !.seq = e] = [enabled |-> c.enabled, size |-> c.size, seq |-> e]
<1>1. c = [enabled |-> c.enabled, size |-> c.size, seq |-> c.seq]
  BY DEF IsMcCfg
<1> QED
  BY <1>1
LEMMA McCfgIs ==
    ASSUME NEW e, NEW s \in Nat, NEW q, NEW c, c = [enabled |-> e, size |-> s, seq |-> q]
    PROVE  IsMcCfg(c)
  BY DEF IsMcCfg
LEMMA TableIs ==
    ASSUME NEW m \in Nat, NEW s \in Seq(McGroups), NEW ms, ms = [max |-> m, lru |-> s]
    PROVE  IsTable(ms)
  BY DEF IsTable
LEMMA TableSet ==
    ASSUME NEW ms, IsTable(ms), NEW s
    PROVE  [ms EXCEPT !.lru = s] = [max |-> ms.max, lru |-> s]
<1>1. ms = [max |-> ms.max, lru |-> ms.lru]
  BY DEF IsTable
<1> QED
  BY <1>1
LEMMA SnoopIs ==
    ASSUME NEW c, NEW ms, IsMcCfg(c), IsTable(ms), NEW i, i = [cfg |-> c, ms |-> ms]
    PROVE  IsSnoop(i)
<1>1. i = [cfg |-> i.cfg, ms |-> i.ms] /\ i.cfg = c /\ i.ms = ms
  OBVIOUS
<1> QED
  BY <1>1, Zenon DEF IsSnoop

LEMMA EmptyTables == IsTable(NoTable) /\ IsSnoop(NewInstance)
<1>1. IsTable(NoTable)
  BY DEF NoTable, IsTable
<1>2. PICK c : c = [enabled |-> FALSE, size |-> 0, seq |-> 0]
  OBVIOUS
<1>3. IsMcCfg(c)
  BY <1>2 DEF IsMcCfg
<1>4. NewInstance = [cfg |-> c, ms |-> NoTable]
  BY <1>2, Zenon DEF NewInstance
<1>5. IsSnoop(NewInstance)
  BY <1>1, <1>3, <1>4, SnoopIs
<1> QED
  BY <1>1, <1>5

\* A report or a leave leaves a table.
LEMMA TableChanges ==
    ASSUME NEW ms, IsTable(ms), NEW g \in McGroups
    PROVE  IsTable(AddGroup(ms, g)) /\ IsTable(LeaveGroup(ms, g))
<1>1. ms.max \in Nat /\ ms.lru \in Seq(McGroups)
  BY DEF IsTable
<1>2. PICK s : s = RemoveFirst(ms.lru, g)
  OBVIOUS
<1>3. s \in Seq(McGroups)
  BY <1>1, <1>2, Removed
<1>4. Append(s, g) \in Seq(McGroups)
  BY <1>3
<1>5. PICK t : t = Newest(Append(s, g), ms.max)
  OBVIOUS
<1>6. t \in Seq(McGroups)
  BY <1>1, <1>4, <1>5, Kept
<1>7. AddGroup(ms, g) = [ms EXCEPT !.lru = t] /\ LeaveGroup(ms, g) = [ms EXCEPT !.lru = s]
  BY <1>2, <1>5, Zenon DEF AddGroup, LeaveGroup
<1>8. AddGroup(ms, g) = [max |-> ms.max, lru |-> t] /\ LeaveGroup(ms, g) = [max |-> ms.max, lru |-> s]
  BY <1>7, TableSet, Zenon
<1> QED
  BY <1>1, <1>3, <1>6, <1>8, TableIs

\* So does a configuration.
LEMMA SnoopConfigured ==
    ASSUME McConstants, NEW i, IsSnoop(i), NEW c, IsMcCfg(c)
    PROVE  IsSnoop(ip_mcast_snoop_configure(i, c))
<1> DEFINE fresh == IF i.cfg.enabled THEN i.ms ELSE [max |-> DefaultSize, lru |-> <<>>]
           kept == IF i.cfg.enabled /\ i.cfg.seq # c.seq THEN [fresh EXCEPT !.lru = <<>>] ELSE fresh
           max == IF c.size # i.cfg.size THEN c.size ELSE kept.max
           ms == IF c.enabled THEN [max |-> max, lru |-> Newest(kept.lru, max)] ELSE NoTable
<1>1. fresh = IF i.cfg.enabled THEN i.ms ELSE [max |-> DefaultSize, lru |-> <<>>]
  OBVIOUS
<1>2. ip_mcast_snoop_configure(i, c) = [cfg |-> c, ms |-> ms]
  BY DEF ip_mcast_snoop_configure
<1> HIDE DEF fresh
<1>3. kept = IF i.cfg.enabled /\ i.cfg.seq # c.seq THEN [fresh EXCEPT !.lru = <<>>] ELSE fresh
  OBVIOUS
<1> HIDE DEF kept
<1>4. max = IF c.size # i.cfg.size THEN c.size ELSE kept.max
  OBVIOUS
<1> HIDE DEF max
<1>5. ms = IF c.enabled THEN [max |-> max, lru |-> Newest(kept.lru, max)] ELSE NoTable
  OBVIOUS
<1> HIDE DEF ms
<1>6. IsTable(fresh)
  <2>1. <<>> \in Seq(McGroups) /\ DefaultSize \in Nat
    BY DEF McConstants
  <2>2. PICK new : new = [max |-> DefaultSize, lru |-> <<>>]
    OBVIOUS
  <2>3. IsTable(new)
    BY <2>1, <2>2, TableIs
  <2> QED
    BY <1>1, <2>2, <2>3, Zenon DEF IsSnoop
<1>7. IsTable(kept)
  <2>1. PICK new : new = [fresh EXCEPT !.lru = <<>>]
    OBVIOUS
  <2>2. new = [max |-> fresh.max, lru |-> <<>>]
    BY <1>6, <2>1, TableSet, Zenon
  <2>3. fresh.max \in Nat /\ <<>> \in Seq(McGroups)
    BY <1>6 DEF IsTable
  <2>4. IsTable(new)
    BY <2>2, <2>3, TableIs
  <2> QED
    BY <1>3, <1>6, <2>1, <2>4, Zenon
<1>8. max \in Nat /\ kept.lru \in Seq(McGroups)
  BY <1>4, <1>7, Zenon DEF IsTable, IsMcCfg
<1>9. IsTable(ms)
  <2>1. PICK new : new = [max |-> max, lru |-> Newest(kept.lru, max)]
    OBVIOUS
  <2>2. IsTable(new)
    BY <1>8, <2>1, Kept, TableIs
  <2> QED
    BY <1>5, <2>1, <2>2, EmptyTables, Zenon
<1> QED
  BY <1>2, <1>9, SnoopIs

LEMMA McInitially == McConstants /\ MulticastInit => McInv
<1> SUFFICES ASSUME McConstants, MulticastInit PROVE McInv
  OBVIOUS
<1>1. PICK e \in BOOLEAN, s \in McSizes : mcrow = [enabled |-> e, size |-> s, seq |-> 0]
  BY DEF MulticastInit
<1>2. IsMcCfg(mcrow)
  BY <1>1, McCfgIs DEF McConstants
<1> QED
  BY <1>2, Zenon DEF McInv, MulticastInit

LEMMA McStep == McConstants /\ McInv /\ [MulticastNext]_mcVars => McInv'
<1> SUFFICES ASSUME McConstants, McInv, [MulticastNext]_mcVars PROVE McInv'
  OBVIOUS
<1>1. CASE UNCHANGED <<mcrow, mccfg, mcsnoop>>
  BY <1>1, Zenon DEF McInv
<1>2. CASE SetMcastConfig
  <2>1. PICK e \in BOOLEAN, s \in McSizes : mcrow' = [mcrow EXCEPT !.enabled = e, !.size = s]
    BY <1>2, Zenon DEF SetMcastConfig
  <2>2. PICK c : c = [mcrow EXCEPT !.enabled = e]
    OBVIOUS
  <2>3. s \in Nat /\ mcrow.size \in Nat /\ IsMcCfg(mcrow)
    BY DEF McConstants, McInv, IsMcCfg
  <2>4. c = [enabled |-> e, size |-> mcrow.size, seq |-> mcrow.seq]
    BY <2>2, <2>3, McCfgSet, Zenon
  <2>5. IsMcCfg(c)
    BY <2>3, <2>4, McCfgIs
  <2>6. mcrow' = [c EXCEPT !.size = s]
    BY <2>1, <2>2, Zenon
  <2>7. mcrow' = [enabled |-> c.enabled, size |-> s, seq |-> c.seq]
    BY <2>5, <2>6, McCfgSet, Zenon
  <2>8. IsMcCfg(mcrow')
    BY <2>3, <2>7, McCfgIs
  <2> QED
    BY <1>2, <2>8, Zenon DEF McInv, SetMcastConfig
<1>3. CASE ip_multicast_flush
  <2>1. PICK e : mcrow' = [mcrow EXCEPT !.seq = e]
    BY <1>3, Zenon DEF ip_multicast_flush
  <2>2. mcrow.size \in Nat /\ IsMcCfg(mcrow)
    BY DEF McInv, IsMcCfg
  <2>3. mcrow' = [enabled |-> mcrow.enabled, size |-> mcrow.size, seq |-> e]
    BY <2>1, <2>2, McCfgSet, Zenon
  <2>4. IsMcCfg(mcrow')
    BY <2>2, <2>3, McCfgIs
  <2> QED
    BY <1>3, <2>4, Zenon DEF McInv, ip_multicast_flush
<1>4. CASE ChassisDeleted
  BY <1>4, Zenon DEF McInv, ChassisDeleted
<1>5. ASSUME NEW g \in McGroups, NEW j \in BOOLEAN, pinctrl_ip_mcast_handle(g, j) PROVE McInv'
  <2>1. PICK i \in mcsnoop :
            mcsnoop' = {[i EXCEPT !.ms = IF j THEN AddGroup(@, g) ELSE LeaveGroup(@, g)]}
    BY <1>5, Zenon DEF pinctrl_ip_mcast_handle
  <2>2. PICK ms : ms = IF j THEN AddGroup(i.ms, g) ELSE LeaveGroup(i.ms, g)
    OBVIOUS
  <2>3. IsSnoop(i) /\ IsMcCfg(i.cfg) /\ IsTable(i.ms) /\ i = [cfg |-> i.cfg, ms |-> i.ms]
    BY Zenon DEF McInv, IsSnoop
  <2>4. IsTable(ms)
    BY <2>2, <2>3, TableChanges, Zenon
  <2>5. PICK k : k = [i EXCEPT !.ms = ms]
    OBVIOUS
  <2>6. k = [cfg |-> i.cfg, ms |-> ms]
    BY <2>3, <2>5
  <2>7. IsSnoop(k)
    BY <2>3, <2>4, <2>6, SnoopIs
  <2>8. mcsnoop' = {k}
    BY <2>1, <2>2, <2>5, Zenon
  <2>9. \A x \in mcsnoop' : IsSnoop(x)
    BY <2>7, <2>8, Zenon
  <2> QED
    BY <1>5, <2>9, Zenon DEF McInv, pinctrl_ip_mcast_handle
<1>6. CASE ip_mcast_snoop_run
  <2>1. ASSUME NEW x \in SnoopsConfigured PROVE IsSnoop(x)
    <3>1. CASE mcsnoop = {}
      <4>1. PICK c \in mccfg : x = ip_mcast_snoop_configure(NewInstance, c)
        BY <2>1, <3>1, Zenon DEF SnoopsConfigured
      <4>2. IsMcCfg(c)
        BY Zenon DEF McInv
      <4> QED
        BY <4>1, <4>2, EmptyTables, SnoopConfigured, Zenon
    <3>2. CASE mcsnoop # {}
      <4>1. PICK i \in mcsnoop, c \in mccfg : x = IF i.cfg = c THEN i ELSE ip_mcast_snoop_configure(i, c)
        BY <2>1, <3>2, Zenon DEF SnoopsConfigured
      <4>2. IsSnoop(i) /\ IsMcCfg(c)
        BY Zenon DEF McInv
      <4> QED
        BY <4>1, <4>2, SnoopConfigured, Zenon
    <3> QED
      BY <3>1, <3>2
  <2> QED
    BY <1>6, <2>1, Zenon DEF McInv, ip_mcast_snoop_run
<1>7. CASE ip_mcast_sync
  <2>1. \A c \in ConfigCopied : IsMcCfg(c)
    BY Zenon DEF ConfigCopied, McInv
  <2> QED
    BY <1>7, <2>1, Zenon DEF McInv, ip_mcast_sync
<1>8. CASE LocalChanges
  BY <1>1, <1>8, Zenon DEF LocalChanges
<1>9. ASSUME NEW r \in BOOLEAN, en_multicast_igmp_run(r) PROVE McInv'
  BY <1>1, <1>9, Zenon DEF en_multicast_igmp_run
<1>10. CASE UNCHANGED mcVars
  BY <1>1, <1>10, Zenon DEF mcVars
<1> QED
  BY <1>2, <1>3, <1>4, <1>5, <1>6, <1>7, <1>8, <1>9, <1>10, Zenon DEF MulticastNext

\* At rest the rows of IGMP_Group are the groups learnt.
LEMMA AskedAtRest ==
    ASSUME McQuiet, mclocal
    PROVE  Asked = Learnt
<1>1. PICK kept : mcigmp = RowsNeeded(kept) \cup {[group |-> g, chassis |-> TRUE] : g \in Learnt}
  BY Zenon DEF McQuiet, RowsSynced
<1>2. \A r \in mcigmp : r.chassis
  BY Zenon DEF McQuiet
<1>3. ASSUME NEW n \in Asked PROVE n \in Learnt
  <2>1. PICK r \in mcigmp : r.chassis /\ n = r.group
    BY <1>3, Zenon DEF Asked
  <2>2. CASE r \in RowsNeeded(kept)
    <3>1. PICK i \in mcsnoop : i.cfg.enabled /\ r.group \in Range(i.ms.lru)
      BY <2>1, <2>2, Zenon DEF RowsNeeded
    <3> QED
      BY <2>1, <3>1, Zenon DEF Learnt
  <2>3. ASSUME NEW g \in Learnt, r = [group |-> g, chassis |-> TRUE] PROVE n \in Learnt
    <3>1. r.group = g
      BY <2>3
    <3> QED
      BY <2>1, <3>1, Zenon
  <2> QED
    BY <1>1, <2>1, <2>2, <2>3, Zenon
<1>4. ASSUME NEW n \in Learnt PROVE n \in Asked
  <2>1. PICK r : r = [group |-> n, chassis |-> TRUE]
    OBVIOUS
  <2>2. r \in mcigmp
    BY <1>1, <1>4, <2>1, Zenon
  <2>3. r.group = n
    BY <2>1
  <2> QED
    BY <1>2, <2>2, <2>3, Zenon DEF Asked
<1> QED
  BY <1>3, <1>4

\* A group that asks for a row and has none gets one while there are keys.
LEMMA McSafe == McConstants /\ McInv /\ KeyLeft => GroupsForwarded
<1> SUFFICES ASSUME McConstants, McInv, KeyLeft, McQuiet, mclocal
             PROVE  {g.name : g \in mcgroup} = Learnt
  BY Zenon DEF GroupsForwarded
<1> DEFINE Names == {g.name : g \in mcgroup}
           old == {r.key : r \in {x \in mcgroup : x.name \in Asked}}
           free == SetToSeq(McKeys \ (mctnlids \cup old))
           new == SetToSeq(Asked \ Names)
<1>1. Asked = Learnt
  BY AskedAtRest
<1>2. mcgroup = {g \in mcgroup : g.name \in Asked} \cup NewKeys(mcgroup, Asked, mctnlids)
  BY Zenon DEF McQuiet, GroupsBuilt
<1>3. NewKeys(mcgroup, Asked, mctnlids) =
        {[name |-> new[i], key |-> free[i]] : i \in {j \in DOMAIN new : j <= Len(free)}}
  BY DEF NewKeys
<1>4. IsFiniteSet(Asked)
  <2>1. Learnt \subseteq McGroups
    <3> SUFFICES ASSUME NEW n \in Learnt PROVE n \in McGroups
      OBVIOUS
    <3>1. PICK i \in mcsnoop : n \in Range(i.ms.lru)
      BY Zenon DEF Learnt
    <3>2. i.ms.lru \in Seq(McGroups)
      BY Zenon DEF McInv, IsSnoop, IsTable
    <3>3. PICK k \in DOMAIN i.ms.lru : n = i.ms.lru[k]
      BY <3>1, Zenon DEF Range
    <3> QED
      BY <3>2, <3>3
  <2> QED
    BY <1>1, <2>1, FS_Subset DEF McConstants
<1>5. ASSUME NEW n \in Asked, n \notin Names PROVE FALSE
  <2>1. IsFiniteSet(Asked \ Names)
    BY <1>4, FS_Subset
  <2>2. Asked \ Names # {}
    BY <1>5
  <2>3. 1 \in DOMAIN new /\ new[1] \in Asked \ Names
    BY <2>1, <2>2, FirstInOrder, Zenon
  <2>4. PICK k \in McKeys : k \notin mctnlids
    BY <1>5, Zenon DEF KeyLeft
  <2>5. old \subseteq mctnlids
    BY Zenon DEF McQuiet
  <2>6. McKeys \ (mctnlids \cup old) # {}
    BY <2>4, <2>5
  <2>7. IsFiniteSet(McKeys \ (mctnlids \cup old))
    BY FS_Subset DEF McConstants
  <2>8. Len(free) \in Nat /\ 1 <= Len(free)
    BY <2>6, <2>7, FirstInOrder, Zenon
  <2> HIDE DEF new, free, old
  <2>9. PICK g : g = [name |-> new[1], key |-> free[1]]
    OBVIOUS
  <2>10. g \in mcgroup
    BY <1>2, <1>3, <2>3, <2>8, <2>9, Zenon
  <2>11. g.name = new[1]
    BY <2>9
  <2> QED
    BY <2>3, <2>10, <2>11, Zenon
<1>6. ASSUME NEW g \in mcgroup PROVE g.name \in Asked
  <2>1. CASE g \notin NewKeys(mcgroup, Asked, mctnlids)
    BY <1>2, <2>1, Zenon
  <2>2. CASE g \in NewKeys(mcgroup, Asked, mctnlids)
    <3>1. PICK i \in DOMAIN new : g = [name |-> new[i], key |-> free[i]]
      BY <1>3, <2>2, Zenon
    <3>2. new \in [1 .. Cardinality(Asked \ Names) -> Asked \ Names]
      <4>1. IsFiniteSet(Asked \ Names)
        BY <1>4, FS_Subset
      <4> QED
        BY <4>1, InOrder, Zenon
    <3> HIDE DEF new, free
    <3>3. new[i] \in Asked
      BY <3>1, <3>2
    <3>4. g.name = new[i]
      BY <3>1
    <3> QED
      BY <3>3, <3>4, Zenon
  <2> QED
    BY <2>1, <2>2
<1> HIDE DEF old, free, new
<1>7. Names = Asked
  BY <1>5, <1>6, Zenon
<1> QED
  BY <1>1, <1>7, Zenon

\* For any number of groups, table sizes, keys and events, as long as no group
\* waits for a tunnel key while none is left: when the handler thread, the main
\* thread and northd have come to rest, northd forwards exactly the groups that
\* the chassis has learnt.
THEOREM LearntGroupsForwarded ==
    ASSUME IsFiniteSet(McGroups), IsFiniteSet(McKeys), McSizes \subseteq Nat, DefaultSize \in Nat
    PROVE  MulticastSpec /\ []KeyLeft => []GroupsForwarded
<1>1. McConstants
  BY DEF McConstants
<1>2. MulticastInit => McInv
  BY <1>1, McInitially
<1>3. McInv /\ [MulticastNext]_mcVars => McInv'
  BY <1>1, McStep
<1>4. McInv /\ KeyLeft => GroupsForwarded
  BY <1>1, McSafe
<1> QED
  BY <1>2, <1>3, <1>4, PTL DEF MulticastSpec

\* The rows of IGMP_Group, whichever chassis they belong to.
McRows == \A r \in mcigmp : r = [group |-> r.group, chassis |-> r.chassis] /\ r.group \in McGroups

LEMMA LearntGroups == McInv => Learnt \subseteq McGroups
<1> SUFFICES ASSUME McInv, NEW n \in Learnt PROVE n \in McGroups
  OBVIOUS
<1>1. PICK i \in mcsnoop : n \in Range(i.ms.lru)
  BY Zenon DEF Learnt
<1>2. i.ms.lru \in Seq(McGroups)
  BY Zenon DEF McInv, IsSnoop, IsTable
<1>3. PICK k \in DOMAIN i.ms.lru : n = i.ms.lru[k]
  BY <1>1, Zenon DEF Range
<1> QED
  BY <1>2, <1>3

LEMMA McRowsStep == McInv /\ McRows /\ [MulticastNext]_mcVars => McRows'
<1> SUFFICES ASSUME McInv, McRows, [MulticastNext]_mcVars PROVE McRows'
  OBVIOUS
<1>1. CASE mcigmp' \in SUBSET mcigmp
  BY <1>1, Zenon DEF McRows
<1>2. CASE ChassisDeleted
  <2>1. ASSUME NEW r \in mcigmp'
        PROVE  r = [group |-> r.group, chassis |-> r.chassis] /\ r.group \in McGroups
    <3>1. PICK x \in mcigmp : r = [x EXCEPT !.chassis = FALSE]
      BY <1>2, <2>1, Zenon DEF ChassisDeleted
    <3>2. x = [group |-> x.group, chassis |-> x.chassis] /\ x.group \in McGroups
      BY Zenon DEF McRows
    <3>3. r = [group |-> x.group, chassis |-> FALSE]
      BY <3>1, <3>2
    <3> QED
      BY <3>2, <3>3
  <2> QED
    BY <2>1, Zenon DEF McRows
<1>3. CASE ip_mcast_sync
  <2>1. mcigmp' = RowsSynced
    BY <1>3, Zenon DEF ip_mcast_sync
  <2>2. ASSUME NEW r \in mcigmp', r \notin mcigmp PROVE \E g \in Learnt : r = [group |-> g, chassis |-> TRUE]
    BY <2>1, <2>2, Zenon DEF RowsSynced, RowsNeeded
  <2>3. ASSUME NEW r \in mcigmp'
        PROVE  r = [group |-> r.group, chassis |-> r.chassis] /\ r.group \in McGroups
    <3>1. CASE r \in mcigmp
      BY <3>1, Zenon DEF McRows
    <3>2. CASE r \notin mcigmp
      <4>1. PICK g \in Learnt : r = [group |-> g, chassis |-> TRUE]
        BY <2>2, <2>3, <3>2, Zenon
      <4>2. g \in McGroups
        BY <4>1, LearntGroups, Zenon
      <4> QED
        BY <4>1, <4>2
    <3> QED
      BY <3>1, <3>2
  <2> QED
    BY <2>3, Zenon DEF McRows
<1>4. ASSUME NEW b \in BOOLEAN, en_multicast_igmp_run(b) PROVE McRows'
  <2>1. mcigmp' \in SUBSET mcigmp
    BY <1>4, Zenon DEF en_multicast_igmp_run
  <2> QED
    BY <1>1, <2>1, Zenon
<1>5. mcigmp' = mcigmp \/ ChassisDeleted \/ ip_mcast_sync \/ \E b \in BOOLEAN : en_multicast_igmp_run(b)
  BY Zenon DEF MulticastNext, mcVars, SetMcastConfig, ip_multicast_flush, LocalChanges,
               pinctrl_ip_mcast_handle, ip_mcast_snoop_run
<1> QED
  BY <1>1, <1>2, <1>3, <1>4, <1>5, Zenon

\* Some order of a finite set names every element once.
LEMMA OnceInOrder ==
    ASSUME NEW S, IsFiniteSet(S)
    PROVE  /\ DOMAIN SetToSeq(S) = 1 .. Cardinality(S) /\ Len(SetToSeq(S)) = Cardinality(S)
           /\ \A i \in 1 .. Cardinality(S) : SetToSeq(S)[i] \in S
           /\ \A i, j \in 1 .. Cardinality(S) : SetToSeq(S)[i] = SetToSeq(S)[j] => i = j
           /\ Cardinality(S) \in Nat
<1>1. Cardinality(S) \in Nat /\ ExistsBijection(1 .. Cardinality(S), S)
  BY FS_CardinalityType, Zenon
<1>2. PICK f \in [1 .. Cardinality(S) -> S] : IsInjective(f)
  BY <1>1, Zenon DEF ExistsBijection, Bijection, Injection
<1>3. PICK h : h = SetToSeq(S)
  OBVIOUS
<1>4. h \in [1 .. Cardinality(S) -> S] /\ IsInjective(h)
  BY <1>2, <1>3, Zenon DEF SetToSeq
<1>5. DOMAIN h = 1 .. Cardinality(S)
  BY <1>4, Zenon
<1>6. \A i, j \in 1 .. Cardinality(S) : h[i] = h[j] => i = j
  BY <1>4, <1>5, Zenon DEF IsInjective
<1>7. \A i \in 1 .. Cardinality(S) : h[i] \in S
  BY <1>4, Zenon
<1>8. Len(h) = Cardinality(S)
  <2>1. PICK n \in Nat : n = Cardinality(S) /\ h \in [1 .. n -> S]
    BY <1>1, <1>4, Zenon
  <2> QED
    BY <2>1
<1> QED
  BY <1>1, <1>3, <1>5, <1>6, <1>7, <1>8, Zenon

\* Two groups that get a key get different ones, none of a group that stays.
LEMMA FreshKeys ==
    ASSUME McConstants, McRows, NEW used, NEW g \in NewKeys(mcgroup, Asked, used)
    PROVE  /\ g.name \notin {r.name : r \in mcgroup}
           /\ g.key \notin {r.key : r \in {x \in mcgroup : x.name \in Asked}}
           /\ \A h \in NewKeys(mcgroup, Asked, used) : g.key = h.key \/ g.name = h.name => g = h
<1> DEFINE Names == {r.name : r \in mcgroup}
           old == {r.key : r \in {x \in mcgroup : x.name \in Asked}}
           F == McKeys \ (used \cup old)
           N == Asked \ Names
<1>1. IsFiniteSet(F)
  BY FS_Subset DEF McConstants
<1>2. IsFiniteSet(N)
  <2>1. Asked \subseteq McGroups
    BY Zenon DEF Asked, McRows
  <2>2. N \in SUBSET McGroups
    BY <2>1
  <2> QED
    BY <2>2, FS_Subset, Zenon DEF McConstants
<1>3. PICK free, new : free = SetToSeq(F) /\ new = SetToSeq(N)
  OBVIOUS
<1>4. NewKeys(mcgroup, Asked, used) =
        {[name |-> new[i], key |-> free[i]] : i \in {j \in DOMAIN new : j <= Len(free)}}
  BY <1>3 DEF NewKeys
<1>5. PICK n, m : n = Cardinality(N) /\ m = Cardinality(F)
  OBVIOUS
<1> HIDE DEF F, N
<1>6. /\ DOMAIN new = 1 .. n /\ n \in Nat
      /\ \A i \in 1 .. n : new[i] \in N
      /\ \A i, j \in 1 .. n : new[i] = new[j] => i = j
  BY <1>2, <1>3, <1>5, OnceInOrder, Zenon
<1>7. /\ Len(free) = m /\ m \in Nat
      /\ \A i \in 1 .. m : free[i] \in F
      /\ \A i, j \in 1 .. m : free[i] = free[j] => i = j
  BY <1>1, <1>3, <1>5, OnceInOrder, Zenon
<1>8. ASSUME NEW h \in NewKeys(mcgroup, Asked, used)
      PROVE  \E i \in 1 .. n : i \in 1 .. m /\ h = [name |-> new[i], key |-> free[i]]
                               /\ h.name = new[i] /\ h.key = free[i]
  <2>1. PICK i \in DOMAIN new : i <= Len(free) /\ h = [name |-> new[i], key |-> free[i]]
    BY <1>4, <1>8, Zenon
  <2>2. i \in 1 .. n /\ i \in 1 .. m
    BY <1>6, <1>7, <2>1
  <2>3. h.name = new[i] /\ h.key = free[i]
    BY <2>1
  <2> QED
    BY <2>1, <2>2, <2>3, Zenon
<1>9. PICK i \in 1 .. n : i \in 1 .. m /\ g = [name |-> new[i], key |-> free[i]]
                          /\ g.name = new[i] /\ g.key = free[i]
  BY <1>8
<1>10. g.name \in N /\ g.key \in F
  BY <1>6, <1>7, <1>9, Zenon
<1>11. ASSUME NEW h \in NewKeys(mcgroup, Asked, used), g.key = h.key \/ g.name = h.name PROVE g = h
  <2>1. PICK j \in 1 .. n : j \in 1 .. m /\ h = [name |-> new[j], key |-> free[j]]
                            /\ h.name = new[j] /\ h.key = free[j]
    BY <1>8
  <2>2. i = j
    BY <1>6, <1>7, <1>9, <1>11, <2>1, Zenon
  <2> QED
    BY <1>9, <2>1, <2>2, Zenon
<1>12. g.name \notin Names /\ g.key \notin old
  BY <1>10, Zenon DEF N, F
<1> QED
  BY <1>11, <1>12

\* northd's node writes groups with keys of their own.
LEMMA BuiltKeysDiffer ==
    ASSUME McConstants, McRows, GroupKeysDiffer, NEW used,
           NEW g \in GroupsBuilt(used), NEW h \in GroupsBuilt(used), g.key = h.key \/ g.name = h.name
    PROVE  g = h
<1> DEFINE Fresh == NewKeys(mcgroup, Asked, used)
           Stay == {x \in mcgroup : x.name \in Asked}
<1>1. (g \in Stay \/ g \in Fresh) /\ (h \in Stay \/ h \in Fresh)
  BY Zenon DEF GroupsBuilt
<1>2. CASE g \in Stay /\ h \in Stay
  BY <1>2, Zenon DEF GroupKeysDiffer
<1>3. ASSUME NEW x \in Stay, NEW y \in Fresh PROVE x.key # y.key /\ x.name # y.name
  <2>1. y.name \notin {r.name : r \in mcgroup} /\ y.key \notin {r.key : r \in Stay}
    BY <1>3, FreshKeys, Zenon
  <2> QED
    BY <1>3, <2>1, Zenon
<1>4. CASE g \in Fresh /\ h \in Fresh
  BY <1>4, FreshKeys, Zenon
<1> HIDE DEF Fresh, Stay
<1> QED
  BY <1>1, <1>2, <1>3, <1>4, Zenon

LEMMA GroupKeysStep ==
    McConstants /\ McRows /\ GroupKeysDiffer /\ [MulticastNext]_mcVars => GroupKeysDiffer'
<1> SUFFICES ASSUME McConstants, McRows, GroupKeysDiffer, [MulticastNext]_mcVars
             PROVE  GroupKeysDiffer'
  OBVIOUS
<1>1. CASE mcgroup' = mcgroup
  BY <1>1, Zenon DEF GroupKeysDiffer
<1>2. ASSUME NEW b \in BOOLEAN, en_multicast_igmp_run(b) PROVE GroupKeysDiffer'
  <2>1. PICK used : mcgroup' = GroupsBuilt(used)
    BY <1>2, Zenon DEF en_multicast_igmp_run
  <2> QED
    BY <2>1, BuiltKeysDiffer, Zenon DEF GroupKeysDiffer
<1>3. mcgroup' = mcgroup \/ \E b \in BOOLEAN : en_multicast_igmp_run(b)
  BY Zenon DEF MulticastNext, mcVars, SetMcastConfig, ip_multicast_flush, LocalChanges,
               ChassisDeleted, pinctrl_ip_mcast_handle, ip_mcast_snoop_run, ip_mcast_sync
<1> QED
  BY <1>1, <1>2, <1>3, Zenon

LEMMA KeysOfNoGroups == MulticastInit => McRows /\ GroupKeysDiffer
  BY Zenon DEF MulticastInit, McRows, GroupKeysDiffer

\* For any number of groups, keys and events: no two Multicast_Group rows of a
\* switch have the same tunnel key or the same name, over incremental runs, full
\* recomputes and keys that stay marked after their group is gone.
THEOREM GroupKeysNeverShared ==
    ASSUME IsFiniteSet(McGroups), IsFiniteSet(McKeys), McSizes \subseteq Nat, DefaultSize \in Nat
    PROVE  MulticastSpec => []GroupKeysDiffer
<1> DEFINE Inv == McInv /\ McRows /\ GroupKeysDiffer
<1>1. McConstants
  BY DEF McConstants
<1>2. MulticastInit => Inv
  BY <1>1, McInitially, KeysOfNoGroups
<1>3. Inv /\ [MulticastNext]_mcVars => Inv'
  BY <1>1, McStep, McRowsStep, GroupKeysStep
<1>4. Inv => GroupKeysDiffer
  OBVIOUS
<1> QED
  BY <1>2, <1>3, <1>4, PTL DEF MulticastSpec

\* The property of the run: at rest northd forwards the groups learnt, as long
\* as no group waits for a key while none is left, and groups never share a key.
THEOREM McastTheorem ==
    ASSUME IsFiniteSet(McGroups), IsFiniteSet(McKeys), McSizes \subseteq Nat, DefaultSize \in Nat
    PROVE  MCSpec /\ [](part = "mcast" => KeyLeft) => []McastRight
<1> DEFINE Inv == part = "mcast" => McInv /\ McRows /\ GroupKeysDiffer
           Left == part = "mcast" => KeyLeft
<1>1. McConstants
  BY DEF McConstants
<1>2. MCInit => Inv
  BY <1>1, McInitially, KeysOfNoGroups DEF MCInit, McastIs
<1>3. Inv /\ [MCNext]_vars => Inv'
  <2> SUFFICES ASSUME Inv, [MCNext]_vars, part' = "mcast" PROVE (McInv /\ McRows /\ GroupKeysDiffer)'
    OBVIOUS
  <2>1. part = "mcast" /\ [MulticastNext]_mcVars
    BY Zenon DEF MCNext, vars, Alone, Parts
  <2> QED
    BY <1>1, <2>1, McStep, McRowsStep, GroupKeysStep
<1>4. Inv /\ Left => McastRight
  BY <1>1, McSafe DEF McastRight
<1> QED
  BY <1>2, <1>3, <1>4, PTL DEF MCSpec
=============================================================================
