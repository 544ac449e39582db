------------------------- MODULE OfctrlSeqnoProofs -------------------------
(***************************************************************************)
(* What the sequence number tracker guarantees for every number of types,  *)
(* every set of sequence numbers and every bound.                          *)
(***************************************************************************)
EXTENDS OfctrlSeqno, SequenceTheorems, TLAPS

USE NTypesAssumption, CfgsAssumption, MaxSeqnoAssumption

\* Nothing is acknowledged while types are still being registered: AddType
\* resets cur_cfg, which would part it from the acks already in the lists.
QuietBeforeStart ==
    ~Started => /\ ofctrl_seqno_updates = <<>>
                /\ \A t \in Types : acked_cfgs[t] = <<>>

\* The inductive invariant.
SeqnoInv ==
    /\ SeqnoTypeOK
    /\ UpdatesContiguous
    /\ QuietBeforeStart
    /\ CurCfgIsLastAcked

\* Every operation of the tracker keeps its globals well typed.
LEMMA SeqnoTypeStep == SeqnoTypeOK /\ [SeqnoNext]_seqno_vars => SeqnoTypeOK'
<1> SUFFICES ASSUME SeqnoTypeOK, [SeqnoNext]_seqno_vars PROVE SeqnoTypeOK'
  OBVIOUS
<1> USE DEF SeqnoTypeOK, Types, Idle, Started
<1>1. CASE AddType
  BY <1>1 DEF AddType
<1>2. ASSUME NEW t \in Types, NEW new_cfg \in Cfgs, UpdateCreate(t, new_cfg)
      PROVE SeqnoTypeOK'
  <2>1. NewUpdate(t, new_cfg) \in Update /\ new_cfg \in Nat
    BY DEF NewUpdate, Update
  <2>2. CASE UpdateIsNew(t, new_cfg)
    <3>1. ofctrl_seqno_updates' \in Seq(Update)
      <4>1. ofctrl_seqno_updates' = Append(ofctrl_seqno_updates, NewUpdate(t, new_cfg))
        BY <1>2, <2>2 DEF UpdateCreate, PushBack
      <4> QED
        BY <2>1, <4>1, AppendProperties
    <3>0. ofctrl_req_seqno' \in Nat
      BY <1>2, <2>2 DEF UpdateCreate
    <3>2. type_req_cfg' \in [Types -> Nat]
      BY <1>2, <2>1, <2>2 DEF UpdateCreate
    <3> QED
      BY <1>2, <3>0, <3>1, <3>2 DEF UpdateCreate
  <2>3. CASE ~UpdateIsNew(t, new_cfg)
    BY <1>2, <2>3 DEF UpdateCreate
  <2> QED
    BY <2>2, <2>3
<1>3. ASSUME NEW flow_cfg \in 0 .. MaxSeqno, RunStart(flow_cfg)
      PROVE SeqnoTypeOK'
  <2>1. flow_cfg \in Nat
    OBVIOUS
  <2> QED
    BY <1>3, <2>1 DEF RunStart, tracker
<1>4. CASE RunPop
  <2> DEFINE u == Head(ofctrl_seqno_updates)
  <2>1. u \in Update /\ Tail(ofctrl_seqno_updates) \in Seq(Update)
    BY <1>4 DEF RunPop, Covered
  <2>2. Acked(u) \in [Types -> Seq(Nat)]
    <3>1. u.seqno_type \in Types /\ u.req_cfg \in Nat
      BY <2>1 DEF Update
    <3>2. Append(acked_cfgs[u.seqno_type], u.req_cfg) \in Seq(Nat)
      <4>1. acked_cfgs[u.seqno_type] \in Seq(Nat)
        BY <3>1
      <4> QED
        BY <3>1, <4>1, AppendProperties
    <3> QED
      BY <3>1, <3>2 DEF Acked
  <2>3. CurCfgAfter(u) \in [Types -> Nat]
    BY <2>1 DEF CurCfgAfter, Update
  <2> QED
    BY <1>4, <2>1, <2>2, <2>3 DEF RunPop
<1>5. CASE RunEnd
  BY <1>5 DEF RunEnd, tracker
<1>6. ASSUME NEW t \in Types, AckedSeqnosGet(t)
      PROVE SeqnoTypeOK'
  BY <1>6 DEF AckedSeqnosGet
<1>7. CASE Flush
  BY <1>7 DEF Flush
<1>8. CASE UNCHANGED seqno_vars
  BY <1>8 DEF seqno_vars
<1> QED
  BY <1>1, <1>2, <1>3, <1>4, <1>5, <1>6, <1>7, <1>8 DEF SeqnoNext, ConnectedNext

\* The globals of ofctrl-seqno.c are well typed in every state.
THEOREM SeqnoTypeCorrect == SeqnoSpec => []SeqnoTypeOK
<1>1. SeqnoInit => SeqnoTypeOK
  BY DEF SeqnoInit, SeqnoTypeOK, Types, Update, Idle
<1> QED
  BY <1>1, SeqnoTypeStep, PTL DEF SeqnoSpec

-----------------------------------------------------------------------------

\* Every operation keeps the list of requests contiguous.
LEMMA ContiguousStep ==
    SeqnoTypeOK /\ UpdatesContiguous /\ [SeqnoNext]_seqno_vars => UpdatesContiguous'
<1> SUFFICES ASSUME SeqnoTypeOK, UpdatesContiguous, [SeqnoNext]_seqno_vars
             PROVE UpdatesContiguous'
  OBVIOUS
<1> USE DEF SeqnoTypeOK, UpdatesContiguous
<1>1. CASE UNCHANGED <<ofctrl_seqno_updates, ofctrl_req_seqno>>
  BY <1>1
<1>2. ASSUME NEW t \in Types, NEW new_cfg \in Cfgs, UpdateCreate(t, new_cfg)
      PROVE UpdatesContiguous'
  <2>1. CASE UpdateIsNew(t, new_cfg)
    <3> DEFINE u == NewUpdate(t, new_cfg)
    <3>1. u.flow_cfg = ofctrl_req_seqno + 1
      BY DEF NewUpdate
    <3>2. /\ ofctrl_seqno_updates' = Append(ofctrl_seqno_updates, u)
          /\ ofctrl_req_seqno' = ofctrl_req_seqno + 1
      BY <1>2, <2>1 DEF UpdateCreate, PushBack
    <3>3. /\ Len(ofctrl_seqno_updates') = Len(ofctrl_seqno_updates) + 1
          /\ \A i \in 1 .. Len(ofctrl_seqno_updates) :
                ofctrl_seqno_updates'[i] = ofctrl_seqno_updates[i]
          /\ ofctrl_seqno_updates'[Len(ofctrl_seqno_updates) + 1] = u
      BY <3>2
    <3>4. Len(ofctrl_seqno_updates) \in Nat
      OBVIOUS
    <3> HIDE DEF u
    <3> SUFFICES ASSUME NEW i \in 1 .. Len(ofctrl_seqno_updates')
                 PROVE ofctrl_seqno_updates'[i].flow_cfg =
                         ofctrl_req_seqno' - Len(ofctrl_seqno_updates') + i
      OBVIOUS
    <3>5. CASE i = Len(ofctrl_seqno_updates) + 1
      BY <3>1, <3>2, <3>3, <3>4, <3>5
    <3>6. CASE i # Len(ofctrl_seqno_updates) + 1
      <4> HIDE DEF SeqnoTypeOK, UpdatesContiguous
      <4>1. i \in 1 .. Len(ofctrl_seqno_updates)
        BY <3>3, <3>4, <3>6
      <4> QED
        BY <3>2, <3>3, <3>4, <4>1 DEF SeqnoTypeOK, UpdatesContiguous
    <3> QED
      BY <3>5, <3>6
  <2>2. CASE ~UpdateIsNew(t, new_cfg)
    BY <1>1, <1>2, <2>2 DEF UpdateCreate
  <2> QED
    BY <2>1, <2>2
<1>3. CASE RunPop
  <2>1. /\ ofctrl_seqno_updates # <<>>
        /\ ofctrl_seqno_updates' = Tail(ofctrl_seqno_updates)
        /\ ofctrl_req_seqno' = ofctrl_req_seqno
    BY <1>3 DEF RunPop, Covered
  <2>2. /\ Len(ofctrl_seqno_updates') = Len(ofctrl_seqno_updates) - 1
        /\ \A i \in 1 .. Len(ofctrl_seqno_updates') :
              ofctrl_seqno_updates'[i] = ofctrl_seqno_updates[i + 1]
    BY <2>1
  <2> QED
    BY <2>1, <2>2
<1>4. CASE Flush
  BY <1>4 DEF Flush
<1> QED
  BY <1>1, <1>2, <1>3, <1>4
     DEF SeqnoNext, ConnectedNext, seqno_vars, AddType, RunStart, RunEnd, AckedSeqnosGet, tracker

\* Registration is quiet, and is over once it is over.
LEMMA QuietStep ==
    SeqnoTypeOK /\ QuietBeforeStart /\ [SeqnoNext]_seqno_vars => QuietBeforeStart'
<1> SUFFICES ASSUME SeqnoTypeOK, QuietBeforeStart, [SeqnoNext]_seqno_vars
             PROVE QuietBeforeStart'
  OBVIOUS
<1> USE DEF SeqnoTypeOK, QuietBeforeStart, Started
<1>1. CASE AddType
  BY <1>1 DEF AddType
<1>2. CASE UNCHANGED <<n_ofctrl_seqno_states, ofctrl_seqno_updates, acked_cfgs>>
  BY <1>2
<1>3. CASE Started /\ UNCHANGED n_ofctrl_seqno_states
  BY <1>3
<1>4. CASE RunPop
  BY <1>3, <1>4 DEF RunPop, Covered
<1> QED
  BY <1>1, <1>2, <1>3, <1>4
     DEF SeqnoNext, ConnectedNext, seqno_vars, UpdateCreate, RunStart, RunEnd, AckedSeqnosGet,
         Flush, tracker

\* Every operation keeps cur_cfg and the list of acks together.
LEMMA LastAckedStep ==
    SeqnoInv /\ [SeqnoNext]_seqno_vars => CurCfgIsLastAcked'
<1> SUFFICES ASSUME SeqnoInv, [SeqnoNext]_seqno_vars PROVE CurCfgIsLastAcked'
  OBVIOUS
<1> USE DEF SeqnoInv, SeqnoTypeOK, CurCfgIsLastAcked, LastAcked
<1>1. CASE AddType
  BY <1>1 DEF AddType, QuietBeforeStart, Types
<1>2. CASE UNCHANGED <<acked_cfgs, type_cur_cfg>>
  BY <1>2
<1>3. CASE RunPop
  <2> DEFINE u == Head(ofctrl_seqno_updates)
  <2>1. u.seqno_type \in Types /\ u.req_cfg \in Nat
    <3>1. u \in Update
      BY <1>3, HeadTailProperties DEF RunPop, Covered
    <3> QED
      BY <3>1 DEF Update
  <2>2. SUFFICES ASSUME NEW t \in Types PROVE (LastAcked(t) = type_cur_cfg[t])'
    OBVIOUS
  <2>3. CASE t = u.seqno_type
    <3>1. /\ acked_cfgs'[t] = Append(acked_cfgs[t], u.req_cfg)
          /\ type_cur_cfg'[t] = u.req_cfg
      BY <1>3, <2>1, <2>3 DEF RunPop, Acked, CurCfgAfter
    <3> QED
      BY <2>1, <3>1
  <2>4. CASE t # u.seqno_type
    BY <1>3, <2>1, <2>4 DEF RunPop, Acked, CurCfgAfter
  <2> QED
    BY <2>3, <2>4
<1>4. ASSUME NEW t \in Types, AckedSeqnosGet(t)
      PROVE CurCfgIsLastAcked'
  BY <1>4 DEF AckedSeqnosGet
<1>5. CASE Flush
  BY <1>5 DEF Flush
<1> QED
  BY <1>1, <1>2, <1>3, <1>4, <1>5
     DEF SeqnoNext, ConnectedNext, seqno_vars, UpdateCreate, RunStart, RunEnd, tracker

\* The conjunction of the three is an invariant: each needs the types only.
LEMMA SeqnoInvariant == SeqnoSpec => []SeqnoInv
<1>1. SeqnoInit => SeqnoInv
  BY DEF SeqnoInit, SeqnoInv, SeqnoTypeOK, Types, Update, Idle, UpdatesContiguous,
         QuietBeforeStart, CurCfgIsLastAcked, LastAcked
<1>2. SeqnoInv /\ [SeqnoNext]_seqno_vars => SeqnoInv'
  BY SeqnoTypeStep, ContiguousStep, QuietStep, LastAckedStep DEF SeqnoInv
<1> QED
  BY <1>1, <1>2, PTL DEF SeqnoSpec

\* However requests, runs, consumers and flushes interleave, the list of
\* ofctrl-seqno.c holds consecutive values of ofctrl_req_seqno in order.
THEOREM UpdatesAlwaysContiguous == SeqnoSpec => []UpdatesContiguous
<1>1. SeqnoInv => UpdatesContiguous
  BY DEF SeqnoInv
<1> QED
  BY <1>1, SeqnoInvariant, PTL

\* cur_cfg of a type is always the newest number acknowledged to it, so what
\* ofctrl_acked_seqnos_get() returns does not depend on who consumed what when.
THEOREM CurCfgAlwaysLastAcked == SeqnoSpec => []CurCfgIsLastAcked
<1>1. SeqnoInv => CurCfgIsLastAcked
  BY DEF SeqnoInv
<1> QED
  BY <1>1, SeqnoInvariant, PTL

\* The loop of ofctrl_seqno_run() may stop at the first request that is not
\* covered: no covered request is behind it.
THEOREM RunNeverLeavesCovered == SeqnoSpec => RunLeavesNoneBehind
<1>1. SeqnoInv /\ [SeqnoNext]_seqno_vars
        => [RunEnd => \A i \in 1 .. Len(ofctrl_seqno_updates) :
                          ofctrl_seqno_updates[i].flow_cfg > run_cfg]_seqno_vars
  <2> SUFFICES ASSUME SeqnoInv, RunEnd,
                      NEW i \in 1 .. Len(ofctrl_seqno_updates)
               PROVE ofctrl_seqno_updates[i].flow_cfg > run_cfg
    OBVIOUS
  <2> USE DEF SeqnoInv, SeqnoTypeOK, UpdatesContiguous, Idle
  <2>1. ofctrl_seqno_updates # <<>> /\ Len(ofctrl_seqno_updates) \in Nat
    OBVIOUS
  <2>2. run_cfg \in Nat /\ ~(run_cfg >= ofctrl_seqno_updates[1].flow_cfg)
    BY <2>1 DEF RunEnd, Covered
  <2>3. /\ ofctrl_seqno_updates[1].flow_cfg =
              ofctrl_req_seqno - Len(ofctrl_seqno_updates) + 1
        /\ ofctrl_seqno_updates[i].flow_cfg =
              ofctrl_req_seqno - Len(ofctrl_seqno_updates) + i
    BY <2>1
  <2> HIDE DEF SeqnoInv, UpdatesContiguous
  <2> QED
    BY <2>1, <2>2, <2>3 DEF SeqnoInv
<1> QED
  BY <1>1, SeqnoInvariant, PTL DEF SeqnoSpec, RunLeavesNoneBehind

-----------------------------------------------------------------------------

NonePending(t) ==
    \A j \in 1 .. Len(ofctrl_seqno_updates) : ofctrl_seqno_updates[j].seqno_type # t

NewestPending(t, i) ==
    /\ ofctrl_seqno_updates[i].seqno_type = t
    /\ ofctrl_seqno_updates[i].req_cfg = type_req_cfg[t]
    /\ \A j \in i + 1 .. Len(ofctrl_seqno_updates) :
          ofctrl_seqno_updates[j].seqno_type # t

\* LastRequestPendingOrAcked, made inductive: the request that is pending is
\* the newest of its type, so acknowledging it leaves none of its type behind.
NewestRequestPendingOrAcked ==
    \A t \in Types :
        \/ NonePending(t) /\ type_req_cfg[t] = type_cur_cfg[t]
        \/ \E i \in 1 .. Len(ofctrl_seqno_updates) : NewestPending(t, i)

\* While the connection is up no operation loses the newest request of a type.
LEMMA NewestRequestStep ==
    /\ SeqnoTypeOK /\ QuietBeforeStart /\ NewestRequestPendingOrAcked
    /\ [ConnectedNext]_seqno_vars
    => NewestRequestPendingOrAcked'
<1> SUFFICES ASSUME SeqnoTypeOK, QuietBeforeStart, NewestRequestPendingOrAcked,
                    [ConnectedNext]_seqno_vars,
                    NEW t \in Types
             PROVE \/ (NonePending(t) /\ type_req_cfg[t] = type_cur_cfg[t])'
                   \/ \E i \in 1 .. Len(ofctrl_seqno_updates') : NewestPending(t, i)'
  BY DEF NewestRequestPendingOrAcked
<1>0. \/ NonePending(t) /\ type_req_cfg[t] = type_cur_cfg[t]
      \/ \E i \in 1 .. Len(ofctrl_seqno_updates) : NewestPending(t, i)
  BY DEF NewestRequestPendingOrAcked
<1> DEFINE n == Len(ofctrl_seqno_updates)
<1>n. n \in Nat
  BY DEF SeqnoTypeOK
<1>1. CASE AddType
  <2>1. ofctrl_seqno_updates' = <<>>
    BY <1>1 DEF AddType, QuietBeforeStart
  <2>2. type_req_cfg'[t] = type_cur_cfg'[t]
    BY <1>1 DEF AddType
  <2> QED
    BY <2>1, <2>2 DEF NonePending
<1>2. CASE UNCHANGED <<ofctrl_seqno_updates, type_cur_cfg, type_req_cfg>>
  BY <1>0, <1>2 DEF NonePending, NewestPending
<1>3. ASSUME NEW s \in Types, NEW new_cfg \in Cfgs, UpdateCreate(s, new_cfg),
             UpdateIsNew(s, new_cfg)
      PROVE \/ (NonePending(t) /\ type_req_cfg[t] = type_cur_cfg[t])'
            \/ \E i \in 1 .. Len(ofctrl_seqno_updates') : NewestPending(t, i)'
  <2> DEFINE u == NewUpdate(s, new_cfg)
  <2>1. u.seqno_type = s /\ u.req_cfg = new_cfg
    BY DEF NewUpdate
  <2>2. ofctrl_seqno_updates' = Append(ofctrl_seqno_updates, u)
    BY <1>3 DEF UpdateCreate, PushBack
  <2>3. /\ Len(ofctrl_seqno_updates') = n + 1
        /\ \A j \in 1 .. n : ofctrl_seqno_updates'[j] = ofctrl_seqno_updates[j]
        /\ ofctrl_seqno_updates'[n + 1] = u
    BY <2>2 DEF SeqnoTypeOK
  <2>4. /\ type_req_cfg'[t] = IF s = t THEN new_cfg ELSE type_req_cfg[t]
        /\ type_cur_cfg'[t] = type_cur_cfg[t]
    BY <1>3 DEF UpdateCreate, SeqnoTypeOK
  <2> HIDE DEF u, n
  <2>5. CASE s = t
    <3>1. PICK k \in Nat : k = n + 1
      BY <1>n
    <3>2. NewestPending(t, k)'
      BY <1>n, <2>1, <2>3, <2>4, <2>5, <3>1 DEF NewestPending
    <3>3. k \in 1 .. Len(ofctrl_seqno_updates')
      BY <1>n, <2>3, <3>1
    <3> QED
      BY <3>2, <3>3
  <2>6. CASE s # t
    <3>1. CASE NonePending(t) /\ type_req_cfg[t] = type_cur_cfg[t]
      <4>1. SUFFICES ASSUME NEW j \in 1 .. n + 1
                     PROVE ofctrl_seqno_updates'[j].seqno_type # t
        BY <2>3, <2>4, <2>6, <3>1 DEF NonePending
      <4>2. CASE j = n + 1
        BY <2>1, <2>3, <2>6, <4>2
      <4>3. CASE j # n + 1
        <5>1. j \in 1 .. n
          BY <1>n, <4>3
        <5> QED
          BY <2>3, <3>1, <5>1 DEF NonePending, n
      <4> QED
        BY <4>2, <4>3
    <3>2. ASSUME NEW i \in 1 .. n, NewestPending(t, i)
          PROVE NewestPending(t, i)' /\ i \in 1 .. Len(ofctrl_seqno_updates')
      <4>1. i \in 1 .. Len(ofctrl_seqno_updates')
        BY <1>n, <2>3
      <4>2. /\ ofctrl_seqno_updates'[i].seqno_type = t
            /\ ofctrl_seqno_updates'[i].req_cfg = type_req_cfg'[t]
        BY <2>3, <2>4, <2>6, <3>2 DEF NewestPending
      <4>3. ASSUME NEW j \in i + 1 .. n + 1
            PROVE ofctrl_seqno_updates'[j].seqno_type # t
        <5>1. CASE j = n + 1
          BY <2>1, <2>3, <2>6, <5>1
        <5>2. CASE j # n + 1
          <6>1. j \in i + 1 .. n /\ j \in 1 .. n
            BY <1>n, <5>2
          <6> QED
            BY <2>3, <3>2, <6>1 DEF NewestPending, n
        <5> QED
          BY <5>1, <5>2
      <4> QED
        BY <2>3, <4>1, <4>2, <4>3 DEF NewestPending
    <3> QED
      BY <1>0, <3>1, <3>2 DEF n
  <2> QED
    BY <2>5, <2>6
<1>4. CASE RunPop
  <2> DEFINE u == ofctrl_seqno_updates[1]
  <2>1. /\ n > 0
        /\ Head(ofctrl_seqno_updates) = u
        /\ u.seqno_type \in Types
        /\ Len(ofctrl_seqno_updates') = n - 1
        /\ \A j \in 1 .. n - 1 :
              ofctrl_seqno_updates'[j] = ofctrl_seqno_updates[j + 1]
    <3>1. ofctrl_seqno_updates # <<>> /\ ofctrl_seqno_updates \in Seq(Update)
      BY <1>4 DEF RunPop, Covered, SeqnoTypeOK
    <3>2. n > 0
      <4>1. n \in Nat \ {0}
        BY <3>1, EmptySeq
      <4> QED
        BY <4>1
    <3>3. u \in Update
      <4>1. 1 \in 1 .. n
        BY <3>2, <1>n
      <4> QED
        BY <3>1, <4>1, ElementOfSeq
    <3>4. Head(ofctrl_seqno_updates) = u
      BY <3>1
    <3>5. ofctrl_seqno_updates' = Tail(ofctrl_seqno_updates)
      BY <1>4 DEF RunPop
    <3>6. u.seqno_type \in Types
      BY <3>3 DEF Update
    <3>7. /\ Len(ofctrl_seqno_updates') = n - 1
          /\ \A j \in 1 .. n - 1 :
                ofctrl_seqno_updates'[j] = ofctrl_seqno_updates[j + 1]
      BY <3>1, <3>5, HeadTailProperties
    <3> QED
      BY <3>2, <3>4, <3>6, <3>7
  <2>2. /\ type_req_cfg'[t] = type_req_cfg[t]
        /\ type_cur_cfg'[t] = IF t = u.seqno_type THEN u.req_cfg ELSE type_cur_cfg[t]
    BY <1>4, <2>1 DEF RunPop, CurCfgAfter, SeqnoTypeOK
  <2> HIDE DEF u, n
  <2>3. CASE NonePending(t) /\ type_req_cfg[t] = type_cur_cfg[t]
    <3>1. u.seqno_type # t
      BY <1>n, <2>1, <2>3 DEF NonePending, u, n
    <3>2. NonePending(t)'
      BY <1>n, <2>1, <2>3 DEF NonePending, n
    <3> QED
      BY <2>2, <2>3, <3>1, <3>2
  <2>4. ASSUME NEW i \in 1 .. n, NewestPending(t, i)
        PROVE \/ (NonePending(t) /\ type_req_cfg[t] = type_cur_cfg[t])'
              \/ \E k \in 1 .. Len(ofctrl_seqno_updates') : NewestPending(t, k)'
    <3>1. CASE i = 1
      <4>1. u.seqno_type = t /\ u.req_cfg = type_req_cfg[t]
        BY <2>4, <3>1 DEF NewestPending, u
      <4>2. NonePending(t)'
        BY <1>n, <2>1, <2>4, <3>1 DEF NonePending, NewestPending, n
      <4> QED
        BY <2>2, <4>1, <4>2
    <3>2. CASE i # 1
      <4>1. i - 1 \in 1 .. n - 1 /\ (i - 1) + 1 = i
        BY <1>n, <3>2
      <4>2. ofctrl_seqno_updates'[i - 1] = ofctrl_seqno_updates[i]
        BY <2>1, <4>1
      <4>3. CASE t = u.seqno_type
        <5>1. NewestPending(t, i - 1)'
          BY <1>n, <2>1, <2>2, <2>4, <4>1, <4>2 DEF NewestPending, n
        <5> QED
          BY <2>1, <4>1, <5>1
      <4>4. CASE t # u.seqno_type
        <5>1. NewestPending(t, i - 1)'
          BY <1>n, <2>1, <2>2, <2>4, <4>1, <4>2 DEF NewestPending, n
        <5> QED
          BY <2>1, <4>1, <5>1
      <4> QED
        BY <4>3, <4>4
    <3> QED
      BY <3>1, <3>2
  <2> QED
    BY <1>0, <2>3, <2>4 DEF n
<1> QED
  BY <1>1, <1>2, <1>3, <1>4
     DEF ConnectedNext, seqno_vars, UpdateCreate, RunStart, RunEnd, AckedSeqnosGet,
         tracker

\* While the OpenFlow connection stays up, the early return of
\* ofctrl_seqno_update_create() is right: the number was acknowledged, or an
\* update for it is pending.  (After a flush it is not: see the README.)
THEOREM ConnectedRequestsNotLost == ConnectedSpec => []LastRequestPendingOrAcked
<1> DEFINE Inv == SeqnoTypeOK /\ QuietBeforeStart /\ NewestRequestPendingOrAcked
<1>1. SeqnoInit => Inv
  BY DEF SeqnoInit, SeqnoTypeOK, Types, Update, Idle, QuietBeforeStart,
         NewestRequestPendingOrAcked, NonePending
<1>2. Inv /\ [ConnectedNext]_seqno_vars => Inv'
  BY SeqnoTypeStep, QuietStep, NewestRequestStep DEF SeqnoNext
<1>3. Inv => LastRequestPendingOrAcked
  BY DEF NewestRequestPendingOrAcked, NewestPending, LastRequestPendingOrAcked
<1> QED
  BY <1>1, <1>2, <1>3, PTL DEF ConnectedSpec
=============================================================================
