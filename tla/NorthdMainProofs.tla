-------------------------- MODULE NorthdMainProofs --------------------------
(***************************************************************************)
(* ovn-nbctl --wait is a barrier, for any number of chassis, instances of  *)
(* ovn-northd, commands and faults: NorthdMain implements NbBarrier, but   *)
(* for a command whose change was in a Southbound transaction that failed. *)
(***************************************************************************)
EXTENDS NorthdMain, TLAPS, WellFoundedInduction

(***************************************************************************)
(* The inductive invariant.                                                *)
(***************************************************************************)
\* Contents only follow one another: Northbound, Southbound, chassis.
InOrder ==
    /\ sbcfg.content <= nbcfg.nb /\ failed <= nbcfg.nb
    /\ \A i \in Northds : ndcfg[i].next <= nbcfg.nb
    /\ \A h \in Hypervisors : hvflows[h] <= sbcfg.content /\ hvcfg[h] <= hvflows[h]

\* Only the holder of the lock has a Southbound transaction, and it does not
\* take the Southbound back.
OneWriter ==
    \A i \in Northds : \A v \in ndsb[i] :
        /\ ndlock = i
        /\ v = ndcfg[i].next
        /\ sbcfg.content <= v /\ failed <= v

\* What hv_cfg says, in the Northbound or on the way to it, every chassis has.
HvReported ==
    \A h \in Hypervisors :
        /\ nbcfg.hv <= hvflows[h]
        /\ \A i \in Northds : \A t \in ndnb[i] : \A v \in t.hv : v <= hvflows[h]

\* What sb_cfg says, the Southbound has or a failed transaction had.
Covered(x) == x <= sbcfg.content \/ x <= failed

SbReported ==
    /\ Covered(nbcfg.sb)
    /\ \A i \in Northds :
        /\ Covered(ndcfg[i].cur)
        /\ ndsb[i] = {} => Covered(ndcfg[i].next)
        /\ \A t \in ndnb[i] : \A v \in t.sb : Covered(v)

BarrierInv == NorthdMainTypeOK /\ InOrder /\ OneWriter /\ HvReported /\ SbReported

(***************************************************************************)
(* Lemmas.                                                                 *)
(***************************************************************************)
\* A nonempty set of numbers has a least element, which Min() returns: the
\* minimum that update_sequence_numbers() looks for exists.
LEMMA MinIsLeast ==
    ASSUME NEW S \in SUBSET Nat, S # {}
    PROVE  Min(S) \in S /\ \A x \in S : Min(S) <= x
<1> DEFINE Less == {p \in Nat \X Nat : p[1] < p[2]}
<1>1. IsWellFoundedOn(Less, Nat)
  BY NatLessThanWellFounded, Zenon DEF OpToRel
<1>2. PICK m \in S : \A y \in S : ~ (<<y, m>> \in Less)
  BY <1>1, WFMin, Zenon
<1>3. ASSUME NEW y \in S, y < m PROVE FALSE
  <2>1. <<y, m>> \in Nat \X Nat /\ <<y, m>>[1] < <<y, m>>[2]
    BY <1>3
  <2>2. <<y, m>> \in Less
    BY <2>1, Zenon
  <2> QED
    BY <1>2, <2>2, Zenon
<1>4. \A y \in S : m <= y
  BY <1>3
<1> QED
  BY <1>4 DEF Min

\* hv_cfg is a number that every chassis has reported.
LEMMA HvCfgReported ==
    ASSUME NorthdMainTypeOK
    PROVE  hv_cfg \in Nat /\ \A h \in Hypervisors : hv_cfg <= hvcfg[h]
<1> DEFINE S == {hvcfg[h] : h \in Hypervisors} \cup {nbcfg.nb}
<1>1. S \in SUBSET Nat /\ S # {}
  BY DEF NorthdMainTypeOK
<1>2. Min(S) \in S /\ \A x \in S : Min(S) <= x
  BY <1>1, MinIsLeast
<1> QED
  BY <1>1, <1>2 DEF hv_cfg

\* Types are kept by every step.
LEMMA TypeStep ==
    ASSUME NorthdMainTypeOK, [NorthdMainNext]_ndVars
    PROVE  NorthdMainTypeOK'
<1> USE DEF NorthdMainTypeOK
<1>1. CASE UNCHANGED ndVars
  BY <1>1 DEF ndVars
<1>2. ASSUME NEW w \in {"sb", "hv"}, nbctl_pre_execute(w) PROVE NorthdMainTypeOK'
  BY <1>2 DEF nbctl_pre_execute
<1>3. ASSUME NEW w \in {"sb", "hv"}, NEW n \in 1..MaxNbCfg, nbctl_post_execute(w, n)
      PROVE  NorthdMainTypeOK'
  BY <1>3 DEF nbctl_post_execute
<1>4. ASSUME NEW i \in Northds, northd_run(i) PROVE NorthdMainTypeOK'
  <2>1. update_sequence_numbers(i) \in SUBSET [sb : SUBSET Nat, hv : SUBSET Nat]
    BY HvCfgReported DEF update_sequence_numbers, sb_cfg
  <2> QED
    BY <1>4, <2>1 DEF northd_run
<1>5. ASSUME NEW i \in Northds, northd_skip(i) PROVE NorthdMainTypeOK'
  BY <1>5 DEF northd_skip
<1>6. ASSUME NEW i \in Northds, SbCommit(i) PROVE NorthdMainTypeOK'
  BY <1>6 DEF SbCommit
<1>7. ASSUME NEW i \in Northds, SbFail(i) PROVE NorthdMainTypeOK'
  BY <1>7 DEF SbFail
<1>8. ASSUME NEW i \in Northds, NbCommit(i) PROVE NorthdMainTypeOK'
  <2>1. PICK t \in ndnb[i] :
            nbcfg' = [nbcfg EXCEPT !.sb = Column(@, t.sb), !.hv = Column(@, t.hv)]
    BY <1>8 DEF NbCommit
  <2>2. t.sb \in SUBSET Nat /\ t.hv \in SUBSET Nat
    BY <2>1
  <2>3. Column(nbcfg.sb, t.sb) \in Nat /\ Column(nbcfg.hv, t.hv) \in Nat
    BY <2>2 DEF Column
  <2>4. nbcfg' \in [nb : Nat, sb : Nat, hv : Nat]
    BY <2>1, <2>3
  <2> QED
    BY <1>8, <2>4 DEF NbCommit
<1>9. ASSUME NEW i \in Northds, NbFail(i) PROVE NorthdMainTypeOK'
  BY <1>9 DEF NbFail, OtherFault
<1>10. ASSUME NEW i \in Northds, AcquireLock(i) PROVE NorthdMainTypeOK'
  BY <1>10 DEF AcquireLock
<1>11. ASSUME NEW i \in Northds, ovn_northd_pause(i) PROVE NorthdMainTypeOK'
  BY <1>11 DEF ovn_northd_pause, OtherFault
<1>12. ASSUME NEW i \in Northds, ovn_northd_resume(i) PROVE NorthdMainTypeOK'
  BY <1>12 DEF ovn_northd_resume
<1>13. ASSUME NEW i \in Northds, NdCrash(i) PROVE NorthdMainTypeOK'
  BY <1>13 DEF NdCrash, OtherFault
<1>14. ASSUME NEW h \in Hypervisors, HvInstall(h) PROVE NorthdMainTypeOK'
  BY <1>14 DEF HvInstall
<1>15. ASSUME NEW h \in Hypervisors, store_nb_cfg(h) PROVE NorthdMainTypeOK'
  BY <1>15 DEF store_nb_cfg
<1> QED
  BY <1>1, <1>2, <1>3, <1>4, <1>5, <1>6, <1>7, <1>8, <1>9, <1>10, <1>11, <1>12, <1>13, <1>14, <1>15
  DEF NorthdMainNext

(***************************************************************************)
(* The invariant is inductive.                                             *)
(***************************************************************************)
\* One step keeps the order of the contents, the single writer and both
\* reports.
LEMMA BarrierStep ==
    ASSUME BarrierInv, [NorthdMainNext]_ndVars
    PROVE  BarrierInv'
<1>0. NorthdMainTypeOK /\ NorthdMainTypeOK'
  BY TypeStep DEF BarrierInv
<1>a. InOrder /\ OneWriter /\ HvReported /\ SbReported
  BY DEF BarrierInv
<1> DEFINE Kept == InOrder' /\ OneWriter' /\ HvReported' /\ SbReported'
<1> USE <1>0, <1>a
<1>1. ASSUME UNCHANGED ndVars PROVE Kept
  <2>1. InOrder' /\ OneWriter'
    BY <1>1 DEF ndVars, InOrder, OneWriter
  <2>2. HvReported'
    BY <1>1 DEF ndVars, HvReported
  <2>3. SbReported'
    BY <1>1 DEF ndVars, SbReported, Covered
  <2> QED
    BY <2>1, <2>2, <2>3 DEF Kept
<1>2. ASSUME NEW w \in {"sb", "hv"}, nbctl_pre_execute(w) PROVE Kept
  BY <1>2 DEF nbctl_pre_execute, Kept, InOrder, OneWriter, HvReported, SbReported, Covered, NorthdMainTypeOK
<1>3. ASSUME NEW w \in {"sb", "hv"}, NEW n \in 1..MaxNbCfg, nbctl_post_execute(w, n) PROVE Kept
  BY <1>3 DEF nbctl_post_execute, Kept, InOrder, OneWriter, HvReported, SbReported, Covered
<1>4. ASSUME NEW i \in Northds, northd_run(i) PROVE Kept
  <2> USE DEF NorthdMainTypeOK
  <2>1. InOrder'
    BY <1>4 DEF northd_run, InOrder
  <2>2. OneWriter'
    BY <1>4 DEF northd_run, OneWriter, InOrder
  <2>3. \A t \in update_sequence_numbers(i) :
            /\ \A v \in t.hv : v = hv_cfg
            /\ \A v \in t.sb : v = ndcfg[i].cur
    BY DEF update_sequence_numbers, sb_cfg
  <2>4. HvReported'
    <3>1. \A h \in Hypervisors : hv_cfg \in Nat /\ hv_cfg <= hvflows[h]
      BY HvCfgReported DEF InOrder
    <3> QED
      BY <1>4, <2>3, <3>1 DEF northd_run, HvReported
  <2>5. SbReported'
    <3>1. Covered(nbcfg.sb)'
      BY <1>4 DEF northd_run, SbReported, Covered
    <3>2. ASSUME NEW j \in Northds
          PROVE  /\ Covered(ndcfg[j].cur)'
                 /\ ndsb'[j] = {} => Covered(ndcfg[j].next)'
      <4>1. CASE j # i
        BY <1>4, <4>1 DEF northd_run, SbReported, Covered
      <4>2. CASE j = i /\ (sbcfg.nb # nbcfg.nb \/ sbcfg.content # nbcfg.nb)
        <5>1. ndsb'[i] = {nbcfg.nb} /\ ndcfg'[i].cur = ndcfg[i].cur
              /\ sbcfg' = sbcfg /\ failed' = failed
          BY <1>4, <4>2 DEF northd_run
        <5> QED
          BY <4>2, <5>1 DEF SbReported, Covered
      <4>3. CASE j = i /\ sbcfg.nb = nbcfg.nb /\ sbcfg.content = nbcfg.nb
        <5>1. ndcfg'[i].cur = nbcfg.nb /\ ndcfg'[i].next = nbcfg.nb /\ sbcfg' = sbcfg
          BY <1>4, <4>3 DEF northd_run
        <5> QED
          BY <4>3, <5>1 DEF Covered
      <4> QED
        BY <4>1, <4>2, <4>3
    <3>3. ASSUME NEW j \in Northds, NEW t \in ndnb'[j], NEW v \in t.sb
          PROVE  v <= sbcfg'.content \/ v <= failed'
      BY <1>4, <2>3 DEF northd_run, SbReported, Covered
    <3> QED
      BY <3>1, <3>2, <3>3 DEF SbReported, Covered
  <2> QED
    BY <2>1, <2>2, <2>4, <2>5 DEF Kept
<1>6. ASSUME NEW i \in Northds, SbCommit(i) PROVE Kept
  <2> USE DEF NorthdMainTypeOK
  <2>1. PICK v \in ndsb[i] : sbcfg' = [nb |-> v, content |-> v]
    BY <1>6 DEF SbCommit
  <2>2. v = ndcfg[i].next /\ sbcfg.content <= v /\ v \in Nat /\ v <= nbcfg.nb /\ failed <= v
    BY <2>1 DEF OneWriter, InOrder
  <2>3. sbcfg'.content = v /\ v \in Nat
    BY <2>1, <2>2
  <2>4. InOrder'
    BY <1>6, <2>2, <2>3 DEF SbCommit, InOrder
  <2>5. OneWriter'
    BY <1>6, <2>2, <2>3 DEF SbCommit, OneWriter
  <2>6. HvReported'
    BY <1>6 DEF SbCommit, HvReported
  <2>7. SbReported'
    <3>1. Covered(nbcfg.sb)'
      BY <1>6, <2>2, <2>3 DEF SbCommit, SbReported, Covered
    <3>2. ASSUME NEW j \in Northds
          PROVE  /\ Covered(ndcfg[j].cur)'
                 /\ ndsb'[j] = {} => Covered(ndcfg[j].next)'
      BY <1>6, <2>2, <2>3 DEF SbCommit, SbReported, Covered
    <3>3. ASSUME NEW j \in Northds, NEW t \in ndnb'[j], NEW x \in t.sb
          PROVE  x <= sbcfg'.content \/ x <= failed'
      BY <1>6, <2>2, <2>3 DEF SbCommit, SbReported, Covered
    <3> QED
      BY <3>1, <3>2, <3>3 DEF SbReported, Covered
  <2> QED
    BY <2>4, <2>5, <2>6, <2>7 DEF Kept
<1>8. ASSUME NEW i \in Northds, NbCommit(i) PROVE Kept
  <2> USE DEF NorthdMainTypeOK
  <2>1. PICK t \in ndnb[i] :
            nbcfg' = [nbcfg EXCEPT !.sb = Column(@, t.sb), !.hv = Column(@, t.hv)]
    BY <1>8 DEF NbCommit
  <2>2. nbcfg'.nb = nbcfg.nb /\ nbcfg'.sb \in t.sb \cup {nbcfg.sb} /\ nbcfg'.hv \in t.hv \cup {nbcfg.hv}
    BY <2>1 DEF Column
  <2>3. InOrder' /\ OneWriter'
    BY <1>8, <2>2 DEF NbCommit, InOrder, OneWriter
  <2>4. HvReported'
    BY <1>8, <2>2 DEF NbCommit, HvReported
  <2>5. SbReported'
    BY <1>8, <2>2 DEF NbCommit, SbReported, Covered
  <2> QED
    BY <2>3, <2>4, <2>5 DEF Kept
<1>14. ASSUME NEW h \in Hypervisors, HvInstall(h) PROVE Kept
  <2> USE DEF NorthdMainTypeOK
  <2>1. \A g \in Hypervisors : hvflows[g] <= hvflows'[g] /\ hvflows'[g] <= sbcfg.content
    BY <1>14 DEF HvInstall, InOrder
  <2>2. InOrder' /\ OneWriter'
    BY <1>14, <2>1 DEF HvInstall, InOrder, OneWriter
  <2>3. HvReported'
    <3>1. ASSUME NEW g \in Hypervisors PROVE nbcfg'.hv <= hvflows'[g]
      BY <1>14, <2>1 DEF HvInstall, HvReported
    <3>2. ASSUME NEW g \in Hypervisors, NEW i \in Northds, NEW t \in ndnb'[i], NEW v \in t.hv
          PROVE  v <= hvflows'[g]
      BY <1>14, <2>1 DEF HvInstall, HvReported
    <3> QED
      BY <3>1, <3>2 DEF HvReported
  <2>4. SbReported'
    BY <1>14 DEF HvInstall, SbReported, Covered
  <2> QED
    BY <2>2, <2>3, <2>4 DEF Kept
<1>20. ASSUME NEW i \in Northds, northd_skip(i) PROVE Kept
  BY <1>20 DEF northd_skip, Kept, InOrder, OneWriter, HvReported, SbReported, Covered, NorthdMainTypeOK
<1>21. ASSUME NEW i \in Northds, SbFail(i) PROVE Kept
  <2> USE DEF NorthdMainTypeOK
  <2>1. PICK v \in ndsb[i] : failed' = v
    BY <1>21 DEF SbFail
  <2>2. v = ndcfg[i].next /\ sbcfg.content <= v /\ failed <= v /\ v \in Nat /\ v <= nbcfg.nb
    BY <2>1 DEF OneWriter, InOrder
  <2>3. InOrder' /\ OneWriter'
    BY <1>21, <2>1, <2>2 DEF SbFail, InOrder, OneWriter
  <2>5. SbReported'
    <3>1. ASSUME NEW x \in Nat, Covered(x) PROVE x <= failed'
      BY <2>1, <2>2, <3>1 DEF Covered
    <3>2. Covered(nbcfg.sb)'
      BY <1>21, <3>1 DEF SbFail, SbReported, Covered
    <3>3. ASSUME NEW j \in Northds
          PROVE  Covered(ndcfg[j].cur)' /\ (ndsb'[j] = {} => Covered(ndcfg[j].next)')
      <4>1. CASE j = i
        BY <1>21, <2>1, <2>2, <3>1, <4>1 DEF SbFail, SbReported, Covered
      <4>2. CASE j # i
        BY <1>21, <3>1, <4>2 DEF SbFail, SbReported, Covered
      <4> QED
        BY <4>1, <4>2
    <3>4. ASSUME NEW j \in Northds, NEW t \in ndnb'[j], NEW x \in t.sb
          PROVE  x <= sbcfg'.content \/ x <= failed'
      BY <1>21, <3>1 DEF SbFail, SbReported
    <3> QED
      BY <3>2, <3>3, <3>4 DEF SbReported, Covered
  <2>4. HvReported'
    BY <1>21 DEF SbFail, HvReported
  <2> QED
    BY <2>3, <2>4, <2>5 DEF Kept
<1>22. ASSUME NEW i \in Northds, NbFail(i) PROVE Kept
  BY <1>22 DEF NbFail, OtherFault, Kept, InOrder, OneWriter, HvReported, SbReported, Covered, NorthdMainTypeOK
<1>23. ASSUME NEW i \in Northds, AcquireLock(i) PROVE Kept
  <2> USE DEF NorthdMainTypeOK
  <2>1. \A j \in Northds : ndsb[j] = {}
    BY <1>23, NobodyAssumption DEF AcquireLock, OneWriter
  <2>2. InOrder' /\ OneWriter'
    BY <1>23, <2>1 DEF AcquireLock, InOrder, OneWriter
  <2>3. HvReported' /\ SbReported'
    BY <1>23 DEF AcquireLock, HvReported, SbReported, Covered
  <2> QED
    BY <2>2, <2>3 DEF Kept
<1>24. ASSUME NEW i \in Northds, ovn_northd_pause(i) PROVE Kept
  BY <1>24 DEF ovn_northd_pause, OtherFault, Kept, InOrder, OneWriter, HvReported, SbReported, Covered, NorthdMainTypeOK
<1>25. ASSUME NEW i \in Northds, ovn_northd_resume(i) PROVE Kept
  BY <1>25 DEF ovn_northd_resume, Kept, InOrder, OneWriter, HvReported, SbReported, Covered, NorthdMainTypeOK
<1>26. ASSUME NEW i \in Northds, NdCrash(i) PROVE Kept
  BY <1>26 DEF NdCrash, OtherFault, Kept, InOrder, OneWriter, HvReported, SbReported, Covered, NorthdMainTypeOK
<1>27. ASSUME NEW h \in Hypervisors, store_nb_cfg(h) PROVE Kept
  BY <1>27 DEF store_nb_cfg, Kept, InOrder, OneWriter, HvReported, SbReported, Covered, NorthdMainTypeOK
<1> QED
  BY <1>1, <1>2, <1>3, <1>4, <1>6, <1>8, <1>14, <1>20, <1>21, <1>22, <1>23, <1>24, <1>25, <1>26, <1>27
  DEF NorthdMainNext, BarrierInv, Kept

\* The invariant holds in every state, for every value of the constants.
THEOREM BarrierInvariant == NorthdMainSpec => []BarrierInv
<1>1. NorthdMainInit => BarrierInv
  BY DEF NorthdMainInit, BarrierInv, NorthdMainTypeOK, InOrder, OneWriter, HvReported, SbReported, Covered
<1>2. BarrierInv /\ [NorthdMainNext]_ndVars => BarrierInv'
  BY BarrierStep
<1> QED
  BY <1>1, <1>2, PTL DEF NorthdMainSpec

(***************************************************************************)
(* Refinement.                                                             *)
(***************************************************************************)
\* A command of ovn-nbctl that exits, its change not in a failed Southbound
\* transaction or seen by every chassis, exits when its change is where it waited
\* for it.
LEMMA ExitIsReturn ==
    ASSUME BarrierInv, NEW w \in {"sb", "hv"}, NEW n \in 1..MaxNbCfg,
           nbctl_post_execute(w, n), n > failed \/ (w = "hv" /\ Hypervisors # {})
    PROVE  n \in 1..nbcfg.nb /\ Barrier!BReturn(w, n)
<1> USE DEF BarrierInv, NorthdMainTypeOK
<1>1. n <= nbcfg.sb /\ (w = "hv" => n <= nbcfg.hv) /\ n \in Nat /\ n >= 1
  BY MaxNbCfgAssumption DEF nbctl_post_execute, MinOf
<1>3. w = "hv" => \A h \in Hypervisors : n <= hvflows[h]
  BY <1>1 DEF HvReported
<1>2. n <= sbcfg.content /\ n <= nbcfg.nb
  <2>1. CASE n > failed
    BY <1>1, <2>1 DEF SbReported, Covered, InOrder
  <2>2. CASE w = "hv" /\ Hypervisors # {}
    BY <1>1, <1>3, <2>2 DEF InOrder
  <2> QED
    BY <2>1, <2>2
<1>4. exited' = exited \cup {<<w, n>>} /\ UNCHANGED <<nbcfg, sbcfg, hvflows>>
  BY DEF nbctl_post_execute
<1> QED
  BY <1>1, <1>2, <1>3, <1>4 DEF Barrier!BReturn

\* Every step of the detailed specification is a step of the barrier or leaves
\* its variables alone.
LEMMA StepIsBarrierStep ==
    ASSUME BarrierInv, [NorthdMainNext]_ndVars
    PROVE  [Barrier!BNext]_Barrier!bVars
<1> USE DEF Barrier!bVars
<1>0. NorthdMainTypeOK /\ InOrder /\ OneWriter
  BY DEF BarrierInv
<1> DEFINE Same == UNCHANGED <<nbcfg, sbcfg, hvflows, exited>>
<1>s. ASSUME Same PROVE UNCHANGED Barrier!bVars
  BY <1>s
<1>1. CASE UNCHANGED ndVars
  BY <1>1, <1>s DEF ndVars
<1>2. ASSUME NEW w \in {"sb", "hv"}, nbctl_pre_execute(w) PROVE Barrier!BNext
  <2>1. Barrier!BAsk
    BY <1>0, <1>2 DEF nbctl_pre_execute, NorthdMainTypeOK, Barrier!BAsk
  <2> QED
    BY <2>1 DEF Barrier!BNext
<1>3. ASSUME NEW w \in {"sb", "hv"}, NEW n \in 1..MaxNbCfg, nbctl_post_execute(w, n)
      PROVE  [Barrier!BNext]_Barrier!bVars
  <2>1. CASE n > failed \/ (w = "hv" /\ Hypervisors # {})
    <3>1. n \in 1..nbcfg.nb /\ Barrier!BReturn(w, n)
      BY <1>3, <2>1, ExitIsReturn
    <3> QED
      BY <3>1 DEF Barrier!BNext
  <2>2. CASE ~(n > failed \/ (w = "hv" /\ Hypervisors # {}))
    BY <1>3, <2>2, <1>s DEF nbctl_post_execute
  <2> QED
    BY <2>1, <2>2
<1>4. ASSUME NEW i \in Northds, SbCommit(i) PROVE Barrier!BNext
  <2>1. PICK v \in ndsb[i] : sbcfg' = [nb |-> v, content |-> v]
    BY <1>4 DEF SbCommit
  <2>2. v \in Nat /\ sbcfg.content <= v /\ v <= nbcfg.nb
    BY <1>0, <2>1 DEF NorthdMainTypeOK, OneWriter, InOrder
  <2>3. sbcfg'.content \in sbcfg.content..nbcfg.nb
    BY <1>0, <2>1, <2>2 DEF NorthdMainTypeOK
  <2>4. Barrier!BToSb
    BY <1>4, <2>3 DEF SbCommit, Barrier!BToSb
  <2> QED
    BY <2>4 DEF Barrier!BNext
<1>5. ASSUME NEW h \in Hypervisors, HvInstall(h) PROVE Barrier!BNext
  <2>1. sbcfg.content \in hvflows[h]..sbcfg.content
    BY <1>0 DEF NorthdMainTypeOK, InOrder
  <2>2. Barrier!BToHv(h)
    BY <1>5, <2>1 DEF HvInstall, Barrier!BToHv
  <2> QED
    BY <2>2 DEF Barrier!BNext
<1>7. ASSUME NEW i \in Northds, NbCommit(i) PROVE UNCHANGED Barrier!bVars
  <2>1. nbcfg'.nb = nbcfg.nb
    BY <1>0, <1>7 DEF NbCommit, NorthdMainTypeOK
  <2> QED
    BY <1>7, <2>1 DEF NbCommit
<1>8. ASSUME NEW i \in Northds,
             northd_run(i) \/ northd_skip(i) \/ SbFail(i) \/ NbFail(i) \/ AcquireLock(i)
                \/ ovn_northd_pause(i) \/ ovn_northd_resume(i) \/ NdCrash(i)
      PROVE  UNCHANGED Barrier!bVars
  <2>1. Same
    BY <1>8 DEF northd_run, northd_skip, SbFail, NbFail, AcquireLock, ovn_northd_pause, ovn_northd_resume, NdCrash
  <2> QED
    BY <1>s, <2>1
<1>9. ASSUME NEW h \in Hypervisors, store_nb_cfg(h) PROVE UNCHANGED Barrier!bVars
  BY <1>9, <1>s DEF store_nb_cfg
<1> QED
  BY <1>1, <1>2, <1>3, <1>4, <1>5, <1>7, <1>8, <1>9 DEF NorthdMainNext

\* ovn-nbctl --wait is a barrier: the sequence numbers of NB_Global,
\* SB_Global and Chassis_Private, written by any number of instances of
\* ovn-northd that crash, pause and lose transactions and the lock, never let a
\* command exit early, unless it waits for the Southbound only (or there are no
\* chassis) and the last Southbound transaction that held its change failed.
THEOREM WaitIsABarrier == NorthdMainSpec => WaitIsBarrier
<1>1. NorthdMainInit => Barrier!BInit
  BY DEF NorthdMainInit, Barrier!BInit
<1>2. BarrierInv /\ [NorthdMainNext]_ndVars => [Barrier!BNext]_Barrier!bVars
  BY StepIsBarrierStep
<1> QED
  BY <1>1, <1>2, BarrierInvariant, PTL DEF NorthdMainSpec, WaitIsBarrier, Barrier!BSpec

\* The type invariant of ovn-northd's main loop and of the rows it writes.
THEOREM NorthdMainTypeCorrect == NorthdMainSpec => []NorthdMainTypeOK
<1>1. BarrierInv => NorthdMainTypeOK
  BY DEF BarrierInv
<1> QED
  BY <1>1, BarrierInvariant, PTL
=============================================================================
