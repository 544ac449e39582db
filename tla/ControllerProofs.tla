-------------------------- MODULE ControllerProofs --------------------------
(***************************************************************************)
(* Proofs about the components of ovn-controller.                          *)
(***************************************************************************)
EXTENDS MCController, OfctrlSeqnoProofs, FiniteSetTheorems, TLAPS

-----------------------------------------------------------------------------
(***************************************************************************)
(* ofctrl-seqno.c: requests and their acknowledgements.                    *)
(***************************************************************************)

\* PlacesOf() and AcksConserveRequests of a list U, the acknowledgements A and
\* the requests R of type t.
Places(U, t, n) == {i \in 1 .. n : U[i].seqno_type = t}
Conserves(A, U, R, t) ==
    /\ Len(R) = Len(A) + Cardinality(Places(U, t, Len(U)))
    /\ \A k \in 1 .. Len(A) : R[k] = A[k]
    /\ \A i \in Places(U, t, Len(U)) : R[Len(A) + Cardinality(Places(U, t, i))] = U[i].req_cfg

\* The property, said with Conserves().
LEMMA ConservesMeans ==
    AcksConserveRequests <=>
        \A t \in Types : Conserves(AckedOf(t), ofctrl_seqno_updates, requested[t], t)
  BY Zenon DEF AcksConserveRequests, Conserves, Places, PlacesOf

\* There are finitely many requests of a type in the list.
LEMMA PlacesFinite ==
    ASSUME NEW U, NEW t, NEW n \in Nat
    PROVE  IsFiniteSet(Places(U, t, n)) /\ Cardinality(Places(U, t, n)) \in Nat
<1>1. Places(U, t, n) \in SUBSET (1 .. n) /\ IsFiniteSet(1 .. n)
  BY FS_Interval DEF Places
<1>2. IsFiniteSet(Places(U, t, n))
  BY <1>1, FS_Subset
<1> QED
  BY <1>2, FS_CardinalityType

\* Of the requests up to a place of the type at least one is of the type.
LEMMA PlacesCount ==
    ASSUME NEW U, NEW t, NEW n \in Nat, NEW i \in Places(U, t, n)
    PROVE  /\ Cardinality(Places(U, t, i)) \in Nat
           /\ 1 <= Cardinality(Places(U, t, i))
           /\ Cardinality(Places(U, t, i)) <= Cardinality(Places(U, t, n))
<1>1. i \in Nat /\ i \in 1 .. n /\ i \in Places(U, t, i)
  BY DEF Places
<1>2. /\ IsFiniteSet(Places(U, t, i)) /\ IsFiniteSet(Places(U, t, n))
      /\ Cardinality(Places(U, t, i)) \in Nat /\ Cardinality(Places(U, t, n)) \in Nat
  BY <1>1, PlacesFinite
<1>3. Places(U, t, i) \in SUBSET Places(U, t, n)
  BY <1>1 DEF Places
<1>4. Cardinality(Places(U, t, i)) <= Cardinality(Places(U, t, n))
  BY <1>2, <1>3, FS_Subset
<1>5. Cardinality(Places(U, t, i)) # 0
  BY <1>1, <1>2, FS_EmptySet
<1> QED
  BY <1>2, <1>4, <1>5

\* Nothing requested, nothing pending, nothing acknowledged.
LEMMA NothingConserved == ASSUME NEW t PROVE Conserves(<<>>, <<>>, <<>>, t)
<1>1. Places(<<>>, t, Len(<<>>)) = {}
  BY DEF Places
<1>2. Cardinality({}) = 0 /\ Len(<<>>) = 0
  BY FS_EmptySet
<1>3. Len(<<>>) = Len(<<>>) + Cardinality(Places(<<>>, t, Len(<<>>)))
  BY <1>1, <1>2
<1>4. 1 .. Len(<<>>) = {}
  BY <1>2
<1> QED
  BY <1>1, <1>3, <1>4, Zenon DEF Conserves

\* A request joins the end of the list.
LEMMA PushConserves ==
    ASSUME NEW U \in Seq(Update), NEW u \in Update, NEW t, NEW A \in Seq(Nat), NEW R \in Seq(Nat),
           Conserves(A, U, R, t)
    PROVE  Conserves(A, Append(U, u), IF u.seqno_type = t THEN Append(R, u.req_cfg) ELSE R, t)
<1> DEFINE V == Append(U, u)
           n == Len(U)
           Q == IF u.seqno_type = t THEN Append(R, u.req_cfg) ELSE R
           P(i) == Places(U, t, i)
<1>1. /\ n \in Nat /\ Len(V) = n + 1 /\ V[n + 1] = u
      /\ \A i \in 1 .. n : V[i] = U[i]
  OBVIOUS
<1>2. \A i \in 1 .. n : Places(V, t, i) = P(i)
  BY <1>1 DEF Places
<1>3. Places(V, t, n + 1) = IF u.seqno_type = t THEN P(n) \cup {n + 1} ELSE P(n)
  BY <1>1 DEF Places
<1>4. IsFiniteSet(P(n)) /\ Cardinality(P(n)) \in Nat /\ n + 1 \notin P(n)
  <2>1. n + 1 \notin P(n)
    BY <1>1 DEF Places
  <2> QED
    BY <1>1, <2>1, PlacesFinite
<1>5. Cardinality(P(n) \cup {n + 1}) = Cardinality(P(n)) + 1
  BY <1>4, FS_AddElement
<1>6. \A i \in P(n) : /\ i \in 1 .. n
                      /\ Cardinality(P(i)) \in 1 .. Cardinality(P(n))
  <2> SUFFICES ASSUME NEW i \in P(n)
               PROVE  i \in 1 .. n /\ Cardinality(P(i)) \in 1 .. Cardinality(P(n))
    OBVIOUS
  <2>1. i \in 1 .. n
    BY DEF Places
  <2>2. i \in Places(U, t, n)
    OBVIOUS
  <2> HIDE DEF n
  <2>3. /\ Cardinality(P(i)) \in Nat /\ 1 <= Cardinality(P(i))
        /\ Cardinality(P(i)) <= Cardinality(P(n))
    BY <1>1, <2>2, PlacesCount
  <2> HIDE DEF P
  <2> QED
    BY <1>4, <2>1, <2>3
<1>7. Len(A) \in Nat /\ u.req_cfg \in Nat
  BY DEF Update
<1> HIDE DEF V, P, n
<1>8. /\ Len(R) = Len(A) + Cardinality(P(n))
      /\ \A k \in 1 .. Len(A) : R[k] = A[k]
      /\ \A i \in P(n) : R[Len(A) + Cardinality(P(i))] = U[i].req_cfg
  BY DEF Conserves, P, n
<1>9. CASE u.seqno_type = t
  <2>1. Q = Append(R, u.req_cfg)
    BY <1>9
  <2> HIDE DEF Q
  <2>2. Len(Q) = Len(R) + 1 /\ Q[Len(R) + 1] = u.req_cfg /\ \A k \in 1 .. Len(R) : Q[k] = R[k]
    BY <1>7, <2>1
  <2>3. Len(Q) = Len(A) + Cardinality(Places(V, t, Len(V)))
    <3>1. Cardinality(Places(V, t, Len(V))) = Cardinality(P(n)) + 1
      BY <1>1, <1>3, <1>5, <1>9
    <3> QED
      BY <1>4, <1>7, <1>8, <2>2, <3>1
  <2>4. \A k \in 1 .. Len(A) : Q[k] = A[k]
    BY <1>4, <1>7, <1>8, <2>2
  <2>5. ASSUME NEW i \in Places(V, t, n + 1)
        PROVE  Q[Len(A) + Cardinality(Places(V, t, i))] = V[i].req_cfg
    <3>1. CASE i \in P(n)
      <4>1. /\ i \in 1 .. n /\ Cardinality(P(i)) \in 1 .. Cardinality(P(n))
            /\ Places(V, t, i) = P(i) /\ V[i] = U[i]
        BY <1>1, <1>2, <1>6, <3>1
      <4>2. Len(A) + Cardinality(P(i)) \in 1 .. Len(R)
        BY <1>4, <1>7, <1>8, <4>1
      <4> QED
        BY <1>8, <2>2, <3>1, <4>1, <4>2
    <3>2. CASE i = n + 1
      <4>1. Cardinality(Places(V, t, i)) = Cardinality(P(n)) + 1
        BY <1>3, <1>5, <1>9, <3>2
      <4>2. Len(A) + Cardinality(Places(V, t, i)) = Len(R) + 1
        BY <1>4, <1>7, <1>8, <4>1
      <4> QED
        BY <1>1, <2>2, <3>2, <4>2
    <3> QED
      BY <1>3, <1>9, <2>5, <3>1, <3>2
  <2> QED
    BY <1>1, <2>3, <2>4, <2>5 DEF Conserves, V, Q
<1>10. CASE u.seqno_type # t
  <2>1. Q = R /\ Places(V, t, Len(V)) = P(n)
    BY <1>1, <1>3, <1>10
  <2>2. \A i \in P(n) : Places(V, t, i) = P(i) /\ V[i] = U[i]
    BY <1>1, <1>2, <1>6
  <2> QED
    BY <1>8, <2>1, <2>2, Zenon DEF Conserves, V, Q
<1> QED
  BY <1>9, <1>10

\* The requests of type t behind the first one.
LEMMA PlacesShift ==
    ASSUME NEW U \in Seq(Update), U # <<>>, NEW t, NEW i \in 0 .. Len(U) - 1
    PROVE  Cardinality(Places(Tail(U), t, i)) =
               Cardinality(Places(U, t, i + 1)) - (IF Head(U).seqno_type = t THEN 1 ELSE 0)
<1> DEFINE S == Places(U, t, i + 1) \ {1}
           T == Places(Tail(U), t, i)
           f == [j \in S |-> j - 1]
<1>1. /\ Len(U) \in Nat /\ i \in Nat /\ Head(U) = U[1] /\ Len(Tail(U)) = Len(U) - 1
      /\ \A j \in 1 .. Len(U) - 1 : Tail(U)[j] = U[j + 1]
  OBVIOUS
<1>2. IsFiniteSet(Places(U, t, i + 1)) /\ Cardinality(Places(U, t, i + 1)) \in Nat
  BY <1>1, PlacesFinite
<1>3. 1 \in Places(U, t, i + 1) <=> Head(U).seqno_type = t
  BY <1>1 DEF Places
<1>4. /\ IsFiniteSet(S)
      /\ Cardinality(S) = Cardinality(Places(U, t, i + 1)) - (IF Head(U).seqno_type = t THEN 1 ELSE 0)
  BY <1>2, <1>3, FS_RemoveElement
<1>5. \A j \in S : j \in 2 .. i + 1 /\ U[j].seqno_type = t
  BY <1>1 DEF Places
<1>6. \A j \in S : j - 1 \in T
  BY <1>1, <1>5 DEF Places
<1>7. \A k \in T : k + 1 \in S /\ k \in Nat
  BY <1>1 DEF Places
<1> HIDE DEF S, T
<1>8. f \in Bijection(S, T)
  <2>1. f \in [S -> T]
    BY <1>6
  <2>2. \A a, b \in S : f[a] = f[b] => a = b
    BY <1>5
  <2>3. \A k \in T : \E j \in S : f[j] = k
    BY <1>7
  <2> HIDE DEF f
  <2>4. f \in Injection(S, T)
    BY <2>1, <2>2 DEF Injection, IsInjective
  <2>5. f \in Surjection(S, T)
    BY <2>1, <2>3 DEF Surjection
  <2> QED
    BY <2>4, <2>5 DEF Bijection
<1>9. ExistsBijection(S, T)
  BY <1>8 DEF ExistsBijection
<1>10. Cardinality(T) = Cardinality(S)
  BY <1>4, <1>9, FS_Bijection
<1> QED
  BY <1>4, <1>10 DEF T

\* The first request of the list is acknowledged.
LEMMA PopConserves ==
    ASSUME NEW U \in Seq(Update), U # <<>>, NEW t, NEW A \in Seq(Nat), NEW R \in Seq(Nat),
           Conserves(A, U, R, t)
    PROVE  Conserves(IF Head(U).seqno_type = t THEN Append(A, Head(U).req_cfg) ELSE A, Tail(U), R, t)
<1> DEFINE B == IF Head(U).seqno_type = t THEN Append(A, Head(U).req_cfg) ELSE A
           V == Tail(U)
           c(i) == Cardinality(Places(U, t, i))
           d(i) == Cardinality(Places(V, t, i))
           one == IF Head(U).seqno_type = t THEN 1 ELSE 0
<1>1. /\ Len(U) \in Nat /\ Len(U) > 0 /\ Head(U) = U[1] /\ Len(V) = Len(U) - 1
      /\ \A i \in 1 .. Len(V) : V[i] = U[i + 1]
  OBVIOUS
<1>2. \A i \in 0 .. Len(V) : d(i) = c(i + 1) - one
  BY <1>1, PlacesShift
<1>3. \A i \in 1 .. Len(U) : c(i) \in Nat
  BY <1>1, PlacesFinite
<1>4. Len(A) \in Nat /\ Head(U).req_cfg \in Nat /\ Len(B) = Len(A) + one
  <2>1. Head(U) \in Update
    BY <1>1
  <2>2. Head(U).req_cfg \in Nat
    BY <2>1 DEF Update
  <2> QED
    BY <2>2
<1>5. \A i \in Places(V, t, Len(V)) : i \in 1 .. Len(V) /\ i + 1 \in Places(U, t, Len(U))
  BY <1>1 DEF Places
<1>6. \A i \in Places(U, t, Len(U)) : i \in 1 .. Len(U)
  BY <1>1 DEF Places
<1>7. one = 1 => 1 \in Places(U, t, Len(U)) /\ c(1) = 1
  <2> SUFFICES ASSUME one = 1 PROVE 1 \in Places(U, t, Len(U)) /\ c(1) = 1
    OBVIOUS
  <2>1. U[1].seqno_type = t
    BY <1>1
  <2>2. Places(U, t, 1) = {1} /\ 1 \in Places(U, t, Len(U))
    BY <1>1, <2>1 DEF Places
  <2> QED
    BY <2>2, FS_Singleton
<1>8. one \in {0, 1} /\ (one = 1 <=> Head(U).seqno_type = t)
  OBVIOUS
<1>9. /\ one = 1 => Len(B) = Len(A) + 1 /\ B[Len(A) + 1] = U[1].req_cfg
      /\ \A k \in 1 .. Len(A) : B[k] = A[k]
  BY <1>1, <1>4
<1> HIDE DEF V, one, c, d, B
<1>10. /\ Len(R) = Len(A) + c(Len(U))
       /\ \A k \in 1 .. Len(A) : R[k] = A[k]
       /\ \A i \in Places(U, t, Len(U)) : R[Len(A) + c(i)] = U[i].req_cfg
  BY DEF Conserves, c
<1>11. Len(R) = Len(B) + d(Len(V))
  <2>1. d(Len(V)) = c(Len(U)) - one /\ c(Len(U)) \in Nat
    <3>1. Len(V) \in 0 .. Len(V) /\ Len(V) + 1 = Len(U) /\ Len(U) \in 1 .. Len(U)
      BY <1>1
    <3> QED
      BY <1>2, <1>3, <3>1
  <2> QED
    BY <1>4, <1>8, <1>10, <2>1
<1>12. ASSUME NEW k \in 1 .. Len(B) PROVE R[k] = B[k]
  <2>1. CASE k \in 1 .. Len(A)
    BY <1>9, <1>10, <2>1
  <2>2. CASE k = Len(A) + 1 /\ one = 1
    BY <1>7, <1>9, <1>10, <2>2
  <2> QED
    BY <1>4, <1>8, <1>12, <2>1, <2>2
<1>13. ASSUME NEW i \in Places(V, t, Len(V)) PROVE R[Len(B) + d(i)] = V[i].req_cfg
  <2>1. i \in 1 .. Len(V) /\ i + 1 \in Places(U, t, Len(U)) /\ V[i] = U[i + 1]
    BY <1>1, <1>5
  <2>2. d(i) = c(i + 1) - one /\ c(i + 1) \in Nat
    BY <1>1, <1>2, <1>3, <2>1
  <2>3. Len(B) + d(i) = Len(A) + c(i + 1)
    BY <1>4, <1>8, <2>2
  <2> QED
    BY <1>10, <2>1, <2>3
<1> QED
  BY <1>11, <1>12, <1>13 DEF Conserves, V, B, d

\* What is appended to the second of two sequences is appended to both.
LEMMA AppendBehind ==
    ASSUME NEW a \in Seq(Nat), NEW b \in Seq(Nat), NEW x \in Nat
    PROVE  a \o Append(b, x) = Append(a \o b, x)
<1>1. <<x>> \in Seq(Nat) /\ a \o b \in Seq(Nat)
  OBVIOUS
<1> QED
  BY <1>1, AppendIsConcat, ConcatAssociative

\* The inductive invariant: types, the silence before all types are known, and
\* the conservation itself.
LogTypes == requested \in [Types -> Seq(Nat)] /\ delivered \in [Types -> Seq(Nat)]
LogInv == SeqnoTypeOK /\ QuietBeforeStart /\ LogTypes /\ AcksConserveRequests

\* The invariant holds before anything is registered.
LEMMA LogInitially == LogInit => LogInv
<1> SUFFICES ASSUME LogInit PROVE LogInv
  OBVIOUS
<1>1. SeqnoTypeOK /\ QuietBeforeStart
  <2>1. SeqnoTypeOK
    BY NTypesAssumption DEF LogInit, SeqnoInit, SeqnoTypeOK, Types, Update, Idle
  <2>2. QuietBeforeStart
    BY DEF LogInit, SeqnoInit, QuietBeforeStart
  <2> QED
    BY <2>1, <2>2
<1>2. LogTypes
  BY DEF LogInit, LogTypes
<1>3. \A t \in Types : AckedOf(t) = <<>> /\ requested[t] = <<>> /\ ofctrl_seqno_updates = <<>>
  BY DEF LogInit, SeqnoInit, AckedOf
<1> QED
  BY <1>1, <1>2, <1>3, ConservesMeans, NothingConserved DEF LogInv

\* Every step of the tracker, and of its consumers, keeps the invariant.
LEMMA LogStep == LogInv /\ [LogNext]_log_seqno_vars => LogInv'
<1> SUFFICES ASSUME LogInv, [LogNext]_log_seqno_vars PROVE LogInv'
  OBVIOUS
<1>1. [SeqnoNext]_seqno_vars
  BY DEF LogNext, LogRequest, LogConsume, LogFlush, SeqnoNext, ConnectedNext, log_seqno_vars
<1>2. SeqnoTypeOK' /\ QuietBeforeStart'
  BY <1>1, SeqnoTypeStep, QuietStep DEF LogInv
<1>3. \A t \in Types : /\ acked_cfgs[t] \in Seq(Nat) /\ delivered[t] \in Seq(Nat)
                       /\ requested[t] \in Seq(Nat) /\ AckedOf(t) \in Seq(Nat)
                       /\ Conserves(AckedOf(t), ofctrl_seqno_updates, requested[t], t)
  <2>1. \A t \in Types : /\ acked_cfgs[t] \in Seq(Nat) /\ delivered[t] \in Seq(Nat)
                         /\ requested[t] \in Seq(Nat)
    BY DEF LogInv, SeqnoTypeOK, LogTypes
  <2>2. \A t \in Types : AckedOf(t) \in Seq(Nat)
    BY <2>1 DEF AckedOf
  <2> QED
    BY <2>1, <2>2, ConservesMeans DEF LogInv
<1> DEFINE U == ofctrl_seqno_updates
           Good == LogTypes' /\ \A t \in Types : Conserves(AckedOf(t), U, requested[t], t)'
<1>4. ofctrl_seqno_updates \in Seq(Update) /\ LogTypes
  BY DEF LogInv, SeqnoTypeOK
<1>5. SUFFICES Good
  <2>1. AcksConserveRequests' <=> \A t \in Types : Conserves(AckedOf(t), U, requested[t], t)'
    BY Zenon DEF AcksConserveRequests, Conserves, Places, PlacesOf, AckedOf
  <2> QED
    BY <1>2, <2>1 DEF LogInv
<1>6. ASSUME NEW s \in Types, NEW new_cfg \in Cfgs, LogRequest(s, new_cfg) PROVE Good
  <2> DEFINE u == NewUpdate(s, new_cfg)
  <2>1. UNCHANGED <<acked_cfgs, delivered>>
    BY <1>6 DEF LogRequest, UpdateCreate
  <2>2. u \in Update /\ u.seqno_type = s /\ u.req_cfg = new_cfg /\ new_cfg \in Nat
    BY CfgsAssumption DEF NewUpdate, Update, LogInv, SeqnoTypeOK
  <2>3. CASE UpdateIsNew(s, new_cfg)
    <3>1. U' = Append(U, u) /\ requested' = [requested EXCEPT ![s] = Append(@, new_cfg)]
      BY <1>6, <2>3, Zenon DEF LogRequest, UpdateCreate, PushBack
    <3> HIDE DEF u
    <3>2. LogTypes'
      <4>1. Append(requested[s], new_cfg) \in Seq(Nat)
        BY <1>3, <2>2
      <4> QED
        BY <1>4, <2>1, <3>1, <4>1 DEF LogTypes
    <3>3. ASSUME NEW t \in Types PROVE Conserves(AckedOf(t), U, requested[t], t)'
      <4>1. AckedOf(t)' = AckedOf(t)
        BY <2>1 DEF AckedOf
      <4>2. requested'[t] = IF u.seqno_type = t THEN Append(requested[t], u.req_cfg) ELSE requested[t]
        BY <1>4, <2>2, <3>1 DEF LogTypes
      <4>3. Conserves(AckedOf(t), Append(U, u), requested'[t], t)
        BY <1>3, <1>4, <2>2, <4>2, PushConserves
      <4> QED
        BY <3>1, <4>1, <4>3
    <3> QED
      BY <3>2, <3>3
  <2>4. CASE ~UpdateIsNew(s, new_cfg)
    <3>1. UNCHANGED <<ofctrl_seqno_updates, requested, acked_cfgs, delivered>>
      BY <1>6, <2>1, <2>4, Zenon DEF LogRequest, UpdateCreate
    <3> QED
      BY <1>3, <1>4, <3>1 DEF LogTypes, AckedOf
  <2> QED
    BY <2>3, <2>4
<1>7. ASSUME NEW s \in Types, LogConsume(s) PROVE Good
  <2>1. /\ acked_cfgs' = [acked_cfgs EXCEPT ![s] = <<>>]
        /\ delivered' = [delivered EXCEPT ![s] = @ \o acked_cfgs[s]]
        /\ UNCHANGED <<ofctrl_seqno_updates, requested>>
    BY <1>7 DEF LogConsume, AckedSeqnosGet
  <2>2. delivered[s] \o acked_cfgs[s] \in Seq(Nat)
    BY <1>3 DEF AckedOf
  <2>3. LogTypes'
    BY <1>4, <2>1, <2>2 DEF LogTypes
  <2>4. ASSUME NEW t \in Types PROVE AckedOf(t)' = AckedOf(t)
    <3>0. acked_cfgs \in [Types -> Seq(Nat)] /\ delivered \in [Types -> Seq(Nat)]
      BY <1>4 DEF LogInv, SeqnoTypeOK, LogTypes
    <3>1. CASE t = s
      <4>1. delivered'[t] = AckedOf(t) /\ acked_cfgs'[t] = <<>>
        BY <2>1, <3>0, <3>1 DEF AckedOf
      <4>2. AckedOf(t) \o <<>> = AckedOf(t)
        BY <1>3
      <4> QED
        BY <4>1, <4>2 DEF AckedOf
    <3>2. CASE t # s
      BY <2>1, <3>0, <3>2 DEF AckedOf
    <3> QED
      BY <3>1, <3>2
  <2> QED
    BY <1>3, <2>1, <2>3, <2>4
<1>8. CASE LogFlush
  <2>1. /\ acked_cfgs' = [t \in Types |-> <<>>] /\ U' = <<>>
        /\ requested' = [t \in Types |-> <<>>] /\ delivered' = [t \in Types |-> <<>>]
    BY <1>8 DEF LogFlush, Flush
  <2>2. \A t \in Types : AckedOf(t)' = <<>> /\ requested'[t] = <<>>
    BY <2>1 DEF AckedOf
  <2>3. LogTypes'
    BY <2>1 DEF LogTypes
  <2> QED
    BY <2>1, <2>2, <2>3, NothingConserved
<1>9. CASE AddType /\ UNCHANGED log_vars
  <2>1. UNCHANGED <<ofctrl_seqno_updates, requested, delivered>> /\ n_ofctrl_seqno_states \in Types
    BY <1>9, NTypesAssumption DEF AddType, log_vars, Started, LogInv, SeqnoTypeOK, Types
  <2>2. \A t \in Types : acked_cfgs'[t] = acked_cfgs[t]
    BY <1>9 DEF AddType, Started, LogInv, QuietBeforeStart, SeqnoTypeOK
  <2> QED
    BY <1>3, <1>4, <2>1, <2>2 DEF LogTypes, AckedOf
<1>10. CASE RunPop /\ UNCHANGED log_vars
  <2> DEFINE h == Head(U)
  <2>1. U # <<>> /\ U' = Tail(U) /\ acked_cfgs' = Acked(h) /\ UNCHANGED <<requested, delivered>>
    BY <1>10 DEF RunPop, Covered, log_vars
  <2>2. h \in Update
    BY <1>4, <2>1
  <2>3. h.seqno_type \in Types /\ h.req_cfg \in Nat
    BY <2>2 DEF Update
  <2> HIDE DEF h
  <2>4. ASSUME NEW t \in Types PROVE Conserves(AckedOf(t), U, requested[t], t)'
    <3>1. acked_cfgs'[t] = IF h.seqno_type = t THEN Append(acked_cfgs[t], h.req_cfg) ELSE acked_cfgs[t]
      BY <2>1, <2>3 DEF Acked, LogInv, SeqnoTypeOK
    <3>2. AckedOf(t)' = IF h.seqno_type = t THEN Append(AckedOf(t), h.req_cfg) ELSE AckedOf(t)
      <4>1. CASE h.seqno_type = t
        <5>1. delivered[t] \o Append(acked_cfgs[t], h.req_cfg) = Append(delivered[t] \o acked_cfgs[t], h.req_cfg)
          BY <1>3, <2>3, AppendBehind
        <5> QED
          BY <2>1, <3>1, <4>1, <5>1 DEF AckedOf
      <4>2. CASE h.seqno_type # t
        BY <2>1, <3>1, <4>2 DEF AckedOf
      <4> QED
        BY <4>1, <4>2
    <3>3. Conserves(AckedOf(t)', Tail(U), requested[t], t)
      BY <1>3, <1>4, <2>1, <3>2, PopConserves DEF h
    <3> QED
      BY <2>1, <3>3
  <2> QED
    BY <1>4, <2>1, <2>4 DEF LogTypes
<1>11. CASE \/ \E flow_cfg \in 0 .. MaxSeqno : RunStart(flow_cfg) /\ UNCHANGED log_vars
            \/ RunEnd /\ UNCHANGED log_vars
            \/ UNCHANGED log_seqno_vars
  <2>1. UNCHANGED <<ofctrl_seqno_updates, requested, delivered, acked_cfgs>>
    BY <1>11 DEF RunStart, RunEnd, tracker, log_vars, log_seqno_vars, seqno_vars
  <2> QED
    BY <1>3, <1>4, <2>1 DEF LogTypes, AckedOf
<1> QED
  BY <1>6, <1>7, <1>8, <1>9, <1>10, <1>11 DEF LogNext

\* ofctrl-seqno.c: a type's requests are neither lost, duplicated nor reordered
\* on their way to its acknowledgements, for any number of types and requests.
THEOREM RequestsConserved == LogSpec => []AcksConserveRequests
<1>1. LogInv => AcksConserveRequests
  BY DEF LogInv
<1> QED
  BY <1>1, LogInitially, LogStep, PTL DEF LogSpec

\* The same of ovn-controller with its other components beside ofctrl-seqno.
THEOREM SeqnosTheorem == MCSpec => []SeqnosRight
<1> DEFINE I == part = "seqno" => LogInv
<1>1. MCInit => I
  BY LogInitially DEF MCInit, SeqnoIs
<1>2. I /\ [MCNext]_vars => I'
  <2> SUFFICES ASSUME I, [MCNext]_vars, part' = "seqno" PROVE LogInv'
    OBVIOUS
  <2>1. part = "seqno" /\ [LogNext]_log_seqno_vars
    BY DEF MCNext, Alone, vars
  <2> QED
    BY <2>1, LogStep
<1>3. I => SeqnosRight
  BY DEF SeqnosRight, LogInv
<1> QED
  BY <1>1, <1>2, <1>3, PTL DEF MCSpec

-----------------------------------------------------------------------------
(***************************************************************************)
(* mac-cache.c, statctrl.c and northd/aging.c: the age of a row.           *)
(***************************************************************************)

\* The longest time from the sending of one statistics request to the moment
\* the report of the next one is processed.
AgQ == DumpPeriod + MaxAgReply + MaxAgBusy

\* A report in the list that refreshes the row, or has the neighbour probed.
UseReported == \E i \in agnode["use"].list : i < AgValue
ProbeReported == \E i \in agnode["probe"].list : i <= AgValue

\* A report of n is processed within b ticks: it is in the list (ok), or its
\* request waits for the answer, or is sent when the period is over.
DueIn(node, busy, ok, b) ==
    \/ ok /\ MaxAgBusy - busy <= b
    \/ \E r \in node.req : MaxAgReply - r + MaxAgBusy <= b
    \/ node.req = {} /\ node.next + MaxAgReply + MaxAgBusy <= b
Due(n, ok, b) == DueIn(agnode[n], agbusy, ok, b)

\* The next report of use will still find the answer to a probe.
AgFresh == UseReported \/ Due("use", FALSE, AgQ - agidle.rx)

StatsNode == [next : Nat, req : SUBSET Nat, list : SUBSET Nat]
AgShape ==
    /\ agcfg \in AgConfigs /\ agkind \in {"mb", "fdb"}
    /\ agrow \in SUBSET Nat /\ \A a, b \in agrow : a = b
    /\ agidle \in [rx : Nat, tx : Nat]
    /\ agmode \in [traffic : {"rx", "tx", "none"}, since : Nat, changes : Nat]
    /\ agmode.traffic = "tx" => agkind = "mb"
    /\ agnode \in [{"use", "probe"} -> StatsNode]
    /\ agbusy \in 0..MaxAgBusy

\* A request is younger than the period it was sent in.
Timed(node, p) ==
    /\ node.next <= p
    /\ \A r \in node.req : r <= MaxAgReply /\ node.next = p - r
RequestsTimed == \A n \in {"use", "probe"} : Timed(agnode[n], DumpPeriod)

\* Traffic hits its flow with every tick; northd lets no row grow older than
\* its threshold.
TrafficSeen ==
    /\ agmode.traffic = "rx" /\ agmode.since > 0 => agidle.rx = 0
    /\ agmode.traffic = "tx" /\ agmode.since > 0 => agidle.tx = 0
    /\ find_threshold_for_ip(agcfg) # 0 => \A a \in agrow : a <= find_threshold_for_ip(agcfg)

\* The neighbour sends: a row is young enough for the report that is due, or
\* the traffic is so new that there was none yet.
RxAges ==
    agmode.traffic = "rx" =>
        \/ agrow = {} /\ agmode.since <= AgQ + 1
        \/ /\ agrow # {}
           /\ \/ \A a \in agrow : Due("use", UseReported, CooldownPeriod + AgQ - a)
              \/ Due("use", UseReported, AgQ + 1 - agmode.since)

\* The neighbour only answers: first the probe is due, then the report that
\* finds its answer.
TxAges ==
    agmode.traffic = "tx" =>
        \/ agrow = {} /\ agmode.since <= 2 * AgQ + 1
        \/ /\ agrow # {}
           /\ \/ \A a \in agrow : Due("probe", ProbeReported, CooldownPeriod + AgQ - a)
              \/ AgFresh /\ \A a \in agrow : Due("use", UseReported, CooldownPeriod + 2 * AgQ - a)
              \/ Due("probe", ProbeReported, AgQ + 1 - agmode.since)
              \/ AgFresh /\ Due("use", UseReported, 2 * AgQ + 1 - agmode.since)

\* Nobody uses the row: the reports say so, up to those under way.
IdleAges ==
    agmode.traffic = "none" =>
        /\ agmode.since <= agidle.rx \/ agidle.rx > AgMax
        /\ \A i \in agnode["use"].list : i < AgValue => agmode.since <= i + agbusy
        /\ find_threshold_for_ip(agcfg) # 0 =>
              \A a \in agrow : agmode.since <= AgValue + MaxAgBusy + a

AgInv == AgShape /\ RequestsTimed /\ TrafficSeen /\ RxAges /\ TxAges /\ IdleAges

\* What the assumptions say of the periods.
AgPeriods ==
    /\ MaxAgBusy \in Nat /\ MaxAgReply \in Nat /\ AgMax \in Nat
    /\ DumpPeriod \in Nat /\ CooldownPeriod = DumpPeriod
    /\ MaxAgReply < DumpPeriod /\ MaxAgBusy + MaxAgReply <= DumpPeriod + 1
    /\ AgQ = DumpPeriod + MaxAgReply + MaxAgBusy /\ AgQ \in Nat
    /\ AgValue \in 1..AgMax /\ AgQ < AgValue
    /\ find_threshold_for_ip(agcfg) \in 0..AgMax
    /\ find_threshold_for_ip(agcfg) # 0 =>
          4 * DumpPeriod + MaxAgBusy + MaxAgReply + 1 < find_threshold_for_ip(agcfg)

\* What the assumptions say about the configuration in force.
LEMMA AgPeriodsHold == agcfg \in AgConfigs => AgPeriods
<1> SUFFICES ASSUME agcfg \in AgConfigs PROVE AgPeriods
  OBVIOUS
<1> DEFINE v == min_mac_binding_age_threshold(agcfg)
           t == find_threshold_for_ip(agcfg)
           p == Period(v)
<1>1. v \in 1..AgMax /\ t \in 0..AgMax /\ MaxAgBusy \in Nat /\ MaxAgReply \in Nat /\ AgMax \in Nat
  BY AgConfigsAssumption, AgBoundsAssumption
<1>2. /\ MaxAgReply < p /\ MaxAgBusy + MaxAgReply <= p + 1
      /\ t # 0 => 4 * p + AgSlack < t
  BY AgTimingAssumption
<1>3. AgValue = v /\ DumpPeriod = p /\ CooldownPeriod = p
  BY DEF AgValue, DumpPeriod, CooldownPeriod
<1> HIDE DEF v, t
<1>4. p \in Nat /\ 16 * p <= 3 * v
  BY <1>1 DEF Period
<1> HIDE DEF p
<1>5. p + MaxAgReply + MaxAgBusy < v /\ p + MaxAgReply + MaxAgBusy \in Nat
  BY <1>1, <1>2, <1>4
<1> QED
  BY <1>1, <1>2, <1>3, <1>4, <1>5 DEF AgPeriods, AgQ, AgSlack, t

\* A report is always due within AgQ.
LEMMA DueAlways ==
    ASSUME AgPeriods, NEW node \in StatsNode, Timed(node, DumpPeriod), NEW busy \in 0..MaxAgBusy,
           NEW ok \in BOOLEAN, NEW b \in Int, AgQ <= b
    PROVE  DueIn(node, busy, ok, b)
<1>1. CASE node.req = {}
  BY <1>1 DEF AgPeriods, Timed, DueIn, StatsNode
<1>2. ASSUME NEW r \in node.req PROVE DueIn(node, busy, ok, b)
  <2>1. r \in Nat
    BY DEF StatsNode
  <2> QED
    BY <2>1 DEF AgPeriods, DueIn
<1> QED
  BY <1>1, <1>2

\* A later bound is met when an earlier one is.
LEMMA DueMonotone ==
    ASSUME AgPeriods, NEW node \in StatsNode, NEW busy \in 0..MaxAgBusy,
           NEW ok, NEW ok2, ok => ok2, NEW b \in Int, NEW c \in Int, b <= c,
           DueIn(node, busy, ok, b)
    PROVE  DueIn(node, busy, ok2, c)
  BY DEF AgPeriods, DueIn, StatsNode

\* A bound that is met is not negative.
LEMMA DueBounds ==
    ASSUME AgPeriods, NEW node \in StatsNode, Timed(node, DumpPeriod), NEW busy \in 0..MaxAgBusy,
           NEW ok, NEW b \in Int, DueIn(node, busy, ok, b)
    PROVE  0 <= b
  BY DEF AgPeriods, DueIn, StatsNode, Timed

\* statctrl_send_request()
LEMMA DueSend ==
    ASSUME AgPeriods, NEW node \in StatsNode, Timed(node, DumpPeriod), node.next = 0,
           NEW node2 \in StatsNode, node2.next = DumpPeriod, node2.req = {0}
    PROVE  /\ Timed(node2, DumpPeriod)
           /\ \A busy \in 0..MaxAgBusy : \A b \in Int : \A ok :
                 DueIn(node, busy, ok, b) => DueIn(node2, busy, ok, b)
<1>1. node.req = {}
  BY DEF AgPeriods, Timed, StatsNode
<1>2. Timed(node2, DumpPeriod)
  BY DEF AgPeriods, Timed
<1> QED
  BY <1>1, <1>2 DEF DueIn, AgPeriods

\* statctrl_handle_reply(), with a report of the row.
LEMMA DueReply ==
    ASSUME AgPeriods, NEW node \in StatsNode, Timed(node, DumpPeriod), node.req # {},
           NEW node2 \in StatsNode, NEW busy \in 0..MaxAgBusy, NEW ok, NEW b \in Int,
           DueIn(node, busy, ok, b)
    PROVE  DueIn(node2, busy, TRUE, b)
  BY DEF DueIn, AgPeriods, Timed, StatsNode

\* AgTick
LEMMA DueTick ==
    ASSUME AgPeriods, NEW node \in StatsNode, node.next > 0, MaxAgReply \notin node.req,
           Timed(node, DumpPeriod), NEW node2 \in StatsNode,
           node2.next = node.next - 1, node2.req = {r + 1 : r \in node.req}
    PROVE  /\ Timed(node2, DumpPeriod)
           /\ \A busy \in 0..MaxAgBusy, b \in Int : \A busy2, ok :
                 (ok => busy2 = busy + 1) /\ DueIn(node, busy, ok, b) => DueIn(node2, busy2, ok, b - 1)
<1>1. Timed(node2, DumpPeriod)
  <2>1. node2.next <= DumpPeriod
    BY DEF Timed, AgPeriods, StatsNode
  <2>2. ASSUME NEW s \in node2.req PROVE s <= MaxAgReply /\ node2.next = DumpPeriod - s
    <3>1. PICK r \in node.req : s = r + 1
      BY <2>2
    <3>2. r \in Nat /\ node.next \in Nat
      BY DEF StatsNode
    <3> QED
      BY <3>1, <3>2 DEF Timed, AgPeriods
  <2> QED
    BY <2>1, <2>2 DEF Timed
<1>2. ASSUME NEW busy \in 0..MaxAgBusy, NEW busy2, NEW ok, NEW b \in Int, ok => busy2 = busy + 1,
             DueIn(node, busy, ok, b)
      PROVE  DueIn(node2, busy2, ok, b - 1)
  <2>1. CASE ok /\ MaxAgBusy - busy <= b
    BY <1>2, <2>1 DEF DueIn, AgPeriods
  <2>2. ASSUME NEW r \in node.req, MaxAgReply - r + MaxAgBusy <= b PROVE DueIn(node2, busy2, ok, b - 1)
    <3>1. r + 1 \in node2.req /\ r \in Nat
      BY DEF StatsNode
    <3>2. MaxAgReply - (r + 1) + MaxAgBusy <= b - 1
      BY <2>2, <3>1 DEF AgPeriods
    <3> QED
      BY <3>1, <3>2 DEF DueIn
  <2>3. CASE node.req = {} /\ node.next + MaxAgReply + MaxAgBusy <= b
    <3>1. node2.req = {}
      BY <2>3
    <3> QED
      BY <2>3, <3>1 DEF DueIn, AgPeriods, StatsNode
  <2> QED
    BY <1>2, <2>1, <2>2, <2>3 DEF DueIn
<1> QED
  BY <1>1, <1>2

\* statctrl_run() when nothing in the list matters.
LEMMA DueRun ==
    ASSUME NEW node, NEW node2, node2.next = node.next, node2.req = node.req,
           NEW busy, NEW busy2, NEW ok, NEW ok2, ~ok, NEW b, DueIn(node, busy, ok, b)
    PROVE  DueIn(node2, busy2, ok2, b)
  BY DEF DueIn

\* The invariant holds when the row has just been learned.
LEMMA AgInitially == MacAgingInit => AgInv
<1> SUFFICES ASSUME MacAgingInit PROVE AgInv
  OBVIOUS
<1> DEFINE node == [next |-> DumpPeriod, req |-> {}, list |-> {}]
<1>1. AgPeriods /\ agcfg \in AgConfigs
  BY AgPeriodsHold DEF MacAgingInit
<1>2. /\ agnode = [n \in {"use", "probe"} |-> node] /\ agrow = {0} /\ agidle = [rx |-> 0, tx |-> 0]
      /\ agmode.since = 0 /\ agbusy = 0
      /\ agmode \in [traffic : {"rx", "tx", "none"}, since : {0}, changes : {0}]
  BY DEF MacAgingInit
<1>3. node \in StatsNode /\ node.next = DumpPeriod /\ node.req = {} /\ node.list = {}
  BY <1>1 DEF AgPeriods, StatsNode
<1> HIDE DEF node
<1>4. AgShape
  <2>1. agmode \in [traffic : {"rx", "tx", "none"}, since : Nat, changes : Nat]
    BY <1>2
  <2>2. agidle \in [rx : Nat, tx : Nat] /\ agnode \in [{"use", "probe"} -> StatsNode]
    BY <1>2, <1>3
  <2>3. agrow \in SUBSET Nat /\ \A a, b \in agrow : a = b
    BY <1>2
  <2>4. agbusy \in 0..MaxAgBusy
    BY <1>1, <1>2 DEF AgPeriods
  <2> QED
    BY <2>1, <2>2, <2>3, <2>4 DEF AgShape, MacAgingInit
<1>5. RequestsTimed
  BY <1>1, <1>2, <1>3 DEF RequestsTimed, Timed, AgPeriods
<1>6. TrafficSeen
  BY <1>1, <1>2 DEF TrafficSeen, AgPeriods
<1>7. \A n \in {"use", "probe"}, ok \in BOOLEAN : Due(n, ok, AgQ + 1 - agmode.since)
  <2>1. AgQ + 1 - agmode.since \in Int /\ AgQ <= AgQ + 1 - agmode.since
    BY <1>1, <1>2 DEF AgPeriods
  <2>2. agbusy \in 0..MaxAgBusy /\ \A n \in {"use", "probe"} : agnode[n] \in StatsNode /\ Timed(agnode[n], DumpPeriod)
    BY <1>4, <1>5 DEF AgShape, RequestsTimed
  <2> QED
    BY <1>1, <2>1, <2>2, DueAlways DEF Due
<1>8. UseReported \in BOOLEAN /\ ProbeReported \in BOOLEAN /\ agrow # {}
  BY <1>2 DEF UseReported, ProbeReported
<1>9. RxAges /\ TxAges
  BY <1>7, <1>8 DEF RxAges, TxAges
<1>10. IdleAges
  BY <1>1, <1>2, <1>3 DEF IdleAges, AgPeriods
<1> QED
  BY <1>4, <1>5, <1>6, <1>9, <1>10 DEF AgInv

\* The facts every step starts from.
AgBefore ==
    /\ AgPeriods /\ agbusy \in 0..MaxAgBusy
    /\ \A n \in {"use", "probe"} : agnode[n] \in StatsNode /\ Timed(agnode[n], DumpPeriod)
    /\ UseReported \in BOOLEAN /\ ProbeReported \in BOOLEAN
    /\ agmode.since \in Nat /\ agidle.rx \in Nat /\ agidle.tx \in Nat
    /\ agrow \in SUBSET Nat /\ \A a, b \in agrow : a = b

\* What holds of the requests between two steps.
LEMMA AgBeforeHolds == AgShape /\ RequestsTimed => AgBefore
  BY AgPeriodsHold DEF AgShape, RequestsTimed, AgBefore, UseReported, ProbeReported

\* The thresholds stay as they are.
LEMMA AgSame ==
    ASSUME agcfg' = agcfg
    PROVE  /\ AgValue' = AgValue /\ DumpPeriod' = DumpPeriod /\ CooldownPeriod' = CooldownPeriod
           /\ AgQ' = AgQ /\ find_threshold_for_ip(agcfg)' = find_threshold_for_ip(agcfg)
           /\ AgPeriods => AgPeriods'
<1>1. /\ AgValue' = AgValue /\ DumpPeriod' = DumpPeriod /\ CooldownPeriod' = CooldownPeriod
      /\ AgQ' = AgQ /\ find_threshold_for_ip(agcfg)' = find_threshold_for_ip(agcfg)
  BY DEF AgValue, DumpPeriod, CooldownPeriod, AgQ
<1> QED
  BY <1>1 DEF AgPeriods

\* A row that was just learnt, or whose traffic just changed.
LEMMA AgNew ==
    AgBefore /\ agmode.since = 0 => RxAges /\ TxAges
<1> SUFFICES ASSUME AgBefore, agmode.since = 0 PROVE RxAges /\ TxAges
  OBVIOUS
<1>1. AgQ + 1 - agmode.since \in Int /\ AgQ <= AgQ + 1 - agmode.since
  BY DEF AgBefore, AgPeriods
<1>2. /\ Due("use", UseReported, AgQ + 1 - agmode.since)
      /\ Due("probe", ProbeReported, AgQ + 1 - agmode.since)
  BY <1>1, DueAlways DEF AgBefore, Due
<1>3. agmode.since <= AgQ + 1 /\ agmode.since <= 2 * AgQ + 1
  BY DEF AgBefore, AgPeriods
<1> QED
  BY <1>2, <1>3 DEF RxAges, TxAges

\* A step that leaves the row, the traffic and the idle ages alone and brings
\* no report closer or further.
LEMMA AgKept ==
    ASSUME AgBefore, RxAges, TxAges, UNCHANGED <<agcfg, agkind, agrow, agmode, agidle>>,
           \A b \in Int : agmode.traffic # "none" /\ Due("use", UseReported, b) /\ (agmode.traffic = "rx" \/ AgFresh)
                             => Due("use", UseReported, b)',
           \A b \in Int : agmode.traffic = "tx" /\ Due("probe", ProbeReported, b)
                             => Due("probe", ProbeReported, b)',
           agmode.traffic = "tx" /\ AgFresh => AgFresh'
    PROVE  RxAges' /\ TxAges'
<1>1. /\ CooldownPeriod' = CooldownPeriod /\ AgQ' = AgQ /\ CooldownPeriod \in Nat /\ AgQ \in Nat
      /\ UNCHANGED <<agrow, agmode>>
      /\ \A a \in agrow : a \in Int
      /\ agmode.since \in Int
  BY AgSame DEF AgBefore, AgPeriods
<1>2. /\ AgQ + 1 - agmode.since \in Int /\ 2 * AgQ + 1 - agmode.since \in Int
      /\ \A a \in agrow : CooldownPeriod + AgQ - a \in Int /\ CooldownPeriod + 2 * AgQ - a \in Int
  BY <1>1
<1>3. RxAges'
  BY <1>1, <1>2 DEF RxAges
<1>4. TxAges'
  <2>1. SUFFICES ASSUME agmode.traffic = "tx", agrow # {} PROVE TxAges'
    BY <1>1, <1>2 DEF TxAges
  <2>2. CASE \A a \in agrow : Due("probe", ProbeReported, CooldownPeriod + AgQ - a)
    BY <1>1, <1>2, <2>1, <2>2 DEF TxAges
  <2>3. CASE AgFresh /\ \A a \in agrow : Due("use", UseReported, CooldownPeriod + 2 * AgQ - a)
    BY <1>1, <1>2, <2>1, <2>3 DEF TxAges
  <2>4. CASE Due("probe", ProbeReported, AgQ + 1 - agmode.since)
    BY <1>1, <1>2, <2>1, <2>4 DEF TxAges
  <2>5. CASE AgFresh /\ Due("use", UseReported, 2 * AgQ + 1 - agmode.since)
    BY <1>1, <1>2, <2>1, <2>5 DEF TxAges
  <2> QED
    BY <2>1, <2>2, <2>3, <2>4, <2>5 DEF TxAges
<1> QED
  BY <1>3, <1>4

\* A request of the statistics is sent.
LEMMA AgSend ==
    ASSUME AgInv, NEW m \in {"use", "probe"}, statctrl_send_request(m)
    PROVE  AgInv'
<1> DEFINE node == [agnode[m] EXCEPT !.next = DumpPeriod, !.req = {0}]
<1>1. /\ agnode[m].next = 0 /\ agnode' = [agnode EXCEPT ![m] = node]
      /\ UNCHANGED <<agkind, agcfg, agrow, agidle, agmode, agwake, agbusy>>
  BY DEF statctrl_send_request, AgInv, AgShape, StatsNode
<1>2. AgBefore
  BY AgBeforeHolds DEF AgInv
<1>3. node \in StatsNode /\ node.next = DumpPeriod /\ node.req = {0} /\ node.list = agnode[m].list
  <2>1. agnode[m] \in StatsNode /\ DumpPeriod \in Nat
    BY <1>2 DEF AgBefore, AgPeriods
  <2>2. {0} \in SUBSET Nat
    OBVIOUS
  <2> QED
    BY <2>1, <2>2 DEF StatsNode
<1>4. /\ Timed(node, DumpPeriod)
      /\ \A b \in Int : \A ok : DueIn(agnode[m], agbusy, ok, b) => DueIn(node, agbusy, ok, b)
  <2> HIDE DEF node
  <2> QED
    BY <1>1, <1>2, <1>3, DueSend DEF AgBefore
<1> HIDE DEF node
<1>5. /\ agnode' \in [{"use", "probe"} -> StatsNode] /\ agnode'[m] = node
      /\ \A n \in {"use", "probe"} \ {m} : agnode'[n] = agnode[n]
  BY <1>1, <1>3 DEF AgInv, AgShape
<1>6. AgShape'
  BY <1>1, <1>5 DEF AgInv, AgShape
<1>7. RequestsTimed'
  BY <1>1, <1>4, <1>5, AgSame DEF AgInv, RequestsTimed
<1>8. TrafficSeen'
  BY <1>1 DEF AgInv, TrafficSeen
<1>9. \A n \in {"use", "probe"} : agnode'[n].list = agnode[n].list
  BY <1>3, <1>5
<1>10. UseReported' = UseReported /\ ProbeReported' = ProbeReported
  BY <1>1, <1>9, AgSame DEF UseReported, ProbeReported
<1>11. \A n \in {"use", "probe"}, b \in Int : \A ok : Due(n, ok, b) => DueIn(agnode'[n], agbusy', ok, b)
  BY <1>1, <1>4, <1>5 DEF Due
<1>12. AgFresh => AgFresh'
  <2>1. AgQ' = AgQ /\ agidle' = agidle /\ AgQ - agidle.rx \in Int
    BY <1>1, <1>2, AgSame DEF AgBefore, AgPeriods
  <2> QED
    BY <1>10, <1>11, <2>1 DEF AgFresh, Due
<1>13. RxAges' /\ TxAges'
  BY <1>1, <1>2, <1>10, <1>11, <1>12, AgKept DEF AgInv, Due
<1>14. IdleAges'
  BY <1>1, <1>9, AgSame DEF AgInv, IdleAges
<1> QED
  BY <1>6, <1>7, <1>8, <1>13, <1>14 DEF AgInv

\* The reply of the switch arrives.
LEMMA AgReply ==
    ASSUME AgInv, NEW m \in {"use", "probe"}, statctrl_handle_reply(m)
    PROVE  AgInv'
<1> DEFINE seen == IF m = "use" THEN agidle.rx ELSE agidle.tx
           new == agnode[m].list \cup (IF agrow = {} THEN {} ELSE {seen})
           node == [agnode[m] EXCEPT !.req = {}, !.list = new]
<1>1. /\ agnode[m].req # {} /\ agnode' = [agnode EXCEPT ![m] = node]
      /\ UNCHANGED <<agkind, agcfg, agrow, agidle, agmode, agwake, agbusy>>
  BY DEF statctrl_handle_reply, AgInv, AgShape, StatsNode
<1>2. AgBefore
  BY AgBeforeHolds DEF AgInv
<1>3. seen \in Nat /\ new \in SUBSET Nat
  <2>1. agnode[m] \in StatsNode
    BY <1>2 DEF AgBefore
  <2>2. agnode[m].list \in SUBSET Nat
    BY <2>1 DEF StatsNode
  <2> QED
    BY <1>2, <2>2 DEF AgBefore
<1> HIDE DEF new
<1>4. node \in StatsNode /\ node.next = agnode[m].next /\ node.req = {} /\ node.list = new
  <2>1. agnode[m] \in StatsNode /\ {} \in SUBSET Nat
    BY <1>2 DEF AgBefore
  <2> QED
    BY <1>3, <2>1 DEF StatsNode
<1> HIDE DEF node
<1>5. /\ agnode' \in [{"use", "probe"} -> StatsNode] /\ agnode'[m] = node
      /\ \A n \in {"use", "probe"} \ {m} : agnode'[n] = agnode[n]
  BY <1>1, <1>4 DEF AgInv, AgShape
<1>6. AgShape'
  BY <1>1, <1>5 DEF AgInv, AgShape
<1>7. RequestsTimed'
  <2>1. Timed(agnode[m], DumpPeriod) /\ DumpPeriod' = DumpPeriod
    BY <1>1, <1>2, AgSame DEF AgBefore
  <2>2. Timed(node, DumpPeriod)
    BY <1>4, <2>1 DEF Timed
  <2> QED
    BY <1>1, <1>5, <2>1, <2>2 DEF AgInv, RequestsTimed
<1>8. TrafficSeen'
  BY <1>1 DEF AgInv, TrafficSeen
<1>9. /\ AgBefore' /\ AgValue' = AgValue
  <2>1. (AgShape /\ RequestsTimed => AgBefore)'
    BY AgBeforeHolds, PTL
  <2> QED
    BY <1>1, <1>6, <1>7, <2>1, AgSame
<1>10. /\ agnode[m].list \subseteq new
       /\ agrow # {} => seen \in new
       /\ \A i \in new : i \in agnode[m].list \/ (i = seen /\ agrow # {})
  BY DEF new
<1>11. (UseReported => UseReported') /\ (ProbeReported => ProbeReported')
  BY <1>4, <1>5, <1>9, <1>10 DEF UseReported, ProbeReported
<1>12. \A n \in {"use", "probe"} \ {m} : \A ok, b : Due(n, ok, b) => DueIn(agnode'[n], agbusy', ok, b)
  BY <1>1, <1>5 DEF Due
<1>13. \A b \in Int : \A ok : Due(m, ok, b) => DueIn(agnode'[m], agbusy', TRUE, b)
  BY <1>1, <1>2, <1>4, <1>5, DueReply DEF AgBefore, Due
<1>14. RxAges' /\ TxAges'
  <2>1. CASE agmode.since = 0
    <3>1. (AgBefore /\ agmode.since = 0 => RxAges /\ TxAges)'
      BY AgNew, PTL
    <3> QED
      BY <1>1, <1>9, <2>1, <3>1
  <2>2. CASE agrow = {}
    BY <1>1, <2>2, AgSame DEF AgInv, RxAges, TxAges
  <2>3. CASE agmode.since # 0 /\ agrow # {}
    <3>1. agmode.since > 0 /\ AgQ \in Nat /\ AgQ < AgValue /\ AgValue \in Nat /\ agidle.rx \in Nat /\ AgValue > 0
      BY <1>2, <2>3 DEF AgBefore, AgPeriods
    <3>2. m = "use" /\ agidle.rx < AgValue => UseReported'
      BY <1>4, <1>5, <1>9, <1>10, <2>3 DEF UseReported
    <3>3. m = "probe" /\ agmode.traffic = "tx" => ProbeReported'
      <4> SUFFICES ASSUME m = "probe", agmode.traffic = "tx" PROVE ProbeReported'
        OBVIOUS
      <4>1. seen = 0
        BY <3>1 DEF AgInv, TrafficSeen
      <4> QED
        BY <1>4, <1>5, <1>9, <1>10, <2>3, <3>1, <4>1 DEF ProbeReported
    <3>4. m = "use" /\ agmode.traffic = "rx" => UseReported'
      BY <3>1, <3>2 DEF AgInv, TrafficSeen
    <3>5. m = "use" /\ AgFresh => UseReported'
      <4> SUFFICES ASSUME m = "use", AgFresh, ~UseReported PROVE UseReported'
        BY <1>11
      <4>1. Due("use", FALSE, AgQ - agidle.rx)
        BY DEF AgFresh
      <4>2. AgQ - agidle.rx \in Int /\ agnode["use"] \in StatsNode /\ Timed(agnode["use"], DumpPeriod)
        BY <1>2, <3>1 DEF AgBefore
      <4>3. 0 <= AgQ - agidle.rx
        BY <1>2, <4>1, <4>2, DueBounds DEF AgBefore, Due
      <4> QED
        BY <3>1, <3>2, <4>3
    <3>6. AgFresh => AgFresh'
      <4>1. CASE m = "use"
        BY <3>5, <4>1 DEF AgFresh
      <4>2. CASE m # "use"
        <5>1. AgQ' = AgQ /\ agidle' = agidle
          BY <1>1, AgSame
        <5> QED
          BY <1>11, <1>12, <4>2, <5>1 DEF AgFresh, Due
      <4> QED
        BY <4>1, <4>2
    <3>7. ASSUME NEW b \in Int, Due("use", UseReported, b), agmode.traffic = "rx" \/ AgFresh
          PROVE  Due("use", UseReported, b)'
      <4>1. CASE m = "use"
        <5>1. UseReported' = TRUE
          BY <1>9, <3>4, <3>5, <3>7, <4>1 DEF AgBefore
        <5> QED
          BY <1>13, <3>7, <4>1, <5>1 DEF Due
      <4>2. CASE m # "use"
        <5>1. UseReported' = UseReported
          BY <1>5, <1>9, <4>2 DEF UseReported
        <5> QED
          BY <1>12, <3>7, <4>2, <5>1 DEF Due
      <4> QED
        BY <4>1, <4>2
    <3>8. ASSUME NEW b \in Int, Due("probe", ProbeReported, b), agmode.traffic = "tx"
          PROVE  Due("probe", ProbeReported, b)'
      <4>1. CASE m = "probe"
        <5>1. ProbeReported' = TRUE
          BY <1>9, <3>3, <3>8, <4>1 DEF AgBefore
        <5> QED
          BY <1>13, <3>8, <4>1, <5>1 DEF Due
      <4>2. CASE m # "probe"
        <5>1. ProbeReported' = ProbeReported
          BY <1>5, <1>9, <4>2 DEF ProbeReported
        <5> QED
          BY <1>12, <3>8, <4>2, <5>1 DEF Due
      <4> QED
        BY <4>1, <4>2
    <3> QED
      BY <1>1, <1>2, <3>6, <3>7, <3>8, AgKept DEF AgInv
  <2> QED
    BY <2>1, <2>2, <2>3
<1>15. IdleAges'
  <2> SUFFICES ASSUME agmode.traffic = "none",
                      NEW i \in agnode'["use"].list, i < AgValue
               PROVE  agmode.since <= i + agbusy
    BY <1>1, <1>9, AgSame DEF AgInv, IdleAges
  <2>1. CASE i \in agnode["use"].list
    BY <2>1 DEF AgInv, IdleAges
  <2>2. CASE m = "use" /\ i = agidle.rx
    BY <1>2, <2>2 DEF AgInv, IdleAges, AgBefore, AgPeriods
  <2> QED
    BY <1>4, <1>5, <1>10, <2>1, <2>2
<1> QED
  BY <1>6, <1>7, <1>8, <1>14, <1>15 DEF AgInv

\* statctrl_run(): what was reported stamps and probes the row.
LEMMA AgRun ==
    ASSUME AgInv, statctrl_run
    PROVE  AgInv'
<1> DEFINE node(n) == [agnode[n] EXCEPT !.list = {}]
<1>1. /\ agrow' = Stamped(agrow)
      /\ agidle' = IF Probed(agrow') /\ agmode.traffic # "none" THEN [agidle EXCEPT !.rx = 0] ELSE agidle
      /\ agnode' = [n \in {"use", "probe"} |-> node(n)]
      /\ agbusy' = 0 /\ UNCHANGED <<agkind, agcfg, agmode, agwake>>
  BY DEF statctrl_run, AgInv, AgShape
<1>2. AgBefore
  BY AgBeforeHolds DEF AgInv
<1>3. \A n \in {"use", "probe"} : /\ node(n) \in StatsNode /\ node(n).next = agnode[n].next
                                  /\ node(n).req = agnode[n].req /\ node(n).list = {}
  <2>1. {} \in SUBSET Nat /\ \A n \in {"use", "probe"} : agnode[n] \in StatsNode
    BY <1>2 DEF AgBefore
  <2> QED
    BY <2>1 DEF StatsNode
<1>4. \A n \in {"use", "probe"} : /\ agnode'[n] \in StatsNode /\ agnode'[n].next = agnode[n].next
                                  /\ agnode'[n].req = agnode[n].req /\ agnode'[n].list = {}
  BY <1>1, <1>3
<1>5. agnode' \in [{"use", "probe"} -> StatsNode]
  BY <1>1, <1>3
<1> HIDE DEF node
\* The row keeps its age, or has a report of use and is stamped.
<1>6. /\ \A a \in agrow : agrow = {a} /\ Min(agrow) = a /\ a \in Nat
  <2> SUFFICES ASSUME NEW a \in agrow PROVE agrow = {a} /\ Min(agrow) = a /\ a \in Nat
    OBVIOUS
  <2>1. agrow = {a} /\ a \in Nat
    BY <1>2 DEF AgBefore
  <2>2. Min({a}) = a
    BY <2>1 DEF Min
  <2> QED
    BY <2>1, <2>2
<1>7. /\ agrow = {} => agrow' = {}
      /\ \A a \in agrow : a >= CooldownPeriod /\ UseReported => agrow' = {0}
      /\ \A a \in agrow : ~(a >= CooldownPeriod /\ UseReported) => agrow' = agrow
  BY <1>1, <1>6 DEF Stamped, UseReported
<1>8. /\ agidle' \in [rx : Nat, tx : Nat] /\ agidle'.tx = agidle.tx
      /\ agidle'.rx = agidle.rx \/ (agidle'.rx = 0 /\ agmode.traffic # "none")
      /\ \A a \in agrow : agrow' = agrow /\ a >= CooldownPeriod /\ ProbeReported /\ agmode.traffic # "none"
                              => agidle'.rx = 0
  BY <1>1, <1>6 DEF Probed, ProbeReported, AgInv, AgShape
<1>9. agrow' = agrow \/ agrow' = {0}
  BY <1>6, <1>7
<1>10. AgShape'
  <2>1. agrow' \in SUBSET Nat /\ \A a, b \in agrow' : a = b
    <3>1. CASE agrow' = agrow
      BY <1>2, <3>1 DEF AgBefore
    <3>2. CASE agrow' = {0}
      BY <3>2
    <3> QED
      BY <1>9, <3>1, <3>2
  <2>2. agbusy' \in 0..MaxAgBusy
    BY <1>1, <1>2 DEF AgBefore, AgPeriods
  <2> QED
    BY <1>1, <1>5, <1>8, <2>1, <2>2 DEF AgInv, AgShape
<1>11. RequestsTimed'
  BY <1>1, <1>4, AgSame DEF AgInv, RequestsTimed, Timed
<1>12. TrafficSeen'
  BY <1>1, <1>2, <1>8, <1>9, AgSame DEF AgInv, TrafficSeen, AgBefore, AgPeriods
<1>13. /\ AgBefore' /\ AgValue' = AgValue /\ AgQ' = AgQ /\ CooldownPeriod' = CooldownPeriod
       /\ DumpPeriod' = DumpPeriod
  <2>1. (AgShape /\ RequestsTimed => AgBefore)'
    BY AgBeforeHolds, PTL
  <2> QED
    BY <1>1, <1>10, <1>11, <2>1, AgSame
<1>14. \A n \in {"use", "probe"}, b \in Int : \A ok, ok2 : ~ok /\ Due(n, ok, b) => DueIn(agnode'[n], agbusy', ok2, b)
  BY <1>4, DueRun DEF Due
<1>15. /\ \A b \in Int : AgQ <= b => Due("use", UseReported, b)' /\ Due("probe", ProbeReported, b)'
       /\ DueIn(agnode'["use"], agbusy', FALSE, AgQ)
  <2>1. /\ AgPeriods' /\ agbusy' \in 0..MaxAgBusy /\ UseReported' \in BOOLEAN /\ ProbeReported' \in BOOLEAN
        /\ \A n \in {"use", "probe"} : agnode'[n] \in StatsNode /\ Timed(agnode'[n], DumpPeriod)
    BY <1>13 DEF AgBefore
  <2>2. AgQ \in Int /\ AgQ <= AgQ /\ AgPeriods
    BY <1>2 DEF AgBefore, AgPeriods
  <2>3. DueIn(agnode'["use"], agbusy', FALSE, AgQ)
    BY <2>1, <2>2, DueAlways
  <2> QED
    BY <1>2, <2>1, <2>3, DueAlways DEF Due, AgBefore
<1>16. /\ CooldownPeriod \in Nat /\ AgQ \in Nat /\ agmode.since \in Nat /\ agidle.rx \in Nat
       /\ AgQ - agidle.rx \in Int
       /\ AgQ + 1 - agmode.since \in Int /\ 2 * AgQ + 1 - agmode.since \in Int
       /\ \A a \in agrow : CooldownPeriod + AgQ - a \in Int /\ CooldownPeriod + 2 * AgQ - a \in Int
  BY <1>2, <1>6 DEF AgBefore, AgPeriods
<1>17. agrow # {} <=> agrow' # {}
  BY <1>6, <1>7
\* What a report of use achieves, or of a probe that is not needed.
<1>18. ASSUME agrow # {}, UseReported \/ \A a \in agrow : a < CooldownPeriod
       PROVE  \A a \in agrow' : CooldownPeriod + AgQ - a \in Int /\ AgQ <= CooldownPeriod + AgQ - a
  <2>1. PICK a \in agrow : agrow = {a} /\ a \in Nat
    BY <1>6, <1>18
  <2>2. CASE a >= CooldownPeriod /\ UseReported
    BY <1>7, <1>16, <2>2
  <2>3. CASE ~(a >= CooldownPeriod /\ UseReported)
    <3>1. agrow' = {a} /\ a < CooldownPeriod
      BY <1>7, <1>16, <1>18, <2>1, <2>3
    <3> QED
      BY <1>16, <2>1, <3>1
  <2> QED
    BY <2>2, <2>3
<1>19. RxAges'
  <2> SUFFICES ASSUME agmode.traffic = "rx" PROVE RxAges'
    BY <1>1 DEF RxAges
  <2>1. CASE agrow = {}
    BY <1>1, <1>7, <1>13, <2>1 DEF AgInv, RxAges
  <2>2. CASE agrow # {} /\ UseReported
    <3>1. \A a \in agrow' : Due("use", UseReported, CooldownPeriod + AgQ - a)'
      BY <1>13, <1>15, <1>18, <2>2
    <3> QED
      BY <1>17, <2>2, <3>1 DEF RxAges
  <2>3. CASE agrow # {} /\ ~UseReported
    <3>1. agrow' = agrow
      BY <1>6, <1>7, <2>3
    <3>2. \A b \in Int : Due("use", UseReported, b) => Due("use", UseReported, b)'
      BY <1>14, <2>3 DEF Due
    <3> QED
      BY <1>1, <1>13, <1>16, <2>3, <3>1, <3>2 DEF AgInv, RxAges
  <2> QED
    BY <2>1, <2>2, <2>3
<1>20. TxAges'
  <2> SUFFICES ASSUME agmode.traffic = "tx" PROVE TxAges'
    BY <1>1 DEF TxAges
  <2>1. CASE agrow = {}
    BY <1>1, <1>7, <1>13, <2>1 DEF AgInv, TxAges
  <2>2. CASE agrow # {} /\ (UseReported \/ \A a \in agrow : a < CooldownPeriod)
    <3>1. \A a \in agrow' : Due("probe", ProbeReported, CooldownPeriod + AgQ - a)'
      BY <1>13, <1>15, <1>18, <2>2
    <3> QED
      BY <1>17, <2>2, <3>1 DEF TxAges
  <2>3. ASSUME NEW a \in agrow, ~UseReported, a >= CooldownPeriod PROVE TxAges'
    <3>0. agrow' = {a} /\ agrow = {a} /\ a \in Nat
      BY <1>6, <1>7, <2>3
    <3>1. \A b \in Int : Due("use", UseReported, b) => Due("use", UseReported, b)'
      BY <1>14, <2>3 DEF Due
    <3>2. CASE ProbeReported
      <4>1. agidle'.rx = 0
        BY <1>8, <2>3, <3>0, <3>2
      <4>2. AgFresh'
        <5>1. AgQ' - agidle'.rx = AgQ
          BY <1>13, <1>16, <4>1
        <5>2. DueIn(agnode'["use"], agbusy', FALSE, AgQ' - agidle'.rx)
          BY <1>15, <5>1, Zenon
        <5> QED
          BY <5>2, Zenon DEF AgFresh, Due
      <4>3. CASE Due("probe", ProbeReported, CooldownPeriod + AgQ - a)
        <5>1. 0 <= CooldownPeriod + AgQ - a
          BY <1>2, <1>16, <4>3, DueBounds DEF AgBefore, Due
        <5>2. AgQ <= CooldownPeriod + 2 * AgQ - a
          BY <1>16, <3>0, <5>1
        <5>3. Due("use", UseReported, CooldownPeriod + 2 * AgQ - a)'
          BY <1>13, <1>15, <1>16, <5>2
        <5> QED
          BY <3>0, <4>2, <5>3 DEF TxAges
      <4>4. CASE Due("use", UseReported, CooldownPeriod + 2 * AgQ - a)
        <5>1. Due("use", UseReported, CooldownPeriod + 2 * AgQ - a)'
          BY <1>13, <1>16, <3>1, <4>4
        <5> QED
          BY <3>0, <4>2, <5>1 DEF TxAges
      <4>5. CASE Due("probe", ProbeReported, AgQ + 1 - agmode.since)
        <5>1. 0 <= AgQ + 1 - agmode.since
          BY <1>2, <1>16, <4>5, DueBounds DEF AgBefore, Due
        <5>2. AgQ <= 2 * AgQ + 1 - agmode.since
          BY <1>16, <5>1
        <5>3. Due("use", UseReported, 2 * AgQ + 1 - agmode.since)'
          BY <1>1, <1>13, <1>15, <1>16, <5>2
        <5> QED
          BY <3>0, <4>2, <5>3 DEF TxAges
      <4>6. CASE Due("use", UseReported, 2 * AgQ + 1 - agmode.since)
        <5>1. Due("use", UseReported, 2 * AgQ + 1 - agmode.since)'
          BY <1>1, <1>13, <1>16, <3>1, <4>6
        <5> QED
          BY <3>0, <4>2, <5>1 DEF TxAges
      <4> QED
        BY <3>0, <4>3, <4>4, <4>5, <4>6 DEF AgInv, TxAges
    <3>3. CASE ~ProbeReported
      <4>1. \A b \in Int : Due("probe", ProbeReported, b) => Due("probe", ProbeReported, b)'
        BY <1>14, <3>3 DEF Due
      <4>2. AgFresh => AgFresh'
        <5>1. CASE agidle'.rx = agidle.rx
          BY <1>13, <1>14, <1>16, <2>3, <5>1 DEF AgFresh, Due
        <5>2. CASE agidle'.rx = 0
          <6>1. AgQ' - agidle'.rx = AgQ
            BY <1>13, <1>16, <5>2
          <6>2. DueIn(agnode'["use"], agbusy', FALSE, AgQ' - agidle'.rx)
            BY <1>15, <6>1, Zenon
          <6> QED
            BY <6>2, Zenon DEF AgFresh, Due
        <5> QED
          BY <1>8, <5>1, <5>2
      <4>3. CASE Due("probe", ProbeReported, CooldownPeriod + AgQ - a)
        <5>1. Due("probe", ProbeReported, CooldownPeriod + AgQ - a)'
          BY <1>13, <1>16, <4>1, <4>3
        <5> QED
          BY <3>0, <5>1 DEF TxAges
      <4>4. CASE AgFresh /\ Due("use", UseReported, CooldownPeriod + 2 * AgQ - a)
        <5>1. Due("use", UseReported, CooldownPeriod + 2 * AgQ - a)'
          BY <1>13, <1>16, <3>1, <4>4
        <5> QED
          BY <3>0, <4>2, <4>4, <5>1 DEF TxAges
      <4>5. CASE Due("probe", ProbeReported, AgQ + 1 - agmode.since)
        <5>1. Due("probe", ProbeReported, AgQ + 1 - agmode.since)'
          BY <1>1, <1>13, <1>16, <4>1, <4>5
        <5> QED
          BY <3>0, <5>1 DEF TxAges
      <4>6. CASE AgFresh /\ Due("use", UseReported, 2 * AgQ + 1 - agmode.since)
        <5>1. Due("use", UseReported, 2 * AgQ + 1 - agmode.since)'
          BY <1>1, <1>13, <1>16, <3>1, <4>6
        <5> QED
          BY <3>0, <4>2, <4>6, <5>1 DEF TxAges
      <4> QED
        BY <3>0, <4>3, <4>4, <4>5, <4>6 DEF AgInv, TxAges
    <3> QED
      BY <3>2, <3>3
  <2> QED
    BY <1>6, <1>16, <2>1, <2>2, <2>3
<1>21. IdleAges'
  <2> SUFFICES ASSUME agmode.traffic = "none" PROVE IdleAges'
    BY <1>1 DEF IdleAges
  <2>1. agmode'.since <= agidle'.rx \/ agidle'.rx > AgMax
    BY <1>1, <1>8 DEF AgInv, IdleAges
  <2>2. ASSUME find_threshold_for_ip(agcfg) # 0, NEW a \in agrow'
        PROVE  agmode.since <= AgValue + MaxAgBusy + a
    <3>1. CASE a \in agrow
      BY <2>2, <3>1 DEF AgInv, IdleAges
    <3>2. CASE UseReported /\ a = 0
      <4>1. PICK i \in agnode["use"].list : i < AgValue
        BY <3>2 DEF UseReported
      <4>2. agmode.since <= i + agbusy /\ i \in Nat
        <5>1. agnode["use"] \in StatsNode
          BY <1>2 DEF AgBefore
        <5> QED
          BY <4>1, <5>1 DEF AgInv, IdleAges, StatsNode
      <4> QED
        BY <1>2, <3>2, <4>1, <4>2 DEF AgBefore, AgPeriods
    <3> QED
      BY <1>6, <1>7, <2>2, <3>1, <3>2
  <2> QED
    BY <1>1, <1>4, <1>13, <2>1, <2>2, AgSame DEF IdleAges
<1> QED
  BY <1>10, <1>11, <1>12, <1>19, <1>20, <1>21 DEF AgInv

\* northd removes an aged row, or sets its next wake-up.
LEMMA AgNorthd ==
    ASSUME AgInv, en_aging_run
    PROVE  AgInv'
<1>1. /\ agrow' = IF AgExpired THEN {} ELSE agrow
      /\ UNCHANGED <<agkind, agcfg, agidle, agmode, agnode, agbusy>>
  BY DEF en_aging_run
<1>2. AgBefore
  BY AgBeforeHolds DEF AgInv
<1>3. AgShape'
  BY <1>1, Zenon DEF AgInv, AgShape
<1>4. RequestsTimed'
  BY <1>1, AgSame DEF AgInv, RequestsTimed
<1>5. TrafficSeen'
  BY <1>1 DEF AgInv, TrafficSeen
<1>6. UseReported' = UseReported /\ ProbeReported' = ProbeReported
  BY <1>1, AgSame DEF UseReported, ProbeReported
<1>7. \A n, ok, b : Due(n, ok, b) <=> DueIn(agnode'[n], agbusy', ok, b)
  BY <1>1 DEF Due
<1>8. RxAges' /\ TxAges'
  <2>1. CASE ~AgExpired
    <3>1. agrow' = agrow
      BY <1>1, <2>1
    <3>2. AgFresh => AgFresh'
      BY <1>1, <1>6, AgSame DEF AgFresh, Due
    <3> QED
      BY <1>1, <1>2, <1>6, <1>7, <3>1, <3>2, AgKept DEF AgInv, Due
  <2>2. CASE AgExpired
    \* The row was older than any report that is due allows.
    <3>1. PICK a \in agrow : 4 * DumpPeriod + MaxAgBusy + MaxAgReply + 1 < a
      BY <1>2, <2>2 DEF AgExpired, AgBefore, AgPeriods
    <3>2. /\ a \in Nat /\ agmode.since \in Nat /\ agrow' = {}
          /\ CooldownPeriod + AgQ - a \in Int /\ CooldownPeriod + AgQ - a < 0
          /\ CooldownPeriod + 2 * AgQ - a \in Int /\ CooldownPeriod + 2 * AgQ - a < 0
          /\ AgQ + 1 - agmode.since \in Int /\ 2 * AgQ + 1 - agmode.since \in Int /\ AgQ \in Nat
      BY <1>1, <1>2, <2>2, <3>1 DEF AgBefore, AgPeriods
    <3>3. \A n \in {"use", "probe"}, b \in Int : \A ok : Due(n, ok, b) => 0 <= b
      BY <1>2, DueBounds DEF AgBefore, Due
    <3>4. agmode.traffic = "rx" => agmode.since <= AgQ + 1
      <4> SUFFICES ASSUME agmode.traffic = "rx" PROVE agmode.since <= AgQ + 1
        OBVIOUS
      <4>1. Due("use", UseReported, CooldownPeriod + AgQ - a) \/ Due("use", UseReported, AgQ + 1 - agmode.since)
        BY <3>1 DEF AgInv, RxAges
      <4> QED
        BY <3>2, <3>3, <4>1
    <3>5. agmode.traffic = "tx" => agmode.since <= 2 * AgQ + 1
      <4> SUFFICES ASSUME agmode.traffic = "tx" PROVE agmode.since <= 2 * AgQ + 1
        OBVIOUS
      <4>1. \/ Due("probe", ProbeReported, CooldownPeriod + AgQ - a)
            \/ Due("use", UseReported, CooldownPeriod + 2 * AgQ - a)
            \/ Due("probe", ProbeReported, AgQ + 1 - agmode.since)
            \/ Due("use", UseReported, 2 * AgQ + 1 - agmode.since)
        BY <3>1 DEF AgInv, TxAges
      <4> QED
        BY <3>2, <3>3, <4>1
    <3> QED
      BY <1>1, <3>2, <3>4, <3>5, AgSame DEF RxAges, TxAges
  <2> QED
    BY <2>1, <2>2
<1>9. IdleAges'
  BY <1>1, AgSame DEF AgInv, IdleAges
<1> QED
  BY <1>3, <1>4, <1>5, <1>8, <1>9 DEF AgInv

\* The row is learned again, or the traffic changes.
LEMMA AgLearn ==
    ASSUME AgInv, Learn \/ \E m \in {"rx", "tx", "none"} : Traffic(m)
    PROVE  AgInv'
<1>1. /\ UNCHANGED <<agkind, agcfg, agidle, agnode, agbusy>>
      /\ agmode'.since = 0 /\ agmode' \in [traffic : {"rx", "tx", "none"}, since : Nat, changes : Nat]
      /\ agmode'.traffic = "tx" => agkind = "mb"
      /\ agrow' = agrow \/ agrow' = {0}
  <2>1. CASE Learn
    BY <2>1 DEF Learn, AgInv, AgShape
  <2>2. ASSUME NEW m \in {"rx", "tx", "none"}, Traffic(m) PROVE <1>1!:
    BY <2>2 DEF Traffic, AgInv, AgShape
  <2> QED
    BY <2>1, <2>2
<1>2. AgBefore
  BY AgBeforeHolds DEF AgInv
<1>3. agrow' \in SUBSET Nat /\ \A a, b \in agrow' : a = b
  <2>1. CASE agrow' = agrow
    BY <1>2, <2>1 DEF AgBefore
  <2>2. CASE agrow' = {0}
    BY <2>2
  <2> QED
    BY <1>1, <2>1, <2>2
<1>4. AgShape'
  BY <1>1, <1>3 DEF AgInv, AgShape
<1>5. RequestsTimed'
  BY <1>1, AgSame DEF AgInv, RequestsTimed
<1>6. TrafficSeen'
  <2>1. /\ find_threshold_for_ip(agcfg)' = find_threshold_for_ip(agcfg)
        /\ find_threshold_for_ip(agcfg) \in Nat
    BY <1>1, <1>2, AgSame DEF AgBefore, AgPeriods
  <2>2. find_threshold_for_ip(agcfg) # 0 => \A a \in agrow' : a <= find_threshold_for_ip(agcfg)
    <3>1. CASE agrow' = agrow
      BY <3>1 DEF AgInv, TrafficSeen
    <3>2. CASE agrow' = {0}
      BY <2>1, <3>2
    <3> QED
      BY <1>1, <3>1, <3>2
  <2>3. ~(agmode'.since > 0)
    BY <1>1
  <2> QED
    BY <2>1, <2>2, <2>3 DEF TrafficSeen
<1>7. (AgShape /\ RequestsTimed => AgBefore)' /\ (AgBefore /\ agmode.since = 0 => RxAges /\ TxAges)'
  BY AgBeforeHolds, AgNew, PTL
<1>8. RxAges' /\ TxAges'
  BY <1>1, <1>4, <1>5, <1>7
<1>9. IdleAges'
  <2>1. /\ agmode'.since <= agidle'.rx /\ AgValue' = AgValue /\ \A a \in agrow' : a \in Nat
        /\ \A i \in agnode'["use"].list : i \in Nat
    <3>1. agnode["use"] \in StatsNode
      BY <1>2 DEF AgBefore
    <3>2. \A i \in agnode["use"].list : i \in Nat
      BY <3>1 DEF StatsNode
    <3> QED
      BY <1>1, <1>2, <1>3, <3>2, AgSame DEF AgBefore
  <2>2. AgValue \in Nat /\ MaxAgBusy \in Nat /\ agbusy' \in Nat
    BY <1>1, <1>2 DEF AgBefore, AgPeriods
  <2> QED
    BY <1>1, <2>1, <2>2 DEF IdleAges
<1> QED
  BY <1>4, <1>5, <1>6, <1>8, <1>9 DEF AgInv

\* Time passes.
LEMMA AgTicks ==
    ASSUME AgInv, AgTick
    PROVE  AgInv'
<1> DEFINE node(n) == [agnode[n] EXCEPT !.next = @ - 1, !.req = {r + 1 : r \in @}]
           listed == \E n \in AgNodes : agnode[n].list # {}
<1>1. /\ \A n \in AgNodes : agnode[n].next > 0 /\ MaxAgReply \notin agnode[n].req
      /\ listed => agbusy < MaxAgBusy
      /\ ~AgExpired /\ (agmode.traffic # "none" => agrow # {})
      /\ agrow' = {Later(a, AgMax) : a \in agrow}
      /\ agidle' = [rx |-> IF agmode.traffic = "rx" THEN 0 ELSE Later(agidle.rx, AgMax + 1),
                    tx |-> IF agmode.traffic = "tx" THEN 0 ELSE Later(agidle.tx, AgMax + 1)]
      /\ agnode' = [n \in {"use", "probe"} |-> IF n \notin AgNodes THEN agnode[n] ELSE node(n)]
      /\ agmode' = [agmode EXCEPT !.since = Later(@, SinceMax(agmode.traffic))]
      /\ agbusy' = IF listed THEN agbusy + 1 ELSE 0
      /\ UNCHANGED <<agkind, agcfg>>
  BY DEF AgTick, AgInv, AgShape
<1>2. AgBefore /\ "use" \in AgNodes /\ AgNodes \subseteq {"use", "probe"}
      /\ (agmode.traffic = "tx" => "probe" \in AgNodes)
  BY AgBeforeHolds DEF AgInv, AgNodes, AgShape
<1>3. ASSUME NEW n \in {"use", "probe"}
      PROVE  /\ node(n).next = agnode[n].next - 1 /\ node(n).req = {r + 1 : r \in agnode[n].req}
             /\ node(n).list = agnode[n].list /\ (n \in AgNodes => node(n) \in StatsNode)
  <2>1. agnode[n] \in StatsNode
    BY <1>2 DEF AgBefore
  <2> DEFINE S == {r + 1 : r \in agnode[n].req}
  <2>2. S \in SUBSET Nat
    BY <2>1 DEF StatsNode
  <2>3. node(n) = [agnode[n] EXCEPT !.next = @ - 1, !.req = S]
    OBVIOUS
  <2>4. n \in AgNodes => agnode[n].next - 1 \in Nat
    BY <1>1, <2>1 DEF StatsNode
  <2> HIDE DEF S, node
  <2>5. /\ node(n).next = agnode[n].next - 1 /\ node(n).req = S
        /\ node(n).list = agnode[n].list /\ (n \in AgNodes => node(n) \in StatsNode)
    BY <2>1, <2>2, <2>3, <2>4 DEF StatsNode
  <2> QED
    BY <2>5 DEF S
<1> HIDE DEF node
<1>4. \A n \in AgNodes :
         /\ agnode'[n].next = agnode[n].next - 1 /\ agnode'[n].req = {r + 1 : r \in agnode[n].req}
         /\ agnode'[n].list = agnode[n].list /\ agnode'[n] \in StatsNode
  BY <1>1, <1>2, <1>3
<1>5. agnode' \in [{"use", "probe"} -> StatsNode] /\ \A n \in {"use", "probe"} : agnode'[n].list = agnode[n].list
  BY <1>1, <1>2, <1>3 DEF AgBefore
<1>6. /\ \A a \in agrow' : \E b \in agrow : a = Later(b, AgMax)
      /\ \A b \in agrow : Later(b, AgMax) \in agrow'
      /\ \A b \in agrow : b \in Nat /\ Later(b, AgMax) \in Nat /\ Later(b, AgMax) <= b + 1
      /\ AgMax \in Nat
  BY <1>1, <1>2 DEF AgBefore, AgPeriods, Later
<1>7. agmode'.since \in Nat /\ agmode'.since <= agmode.since + 1 /\ agmode'.traffic = agmode.traffic
      /\ agmode' \in [traffic : {"rx", "tx", "none"}, since : Nat, changes : Nat]
  <2>1. \A n \in Nat : \A m : Later(n, m) \in Nat /\ Later(n, m) <= n + 1
    BY DEF Later
  <2>2. Later(agmode.since, SinceMax(agmode.traffic)) \in Nat /\ Later(agmode.since, SinceMax(agmode.traffic)) <= agmode.since + 1
    BY <1>2, <2>1 DEF AgBefore
  <2> QED
    BY <1>1, <2>2 DEF AgInv, AgShape
<1>8. /\ agidle' \in [rx : Nat, tx : Nat] /\ agidle'.rx <= agidle.rx + 1
      /\ agmode.traffic = "rx" => agidle'.rx = 0
      /\ agmode.traffic = "tx" => agidle'.tx = 0
      /\ agmode.traffic = "none" => agidle'.rx = agidle.rx + 1 \/ (agidle'.rx = agidle.rx /\ agidle.rx > AgMax)
  <2>1. agidle.rx \in Nat /\ agidle.tx \in Nat /\ AgMax \in Nat
    BY <1>2 DEF AgBefore, AgPeriods
  <2>2. /\ Later(agidle.rx, AgMax + 1) \in Nat /\ Later(agidle.rx, AgMax + 1) <= agidle.rx + 1
        /\ Later(agidle.tx, AgMax + 1) \in Nat
        /\ Later(agidle.rx, AgMax + 1) = agidle.rx + 1 \/ (Later(agidle.rx, AgMax + 1) = agidle.rx /\ agidle.rx > AgMax)
    BY <2>1 DEF Later
  <2> QED
    BY <1>1, <2>1, <2>2
<1>9. agbusy' \in 0..MaxAgBusy /\ (listed => agbusy' = agbusy + 1)
  BY <1>1, <1>2 DEF AgBefore, AgPeriods
<1>10. AgShape'
  <2>1. agrow' \in SUBSET Nat /\ \A a, b \in agrow' : a = b
    BY <1>2, <1>6 DEF AgBefore
  <2> QED
    BY <1>1, <1>5, <1>7, <1>8, <1>9, <2>1 DEF AgInv, AgShape
<1>11. /\ AgValue' = AgValue /\ AgQ' = AgQ /\ CooldownPeriod' = CooldownPeriod /\ DumpPeriod' = DumpPeriod
       /\ find_threshold_for_ip(agcfg)' = find_threshold_for_ip(agcfg)
       /\ UseReported' = UseReported /\ ProbeReported' = ProbeReported
  BY <1>1, <1>5, AgSame DEF UseReported, ProbeReported
<1>12. ASSUME NEW n \in AgNodes
       PROVE  /\ Timed(agnode'[n], DumpPeriod)
              /\ \A b \in Int : \A ok :
                    (ok => listed) /\ Due(n, ok, b) => DueIn(agnode'[n], agbusy', ok, b - 1)
  <2>1. /\ AgPeriods /\ agnode[n] \in StatsNode /\ Timed(agnode[n], DumpPeriod) /\ agbusy \in 0..MaxAgBusy
        /\ agnode[n].next > 0 /\ MaxAgReply \notin agnode[n].req /\ agnode'[n] \in StatsNode
        /\ agnode'[n].next = agnode[n].next - 1 /\ agnode'[n].req = {r + 1 : r \in agnode[n].req}
    BY <1>1, <1>2, <1>4 DEF AgBefore
  <2>2. /\ Timed(agnode'[n], DumpPeriod)
        /\ \A busy \in 0..MaxAgBusy, b \in Int : \A busy2, ok :
              (ok => busy2 = busy + 1) /\ DueIn(agnode[n], busy, ok, b) => DueIn(agnode'[n], busy2, ok, b - 1)
    BY <2>1, DueTick
  <2> QED
    BY <1>9, <2>1, <2>2 DEF Due
<1>13. RequestsTimed'
  <2>1. \A n \in {"use", "probe"} \ AgNodes : agnode'[n] = agnode[n]
    BY <1>1
  <2> QED
    BY <1>11, <1>12, <2>1 DEF AgInv, RequestsTimed
<1>14. ASSUME find_threshold_for_ip(agcfg) # 0, NEW b \in agrow
       PROVE  b < find_threshold_for_ip(agcfg) /\ Later(b, AgMax) = b + 1
  BY <1>1, <1>2, <1>6, <1>14 DEF AgExpired, AgBefore, AgPeriods, Later
<1>15. TrafficSeen'
  <2>1. ASSUME find_threshold_for_ip(agcfg) # 0, NEW a \in agrow' PROVE a <= find_threshold_for_ip(agcfg)
    <3>1. PICK b \in agrow : a = Later(b, AgMax)
      BY <1>6
    <3> QED
      BY <1>2, <1>6, <1>14, <2>1, <3>1 DEF AgBefore, AgPeriods
  <2> QED
    BY <1>7, <1>8, <1>11, <2>1 DEF TrafficSeen
\* Every report comes a tick closer.
<1>16. (UseReported => listed) /\ ("probe" \in AgNodes /\ ProbeReported => listed)
  BY <1>2 DEF UseReported, ProbeReported
<1> HIDE DEF listed
<1>17. /\ AgPeriods /\ AgPeriods' /\ agbusy' \in 0..MaxAgBusy
       /\ \A n \in {"use", "probe"} : agnode'[n] \in StatsNode
  BY <1>1, <1>2, <1>5, <1>9, AgSame DEF AgBefore
<1>18. \A b \in Int, c \in Int : b - 1 <= c /\ Due("use", UseReported, b) => Due("use", UseReported, c)'
  <2> SUFFICES ASSUME NEW b \in Int, NEW c \in Int, b - 1 <= c, Due("use", UseReported, b)
               PROVE  DueIn(agnode'["use"], agbusy', UseReported, c)
    BY <1>11 DEF Due
  <2>1. DueIn(agnode'["use"], agbusy', UseReported, b - 1)
    BY <1>2, <1>12, <1>16
  <2>2. b - 1 \in Int
    OBVIOUS
  <2> QED
    BY <1>17, <2>1, <2>2, DueMonotone
<1>19. "probe" \in AgNodes => \A b \in Int, c \in Int :
          b - 1 <= c /\ Due("probe", ProbeReported, b) => Due("probe", ProbeReported, c)'
  <2> SUFFICES ASSUME "probe" \in AgNodes, NEW b \in Int, NEW c \in Int, b - 1 <= c, Due("probe", ProbeReported, b)
               PROVE  DueIn(agnode'["probe"], agbusy', ProbeReported, c)
    BY <1>11 DEF Due
  <2>1. DueIn(agnode'["probe"], agbusy', ProbeReported, b - 1)
    BY <1>12, <1>16
  <2>2. b - 1 \in Int
    OBVIOUS
  <2> QED
    BY <1>17, <2>1, <2>2, DueMonotone
<1>20. AgFresh => AgFresh'
  <2> SUFFICES ASSUME Due("use", FALSE, AgQ - agidle.rx) PROVE AgFresh'
    BY <1>11 DEF AgFresh
  <2>1. /\ AgQ - agidle.rx \in Int /\ AgQ - agidle'.rx \in Int /\ AgQ - agidle.rx - 1 \in Int
        /\ AgQ - agidle.rx - 1 <= AgQ - agidle'.rx
    BY <1>2, <1>8 DEF AgBefore, AgPeriods
  <2>2. DueIn(agnode'["use"], agbusy', FALSE, AgQ - agidle.rx - 1)
    BY <1>2, <1>12, <2>1
  <2>3. DueIn(agnode'["use"], agbusy', FALSE, AgQ - agidle'.rx)
    <3> DEFINE b == AgQ - agidle.rx - 1
               c == AgQ - agidle'.rx
    <3>1. b \in Int /\ c \in Int /\ b <= c /\ DueIn(agnode'["use"], agbusy', FALSE, b)
      BY <2>1, <2>2
    <3> HIDE DEF b, c
    <3>2. DueIn(agnode'["use"], agbusy', FALSE, c)
      BY <1>17, <3>1 DEF DueIn, AgPeriods, StatsNode
    <3> QED
      BY <3>2 DEF c
  <2> QED
    BY <1>11, <2>3 DEF AgFresh, Due
<1>21. /\ CooldownPeriod \in Nat /\ AgQ \in Nat /\ agmode.since \in Nat /\ agmode'.since \in Nat
       /\ AgQ + 1 - agmode.since \in Int /\ 2 * AgQ + 1 - agmode.since \in Int
       /\ AgQ + 1 - agmode'.since \in Int /\ 2 * AgQ + 1 - agmode'.since \in Int
       /\ (AgQ + 1 - agmode.since) - 1 <= AgQ + 1 - agmode'.since
       /\ (2 * AgQ + 1 - agmode.since) - 1 <= 2 * AgQ + 1 - agmode'.since
  BY <1>2, <1>7 DEF AgBefore, AgPeriods
<1>22. ASSUME NEW a \in agrow'
       PROVE  \E b \in agrow :
                 /\ CooldownPeriod + AgQ - a \in Int /\ CooldownPeriod + AgQ - b \in Int
                 /\ CooldownPeriod + 2 * AgQ - a \in Int /\ CooldownPeriod + 2 * AgQ - b \in Int
                 /\ (CooldownPeriod + AgQ - b) - 1 <= CooldownPeriod + AgQ - a
                 /\ (CooldownPeriod + 2 * AgQ - b) - 1 <= CooldownPeriod + 2 * AgQ - a
  <2>1. PICK b \in agrow : a = Later(b, AgMax)
    BY <1>6
  <2>2. a \in Nat /\ b \in Nat /\ a <= b + 1
    BY <1>6, <2>1
  <2> QED
    BY <1>21, <2>2
<1>23. agmode.traffic # "none" => agrow # {} /\ agrow' # {}
  BY <1>1, <1>6
<1>24. RxAges'
  <2> SUFFICES ASSUME agmode.traffic = "rx" PROVE RxAges'
    BY <1>7 DEF RxAges
  <2>1. CASE \A a \in agrow : Due("use", UseReported, CooldownPeriod + AgQ - a)
    <3>1. \A a \in agrow' : Due("use", UseReported, CooldownPeriod + AgQ - a)'
      BY <1>11, <1>18, <1>22, <2>1
    <3> QED
      BY <1>23, <3>1 DEF RxAges
  <2>2. CASE Due("use", UseReported, AgQ + 1 - agmode.since)
    <3>1. Due("use", UseReported, AgQ + 1 - agmode.since)'
      BY <1>11, <1>18, <1>21, <2>2
    <3> QED
      BY <1>23, <3>1 DEF RxAges
  <2> QED
    BY <1>23, <2>1, <2>2 DEF AgInv, RxAges
<1>25. TxAges'
  <2> SUFFICES ASSUME agmode.traffic = "tx" PROVE TxAges'
    BY <1>7 DEF TxAges
  <2>1. CASE \A a \in agrow : Due("probe", ProbeReported, CooldownPeriod + AgQ - a)
    <3>1. \A a \in agrow' : Due("probe", ProbeReported, CooldownPeriod + AgQ - a)'
      BY <1>2, <1>11, <1>19, <1>22, <2>1
    <3> QED
      BY <1>23, <3>1 DEF TxAges
  <2>2. CASE AgFresh /\ \A a \in agrow : Due("use", UseReported, CooldownPeriod + 2 * AgQ - a)
    <3>1. \A a \in agrow' : Due("use", UseReported, CooldownPeriod + 2 * AgQ - a)'
      BY <1>11, <1>18, <1>22, <2>2
    <3> QED
      BY <1>20, <1>23, <2>2, <3>1 DEF TxAges
  <2>3. CASE Due("probe", ProbeReported, AgQ + 1 - agmode.since)
    <3>1. Due("probe", ProbeReported, AgQ + 1 - agmode.since)'
      BY <1>2, <1>11, <1>19, <1>21, <2>3
    <3> QED
      BY <1>23, <3>1 DEF TxAges
  <2>4. CASE AgFresh /\ Due("use", UseReported, 2 * AgQ + 1 - agmode.since)
    <3>1. Due("use", UseReported, 2 * AgQ + 1 - agmode.since)'
      BY <1>11, <1>18, <1>21, <2>4
    <3> QED
      BY <1>20, <1>23, <2>4, <3>1 DEF TxAges
  <2> QED
    BY <1>23, <2>1, <2>2, <2>3, <2>4 DEF AgInv, TxAges
<1>26. IdleAges'
  <2> SUFFICES ASSUME agmode.traffic = "none" PROVE IdleAges'
    BY <1>7 DEF IdleAges
  <2>1. agmode'.since <= agidle'.rx \/ agidle'.rx > AgMax
    BY <1>2, <1>6, <1>7, <1>8 DEF AgInv, IdleAges, AgBefore
  <2>2. ASSUME NEW i \in agnode["use"].list, i < AgValue PROVE agmode'.since <= i + agbusy'
    <3>1. agnode["use"] \in StatsNode
      BY <1>2 DEF AgBefore
    <3>2. i \in Nat
      BY <3>1 DEF StatsNode
    <3>3. agmode.since <= i + agbusy /\ agbusy \in Nat
      BY <1>2, <2>2 DEF AgInv, IdleAges, AgBefore, AgPeriods
    <3>4. agbusy' = agbusy + 1
      BY <1>2, <1>9, <2>2 DEF listed
    <3> QED
      BY <1>7, <1>21, <3>2, <3>3, <3>4
  <2>3. ASSUME find_threshold_for_ip(agcfg) # 0, NEW a \in agrow'
        PROVE  agmode'.since <= AgValue + MaxAgBusy + a
    <3>1. PICK b \in agrow : a = Later(b, AgMax)
      BY <1>6
    <3>2. a = b + 1 /\ b \in Nat /\ agmode.since <= AgValue + MaxAgBusy + b
      BY <1>6, <1>14, <2>3, <3>1 DEF AgInv, IdleAges
    <3> QED
      BY <1>7, <1>17, <1>21, <3>2 DEF AgPeriods
  <2> QED
    BY <1>5, <1>11, <2>1, <2>2, <2>3 DEF IdleAges
<1> QED
  BY <1>10, <1>13, <1>15, <1>24, <1>25, <1>26 DEF AgInv

\* Every step keeps the invariant.
LEMMA AgStep == AgInv /\ [MacAgingNext]_agVars => AgInv'
<1> SUFFICES ASSUME AgInv, [MacAgingNext]_agVars PROVE AgInv'
  OBVIOUS
<1>1. CASE UNCHANGED agVars
  <2>1. UNCHANGED <<agkind, agcfg, agrow, agidle, agmode, agnode, agwake, agbusy>>
    BY <1>1 DEF agVars
  <2>2. /\ AgShape' /\ TrafficSeen'
    BY <2>1, Zenon DEF AgInv, AgShape, TrafficSeen
  <2>3. UseReported' = UseReported /\ ProbeReported' = ProbeReported
    BY <2>1, AgSame DEF UseReported, ProbeReported
  <2>4. RequestsTimed' /\ IdleAges'
    BY <2>1, AgSame DEF AgInv, RequestsTimed, IdleAges
  <2>5. AgFresh => AgFresh'
    BY <2>1, <2>3, AgSame DEF AgFresh, Due
  <2>6. AgBefore
    BY AgBeforeHolds DEF AgInv
  <2>7. RxAges' /\ TxAges'
    BY <2>1, <2>3, <2>5, <2>6, AgKept DEF AgInv, Due
  <2> QED
    BY <2>2, <2>4, <2>7 DEF AgInv
<1> QED
  BY <1>1, AgSend, AgReply, AgRun, AgNorthd, AgLearn, AgTicks DEF MacAgingNext

\* The invariant implies the property.
LEMMA AgSafe == AgInv => AgedByUse
<1> SUFFICES ASSUME AgInv PROVE ActiveKept /\ IdleRemoved
  BY DEF AgedByUse
<1>1. AgBefore
  BY AgBeforeHolds DEF AgInv
<1>2. \A n \in {"use", "probe"}, b \in Int : \A ok : Due(n, ok, b) => 0 <= b
  BY <1>1, DueBounds DEF AgBefore, Due
<1>3. /\ AgQ \in Nat /\ CooldownPeriod \in Nat /\ agmode.since \in Nat
      /\ CooldownPeriod + AgQ <= LongestAge("rx") /\ AgQ + 1 <= LongestAge("rx")
      /\ CooldownPeriod + 2 * AgQ <= LongestAge("tx") /\ 2 * AgQ + 1 <= LongestAge("tx")
      /\ CooldownPeriod + AgQ <= LongestAge("tx") /\ AgQ + 1 <= LongestAge("tx")
      /\ LongestAge("rx") \in Nat /\ LongestAge("tx") \in Nat
  BY <1>1 DEF AgBefore, AgPeriods, LongestAge, AgSlack
<1>4. /\ AgQ + 1 - agmode.since \in Int /\ 2 * AgQ + 1 - agmode.since \in Int
      /\ \A a \in agrow : /\ a \in Nat /\ CooldownPeriod + AgQ - a \in Int
                          /\ CooldownPeriod + 2 * AgQ - a \in Int
  BY <1>1, <1>3 DEF AgBefore
<1>5. ActiveKept
  <2>1. CASE agmode.traffic = "rx"
    <3> SUFFICES ASSUME agmode.since > LongestAge("rx")
                 PROVE  agrow # {} /\ \A a \in agrow : a <= LongestAge("rx")
      BY <2>1 DEF ActiveKept
    <3>1. ~Due("use", UseReported, AgQ + 1 - agmode.since) /\ ~(agmode.since <= AgQ + 1)
      BY <1>2, <1>3, <1>4
    <3>2. agrow # {} /\ \A a \in agrow : Due("use", UseReported, CooldownPeriod + AgQ - a)
      BY <2>1, <3>1 DEF AgInv, RxAges
    <3>3. \A a \in agrow : 0 <= CooldownPeriod + AgQ - a
      BY <1>2, <1>4, <3>2
    <3> QED
      BY <1>3, <1>4, <3>2, <3>3
  <2>2. CASE agmode.traffic = "tx"
    <3> SUFFICES ASSUME agmode.since > LongestAge("tx")
                 PROVE  agrow # {} /\ \A a \in agrow : a <= LongestAge("tx")
      BY <2>2 DEF ActiveKept
    <3>1. /\ ~Due("probe", ProbeReported, AgQ + 1 - agmode.since)
          /\ ~Due("use", UseReported, 2 * AgQ + 1 - agmode.since)
          /\ ~(agmode.since <= 2 * AgQ + 1)
      BY <1>2, <1>3, <1>4
    <3>2. agrow # {} /\ \A a \in agrow : \/ Due("probe", ProbeReported, CooldownPeriod + AgQ - a)
                                         \/ Due("use", UseReported, CooldownPeriod + 2 * AgQ - a)
      BY <2>2, <3>1 DEF AgInv, TxAges
    <3>3. \A a \in agrow : 0 <= CooldownPeriod + AgQ - a \/ 0 <= CooldownPeriod + 2 * AgQ - a
      BY <1>2, <1>4, <3>2
    <3> QED
      BY <1>3, <1>4, <3>2, <3>3
  <2> QED
    BY <2>1, <2>2 DEF ActiveKept, AgInv, AgShape
<1>6. IdleRemoved
  <2> SUFFICES ASSUME agmode.traffic = "none", find_threshold_for_ip(agcfg) # 0,
                      agmode.since >= AgValue + find_threshold_for_ip(agcfg) + AgSlack,
                      NEW a \in agrow
               PROVE  FALSE
    BY DEF IdleRemoved
  <2>1. agmode.since <= AgValue + MaxAgBusy + a /\ a <= find_threshold_for_ip(agcfg)
    BY DEF AgInv, IdleAges, TrafficSeen
  <2> QED
    BY <1>1, <1>4, <2>1 DEF AgBefore, AgPeriods, AgSlack
<1> QED
  BY <1>5, <1>6

\* mac-cache.c, statctrl.c and northd/aging.c: a row in use is refreshed before
\* it is as old as any threshold allows, and a row that nobody uses is deleted,
\* for all thresholds and delays that the assumptions allow.
THEOREM RowsAgeByUse == MacAgingSpec => []AgedByUse
  BY AgInitially, AgStep, AgSafe, PTL DEF MacAgingSpec

\* The same of ovn-controller with its other components beside the MAC cache.
THEOREM AgingTheorem == MCSpec => []AgingRight
<1> DEFINE I == part = "aging" => AgInv
<1>1. MCInit => I
  BY AgInitially DEF MCInit, AgingIs
<1>2. I /\ [MCNext]_vars => I'
  <2> SUFFICES ASSUME I, [MCNext]_vars, part' = "aging" PROVE AgInv'
    OBVIOUS
  <2>1. part = "aging" /\ [MacAgingNext]_agVars
    BY DEF MCNext, Alone, vars
  <2> QED
    BY <2>1, AgStep
<1>3. I => AgingRight
  BY AgSafe DEF AgingRight
<1> QED
  BY <1>1, <1>2, <1>3, PTL DEF MCSpec

-----------------------------------------------------------------------------
(***************************************************************************)
(* pinctrl.c: requests to bind a virtual port.                             *)
(***************************************************************************)

\* The fields of the records that pinctrl keeps.
IsCount(x) == x = [packets |-> x.packets, fails |-> x.fails, rows |-> x.rows, asked |-> x.asked]
IsLoop(x) == x = [ops |-> x.ops, flying |-> x.flying, cur |-> x.cur]
                /\ x.flying \in BOOLEAN /\ x.cur \in Nat
IsQueue(x) == x = [mb |-> x.mb, fdb |-> x.fdb, vport |-> x.vport, buffered |-> x.buffered,
                   ready |-> x.ready]
                 /\ \A v \in x.vport : v.cfg \in Int

PqShape ==
    /\ IsCount(pqcount)
    /\ pqtxn = [c \in PqChassis |-> pqtxn[c]] /\ \A c \in PqChassis : IsLoop(pqtxn[c])
    /\ pqq = [c \in PqChassis |-> pqq[c]] /\ \A c \in PqChassis : IsQueue(pqq[c])
    /\ pqcount.asked \subseteq PqChassis

\* A request that was carried out waits for the outcome of a transaction with
\* the claim in it, or for another attempt: next_cfg has not passed its cfg.
Queued(c) ==
    /\ pqq[c].vport # {}
    /\ \A v \in pqq[c].vport : v.cfg >= 0 =>
          /\ pqtxn[c].cur <= v.cfg
          /\ pqtxn[c].flying => \E o \in pqtxn[c].ops : o.table = "vport"

QueuedInv == \A c \in pqcount.asked : Queued(c)

PqInv == PqShape /\ QueuedInv

\* Nothing is queued at first.
LEMMA PqInitially == PinctrlQueuesInit => PqInv
<1> SUFFICES ASSUME PinctrlQueuesInit PROVE PqInv
  OBVIOUS
<1>1. IsLoop(EmptyLoop) /\ IsQueue(EmptyQueue)
  BY DEF IsLoop, IsQueue, EmptyLoop, EmptyQueue
<1>2. /\ pqtxn = [c \in PqChassis |-> EmptyLoop] /\ pqq = [c \in PqChassis |-> EmptyQueue]
      /\ pqcount = [packets |-> 0, fails |-> 0, rows |-> 0, asked |-> {}]
  BY DEF PinctrlQueuesInit
<1>3. IsCount(pqcount) /\ pqcount.asked = {}
  BY <1>2 DEF IsCount
<1> QED
  BY <1>1, <1>2, <1>3 DEF PqInv, PqShape, QueuedInv

\* A step that leaves the bindings, the transaction and the requests of every
\* chassis alone.
LEMMA PqAside ==
    ASSUME PqInv, PqShape', UNCHANGED pqtxn, pqcount'.asked = pqcount.asked,
           \A c \in PqChassis : pqq'[c].vport = pqq[c].vport
    PROVE  PqInv'
  BY DEF PqInv, PqShape, QueuedInv, Queued

\* The steps that leave requests of virtual ports alone.
LEMMA PqHandlers ==
    ASSUME PqInv, NEW c \in PqChassis,
           \/ \E m \in PqMacs, b \in BOOLEAN : pinctrl_handle_put_mac_binding(c, m, b)
           \/ \E p \in {"vif", "localnet"} : pinctrl_handle_put_fdb(c, p)
           \/ pinctrl_handle_buffered_packets(c) \/ PqDelayOver(c)
           \/ send_mac_binding_buffered_pkts(c) \/ Expire(c)
    PROVE  PqInv'
<1>1. /\ UNCHANGED pqtxn
      /\ \/ UNCHANGED pqcount
         \/ pqcount' = [pqcount EXCEPT !.packets = @ + 1]
  BY DEF pinctrl_handle_put_mac_binding, pinctrl_handle_put_fdb, pinctrl_handle_buffered_packets,
         PqDelayOver, send_mac_binding_buffered_pkts, Expire, PqPacket, CountPacket
<1>2. \/ \E S : pqq' = [pqq EXCEPT ![c].mb = S]
      \/ \E S : pqq' = [pqq EXCEPT ![c].fdb = S]
      \/ \E S : pqq' = [pqq EXCEPT ![c].buffered = S]
      \/ \E S : pqq' = [pqq EXCEPT ![c].ready = S]
  BY Zenon DEF pinctrl_handle_put_mac_binding, pinctrl_handle_put_fdb, pinctrl_handle_buffered_packets,
         PqDelayOver, send_mac_binding_buffered_pkts, Expire
<1>3. pqcount'.asked = pqcount.asked /\ IsCount(pqcount')
  BY <1>1 DEF PqInv, PqShape, IsCount
<1>4. /\ pqq' = [d \in PqChassis |-> pqq'[d]]
      /\ \A d \in PqChassis : IsQueue(pqq'[d]) /\ pqq'[d].vport = pqq[d].vport
  BY <1>2 DEF PqInv, PqShape, IsQueue
<1>5. PqShape'
  BY <1>1, <1>3, <1>4 DEF PqInv, PqShape
<1> QED
  BY <1>1, <1>3, <1>4, <1>5, PqAside

\* A handler that queues the request of a virtual port.
LEMMA PqBind ==
    ASSUME PqInv, NEW c \in PqChassis, pinctrl_handle_bind_vport(c)
    PROVE  PqInv'
<1>1. /\ pqcount' = [pqcount EXCEPT !.packets = @ + 1, !.asked = @ \cup {c}]
      /\ pqq' = [pqq EXCEPT ![c].vport = {[cfg |-> -1]}]
      /\ UNCHANGED pqtxn
  BY DEF pinctrl_handle_bind_vport, PqPacket
<1>2. IsCount(pqcount') /\ pqcount'.asked = pqcount.asked \cup {c}
  BY <1>1 DEF PqInv, PqShape, IsCount
<1>3. /\ pqq' = [d \in PqChassis |-> pqq'[d]]
      /\ \A d \in PqChassis : IsQueue(pqq'[d])
      /\ pqq'[c].vport = {[cfg |-> -1]}
      /\ \A d \in PqChassis \ {c} : pqq'[d] = pqq[d]
  <2>1. \A d \in PqChassis \ {c} : pqq'[d] = pqq[d]
    BY <1>1 DEF PqInv, PqShape
  <2>2. pqq'[c] = [pqq[c] EXCEPT !.vport = {[cfg |-> -1]}] /\ pqq' = [d \in PqChassis |-> pqq'[d]]
    BY <1>1 DEF PqInv, PqShape
  <2>3. IsQueue(pqq'[c]) /\ pqq'[c].vport = {[cfg |-> -1]}
    <3> DEFINE S == {[cfg |-> -1]}
    <3>1. \A v \in S : v.cfg \in Int
      OBVIOUS
    <3>2. pqq'[c] = [pqq[c] EXCEPT !.vport = S] /\ IsQueue(pqq[c])
      BY <2>2 DEF PqInv, PqShape
    <3> HIDE DEF S
    <3>3. IsQueue(pqq'[c]) /\ pqq'[c].vport = S
      BY <3>1, <3>2 DEF IsQueue
    <3> QED
      BY <3>3 DEF S
  <2> QED
    BY <2>1, <2>2, <2>3 DEF PqInv, PqShape
<1>4. PqShape'
  BY <1>1, <1>2, <1>3 DEF PqInv, PqShape
<1>5. QueuedInv'
  <2>1. Queued(c)'
    <3>1. [cfg |-> -1] \in pqq'[c].vport /\ \A v \in pqq'[c].vport : v.cfg = -1
      BY <1>3
    <3> QED
      BY <3>1 DEF Queued
  <2>2. \A d \in pqcount.asked \ {c} : Queued(d)'
    BY <1>1, <1>3 DEF PqInv, PqShape, QueuedInv, Queued
  <2> QED
    BY <1>2, <2>1, <2>2 DEF QueuedInv
<1> QED
  BY <1>4, <1>5 DEF PqInv

\* pinctrl_run(): what is queued is written to the transaction.
LEMMA PqRun ==
    ASSUME PqInv, NEW c \in PqChassis, pinctrl_run(c)
    PROVE  PqInv'
<1> DEFINE q   == run_put_fdbs(c, run_put_vport_bindings(c, run_put_mac_bindings(c, pqq[c])))
           ops == MbOps(c) \cup FdbOps(c) \cup VportOps(c)
           mine == \A r \in pqidl[c].vport : r.chassis = c
<1>1. /\ pqq' = [pqq EXCEPT ![c] = run_buffered_binding(c, IF pqtxn[c].flying THEN @ ELSE q)]
      /\ pqtxn' = IF pqtxn[c].flying THEN pqtxn
                  ELSE IF ops = {} THEN [pqtxn EXCEPT ![c].cur = IF q = pqq[c] THEN @ ELSE @ + 1]
                  ELSE [pqtxn EXCEPT ![c].ops = ops, ![c].flying = TRUE]
      /\ pqcount' = [pqcount EXCEPT !.asked = IF ~pqtxn[c].flying /\ mine THEN @ \ {c} ELSE @]
  BY Zenon DEF pinctrl_run
<1>2. /\ IsQueue(q)
      /\ q.vport = {[cfg |-> pqtxn[c].cur] :
                        v \in {x \in pqq[c].vport : ~pinctrl_is_sb_commited(x, pqtxn[c].cur)}}
  <2>1. IsLoop(pqtxn[c]) /\ IsQueue(pqq[c])
    BY DEF PqInv, PqShape
  <2>2. IsQueue(run_put_mac_bindings(c, pqq[c])) /\ run_put_mac_bindings(c, pqq[c]).vport = pqq[c].vport
    <3> DEFINE S == {b \in pqq[c].mb : ~b.due}
    <3>1. run_put_mac_bindings(c, pqq[c]) = [pqq[c] EXCEPT !.mb = S]
      BY DEF run_put_mac_bindings
    <3> HIDE DEF S
    <3> QED
      BY <2>1, <3>1 DEF IsQueue
  <2> DEFINE q1 == run_put_mac_bindings(c, pqq[c])
  <2> HIDE DEF q1
  <2>3. /\ IsQueue(run_put_vport_bindings(c, q1))
        /\ run_put_vport_bindings(c, q1).vport =
              {[cfg |-> pqtxn[c].cur] :
                   v \in {x \in q1.vport : ~pinctrl_is_sb_commited(x, pqtxn[c].cur)}}
    <3> DEFINE S == {[cfg |-> pqtxn[c].cur] :
                         v \in {x \in q1.vport : ~pinctrl_is_sb_commited(x, pqtxn[c].cur)}}
    <3>1. run_put_vport_bindings(c, q1) = [q1 EXCEPT !.vport = S]
      BY DEF run_put_vport_bindings
    <3>2. \A v \in S : v.cfg \in Int
      BY <2>1 DEF IsLoop
    <3> HIDE DEF S
    <3>3. IsQueue(run_put_vport_bindings(c, q1)) /\ run_put_vport_bindings(c, q1).vport = S
      BY <2>2, <3>1, <3>2 DEF IsQueue, q1
    <3> QED
      BY <3>3 DEF S
  <2> DEFINE q2 == run_put_vport_bindings(c, q1)
  <2> HIDE DEF q2
  <2>4. run_put_fdbs(c, q2) = [q2 EXCEPT !.fdb = {}] /\ q = run_put_fdbs(c, q2)
    BY DEF run_put_fdbs, q2, q1
  <2>5. IsQueue(q2) /\ q2.vport = {[cfg |-> pqtxn[c].cur] :
                        v \in {x \in pqq[c].vport : ~pinctrl_is_sb_commited(x, pqtxn[c].cur)}}
    BY <2>2, <2>3 DEF q1, q2
  <2>6. IsQueue(q) /\ q.vport = q2.vport
    <3> HIDE DEF q
    <3> QED
      BY <2>4, <2>5 DEF IsQueue
  <2> QED
    BY <2>5, <2>6
<1> HIDE DEF q
<1>3. \A x : IsQueue(x) => IsQueue(run_buffered_binding(c, x)) /\ run_buffered_binding(c, x).vport = x.vport
  BY DEF IsQueue, run_buffered_binding
<1>4. /\ pqq' = [d \in PqChassis |-> pqq'[d]]
      /\ \A d \in PqChassis : IsQueue(pqq'[d])
      /\ \A d \in PqChassis \ {c} : pqq'[d] = pqq[d]
      /\ pqq'[c].vport = IF pqtxn[c].flying THEN pqq[c].vport ELSE q.vport
  BY <1>1, <1>2, <1>3 DEF PqInv, PqShape
<1>5. VportOps(c) = {} => mine \/ \A v \in pqq[c].vport : pinctrl_is_sb_commited(v, pqtxn[c].cur)
  <2> SUFFICES ASSUME VportOps(c) = {}, ~mine,
                      NEW v \in pqq[c].vport, ~pinctrl_is_sb_commited(v, pqtxn[c].cur)
               PROVE  FALSE
    OBVIOUS
  <2>1. PICK r \in pqidl[c].vport : r.chassis # c
    OBVIOUS
  <2>2. [table |-> "vport", row |-> 1, value |-> IF r.backoff = 0 THEN c ELSE "postponed"] \in VportOps(c)
    BY <2>1, Zenon DEF VportOps
  <2> QED
    BY <2>2
<1>6. \A o \in VportOps(c) : o.table = "vport"
  BY DEF VportOps
<1> HIDE DEF mine
<1>7. IsCount(pqcount') /\ pqcount'.asked = IF ~pqtxn[c].flying /\ mine THEN pqcount.asked \ {c} ELSE pqcount.asked
  BY <1>1 DEF PqInv, PqShape, IsCount
<1>8. /\ pqtxn' = [d \in PqChassis |-> pqtxn'[d]]
      /\ \A d \in PqChassis : IsLoop(pqtxn'[d])
      /\ \A d \in PqChassis \ {c} : pqtxn'[d] = pqtxn[d]
  <2> HIDE DEF ops
  <2>1. /\ pqtxn' = [d \in PqChassis |-> pqtxn'[d]]
        /\ \A d \in PqChassis \ {c} : pqtxn'[d] = pqtxn[d]
        /\ \/ pqtxn'[c] = pqtxn[c]
           \/ pqtxn'[c] = [pqtxn[c] EXCEPT !.cur = @ + 1]
           \/ pqtxn'[c] = [pqtxn[c] EXCEPT !.ops = ops, !.flying = TRUE]
    <3>1. \/ pqtxn' = pqtxn
          \/ pqtxn' = [pqtxn EXCEPT ![c].cur = @]
          \/ pqtxn' = [pqtxn EXCEPT ![c].cur = @ + 1]
          \/ pqtxn' = [pqtxn EXCEPT ![c].ops = ops, ![c].flying = TRUE]
      BY <1>1
    <3>2. IsLoop(pqtxn[c]) /\ pqtxn = [d \in PqChassis |-> pqtxn[d]]
      BY DEF PqInv, PqShape
    <3> QED
      BY <3>1, <3>2 DEF IsLoop
  <2>2. IsLoop(pqtxn[c])
    BY DEF PqInv, PqShape
  <2>3. IsLoop(pqtxn'[c])
    <3>1. CASE pqtxn'[c] = pqtxn[c]
      BY <2>2, <3>1
    <3>2. CASE pqtxn'[c] = [pqtxn[c] EXCEPT !.cur = @ + 1]
      BY <2>2, <3>2 DEF IsLoop
    <3>3. CASE pqtxn'[c] = [pqtxn[c] EXCEPT !.ops = ops, !.flying = TRUE]
      BY <2>2, <3>3 DEF IsLoop
    <3> QED
      BY <2>1, <3>1, <3>2, <3>3
  <2> QED
    BY <2>1, <2>3 DEF PqInv, PqShape
<1>9. PqShape'
  BY <1>4, <1>7, <1>8 DEF PqInv, PqShape
<1>10. ASSUME c \in pqcount'.asked PROVE Queued(c)'
  <2>1. c \in pqcount.asked /\ Queued(c) /\ IsLoop(pqtxn[c]) /\ IsQueue(pqq[c])
    BY <1>7, <1>10 DEF PqInv, PqShape, QueuedInv
  <2>2. CASE pqtxn[c].flying
    BY <1>1, <1>4, <2>1, <2>2 DEF Queued
  <2>3. CASE ~pqtxn[c].flying
    <3>1. ~mine
      BY <1>7, <1>10, <2>3
    <3>2. \A v \in pqq[c].vport : ~pinctrl_is_sb_commited(v, pqtxn[c].cur)
      BY <2>1 DEF Queued, pinctrl_is_sb_commited, IsLoop, IsQueue
    <3>3. VportOps(c) # {}
      BY <1>5, <2>1, <3>1, <3>2 DEF Queued
    <3>4. pqtxn' = [pqtxn EXCEPT ![c].ops = ops, ![c].flying = TRUE]
      BY <1>1, <2>3, <3>3
    <3>5. pqtxn'[c].cur = pqtxn[c].cur /\ pqtxn'[c].ops = ops
      BY <3>4 DEF PqInv, PqShape, IsLoop
    <3>6. pqq'[c].vport = {[cfg |-> pqtxn[c].cur] : v \in pqq[c].vport}
      BY <1>2, <1>4, <2>3, <3>2
    <3> QED
      <4>1. PICK o \in VportOps(c) : TRUE
        BY <3>3
      <4>2. \E o2 \in pqtxn'[c].ops : o2.table = "vport"
        BY <1>6, <3>5, <4>1
      <4>3. pqq'[c].vport # {} /\ \A v \in pqq'[c].vport : v.cfg = pqtxn[c].cur
        <5>1. PICK v \in pqq[c].vport : TRUE
          BY <2>1 DEF Queued
        <5>2. [cfg |-> pqtxn[c].cur] \in pqq'[c].vport
          BY <3>6, <5>1, Zenon
        <5>3. \A w \in pqq'[c].vport : w = [cfg |-> pqtxn[c].cur]
          BY <3>6, Zenon
        <5> QED
          BY <5>2, <5>3
      <4> QED
        BY <2>1, <3>5, <4>2, <4>3 DEF Queued, IsLoop
  <2> QED
    BY <2>2, <2>3
<1>11. QueuedInv'
  BY <1>4, <1>7, <1>8, <1>9, <1>10 DEF PqInv, PqShape, QueuedInv, Queued
<1> QED
  BY <1>9, <1>11 DEF PqInv

\* The transaction is committed, or fails.
LEMMA PqAnswer ==
    ASSUME PqInv, NEW c \in PqChassis, PqCommit(c) \/ PqFail(c)
    PROVE  PqInv'
<1>1. CASE PqCommit(c)
  <2>1. /\ pqtxn[c].flying
        /\ pqtxn' = [pqtxn EXCEPT ![c] = [ops |-> {}, flying |-> FALSE, cur |-> @.cur + 1]]
        /\ pqcount' = [pqcount EXCEPT !.rows = @ + Cardinality({o \in pqtxn[c].ops : o.row = 0}),
                !.asked = IF \E o \in pqtxn[c].ops : o.table = "vport" THEN @ \ {c} ELSE @]
        /\ UNCHANGED pqq
    BY <1>1, Zenon DEF PqCommit
  <2>2. IsCount(pqcount') /\ pqcount'.asked =
            IF \E o \in pqtxn[c].ops : o.table = "vport" THEN pqcount.asked \ {c} ELSE pqcount.asked
    BY <2>1 DEF PqInv, PqShape, IsCount
  <2>3. /\ pqtxn' = [d \in PqChassis |-> pqtxn'[d]]
        /\ \A d \in PqChassis : IsLoop(pqtxn'[d])
        /\ \A d \in PqChassis \ {c} : pqtxn'[d] = pqtxn[d]
    <3>1. IsLoop(pqtxn[c]) /\ pqtxn = [d \in PqChassis |-> pqtxn[d]]
      BY DEF PqInv, PqShape
    <3>2. pqtxn'[c] = [ops |-> {}, flying |-> FALSE, cur |-> pqtxn[c].cur + 1]
      BY <2>1, <3>1
    <3>3. IsLoop(pqtxn'[c])
      BY <3>1, <3>2 DEF IsLoop
    <3>4. \A d \in PqChassis \ {c} : pqtxn'[d] = pqtxn[d]
      BY <2>1, <3>1
    <3> QED
      BY <2>1, <3>1, <3>3, <3>4 DEF PqInv, PqShape
  <2>4. PqShape'
    <3>1. pqcount'.asked \subseteq PqChassis
      BY <2>2 DEF PqInv, PqShape
    <3>2. pqq' = [d \in PqChassis |-> pqq'[d]] /\ \A d \in PqChassis : IsQueue(pqq'[d])
      BY <2>1 DEF PqInv, PqShape
    <3> QED
      BY <2>2, <2>3, <3>1, <3>2 DEF PqShape
  <2>5. c \in pqcount'.asked => Queued(c)'
    <3>1. SUFFICES ASSUME c \in pqcount'.asked PROVE Queued(c)'
      OBVIOUS
    <3>2. c \in pqcount.asked /\ ~ \E o \in pqtxn[c].ops : o.table = "vport"
      BY <2>2, <3>1
    <3>3. pqq[c].vport # {} /\ \A v \in pqq[c].vport : ~(v.cfg >= 0)
      BY <2>1, <3>2 DEF PqInv, QueuedInv, Queued
    <3>4. pqq' = pqq
      BY <2>1
    <3> QED
      BY <3>3, <3>4 DEF Queued
  <2>6. QueuedInv'
    <3>1. \A d \in pqcount.asked \ {c} : Queued(d)'
      BY <2>1, <2>3 DEF PqInv, PqShape, QueuedInv, Queued
    <3> QED
      BY <2>2, <2>5, <3>1 DEF QueuedInv
  <2> QED
    BY <2>4, <2>6 DEF PqInv
<1>2. CASE PqFail(c)
  <2>1. /\ pqtxn' = [pqtxn EXCEPT ![c].ops = {}, ![c].flying = FALSE]
        /\ UNCHANGED pqq
        /\ UNCHANGED pqcount \/ pqcount' = [pqcount EXCEPT !.fails = @ + 1]
    BY <1>2, Zenon DEF PqFail
  <2>2. IsCount(pqcount') /\ pqcount'.asked = pqcount.asked
    BY <2>1 DEF PqInv, PqShape, IsCount
  <2>3. /\ pqtxn' = [d \in PqChassis |-> pqtxn'[d]]
        /\ \A d \in PqChassis : IsLoop(pqtxn'[d])
        /\ \A d \in PqChassis \ {c} : pqtxn'[d] = pqtxn[d]
        /\ pqtxn'[c].cur = pqtxn[c].cur /\ ~pqtxn'[c].flying
    <3>1. IsLoop(pqtxn[c]) /\ pqtxn = [d \in PqChassis |-> pqtxn[d]]
      BY DEF PqInv, PqShape
    <3>2. pqtxn'[c] = [pqtxn[c] EXCEPT !.ops = {}, !.flying = FALSE]
      BY <2>1, <3>1
    <3>3. IsLoop(pqtxn'[c]) /\ pqtxn'[c].cur = pqtxn[c].cur /\ ~pqtxn'[c].flying
      BY <3>1, <3>2 DEF IsLoop
    <3>4. \A d \in PqChassis \ {c} : pqtxn'[d] = pqtxn[d]
      BY <2>1, <3>1
    <3> QED
      BY <2>1, <3>1, <3>3, <3>4 DEF PqInv, PqShape
  <2>4. PqShape'
    BY <2>1, <2>2, <2>3 DEF PqInv, PqShape
  <2>5. QueuedInv'
    BY <2>1, <2>2, <2>3 DEF PqInv, PqShape, QueuedInv, Queued
  <2> QED
    BY <2>4, <2>5 DEF PqInv
<1> QED
  BY <1>1, <1>2

\* Every step keeps the invariant.
LEMMA PqStep == PqInv /\ [PinctrlQueuesNext]_pqVars => PqInv'
<1> SUFFICES ASSUME PqInv, [PinctrlQueuesNext]_pqVars PROVE PqInv'
  OBVIOUS
<1>1. CASE \E c \in PqChassis : PqUpdate(c)
  <2>1. UNCHANGED <<pqtxn, pqq, pqcount>>
    BY <1>1 DEF PqUpdate
  <2> QED
    BY <2>1 DEF PqInv, PqShape, QueuedInv, Queued
<1>2. CASE PqAge
  <2>1. UNCHANGED <<pqtxn, pqq>> /\ pqcount' = [pqcount EXCEPT !.fails = @ + 1]
    BY <1>2 DEF PqAge
  <2>2. IsCount(pqcount') /\ pqcount'.asked = pqcount.asked
    BY <2>1 DEF PqInv, PqShape, IsCount
  <2> QED
    BY <2>1, <2>2 DEF PqInv, PqShape, QueuedInv, Queued
<1>3. CASE UNCHANGED pqVars
  BY <1>3 DEF pqVars, PqInv, PqShape, QueuedInv, Queued
<1> QED
  BY <1>1, <1>2, <1>3, PqHandlers, PqBind, PqRun, PqAnswer DEF PinctrlQueuesNext

\* The invariant implies the property.
LEMMA PqSafe == PqInv => VportNotForgotten
  BY DEF PqInv, QueuedInv, Queued, VportNotForgotten

\* pinctrl.c: a request to bind a virtual port stays queued until a committed
\* transaction carried it out or the port was found claimed by the chassis, for
\* any number of chassis, packets and failed transactions.
THEOREM VportRequestsKept == PinctrlQueuesSpec => []VportNotForgotten
<1>1. PinctrlQueuesInit => PqInv
  BY PqInitially
<1>2. PqInv /\ [PinctrlQueuesNext]_pqVars => PqInv'
  BY PqStep
<1> QED
  BY <1>1, <1>2, PqSafe, PTL DEF PinctrlQueuesSpec

\* The same of ovn-controller with its other components beside pinctrl.
THEOREM QueuesTheorem == MCSpec => []QueuesRight
<1> DEFINE I == part = "queues" => PqInv
<1>1. MCInit => I
  BY PqInitially DEF MCInit, QueuesIs
<1>2. I /\ [MCNext]_vars => I'
  <2> SUFFICES ASSUME I, [MCNext]_vars, part' = "queues" PROVE PqInv'
    OBVIOUS
  <2>1. part = "queues" /\ [PinctrlQueuesNext]_pqVars
    BY DEF MCNext, Alone, vars
  <2> QED
    BY <2>1, PqStep
<1>3. I => QueuesRight
  BY PqSafe DEF QueuesRight
<1> QED
  BY <1>1, <1>2, <1>3, PTL DEF MCSpec

=============================================================================
