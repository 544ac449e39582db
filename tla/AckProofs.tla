--------------------------- MODULE AckProofs ---------------------------
(***************************************************************************)
(* The promise of the sequence numbers: as long as the OpenFlow connection *)
(* stays up and the switch refuses nothing, an application is told of its  *)
(* request only when the contents the request was made for have reached    *)
(* the switch.                                                             *)
(***************************************************************************)
EXTENDS FlowTablesProofs

-----------------------------------------------------------------------------
(* The flow updates. *)

FlowUpdate == [xid : Nat, req_cfg : Nat]

\* No update is for a later configuration: TrackUpdate() keeps them all, and the
\* last one waits for the new barrier.
LEMMA TrackUpdateLast ==
    ASSUME flow_updates \in Seq(FlowUpdate), NEW req \in Nat, NEW id \in Nat,
           \A u \in Msgs(flow_updates) : u.req_cfg <= req
    PROVE  LET fu == TrackUpdate(req, id)
               new == [xid |-> id, req_cfg |-> req]
           IN  /\ fu \in Seq(FlowUpdate) /\ fu # <<>> /\ fu[Len(fu)] = new
               /\ Msgs(fu) \subseteq Msgs(flow_updates) \cup {new}
<1> DEFINE I == {i \in 1 .. Len(flow_updates) : flow_updates[i].req_cfg <= req}
           kept == SelectLastInSeq(flow_updates, LAMBDA fup : fup.req_cfg <= req)
           older == SubSeq(flow_updates, 1, kept)
           new == [xid |-> id, req_cfg |-> req]
<1>1. I = 1 .. Len(flow_updates)
  BY DEF Msgs
<1>2. kept = IF I # {} THEN Max(I) ELSE 0
  BY DEF SelectLastInSeq
<1>3. kept = Len(flow_updates)
  <2>1. CASE Len(flow_updates) = 0
    BY <1>1, <1>2, <2>1
  <2>2. CASE Len(flow_updates) # 0
    <3>1. Len(flow_updates) \in I /\ \A y \in I : Len(flow_updates) >= y
      BY <1>1, <2>2
    <3>2. Max(I) \in I /\ \A y \in I : Max(I) >= y
      BY <3>1 DEF Max
    <3>3. Max(I) = Len(flow_updates)
      BY <1>1, <3>1, <3>2
    <3> QED
      BY <1>2, <3>1, <3>3
  <2> QED
    BY <2>1, <2>2
<1> HIDE DEF kept
<1>4. older = flow_updates
  BY <1>3
<1>5. new \in FlowUpdate
  BY DEF FlowUpdate
<1>6. CASE flow_updates # <<>> /\ Last(flow_updates).req_cfg = req
  <2> DEFINE n == Len(flow_updates)
             fu == [flow_updates EXCEPT ![n].xid = id]
  <2>1. TrackUpdate(req, id) = fu
    BY <1>3, <1>4, <1>6 DEF TrackUpdate, kept
  <2>2. n \in 1 .. Len(flow_updates) /\ flow_updates[n] \in FlowUpdate /\ flow_updates[n].req_cfg = req
    BY <1>6 DEF Last
  <2>3. fu[n] = new
    BY <2>2 DEF FlowUpdate
  <2>4. fu \in Seq(FlowUpdate) /\ Len(fu) = n /\ \A i \in 1 .. n : i # n => fu[i] = flow_updates[i]
    BY <1>5, <2>2, <2>3
  <2> HIDE DEF fu, new
  <2>5. Msgs(fu) \subseteq Msgs(flow_updates) \cup {new}
    BY <2>3, <2>4 DEF Msgs
  <2> QED
    BY <2>1, <2>2, <2>3, <2>4, <2>5 DEF new
<1>7. CASE ~(flow_updates # <<>> /\ Last(flow_updates).req_cfg = req)
  <2>1. TrackUpdate(req, id) = Append(flow_updates, new)
    BY <1>3, <1>4, <1>7 DEF TrackUpdate, kept
  <2> HIDE DEF new
  <2>2. /\ Append(flow_updates, new) \in Seq(FlowUpdate)
        /\ Msgs(Append(flow_updates, new)) = Msgs(flow_updates) \cup {new}
    BY <1>5, MsgsAppend
  <2>3. Append(flow_updates, new) # <<>>
        /\ Append(flow_updates, new)[Len(Append(flow_updates, new))] = new
    BY <1>5
  <2> QED
    BY <2>1, <2>2, <2>3 DEF new
<1> QED
  BY <1>6, <1>7

-----------------------------------------------------------------------------
(* The requests of the applications. *)

Asked == [seqno_type : Nat, flow_cfg : Nat, req_cfg : Nat]

\* The requests in flight, each with the contents it was made for.
Requests == {<<ofctrl_seqno_updates[k].flow_cfg, needs[k]>> : k \in 1 .. Len(ofctrl_seqno_updates)}

\* A request of the nb_cfg reporter is made only when nothing is hidden from it.
AskedInv ==
    /\ ofctrl_seqno_updates \in Seq(Asked) /\ needs \in Seq([Tables -> Nat])
    /\ Len(needs) = Len(ofctrl_seqno_updates)
    /\ ofctrl_req_seqno \in Nat /\ sb_nb_cfg \in Nat /\ nb_cfg \in Nat /\ if_seqno \in Nat
    /\ type_req_cfg \in [Types -> Nat]
    /\ type_req_cfg[NbType] = nb_cfg /\ type_req_cfg[IfType] = if_seqno
    /\ pc = "start" => nb_cfg = 0 /\ if_seqno = 0
    /\ cond_pending \in BOOLEAN /\ (hidden # {} => cond_pending)
    /\ \A r \in Requests : r[1] <= ofctrl_req_seqno /\ \A t \in Tables : r[2][t] <= input[t]

\* The connection has not been lost.
UpInv ==
    /\ of_connected => conn
    /\ ~conn \/ conn_changed => state = "S_NEW"
    /\ ~conn => pc \notin {"run", "recv"}

LEMMA RequestsTyped ==
    ASSUME AskedInv
    PROVE  \A r \in Requests : r[1] \in Nat /\ r[2] \in [Tables -> Nat]
<1>1. \A k \in 1 .. Len(ofctrl_seqno_updates) :
         ofctrl_seqno_updates[k].flow_cfg \in Nat /\ needs[k] \in [Tables -> Nat]
  <2>1. \A k \in 1 .. Len(ofctrl_seqno_updates) : ofctrl_seqno_updates[k] \in Asked
    BY DEF AskedInv
  <2>2. \A k \in 1 .. Len(ofctrl_seqno_updates) : needs[k] \in [Tables -> Nat]
    BY DEF AskedInv
  <2> QED
    BY <2>1, <2>2 DEF Asked
<1> QED
  BY <1>1 DEF Requests

\* A request is made for the contents at hand.
LEMMA RequestMade ==
    ASSUME LoopType, AskedInv, NEW u \in Asked, NEW n \in [Tables -> Nat],
           u.flow_cfg = ofctrl_req_seqno + 1, \A t \in Tables : n[t] <= input[t],
           ofctrl_seqno_updates' = Append(ofctrl_seqno_updates, u), needs' = Append(needs, n)
    PROVE  /\ ofctrl_seqno_updates' \in Seq(Asked) /\ needs' \in Seq([Tables -> Nat])
           /\ Len(needs') = Len(ofctrl_seqno_updates')
           /\ Requests' \subseteq Requests \cup {<<ofctrl_req_seqno + 1, n>>}
<1>1. /\ ofctrl_seqno_updates' \in Seq(Asked) /\ needs' \in Seq([Tables -> Nat])
      /\ Len(ofctrl_seqno_updates') = Len(ofctrl_seqno_updates) + 1 /\ Len(needs') = Len(needs) + 1
  BY DEF AskedInv
<1>2. \A k \in 1 .. Len(ofctrl_seqno_updates) :
         ofctrl_seqno_updates'[k] = ofctrl_seqno_updates[k] /\ needs'[k] = needs[k]
  BY DEF AskedInv
<1>3. /\ ofctrl_seqno_updates'[Len(ofctrl_seqno_updates) + 1] = u
      /\ needs'[Len(ofctrl_seqno_updates) + 1] = n
  BY DEF AskedInv
<1>4. ASSUME NEW k \in 1 .. Len(ofctrl_seqno_updates')
      PROVE  <<ofctrl_seqno_updates'[k].flow_cfg, needs'[k]>>
                \in Requests \cup {<<ofctrl_req_seqno + 1, n>>}
  <2>1. CASE k \in 1 .. Len(ofctrl_seqno_updates)
    BY <1>2, <2>1 DEF Requests
  <2>2. CASE k = Len(ofctrl_seqno_updates) + 1
    BY <1>3, <2>2
  <2>3. Len(ofctrl_seqno_updates) \in Nat
    BY DEF AskedInv
  <2>4. k \in 1 .. Len(ofctrl_seqno_updates) \/ k = Len(ofctrl_seqno_updates) + 1
    BY <1>1, <2>3
  <2> QED
    BY <2>1, <2>2, <2>4
<1>5. Requests' \subseteq Requests \cup {<<ofctrl_req_seqno + 1, n>>}
  BY <1>4 DEF Requests
<1> QED
  BY <1>1, <1>5 DEF AskedInv

\* The oldest request is taken.
LEMMA RequestTaken ==
    ASSUME AskedInv, ofctrl_seqno_updates # <<>>,
           ofctrl_seqno_updates' = Tail(ofctrl_seqno_updates), needs' = Tail(needs)
    PROVE  /\ ofctrl_seqno_updates' \in Seq(Asked) /\ needs' \in Seq([Tables -> Nat])
           /\ Len(needs') = Len(ofctrl_seqno_updates')
           /\ Requests' \subseteq Requests
<1>1. Len(ofctrl_seqno_updates) \in Nat \ {0} /\ needs # <<>>
  BY DEF AskedInv
<1>2. /\ ofctrl_seqno_updates' \in Seq(Asked) /\ needs' \in Seq([Tables -> Nat])
      /\ Len(ofctrl_seqno_updates') = Len(ofctrl_seqno_updates) - 1 /\ Len(needs') = Len(needs) - 1
  BY <1>1 DEF AskedInv
<1>3. \A k \in 1 .. Len(ofctrl_seqno_updates') :
         /\ ofctrl_seqno_updates'[k] = ofctrl_seqno_updates[k + 1] /\ needs'[k] = needs[k + 1]
         /\ k + 1 \in 1 .. Len(ofctrl_seqno_updates)
  BY <1>1, <1>2 DEF AskedInv
<1>4. Requests' \subseteq Requests
  BY <1>3 DEF Requests
<1> QED
  BY <1>2, <1>4 DEF AskedInv

\* What a step does to the requests in flight.
RequestsKept == UNCHANGED <<ofctrl_seqno_updates, needs, ofctrl_req_seqno>>

RequestsGrow ==
    /\ ofctrl_req_seqno' = ofctrl_req_seqno + 1
    /\ \E n : Requests' \subseteq Requests \cup {<<ofctrl_req_seqno + 1, n>>}

LEMMA NbRequestMade ==
    ASSUME LoopType, AskedInv, RequestNb
    PROVE  AskedInv' /\ (RequestsKept \/ RequestsGrow)
<1>1. UNCHANGED <<input, hidden, cond_pending, sb_nb_cfg, if_seqno>> /\ nb_cfg' = get_nb_cfg /\ pc' = "if"
  BY DEF RequestNb, db_vars, Goto
<1>2. get_nb_cfg \in Nat
  BY DEF get_nb_cfg, AskedInv
<1>3. CASE ~UpdateIsNew(NbType, get_nb_cfg)
  <2>1. UNCHANGED <<ofctrl_seqno_updates, ofctrl_req_seqno, type_req_cfg, needs>>
    BY <1>3 DEF RequestNb, UpdateCreate
  <2>2. get_nb_cfg = nb_cfg
    BY <1>3 DEF UpdateIsNew, AskedInv
  <2>3. Requests' = Requests
    BY <2>1 DEF Requests
  <2> QED
    BY <1>1, <2>1, <2>2, <2>3 DEF AskedInv, RequestsKept
<1>4. CASE UpdateIsNew(NbType, get_nb_cfg)
  <2>1. hidden = {} /\ Promised = input
    BY <1>4 DEF UpdateIsNew, get_nb_cfg, AskedInv, Promised, LoopType, TableType
  <2> DEFINE u == NewUpdate(NbType, get_nb_cfg)
  <2>2. u \in Asked /\ u.flow_cfg = ofctrl_req_seqno + 1
    BY <1>2 DEF NewUpdate, Asked, AskedInv, NbType
  <2>3. ofctrl_seqno_updates' = Append(ofctrl_seqno_updates, u) /\ needs' = Append(needs, input)
        /\ ofctrl_req_seqno' = ofctrl_req_seqno + 1
        /\ type_req_cfg' = [type_req_cfg EXCEPT ![NbType] = get_nb_cfg]
    BY <1>4, <2>1 DEF RequestNb, UpdateCreate, PushBack
  <2>4. input \in [Tables -> Nat] /\ \A t \in Tables : input[t] <= input[t]
    BY DEF LoopType, TableType
  <2> HIDE DEF u
  <2>5. /\ ofctrl_seqno_updates' \in Seq(Asked) /\ needs' \in Seq([Tables -> Nat])
        /\ Len(needs') = Len(ofctrl_seqno_updates')
        /\ Requests' \subseteq Requests \cup {<<ofctrl_req_seqno + 1, input>>}
    BY <2>2, <2>3, <2>4, RequestMade
  <2>6. type_req_cfg' \in [Types -> Nat] /\ type_req_cfg'[NbType] = nb_cfg' /\ type_req_cfg'[IfType] = if_seqno'
    BY <1>1, <1>2, <2>3, LoopTypesAssumption DEF AskedInv, NbType, IfType
  <2>7. \A r \in Requests' : r[1] <= ofctrl_req_seqno' /\ \A t \in Tables : r[2][t] <= input[t]
    <3>1. \A r \in Requests :
             r[1] \in Nat /\ r[1] <= ofctrl_req_seqno /\ \A t \in Tables : r[2][t] <= input[t]
      BY RequestsTyped DEF AskedInv
    <3>2. ofctrl_req_seqno \in Nat
      BY DEF AskedInv
    <3> SUFFICES ASSUME NEW r \in Requests'
                 PROVE  r[1] <= ofctrl_req_seqno' /\ \A t \in Tables : r[2][t] <= input[t]
      OBVIOUS
    <3>3. CASE r \in Requests
      BY <2>3, <3>1, <3>2, <3>3
    <3>4. CASE r = <<ofctrl_req_seqno + 1, input>>
      BY <2>3, <2>4, <3>2, <3>4
    <3> QED
      BY <2>5, <3>3, <3>4
  <2>8. RequestsGrow
    BY <2>3, <2>5 DEF RequestsGrow
  <2> QED
    BY <1>1, <1>2, <2>3, <2>5, <2>6, <2>7, <2>8 DEF AskedInv
<1> QED
  BY <1>3, <1>4

LEMMA IfRequestMade ==
    ASSUME LoopType, AskedInv, RequestIf
    PROVE  AskedInv' /\ (RequestsKept \/ RequestsGrow)
<1>1. UNCHANGED <<input, hidden, cond_pending, sb_nb_cfg, nb_cfg>> /\ pc' = "put"
  BY DEF RequestIf, db_vars, Goto
<1>2. CASE UNCHANGED <<seqno_vars, if_seqno, needs>>
  BY <1>1, <1>2 DEF seqno_vars, AskedInv, RequestsKept, Requests
<1>3. CASE /\ if_seqno' = if_seqno + 1 /\ UpdateCreate(IfType, if_seqno + 1)
           /\ needs' = Append(needs, input)
  <2> DEFINE u == NewUpdate(IfType, if_seqno + 1)
  <2>1. UpdateIsNew(IfType, if_seqno + 1) /\ if_seqno + 1 \in Nat
    BY DEF UpdateIsNew, AskedInv
  <2>2. u \in Asked /\ u.flow_cfg = ofctrl_req_seqno + 1
    BY <2>1 DEF NewUpdate, Asked, AskedInv, IfType
  <2>3. ofctrl_seqno_updates' = Append(ofctrl_seqno_updates, u) /\ needs' = Append(needs, input)
        /\ ofctrl_req_seqno' = ofctrl_req_seqno + 1
        /\ type_req_cfg' = [type_req_cfg EXCEPT ![IfType] = if_seqno + 1]
    BY <1>3, <2>1 DEF UpdateCreate, PushBack
  <2>4. input \in [Tables -> Nat] /\ \A t \in Tables : input[t] <= input[t]
    BY DEF LoopType, TableType
  <2> HIDE DEF u
  <2>5. /\ ofctrl_seqno_updates' \in Seq(Asked) /\ needs' \in Seq([Tables -> Nat])
        /\ Len(needs') = Len(ofctrl_seqno_updates')
        /\ Requests' \subseteq Requests \cup {<<ofctrl_req_seqno + 1, input>>}
    BY <2>2, <2>3, <2>4, RequestMade
  <2>6. type_req_cfg' \in [Types -> Nat] /\ type_req_cfg'[NbType] = nb_cfg' /\ type_req_cfg'[IfType] = if_seqno'
    BY <1>1, <1>3, <2>1, <2>3, LoopTypesAssumption DEF AskedInv, NbType, IfType
  <2>7. \A r \in Requests' : r[1] <= ofctrl_req_seqno' /\ \A t \in Tables : r[2][t] <= input[t]
    <3>1. \A r \in Requests :
             r[1] \in Nat /\ r[1] <= ofctrl_req_seqno /\ \A t \in Tables : r[2][t] <= input[t]
      BY RequestsTyped DEF AskedInv
    <3>2. ofctrl_req_seqno \in Nat
      BY DEF AskedInv
    <3> QED
      BY <2>3, <2>4, <2>5, <3>1, <3>2
  <2>8. RequestsGrow
    BY <2>3, <2>5 DEF RequestsGrow
  <2> QED
    BY <1>1, <1>3, <2>1, <2>3, <2>5, <2>6, <2>7, <2>8 DEF AskedInv
<1> QED
  BY <1>2, <1>3 DEF RequestIf

RequestsSame == UNCHANGED ofctrl_req_seqno /\ Requests' \subseteq Requests

\* No step but a flush, which needs a lost connection, loses or changes a request.
LEMMA AskedStep ==
    ASSUME LoopType, AskedInv, UpInv, [Next]_vars
    PROVE  AskedInv' /\ (RequestsSame \/ RequestsGrow)
<1>0. RequestsKept => RequestsSame
  BY DEF RequestsKept, RequestsSame, Requests
<1>1. ASSUME RequestsKept, UNCHANGED <<type_req_cfg, app_vars, sb_nb_cfg>>, pc' = pc \/ pc' # "start",
             cond_pending' \in BOOLEAN, hidden' # {} => cond_pending',
             input' \in [Tables -> Nat], \A t \in Tables : input[t] <= input'[t]
      PROVE  AskedInv' /\ RequestsSame
  <2>1. Requests' = Requests
    BY <1>1 DEF RequestsKept, Requests
  <2>2. \A r \in Requests' : r[1] <= ofctrl_req_seqno' /\ \A t \in Tables : r[2][t] <= input'[t]
    <3> SUFFICES ASSUME NEW r \in Requests
                 PROVE  r[1] <= ofctrl_req_seqno' /\ \A t \in Tables : r[2][t] <= input'[t]
      BY <2>1
    <3>1. r[2] \in [Tables -> Nat] /\ r[1] <= ofctrl_req_seqno /\ \A t \in Tables : r[2][t] <= input[t]
      BY RequestsTyped DEF AskedInv
    <3>2. input \in [Tables -> Nat]
      BY DEF LoopType, TableType
    <3>3. ASSUME NEW t \in Tables PROVE r[2][t] <= input'[t]
      <4>1. /\ r[2][t] \in Nat /\ input[t] \in Nat /\ input'[t] \in Nat
            /\ r[2][t] <= input[t] /\ input[t] <= input'[t]
        BY <1>1, <3>1, <3>2
      <4> QED
        BY <4>1
    <3> QED
      BY <1>1, <3>1, <3>3 DEF RequestsKept
  <2> QED
    BY <1>0, <1>1, <2>2 DEF AskedInv, RequestsKept, app_vars
<1>2. ASSUME RequestsKept, UNCHANGED <<type_req_cfg, app_vars, sb_nb_cfg, hidden, cond_pending, input>>,
             pc' = pc \/ pc' # "start"
      PROVE  AskedInv' /\ RequestsSame
  <2>1. input \in [Tables -> Nat] /\ \A t \in Tables : input[t] <= input[t]
    BY DEF LoopType, TableType
  <2> QED
    BY <1>1, <1>2, <2>1 DEF AskedInv
<1>3. ASSUME UNCHANGED <<seqno_vars, app_vars, db_vars, needs>>, pc' = pc \/ pc' # "start"
      PROVE  AskedInv' /\ RequestsSame
  BY <1>2, <1>3 DEF seqno_vars, db_vars, RequestsKept
<1>4. CASE UNCHANGED vars \/ SbReply \/ OvsCommitted \/ Network \/ SwitchStep \/ Clock
  BY <1>3, <1>4 DEF vars, SbReply, OvsCommitted, Network, SwitchStep, Clock
<1>5. CASE RunBegin \/ Run \/ Recv \/ Put
  BY <1>3, <1>5 DEF RunBegin, Run, Recv, Put, Goto
<1>6. CASE Start
  <2>1. RequestsKept /\ UNCHANGED <<app_vars, sb_nb_cfg, hidden, cond_pending, input>> /\ nb_cfg = 0 /\ if_seqno = 0
        /\ type_req_cfg' = [t \in Types |-> 0] /\ Requests' = Requests
    BY <1>6 DEF Start, AddType, db_vars, AskedInv, RequestsKept, Requests
  <2> QED
    BY <1>0, <2>1, LoopTypesAssumption DEF AskedInv, RequestsKept, app_vars
<1>7. CASE SbUpdate
  <2>1. UNCHANGED <<seqno_vars, pc, hidden, cond_pending, app_vars, needs>> /\ sb_nb_cfg' \in Nat
    BY <1>7 DEF SbUpdate, AskedInv
  <2>2. input' \in [Tables -> Nat] /\ \A t \in Tables : input[t] <= input'[t]
    BY <1>7 DEF SbUpdate, LoopType, TableType
  <2>3. \A r \in Requests : r[1] <= ofctrl_req_seqno /\ \A t \in Tables : r[2][t] <= input'[t]
    <3> SUFFICES ASSUME NEW r \in Requests, NEW t \in Tables PROVE r[2][t] <= input'[t]
      BY DEF AskedInv
    <3>1. /\ r[2][t] \in Nat /\ input[t] \in Nat /\ input'[t] \in Nat
          /\ r[2][t] <= input[t] /\ input[t] <= input'[t]
      BY <2>2, RequestsTyped DEF AskedInv, LoopType, TableType
    <3> QED
      BY <3>1
  <2>4. Requests' = Requests /\ RequestsKept
    BY <2>1 DEF Requests, seqno_vars, RequestsKept
  <2> QED
    BY <1>0, <2>1, <2>3, <2>4 DEF AskedInv, seqno_vars, app_vars
<1>8. CASE CondReply
  <2>1. UNCHANGED <<seqno_vars, pc, sb_nb_cfg, app_vars, needs>> /\ hidden' = {} /\ cond_pending' = FALSE
    BY <1>8 DEF CondReply
  <2>2. input' \in [Tables -> Nat] /\ \A t \in Tables : input[t] <= input'[t]
    BY <1>8 DEF CondReply, LoopType, TableType
  <2> QED
    BY <1>1, <2>1, <2>2 DEF seqno_vars, RequestsKept
<1>9. CASE EngineRun
  <2>1. UNCHANGED <<seqno_vars, needs, app_vars, input, sb_nb_cfg>> /\ pc' # "start"
    BY <1>9 DEF EngineRun, EngineAborted, EngineCompleted, ConnLeafRun, ConnLeafNotVisited, UpInv, db_vars, Goto
  <2>2. cond_pending' \in BOOLEAN /\ (hidden' # {} => cond_pending')
    <3>1. Widen \/ UNCHANGED <<hidden, cond_pending>>
      BY <1>9 DEF EngineRun, EngineAborted, EngineCompleted, db_vars
    <3> QED
      BY <3>1 DEF Widen, AskedInv
  <2>3. input \in [Tables -> Nat] /\ \A t \in Tables : input[t] <= input[t]
    BY DEF LoopType, TableType
  <2> QED
    BY <1>1, <2>1, <2>2, <2>3 DEF seqno_vars, RequestsKept
<1>10. CASE RequestNb \/ RequestIf
  BY <1>0, <1>10, NbRequestMade, IfRequestMade
<1>11. CASE SeqnoRunStart \/ IfAcks \/ Store
  <2>1. RequestsKept /\ UNCHANGED <<type_req_cfg, app_vars, db_vars>> /\ pc' # "start"
    BY <1>11 DEF SeqnoRunStart, RunStart, tracker, IfAcks, Store, AckedSeqnosGet, RequestsKept, Goto
  <2> QED
    BY <1>2, <2>1 DEF db_vars
<1>12. CASE SeqnoRun
  <2>1. CASE RunEnd /\ Goto("acks") /\ UNCHANGED needs
    BY <1>2, <1>12, <2>1 DEF SeqnoRun, RunEnd, tracker, Goto, db_vars, RequestsKept
  <2>2. CASE RunPop /\ needs' = Tail(needs) /\ UNCHANGED pc
    <3>1. ofctrl_seqno_updates # <<>> /\ ofctrl_seqno_updates' = Tail(ofctrl_seqno_updates) /\ needs' = Tail(needs)
      BY <2>2 DEF RunPop, Covered
    <3>2. UNCHANGED <<ofctrl_req_seqno, type_req_cfg, app_vars, db_vars, pc>>
      BY <1>12, <2>2 DEF SeqnoRun, RunPop
    <3>3. /\ ofctrl_seqno_updates' \in Seq(Asked) /\ needs' \in Seq([Tables -> Nat])
          /\ Len(needs') = Len(ofctrl_seqno_updates') /\ Requests' \subseteq Requests
      BY <3>1, RequestTaken
    <3>4. \A r \in Requests' : r[1] <= ofctrl_req_seqno' /\ \A t \in Tables : r[2][t] <= input'[t]
      BY <3>2, <3>3 DEF AskedInv, db_vars
    <3> QED
      BY <3>2, <3>3, <3>4 DEF AskedInv, RequestsSame, app_vars, db_vars
  <2> QED
    BY <1>12, <2>1, <2>2 DEF SeqnoRun
<1>13. CASE Tail_of_iteration
  <2>1. UNCHANGED <<seqno_vars, needs, app_vars, db_vars>> /\ pc' # "start"
    BY <1>13 DEF Tail_of_iteration, NeedRun, ConnLeafRun, ConnLeafNotVisited, UpInv, Goto
  <2> QED
    BY <1>3, <2>1
<1> QED
  BY <1>4, <1>5, <1>6, <1>7, <1>8, <1>9, <1>10, <1>11, <1>12, <1>13 DEF Next, Environment, Iteration

\* A connection that stays up is one connection.
LEMMA UpStep ==
    ASSUME LoopType, ConnInv, UpInv, [Next]_vars, conn => conn'
    PROVE  UpInv'
<1> USE DEF UpInv
<1>1. ASSUME UNCHANGED <<conn, conn_changed, state>>, pc' \notin {"run", "recv"} \/ pc' = pc \/ conn,
             of_connected' \in {of_connected, conn}
      PROVE  UpInv'
  BY <1>1
<1>2. CASE UNCHANGED vars \/ Start \/ SbUpdate \/ CondReply \/ SbReply \/ OvsCommitted \/ Clock
  BY <1>1, <1>2 DEF vars, ofctrl_vars, net_vars, fsm_vars, engine_vars, Start, SbUpdate, CondReply, SbReply,
     OvsCommitted, Clock, TimerDue, Goto
<1>3. CASE RequestNb \/ RequestIf \/ Put \/ SeqnoRunStart \/ SeqnoRun \/ IfAcks \/ Store
  <2>1. pc' \notin {"run", "recv"} /\ UNCHANGED of_connected
    BY <1>3 DEF RequestNb, RequestIf, Put, SeqnoRunStart, SeqnoRun, IfAcks, Store, Goto, engine_vars
  <2>2. UNCHANGED <<conn, conn_changed, state>>
    <3>1. CASE UNCHANGED ofctrl_vars
      BY <3>1 DEF ofctrl_vars, net_vars, fsm_vars
    <3>2. CASE RequestNb \/ RequestIf
      BY <3>2 DEF RequestNb, RequestIf, net_vars, fsm_vars
    <3>3. CASE ofctrl_put(ofctrl_req_seqno, updated)
      BY <3>3 DEF ofctrl_put, PutNotNeeded, PutSkipped, PutSend, net_vars
    <3> QED
      BY <1>3, <3>1, <3>2, <3>3 DEF Put, SeqnoRunStart, SeqnoRun, IfAcks, Store
  <2> QED
    BY <1>1, <2>1, <2>2
<1>4. CASE EngineRun \/ Tail_of_iteration
  <2>1. pc' \notin {"run", "recv"}
    BY <1>4 DEF EngineRun, Tail_of_iteration, Goto
  <2>2. of_connected' \in {of_connected, conn}
    BY <1>4 DEF EngineRun, EngineAborted, EngineCompleted, Tail_of_iteration, NeedRun, ConnLeafRun,
       ConnLeafNotVisited
  <2>3. UNCHANGED <<conn, conn_changed, state>>
    BY <1>4 DEF EngineRun, EngineAborted, EngineCompleted, Tail_of_iteration, ofctrl_vars, net_vars, fsm_vars
  <2> QED
    BY <1>1, <2>1, <2>2, <2>3
<1>5. CASE Network
  BY <1>5 DEF Network, Drop, Restart, Connect, Disconnect, fsm_vars, engine_vars
<1>6. CASE SwitchStep
  BY <1>1, <1>6, SwitchAnswers DEF SwitchStep, fsm_vars, engine_vars
<1>7. CASE RunBegin
  <2>1. CASE conn
    BY <1>7, <2>1 DEF RunBegin, OfctrlRunBegin, engine_vars
  <2>2. CASE ~conn
    BY <1>1, <1>7, <2>2 DEF RunBegin, Goto, ofctrl_vars, net_vars, fsm_vars, engine_vars
  <2> QED
    BY <2>1, <2>2
<1>8. CASE Run
  <2>1. conn /\ ~conn_changed
    BY <1>8 DEF Run, ConnInv
  <2>2. UNCHANGED <<conn, conn_changed, of_connected>>
    BY <1>8 DEF Run, RunState, run_S_NEW, run_nothing, run_S_WAIT_BEFORE_CLEAR, run_S_CLEAR_FLOWS, net_vars,
       engine_vars
  <2> QED
    BY <2>1, <2>2
<1>9. CASE Recv
  <2>1. conn /\ ~conn_changed /\ conn' /\ UNCHANGED of_connected
    BY <1>9 DEF Recv, ConnInv, engine_vars
  <2>2. UNCHANGED conn_changed
    <3>1. CASE RecvMsg(Head(to_ofctrl))
      BY <3>1, RecvSteps DEF RecvPasses, RecvAnswers, RecvFree, RecvModAnswer
    <3>2. CASE UNCHANGED ofctrl_vars
      BY <3>2 DEF ofctrl_vars, net_vars
    <3> QED
      BY <1>9, <3>1, <3>2 DEF Recv
  <2> QED
    BY <2>1, <2>2
<1> QED
  BY <1>2, <1>3, <1>4, <1>5, <1>6, <1>7, <1>8, <1>9 DEF Next, Environment, Iteration

-----------------------------------------------------------------------------
(* Requests, answers and the flow updates that wait for them. *)

\* Requests are answered in the order of their ids.
OrderInv ==
    /\ \A m \in Msgs(to_switch) : 0 < m.xid
    /\ \A a \in Msgs(to_ofctrl), m \in Msgs(to_switch) : a.xid < m.xid
    /\ \A i, j \in 1 .. Len(to_switch) :
          i < j => /\ to_switch[i].xid < to_switch[j].xid
                   /\ IsMod(to_switch[i]) => to_switch[i].xid2 < to_switch[j].xid

LEMMA OrderSent ==
    ASSUME LoopType, XidsIssued, OrderInv, NEW m \in Request, m.xid = next_xid, to_switch' = QueueMsg(m),
           Msgs(to_ofctrl') \subseteq Msgs(to_ofctrl)
    PROVE  OrderInv'
<1>1. to_switch \in Seq(Request) /\ next_xid \in Nat \ {0} /\ Len(to_switch) \in Nat
  BY DEF LoopType, ChannelType
<1>2. CASE ~conn
  <2>1. UNCHANGED to_switch
    BY <1>2 DEF QueueMsg
  <2> QED
    BY <2>1 DEF OrderInv, IsMod
<1>3. CASE conn
  <2>1. /\ Len(to_switch') = Len(to_switch) + 1 /\ to_switch'[Len(to_switch) + 1] = m
        /\ \A i \in 1 .. Len(to_switch) : to_switch'[i] = to_switch[i]
        /\ Msgs(to_switch') = Msgs(to_switch) \cup {m}
    BY <1>1, <1>3, MsgsAppend DEF QueueMsg
  <2>2. \A n \in Msgs(to_switch) : n.xid < next_xid /\ (IsMod(n) => n.xid2 < next_xid)
    BY DEF XidsIssued
  <2>3. \A a \in Msgs(to_ofctrl) : a.xid < next_xid
    BY DEF XidsIssued
  <2>4. \A i, j \in 1 .. Len(to_switch') :
           i < j => /\ to_switch'[i].xid < to_switch'[j].xid
                    /\ IsMod(to_switch'[i]) => to_switch'[i].xid2 < to_switch'[j].xid
    <3> SUFFICES ASSUME NEW i \in 1 .. Len(to_switch'), NEW j \in 1 .. Len(to_switch'), i < j
                 PROVE  /\ to_switch'[i].xid < to_switch'[j].xid
                        /\ IsMod(to_switch'[i]) => to_switch'[i].xid2 < to_switch'[j].xid
      OBVIOUS
    <3>1. i \in 1 .. Len(to_switch) /\ to_switch'[i] = to_switch[i] /\ to_switch[i] \in Msgs(to_switch)
      BY <1>1, <2>1 DEF Msgs
    <3>2. CASE j \in 1 .. Len(to_switch)
      BY <2>1, <3>1, <3>2 DEF OrderInv
    <3>3. CASE j = Len(to_switch) + 1
      BY <2>1, <2>2, <3>1, <3>3
    <3> QED
      BY <1>1, <2>1, <3>2, <3>3
  <2>5. \A n \in Msgs(to_switch') : 0 < n.xid
    BY <1>1, <2>1 DEF OrderInv
  <2>6. \A a \in Msgs(to_ofctrl'), n \in Msgs(to_switch') : a.xid < n.xid
    BY <2>1, <2>3 DEF OrderInv
  <2> QED
    BY <2>4, <2>5, <2>6 DEF OrderInv, IsMod
<1> QED
  BY <1>2, <1>3

LEMMA OrderStep == LoopType /\ XidsIssued /\ OrderInv /\ [Next]_vars => OrderInv'
<1> SUFFICES ASSUME LoopType, XidsIssued, OrderInv, [Next]_vars PROVE OrderInv'
  OBVIOUS
<1>0. to_switch \in Seq(Request) /\ to_ofctrl \in Seq(Answer) /\ next_xid \in Nat \ {0}
  BY DEF LoopType, ChannelType
<1>1. ASSUME to_switch' \in {to_switch, <<>>}, Msgs(to_ofctrl') \subseteq Msgs(to_ofctrl) PROVE OrderInv'
  <2>1. CASE to_switch' = to_switch
    BY <1>1, <2>1 DEF OrderInv, IsMod
  <2>2. CASE to_switch' = <<>>
    <3>1. Len(to_switch') = 0 /\ Msgs(to_switch') = {}
      BY <2>2, MsgsNone
    <3> QED
      BY <3>1 DEF OrderInv
  <2> QED
    BY <1>1, <2>1, <2>2
<1>2. CASE UNCHANGED tlv_vars \/ HoldMoves \/ Drop \/ Restart \/ Connect \/ OfctrlRunBegin
  <2>1. to_switch' \in {to_switch, <<>>} /\ to_ofctrl' \in {to_ofctrl, <<>>}
    BY <1>2 DEF tlv_vars, HoldMoves, Drop, Restart, Connect, Disconnect, OfctrlRunBegin, net_vars
  <2> QED
    BY <1>1, <2>1, MsgsNone
<1>3. CASE Switch
  <2> DEFINE h == Head(to_switch)
  <2>1. to_switch # <<>> /\ to_switch' = Tail(to_switch) /\ h = to_switch[1] /\ h \in Msgs(to_switch)
    BY <1>0, <1>3, SwitchAnswers
  <2>2. \A i \in 1 .. Len(to_switch') : i + 1 \in 1 .. Len(to_switch) /\ to_switch'[i] = to_switch[i + 1]
    BY <1>0, <2>1
  <2>3. 1 \in 1 .. Len(to_switch) /\ Len(to_switch') \in Nat
    BY <1>0, <2>1
  <2>4. \A m \in Msgs(to_switch') :
           m \in Msgs(to_switch) /\ h.xid < m.xid /\ (IsMod(h) => h.xid2 < m.xid) /\ 0 < m.xid
    <3> SUFFICES ASSUME NEW i \in 1 .. Len(to_switch')
                 PROVE  /\ to_switch'[i] \in Msgs(to_switch) /\ h.xid < to_switch'[i].xid /\ 0 < to_switch'[i].xid
                        /\ (IsMod(h) => h.xid2 < to_switch'[i].xid)
      BY DEF Msgs
    <3>1. i + 1 \in 1 .. Len(to_switch) /\ to_switch'[i] = to_switch[i + 1] /\ 1 < i + 1
      BY <2>2, <2>3
    <3>2. to_switch'[i] \in Msgs(to_switch)
      BY <3>1 DEF Msgs
    <3> QED
      BY <2>1, <2>3, <3>1, <3>2 DEF OrderInv
  <2>5. \A a \in Msgs(to_ofctrl'), m \in Msgs(to_switch') : a.xid < m.xid
    <3> SUFFICES ASSUME NEW a \in Msgs(to_ofctrl'), NEW m \in Msgs(to_switch') PROVE a.xid < m.xid
      OBVIOUS
    <3>1. CASE a \in Msgs(to_ofctrl)
      BY <2>4, <3>1 DEF OrderInv
    <3>2. CASE a \notin Msgs(to_ofctrl)
      BY <1>3, <2>4, <3>2, SwitchAnswers
    <3> QED
      BY <3>1, <3>2
  <2>6. \A i, j \in 1 .. Len(to_switch') :
           i < j => /\ to_switch'[i].xid < to_switch'[j].xid
                    /\ IsMod(to_switch'[i]) => to_switch'[i].xid2 < to_switch'[j].xid
    <3> SUFFICES ASSUME NEW i \in 1 .. Len(to_switch'), NEW j \in 1 .. Len(to_switch'), i < j
                 PROVE  /\ to_switch'[i].xid < to_switch'[j].xid
                        /\ IsMod(to_switch'[i]) => to_switch'[i].xid2 < to_switch'[j].xid
      OBVIOUS
    <3>1. /\ i + 1 \in 1 .. Len(to_switch) /\ to_switch'[i] = to_switch[i + 1]
          /\ j + 1 \in 1 .. Len(to_switch) /\ to_switch'[j] = to_switch[j + 1]
      BY <2>2
    <3>2. i + 1 < j + 1
      BY <2>3
    <3> QED
      BY <3>1, <3>2 DEF OrderInv
  <2> HIDE DEF h
  <2> QED
    BY <2>4, <2>5, <2>6 DEF OrderInv, IsMod
<1>4. CASE run_S_NEW
  <2> DEFINE m == [type |-> "tlv_request", xid |-> next_xid]
  <2>1. m \in Request /\ m.xid = next_xid /\ to_switch' = QueueMsg(m) /\ UNCHANGED to_ofctrl
    BY <1>0, <1>4 DEF Request, TlvRequest, run_S_NEW
  <2> HIDE DEF m
  <2> QED
    BY <2>1, OrderSent
<1>5. CASE PutQueued
  BY <1>5, OrderSent DEF PutQueued
<1>6. CASE RecvMsg(Head(to_ofctrl))
  <2>1. Msgs(Tail(to_ofctrl)) \subseteq Msgs(to_ofctrl)
    BY <1>0, <1>6, RecvSteps, MsgsTail
  <2>2. CASE RecvFree
    <3> DEFINE m == [type |-> "tlv_mod", xid |-> next_xid, xid2 |-> next_xid + 1]
    <3>1. m \in Request /\ m.xid = next_xid /\ to_switch' = QueueMsg(m) /\ to_ofctrl' = Tail(to_ofctrl)
      BY <1>0, <2>2 DEF Request, TlvMod, RecvFree
    <3> HIDE DEF m
    <3> QED
      BY <2>1, <3>1, OrderSent
  <2>3. CASE ~RecvFree
    <3>1. Disconnect \/ Consume
      BY <1>6, <2>3, RecvSteps DEF RecvPasses, RecvAnswers, RecvModAnswer
    <3>2. to_switch' \in {to_switch, <<>>} /\ Msgs(to_ofctrl') \subseteq Msgs(to_ofctrl)
      BY <2>1, <3>1, MsgsNone DEF Disconnect, Consume
    <3> QED
      BY <1>1, <3>2
  <2> QED
    BY <2>2, <2>3
<1> QED
  BY <1>2, <1>3, <1>4, <1>5, <1>6, TlvSteps DEF Switch

-----------------------------------------------------------------------------
(* What a step does to the flow updates and to the configuration the switch *)
(* has confirmed.                                                           *)

UpdatesInv ==
    /\ flow_updates \in Seq(FlowUpdate) /\ cur_cfg \in Nat /\ cur_cfg <= ofctrl_req_seqno
    /\ \A u \in Msgs(flow_updates) : u.req_cfg <= ofctrl_req_seqno

\* ofctrl_seqno_run() is given the configuration confirmed last.
RunInv == run_cfg # Idle => pc = "seqno_loop" /\ run_cfg = cur_cfg

IsPut(m) == m.type = "put"

\* The last flow update waits for every put on its way.
PutsTracked ==
    \A m \in Msgs(to_switch) :
        IsPut(m) => /\ state = "S_UPDATE_FLOWS" /\ flow_updates # <<>>
                    /\ m.xid <= flow_updates[Len(flow_updates)].xid

\* The switch will hold the contents at hand.
Settled == \A t \in Tables : InSync /\ installed[t] = input[t]

CfgQuiet ==
    /\ UNCHANGED <<flow_updates, cur_cfg>>
    /\ \A m \in Msgs(to_switch') : IsPut(m) => m \in Msgs(to_switch)

CfgCleared ==
    /\ state = "S_CLEAR_FLOWS" /\ flow_updates' = <<>>
    /\ UNCHANGED <<cur_cfg, to_switch>>

CfgConfirmed ==
    /\ state = "S_UPDATE_FLOWS" /\ flow_updates # <<>> /\ to_ofctrl # <<>>
    /\ Head(flow_updates).xid = Head(to_ofctrl).xid
    /\ flow_updates' = Tail(flow_updates) /\ cur_cfg' \in {cur_cfg, Head(flow_updates).req_cfg}
    /\ UNCHANGED to_switch

\* The three ways in which ofctrl_put() answers for a configuration: it is done,
\* it is done with the last update, it is done with the barrier just sent.
PutDone ==
    /\ flow_updates = <<>>
    /\ cur_cfg' = ofctrl_req_seqno /\ UNCHANGED <<flow_updates, to_switch>>

PutRaised ==
    /\ flow_updates # <<>>
    /\ flow_updates' = [flow_updates EXCEPT ![Len(flow_updates)].req_cfg = ofctrl_req_seqno]
    /\ UNCHANGED <<cur_cfg, to_switch>>

PutTracked ==
    /\ state = "S_UPDATE_FLOWS"
    /\ flow_updates' = TrackUpdate(ofctrl_req_seqno, next_xid) /\ UNCHANGED cur_cfg
    /\ \E m \in Request : m.xid = next_xid /\ to_switch' = Append(to_switch, m)

PutAnswers == Settled' /\ Requests' = Requests /\ UNCHANGED <<input, ofctrl_req_seqno>>

LEMMA PutSettles ==
    ASSUME LoopType, ConnInv, UpInv, TablesInv, TablesInv', Put, OutputsValid, ~skipped_last_time'
    PROVE  Settled'
<1>1. /\ pc' = "seqno" /\ OutputsValid' /\ UNCHANGED <<input, desired, state, conn, conn_changed>>
  <2>1. UNCHANGED <<desired, state, conn, conn_changed>>
    BY DEF Put, ofctrl_put, PutNotNeeded, PutSkipped, PutSend, net_vars, table_vars
  <2> QED
    BY <2>1 DEF Put, Goto, engine_vars, db_vars, OutputsValid
<1> SUFFICES ASSUME NEW t \in Tables PROVE InSync' /\ installed'[t] = input'[t]
  BY DEF Settled
<1>2. ~(Pending(t))' /\ ~RecomputeDue'
  BY <1>1 DEF Pending, RecomputeDue
<1>3. ~Fresh' /\ installed'[t] = desired'[t]
  BY <1>2 DEF TablesInv, InstalledInv, TableTracked
<1>4. InSync'
  BY <1>1, <1>3 DEF InSync, Fresh, UpInv
<1>5. desired'[t] = input'[t]
  BY <1>1 DEF Put, TablesInv, OutputsFresh
<1> QED
  BY <1>3, <1>4, <1>5

\* A put that was needed and could not be made keeps everything.
LEMMA PutMoves ==
    ASSUME LoopType, ConnInv, UpInv, TablesInv, TablesInv', Put, OutputsValid
    PROVE  \/ UNCHANGED <<flow_updates, cur_cfg, to_switch>>
           \/ PutAnswers /\ (PutDone \/ PutRaised \/ PutTracked)
<1>0. Requests' = Requests /\ UNCHANGED <<input, ofctrl_req_seqno>> /\ ofctrl_put(ofctrl_req_seqno, updated)
      /\ pc = "put"
  BY DEF Put, Requests, seqno_vars, db_vars
<1>1. ASSUME ~skipped_last_time' PROVE PutAnswers
  BY <1>0, <1>1, PutSettles DEF PutAnswers
<1>2. CASE PutNotNeeded(ofctrl_req_seqno, updated)
  <2>1. ~skipped_last_time' /\ UNCHANGED <<flow_updates, to_switch>>
    BY <1>2 DEF PutNotNeeded, NeedPut, FlowsPending, net_vars
  <2>2. UNCHANGED cur_cfg \/ (cur_cfg' = ofctrl_req_seqno /\ flow_updates = <<>>)
    BY <1>2 DEF PutNotNeeded
  <2> QED
    BY <1>1, <2>1, <2>2 DEF PutDone
<1>3. CASE \E backlog \in HasBacklog : PutSkipped(ofctrl_req_seqno, updated, backlog)
  BY <1>3 DEF PutSkipped, net_vars
<1>4. ASSUME NEW backlog \in HasBacklog, PutSend(ofctrl_req_seqno, updated, backlog)
      PROVE  PutAnswers /\ (PutDone \/ PutRaised \/ PutTracked)
  <2> DEFINE flush == {z \in Zones : zone_state[z] = "OF_QUEUED"}
             differing == {x \in Touched(updated) : SentFrom(x) # desired[x]}
             put == [type |-> "put", xid |-> next_xid, flush |-> flush,
                     clear |-> ofctrl_initial_clear,
                     from |-> [x \in differing |-> SentFrom(x)],
                     to |-> [x \in differing |-> desired[x]]]
  <2>1. ~skipped_last_time' /\ conn /\ state = "S_UPDATE_FLOWS"
    BY <1>4 DEF PutSend, CanPut, HasBacklog
  <2>2. put \in Request /\ put.xid = next_xid
    BY PutTyped DEF LoopType, TableType
  <2>3. CASE to_switch' = QueueMsg(put) /\ flow_updates' = TrackUpdate(ofctrl_req_seqno, next_xid)
             /\ UNCHANGED cur_cfg
    <3>1. to_switch' = Append(to_switch, put)
      BY <2>1, <2>3 DEF QueueMsg
    <3> HIDE DEF put
    <3> QED
      BY <1>1, <2>1, <2>2, <2>3, <3>1 DEF PutTracked
  <2>4. CASE UNCHANGED to_switch /\ NothingSent(ofctrl_req_seqno)
    BY <1>1, <2>1, <2>4 DEF NothingSent, PutDone, PutRaised
  <2> QED
    BY <1>4, <2>3, <2>4 DEF PutSend
<1> QED
  BY <1>0, <1>2, <1>3, <1>4 DEF ofctrl_put

LEMMA RunInvStep == RunInv /\ [Next]_vars => RunInv'
<1> SUFFICES ASSUME RunInv, [Next]_vars PROVE RunInv'
  OBVIOUS
<1> USE DEF RunInv
<1>1. ASSUME UNCHANGED run_cfg, UNCHANGED cur_cfg, UNCHANGED pc \/ pc # "seqno_loop" PROVE RunInv'
  BY <1>1
<1>2. CASE UNCHANGED vars \/ SbUpdate \/ CondReply \/ SbReply \/ OvsCommitted \/ Clock
  BY <1>1, <1>2 DEF vars, seqno_vars, ofctrl_vars, cfg_vars, SbUpdate, CondReply, SbReply, OvsCommitted, Clock,
     TimerDue
<1>3. CASE Network \/ SwitchStep
  BY <1>1, <1>3 DEF Network, SwitchStep, Switch, SwitchTlvRequest, SwitchTlvMod, SwitchPut, Drop, Restart,
     Connect, seqno_vars, cfg_vars
<1>4. ASSUME pc # "seqno_loop", UNCHANGED run_cfg PROVE RunInv'
  BY <1>4
<1>5. CASE Start
  BY <1>4, <1>5 DEF Start, AddType
<1>6. CASE RunBegin \/ Run \/ Recv \/ Put
  BY <1>4, <1>6 DEF RunBegin, Run, Recv, Put, seqno_vars
<1>7. CASE EngineRun \/ Tail_of_iteration
  BY <1>4, <1>7 DEF EngineRun, EngineAborted, EngineCompleted, Tail_of_iteration, NeedRun, ConnLeafRun,
     ConnLeafNotVisited, Flush, seqno_vars
<1>8. CASE RequestNb \/ RequestIf \/ IfAcks \/ Store
  BY <1>4, <1>8 DEF RequestNb, RequestIf, IfAcks, Store, UpdateCreate, AckedSeqnosGet, seqno_vars
<1>9. CASE SeqnoRunStart
  BY <1>9 DEF SeqnoRunStart, RunStart, Goto, ofctrl_vars, cfg_vars
<1>10. CASE SeqnoRun
  BY <1>10 DEF SeqnoRun, RunPop, RunEnd, ofctrl_vars, cfg_vars
<1> QED
  BY <1>2, <1>3, <1>5, <1>6, <1>7, <1>8, <1>9, <1>10 DEF Next, Environment, Iteration

LEMMA CfgSteps ==
    ASSUME LoopType, ConnInv, UpInv, TablesInv, TablesInv', [Next]_vars, conn => conn'
    PROVE  /\ state = "S_UPDATE_FLOWS" => state' = "S_UPDATE_FLOWS"
           /\ \/ CfgQuiet \/ CfgCleared \/ CfgConfirmed
              \/ PutAnswers /\ (PutDone \/ PutRaised \/ PutTracked)
<1>0. to_switch \in Seq(Request) /\ to_ofctrl \in Seq(Answer) /\ next_xid \in Nat \ {0}
  BY DEF LoopType, ChannelType
<1>1. ASSUME UNCHANGED <<state, flow_updates, cur_cfg, to_switch>> PROVE state' = state /\ CfgQuiet
  BY <1>1 DEF CfgQuiet
<1>2. CASE UNCHANGED ofctrl_vars
  BY <1>1, <1>2 DEF ofctrl_vars, net_vars, fsm_vars, cfg_vars
<1>3. CASE UNCHANGED vars \/ Start \/ SbUpdate \/ CondReply \/ SbReply \/ SeqnoRunStart \/ SeqnoRun \/ IfAcks
           \/ Tail_of_iteration \/ Store
  BY <1>2, <1>3 DEF vars, Start, SbUpdate, CondReply, SbReply, SeqnoRunStart, SeqnoRun, IfAcks,
     Tail_of_iteration, Store
<1>4. CASE OvsCommitted \/ Clock \/ RequestNb \/ RequestIf
  BY <1>1, <1>4 DEF OvsCommitted, Clock, TimerDue, RequestNb, RequestIf, net_vars, fsm_vars, cfg_vars
<1>5. CASE EngineRun
  <2>1. CASE \E allowed : EngineCompleted(allowed)
    BY <1>1, <2>1 DEF EngineCompleted, net_vars, fsm_vars, cfg_vars
  <2> QED
    BY <1>2, <1>5, <2>1 DEF EngineRun, EngineAborted
<1>6. CASE Network
  BY <1>1, <1>6 DEF Network, Drop, Restart, Connect, Disconnect, fsm_vars, cfg_vars
<1>7. CASE SwitchStep
  <2>1. UNCHANGED <<state, flow_updates, cur_cfg>> /\ to_switch # <<>> /\ to_switch' = Tail(to_switch)
    BY <1>7 DEF SwitchStep, Switch, SwitchTlvRequest, SwitchTlvMod, SwitchPut, fsm_vars, cfg_vars
  <2> QED
    BY <1>0, <2>1, MsgsTail DEF CfgQuiet
<1>8. CASE RunBegin
  <2>1. CASE conn
    <3>1. UNCHANGED <<flow_updates, cur_cfg, to_switch>> /\ (~Reconnected => state' = state)
      BY <1>8, <2>1 DEF RunBegin, OfctrlRunBegin, cfg_vars
    <3>2. Reconnected => state # "S_UPDATE_FLOWS"
      BY DEF Reconnected, UpInv
    <3> QED
      BY <3>1, <3>2 DEF CfgQuiet
  <2>2. CASE ~conn
    BY <1>2, <1>8, <2>2 DEF RunBegin
  <2> QED
    BY <2>1, <2>2
<1>9. ASSUME NEW m \in TlvRequest \cup TlvMod, to_switch' = QueueMsg(m), UNCHANGED <<flow_updates, cur_cfg>>
      PROVE  CfgQuiet
  <2>1. m \in Request /\ ~IsPut(m)
    BY <1>9 DEF Request, TlvRequest, TlvMod, IsPut
  <2>2. Msgs(to_switch') \subseteq Msgs(to_switch) \cup {m}
    BY <1>0, <1>9, <2>1, MsgsAppend DEF QueueMsg
  <2> QED
    BY <1>9, <2>1, <2>2 DEF CfgQuiet
<1>10. CASE Run
  <2>1. CASE run_S_NEW
    <3> DEFINE m == [type |-> "tlv_request", xid |-> next_xid]
    <3>1. m \in TlvRequest
      BY <1>0 DEF TlvRequest
    <3>2. to_switch' = QueueMsg(m) /\ UNCHANGED <<flow_updates, cur_cfg>> /\ state # "S_UPDATE_FLOWS"
      BY <2>1 DEF run_S_NEW, cfg_vars
    <3> HIDE DEF m
    <3> QED
      BY <1>9, <3>1, <3>2
  <2>2. CASE run_nothing
    BY <1>1, <2>2 DEF run_nothing, net_vars, fsm_vars, cfg_vars
  <2>3. CASE run_S_WAIT_BEFORE_CLEAR
    <3>1. state # "S_UPDATE_FLOWS" /\ UNCHANGED <<flow_updates, cur_cfg, to_switch>>
      BY <2>3 DEF run_S_WAIT_BEFORE_CLEAR, net_vars, cfg_vars
    <3> QED
      BY <3>1 DEF CfgQuiet
  <2>4. CASE run_S_CLEAR_FLOWS
    BY <2>4 DEF run_S_CLEAR_FLOWS, net_vars, FlowUpdatesCleared, CfgCleared
  <2> QED
    BY <1>10, <2>1, <2>2, <2>3, <2>4 DEF Run, RunState
<1>11. CASE Recv
  <2>0. conn /\ conn'
    BY <1>11 DEF Recv, UpInv
  <2>1. ASSUME NEW m, m = Head(to_ofctrl), RecvMsg(m)
        PROVE  /\ state = "S_UPDATE_FLOWS" => state' = "S_UPDATE_FLOWS"
               /\ CfgQuiet \/ CfgConfirmed
    <3> DEFINE n == [type |-> "tlv_mod", xid |-> next_xid, xid2 |-> next_xid + 1]
    <3>1. to_ofctrl # <<>>
      BY <2>1 DEF RecvMsg, Received
    <3>2. CASE ofctrl_recv(m)
      BY <1>1, <2>0, <3>2 DEF ofctrl_recv, Disconnect, Consume, fsm_vars, cfg_vars
    <3>3. CASE recv_S_TLV_TABLE_REQUESTED(m) /\ ~ofctrl_recv(m)
      <4>1. n \in TlvMod
        BY <1>0 DEF TlvMod
      <4>2. /\ state # "S_UPDATE_FLOWS" /\ UNCHANGED <<flow_updates, cur_cfg>>
            /\ UNCHANGED to_switch \/ to_switch' = QueueMsg(n)
        BY <3>3 DEF recv_S_TLV_TABLE_REQUESTED, Consume, cfg_vars
      <4> HIDE DEF n
      <4> QED
        BY <1>9, <4>1, <4>2 DEF CfgQuiet
    <3>4. CASE recv_S_TLV_TABLE_MOD_SENT(m) /\ ~ofctrl_recv(m)
      <4>1. state # "S_UPDATE_FLOWS" /\ UNCHANGED <<flow_updates, cur_cfg, to_switch>>
        BY <3>4 DEF recv_S_TLV_TABLE_MOD_SENT, Consume, cfg_vars
      <4> QED
        BY <4>1 DEF CfgQuiet
    <3>5. CASE recv_S_UPDATE_FLOWS(m) /\ ~ofctrl_recv(m)
      <4>1. UNCHANGED <<state, to_switch>> /\ state = "S_UPDATE_FLOWS" /\ flow_updates # <<>>
        BY <3>5 DEF recv_S_UPDATE_FLOWS, Consume, fsm_vars
      <4>2. CASE ~BarrierMatches(m)
        BY <1>1, <3>5, <4>1, <4>2 DEF recv_S_UPDATE_FLOWS
      <4>3. CASE BarrierMatches(m)
        <5>1. /\ flow_updates' = Tail(flow_updates)
              /\ cur_cfg' \in {cur_cfg, Head(flow_updates).req_cfg}
          BY <3>5, <4>3 DEF recv_S_UPDATE_FLOWS
        <5> QED
          BY <2>1, <3>1, <4>1, <4>3, <5>1 DEF CfgConfirmed, BarrierMatches
      <4> QED
        BY <4>2, <4>3
    <3> QED
      BY <2>1, <3>2, <3>3, <3>4, <3>5 DEF RecvMsg, recv_S_WAIT_or_CLEAR
  <2> QED
    BY <1>2, <1>11, <2>1 DEF Recv
<1>12. CASE Put
  <2>1. CASE ~OutputsValid
    BY <1>2, <1>12, <2>1 DEF Put
  <2>2. CASE OutputsValid
    <3>1. UNCHANGED state
      BY <1>12, <2>2 DEF Put, ofctrl_put
    <3> QED
      BY <1>1, <1>12, <2>2, <3>1, PutMoves
  <2> QED
    BY <2>1, <2>2
<1> QED
  BY <1>3, <1>4, <1>5, <1>6, <1>7, <1>8, <1>10, <1>11, <1>12 DEF Next, Environment, Iteration

LEMMA LastRaised ==
    ASSUME flow_updates \in Seq(FlowUpdate), flow_updates # <<>>, NEW req \in Nat
    PROVE  LET n == Len(flow_updates)
               fu == [flow_updates EXCEPT ![n].req_cfg = req]
               new == [xid |-> flow_updates[n].xid, req_cfg |-> req]
           IN  /\ fu \in Seq(FlowUpdate) /\ Len(fu) = n /\ fu # <<>> /\ fu[n] = new
               /\ Msgs(fu) \subseteq Msgs(flow_updates) \cup {new}
<1> DEFINE n == Len(flow_updates)
           fu == [flow_updates EXCEPT ![n].req_cfg = req]
           new == [xid |-> flow_updates[n].xid, req_cfg |-> req]
<1>1. n \in 1 .. Len(flow_updates) /\ flow_updates[n] \in FlowUpdate
  OBVIOUS
<1>2. fu[n] = new /\ new \in FlowUpdate
  BY <1>1 DEF FlowUpdate
<1>3. fu \in Seq(FlowUpdate) /\ Len(fu) = n /\ \A i \in 1 .. n : i # n => fu[i] = flow_updates[i]
  BY <1>1, <1>2
<1> HIDE DEF fu, new
<1>4. Msgs(fu) \subseteq Msgs(flow_updates) \cup {new}
  BY <1>2, <1>3 DEF Msgs
<1>5. fu # <<>>
  BY <1>1, <1>3
<1> QED
  BY <1>2, <1>3, <1>4, <1>5 DEF fu, new

\* A request for a configuration is made before any flow update is for it.
LEMMA UpdatesStep ==
    ASSUME LoopType, ConnInv, UpInv, TablesInv, TablesInv', AskedInv, AskedInv', UpdatesInv, [Next]_vars,
           conn => conn'
    PROVE  UpdatesInv'
<1>0. ofctrl_req_seqno \in Nat /\ ofctrl_req_seqno' \in Nat /\ ofctrl_req_seqno <= ofctrl_req_seqno'
  <2>1. RequestsSame \/ RequestsGrow
    BY AskedStep
  <2> QED
    BY <2>1 DEF AskedInv, RequestsSame, RequestsGrow
<1>1. /\ flow_updates \in Seq(FlowUpdate) /\ cur_cfg \in Nat /\ cur_cfg <= ofctrl_req_seqno
      /\ \A u \in Msgs(flow_updates) : u \in FlowUpdate /\ u.req_cfg \in Nat /\ u.req_cfg <= ofctrl_req_seqno
  <2>1. Msgs(flow_updates) \subseteq FlowUpdate
    BY MsgsTyped DEF UpdatesInv
  <2>2. \A u \in FlowUpdate : u.req_cfg \in Nat
    BY DEF FlowUpdate
  <2> QED
    BY <2>1, <2>2 DEF UpdatesInv
<1>2. ASSUME flow_updates' \in Seq(FlowUpdate), Msgs(flow_updates') \subseteq Msgs(flow_updates),
             cur_cfg' \in {cur_cfg, ofctrl_req_seqno} \cup {u.req_cfg : u \in Msgs(flow_updates)}
      PROVE  UpdatesInv'
  <2>1. cur_cfg' \in Nat /\ cur_cfg' <= ofctrl_req_seqno
    BY <1>0, <1>1, <1>2
  <2>2. cur_cfg' <= ofctrl_req_seqno'
    BY <1>0, <2>1
  <2>3. \A u \in Msgs(flow_updates') : u.req_cfg <= ofctrl_req_seqno'
    BY <1>0, <1>1, <1>2
  <2> QED
    BY <1>2, <2>1, <2>2, <2>3 DEF UpdatesInv
<1>3. CASE CfgQuiet \/ PutDone
  BY <1>1, <1>2, <1>3 DEF CfgQuiet, PutDone
<1>4. CASE CfgCleared
  BY <1>2, <1>4, MsgsNone DEF CfgCleared
<1>5. CASE CfgConfirmed
  <2>1. flow_updates' \in Seq(FlowUpdate) /\ Msgs(flow_updates') \subseteq Msgs(flow_updates)
    BY <1>1, <1>5, MsgsTail DEF CfgConfirmed
  <2>2. Head(flow_updates) \in Msgs(flow_updates)
    BY <1>1, <1>5 DEF CfgConfirmed, Msgs
  <2> QED
    BY <1>2, <1>5, <2>1, <2>2 DEF CfgConfirmed
<1>6. ASSUME NEW new, flow_updates' \in Seq(FlowUpdate), Msgs(flow_updates') \subseteq Msgs(flow_updates) \cup {new},
             new.req_cfg = ofctrl_req_seqno, UNCHANGED <<cur_cfg, ofctrl_req_seqno>>
      PROVE  UpdatesInv'
  <2>1. \A u \in Msgs(flow_updates') : u.req_cfg <= ofctrl_req_seqno
    BY <1>0, <1>1, <1>6
  <2> QED
    BY <1>1, <1>6, <2>1 DEF UpdatesInv
<1>7. CASE PutAnswers /\ PutRaised
  <2> DEFINE new == [xid |-> flow_updates[Len(flow_updates)].xid, req_cfg |-> ofctrl_req_seqno]
  <2>1. /\ flow_updates' \in Seq(FlowUpdate)
        /\ Msgs(flow_updates') \subseteq Msgs(flow_updates) \cup {new}
    BY <1>0, <1>1, <1>7, LastRaised DEF PutRaised
  <2>2. new.req_cfg = ofctrl_req_seqno
    OBVIOUS
  <2> HIDE DEF new
  <2> QED
    BY <1>6, <1>7, <2>1, <2>2 DEF PutAnswers, PutRaised
<1>8. CASE PutAnswers /\ PutTracked
  <2> DEFINE new == [xid |-> next_xid, req_cfg |-> ofctrl_req_seqno]
  <2>1. /\ flow_updates' \in Seq(FlowUpdate)
        /\ Msgs(flow_updates') \subseteq Msgs(flow_updates) \cup {new}
    <3>1. next_xid \in Nat /\ \A u \in Msgs(flow_updates) : u.req_cfg <= ofctrl_req_seqno
      BY <1>1 DEF LoopType, ChannelType
    <3> QED
      BY <1>0, <1>1, <1>8, <3>1, TrackUpdateLast DEF PutTracked
  <2>2. new.req_cfg = ofctrl_req_seqno
    OBVIOUS
  <2> HIDE DEF new
  <2> QED
    BY <1>6, <1>8, <2>1, <2>2 DEF PutAnswers, PutTracked
<1> QED
  BY <1>3, <1>4, <1>5, <1>7, <1>8, CfgSteps

LEMMA PutsStep ==
    ASSUME LoopType, ConnInv, UpInv, TablesInv, TablesInv', AskedInv, UpdatesInv, XidsIssued, OrderInv,
           PutsTracked, [Next]_vars, conn => conn'
    PROVE  PutsTracked'
<1>0. /\ to_switch \in Seq(Request) /\ to_ofctrl \in Seq(Answer) /\ next_xid \in Nat \ {0}
      /\ flow_updates \in Seq(FlowUpdate) /\ ofctrl_req_seqno \in Nat
      /\ \A u \in Msgs(flow_updates) : u.req_cfg <= ofctrl_req_seqno
  BY DEF LoopType, ChannelType, UpdatesInv, AskedInv
<1>1. state = "S_UPDATE_FLOWS" => state' = "S_UPDATE_FLOWS"
  BY CfgSteps
<1>2. ASSUME Msgs(to_switch') \subseteq Msgs(to_switch) \/ CfgQuiet, UNCHANGED flow_updates PROVE PutsTracked'
  BY <1>1, <1>2 DEF PutsTracked, CfgQuiet, IsPut
<1>3. CASE CfgQuiet \/ PutDone
  BY <1>2, <1>3 DEF CfgQuiet, PutDone
<1>4. CASE CfgCleared
  BY <1>4 DEF CfgCleared, PutsTracked, IsPut
<1>5. CASE CfgConfirmed
  <2> SUFFICES ASSUME NEW m \in Msgs(to_switch), IsPut(m)
               PROVE  /\ flow_updates' # <<>>
                      /\ m.xid <= flow_updates'[Len(flow_updates')].xid
    BY <1>1, <1>5 DEF CfgConfirmed, PutsTracked, IsPut
  <2>1. m.xid <= flow_updates[Len(flow_updates)].xid
    BY DEF PutsTracked
  <2>2. Head(to_ofctrl) \in Msgs(to_ofctrl)
    BY <1>0, <1>5 DEF CfgConfirmed, Msgs
  <2>3. flow_updates[1].xid < m.xid
    BY <1>0, <1>5, <2>2 DEF CfgConfirmed, OrderInv
  <2>4. \A i \in 1 .. Len(flow_updates) : flow_updates[i].xid \in Nat
    <3>1. \A i \in 1 .. Len(flow_updates) : flow_updates[i] \in FlowUpdate
      BY <1>0
    <3> QED
      BY <3>1 DEF FlowUpdate
  <2>5. m.xid \in Nat
    BY <1>0, MsgsTyped, RequestFields
  <2>6. Len(flow_updates) \in Nat /\ Len(flow_updates) >= 2
    <3>1. Len(flow_updates) \in Nat /\ Len(flow_updates) # 0
      BY <1>0, <1>5 DEF CfgConfirmed
    <3>2. Len(flow_updates) # 1
      BY <2>1, <2>3, <2>4, <2>5, <3>1
    <3>3. \A k \in Nat : k # 0 /\ k # 1 => k >= 2
      OBVIOUS
    <3> QED
      BY <3>1, <3>2, <3>3
  <2>7. /\ Len(flow_updates') = Len(flow_updates) - 1 /\ flow_updates' # <<>>
        /\ flow_updates'[Len(flow_updates) - 1] = flow_updates[Len(flow_updates)]
    <3>1. flow_updates' = Tail(flow_updates) /\ flow_updates # <<>>
      BY <1>5 DEF CfgConfirmed
    <3>2. Len(flow_updates') = Len(flow_updates) - 1
      BY <1>0, <3>1
    <3>3. \A i \in 1 .. Len(flow_updates) - 1 : flow_updates'[i] = flow_updates[i + 1]
      BY <1>0, <3>1
    <3>4. Len(flow_updates) - 1 \in 1 .. Len(flow_updates) - 1
      BY <2>6
    <3>5. flow_updates' # <<>>
      BY <2>6, <3>2
    <3> QED
      BY <2>6, <3>2, <3>3, <3>4, <3>5
  <2> QED
    BY <2>1, <2>7
<1>6. CASE PutAnswers /\ PutRaised
  <2> DEFINE n == Len(flow_updates)
             new == [xid |-> flow_updates[n].xid, req_cfg |-> ofctrl_req_seqno]
  <2>1. Len(flow_updates') = n /\ flow_updates' # <<>> /\ flow_updates'[n] = new
    BY <1>0, <1>6, LastRaised DEF PutRaised
  <2>2. new.xid = flow_updates[n].xid
    OBVIOUS
  <2> HIDE DEF new
  <2> QED
    BY <1>1, <1>6, <2>1, <2>2 DEF PutRaised, PutsTracked, IsPut
<1>7. CASE PutAnswers /\ PutTracked
  <2> DEFINE new == [xid |-> next_xid, req_cfg |-> ofctrl_req_seqno]
  <2>1. flow_updates' # <<>> /\ flow_updates'[Len(flow_updates')] = new
    BY <1>0, <1>7, TrackUpdateLast DEF PutTracked
  <2>2. new.xid = next_xid
    OBVIOUS
  <2>3. PICK m \in Request : m.xid = next_xid /\ to_switch' = Append(to_switch, m)
    BY <1>7 DEF PutTracked
  <2>4. Msgs(to_switch') = Msgs(to_switch) \cup {m}
    BY <1>0, <2>3, MsgsAppend
  <2>5. \A k \in Msgs(to_switch) : k.xid \in Nat /\ k.xid < next_xid
    BY <1>0, MsgsTyped, RequestFields DEF XidsIssued
  <2>6. \A k \in Msgs(to_switch') : k.xid <= next_xid
    BY <1>0, <2>3, <2>4, <2>5
  <2>7. state' = "S_UPDATE_FLOWS"
    BY <1>1, <1>7 DEF PutTracked
  <2> HIDE DEF new
  <2> QED
    BY <2>1, <2>2, <2>6, <2>7 DEF PutsTracked
<1> QED
  BY <1>3, <1>4, <1>5, <1>6, <1>7, CfgSteps

-----------------------------------------------------------------------------
(* What has reached the switch. *)

ReachedInv == sw_reached \in [Tables -> Int] /\ \A t \in Tables : sw_flows[t] <= sw_reached[t]

LEMMA MaxOfTwo ==
    ASSUME NEW a \in Int, NEW b \in Int
    PROVE  Max({a, b}) \in Int /\ a <= Max({a, b}) /\ b <= Max({a, b})
<1>1. \E x \in {a, b} : \A y \in {a, b} : x >= y
  OBVIOUS
<1>2. Max({a, b}) \in {a, b} /\ \A y \in {a, b} : Max({a, b}) >= y
  BY <1>1 DEF Max
<1> QED
  BY <1>2

LEMMA ReachedStep ==
    ASSUME LoopType, LoopType', ReachedInv, [Next]_vars, conn => conn'
    PROVE  /\ ReachedInv' /\ \A t \in Tables : sw_reached[t] <= sw_reached'[t]
           /\ to_switch = <<>> => UNCHANGED sw_flows
<1>0. sw_flows \in [Tables -> Int] /\ sw_flows' \in [Tables -> Int] /\ sw_reached \in [Tables -> Int]
  BY DEF LoopType, TableType, ReachedInv
<1>1. ASSUME UNCHANGED <<sw_flows, sw_reached>>
      PROVE  ReachedInv' /\ \A t \in Tables : sw_reached[t] <= sw_reached'[t]
  BY <1>0, <1>1 DEF ReachedInv
<1>2. CASE UNCHANGED ofctrl_vars
  BY <1>1, <1>2 DEF ofctrl_vars, switch_vars
<1>3. CASE UNCHANGED vars \/ Start \/ SbUpdate \/ CondReply \/ SbReply \/ SeqnoRunStart \/ SeqnoRun \/ IfAcks
           \/ Tail_of_iteration \/ Store
  BY <1>2, <1>3 DEF vars, Start, SbUpdate, CondReply, SbReply, SeqnoRunStart, SeqnoRun, IfAcks,
     Tail_of_iteration, Store
<1>4. CASE OvsCommitted \/ Clock \/ RequestNb \/ RequestIf
  BY <1>1, <1>4 DEF OvsCommitted, Clock, TimerDue, RequestNb, RequestIf, switch_vars
<1>5. CASE EngineRun
  <2>1. CASE \E allowed : EngineCompleted(allowed)
    BY <1>1, <2>1 DEF EngineCompleted
  <2> QED
    BY <1>2, <1>5, <2>1 DEF EngineRun, EngineAborted
<1>6. CASE Network
  BY <1>1, <1>6 DEF Network, Drop, Restart, Connect, Disconnect, switch_vars
<1>7. CASE RunBegin \/ Run \/ Recv \/ Put
  BY <1>1, <1>2, <1>7 DEF RunBegin, OfctrlRunBegin, Run, RunState, Recv, RecvMsg, Put, ofctrl_put, switch_vars
<1>8. CASE SwitchStep
  <2>0. to_switch # <<>>
    BY <1>8 DEF SwitchStep, Switch, SwitchTlvRequest, SwitchTlvMod, SwitchPut
  <2>1. CASE UNCHANGED <<sw_flows, sw_reached>>
    BY <1>1, <2>1
  <2>2. CASE \E m : /\ sw_flows' = [t \in Tables |-> Applied(m, t)]
                    /\ sw_reached' = [t \in Tables |-> Max({sw_reached[t], Applied(m, t)})]
    <3>1. PICK m : /\ sw_flows' = [t \in Tables |-> Applied(m, t)]
                   /\ sw_reached' = [t \in Tables |-> Max({sw_reached[t], Applied(m, t)})]
      BY <2>2
    <3>2. \A t \in Tables : sw_flows'[t] = Applied(m, t) /\ Applied(m, t) \in Int
      BY <1>0, <3>1
    <3>3. ASSUME NEW t \in Tables
          PROVE  /\ sw_reached'[t] \in Int /\ sw_reached[t] <= sw_reached'[t]
                 /\ sw_flows'[t] <= sw_reached'[t]
      <4>1. sw_reached'[t] = Max({sw_reached[t], Applied(m, t)}) /\ sw_reached[t] \in Int
        BY <1>0, <3>1
      <4> QED
        BY <3>2, <4>1, MaxOfTwo
    <3>4. sw_reached' \in [Tables -> Int]
      BY <3>1, <3>3
    <3> QED
      BY <2>0, <3>3, <3>4 DEF ReachedInv
  <2> QED
    BY <1>8, <2>1, <2>2 DEF SwitchStep, Switch, SwitchTlvRequest, SwitchTlvMod, SwitchPut, switch_vars
<1> QED
  BY <1>3, <1>4, <1>5, <1>6, <1>7, <1>8 DEF Next, Environment, Iteration

-----------------------------------------------------------------------------
(* What the flow updates promise. *)

\* Every put behind the first i requests was sent after barrier x.
Behind(x, i) == \A j \in i + 1 .. Len(to_switch) : IsPut(to_switch[j]) => x < to_switch[j].xid

NoPutAfter(i) == \A j \in i + 1 .. Len(to_switch) : ~IsPut(to_switch[j])

\* Only puts change what the switch holds.
Steady(v) == \A i \in 0 .. Len(to_switch) : NoPutAfter(i) => v[i] = v[Len(to_switch)]

\* What a request is about has reached the switch by the time the barrier of a
\* flow update for it is answered.
Awaited(v, t) ==
    \A r \in Requests, u \in Msgs(flow_updates), i \in 0 .. Len(to_switch) :
        r[1] <= u.req_cfg /\ Behind(u.xid, i) => r[2][t] <= v[i] \/ r[2][t] <= sw_reached[t]

\* What a request of a confirmed configuration is about has reached the switch.
Confirmed(t) == \A r \in Requests : r[1] <= cur_cfg => r[2][t] <= sw_reached[t]

LEMMA SteadyStep ==
    ASSUME LoopType, NEW t, NEW v, NEW w, Steady(v), Follows(w, v, t),
           conn' \/ (UNCHANGED to_switch /\ w = v)
    PROVE  Steady(w)'
<1> DEFINE n == Len(to_switch)
<1>0. to_switch \in Seq(Request) /\ n \in Nat
  BY DEF LoopType, ChannelType
<1>1. CASE UNCHANGED to_switch /\ w = v
  BY <1>1 DEF Steady, NoPutAfter
<1>2. ASSUME NEW m \in Request, to_switch' = Append(to_switch, m), \A i \in 0 .. n : w[i] = v[i],
             w[n + 1] = After(m, t, v[n])
      PROVE  Steady(w)'
  <2>1. /\ Len(to_switch') = n + 1 /\ to_switch'[n + 1] = m
        /\ \A i \in 1 .. n : to_switch'[i] = to_switch[i]
    BY <1>0, <1>2
  <2> SUFFICES ASSUME NEW i \in 0 .. n + 1, \A j \in i + 1 .. n + 1 : ~IsPut(to_switch'[j])
               PROVE  w[i] = w[n + 1]
    BY <2>1 DEF Steady, NoPutAfter, IsPut
  <2>2. CASE i = n + 1
    BY <2>2
  <2>3. CASE i \in 0 .. n
    <3>1. ~IsPut(m)
      BY <1>0, <2>1, <2>3
    <3>2. w[n + 1] = v[n]
      BY <1>2, <3>1 DEF After, IsPut
    <3>3. NoPutAfter(i)
      BY <1>0, <2>1, <2>3 DEF NoPutAfter
    <3>4. v[i] = v[n] /\ w[i] = v[i]
      BY <1>2, <2>3, <3>3 DEF Steady
    <3> QED
      BY <3>2, <3>4
  <2> QED
    BY <1>0, <2>2, <2>3
<1>3. CASE to_switch # <<>> /\ to_switch' = Tail(to_switch) /\ \A i \in 0 .. n - 1 : w[i] = v[i + 1]
  <2>1. /\ n \in Nat \ {0} /\ Len(to_switch') = n - 1
        /\ \A i \in 1 .. n - 1 : to_switch'[i] = to_switch[i + 1]
    BY <1>0, <1>3
  <2> SUFFICES ASSUME NEW i \in 0 .. n - 1, \A j \in i + 1 .. n - 1 : ~IsPut(to_switch'[j])
               PROVE  w[i] = w[n - 1]
    BY <2>1 DEF Steady, NoPutAfter, IsPut
  <2>2. i + 1 \in 0 .. n /\ w[i] = v[i + 1] /\ w[n - 1] = v[n]
    <3>1. i \in 0 .. n - 1 /\ n - 1 \in 0 .. n - 1 /\ i + 1 \in 0 .. n /\ (n - 1) + 1 = n
      BY <2>1
    <3>2. w[n - 1] = v[(n - 1) + 1]
      BY <1>3, <3>1
    <3> QED
      BY <1>3, <3>1, <3>2
  <2>3. NoPutAfter(i + 1)
    <3> SUFFICES ASSUME NEW j \in (i + 1) + 1 .. n PROVE ~IsPut(to_switch[j])
      BY DEF NoPutAfter
    <3>1. j - 1 \in i + 1 .. n - 1 /\ j - 1 \in 1 .. n - 1 /\ (j - 1) + 1 = j
      BY <2>1
    <3>2. to_switch'[j - 1] = to_switch[j]
      BY <2>1, <3>1
    <3> QED
      BY <3>1, <3>2
  <2> QED
    BY <2>2, <2>3 DEF Steady
<1> QED
  BY <1>1, <1>2, <1>3 DEF Follows


\* A barrier promises no less after a step than before it: b is what it promises.
LEMMA PromiseKept ==
    ASSUME LoopType, OrderInv', NEW t, NEW v, NEW w, Follows(w, v, t),
           conn' \/ (UNCHANGED to_switch /\ w = v),
           NEW x, NEW b, NEW c, NEW i \in 0 .. Len(to_switch'), Behind(x, i)',
           \A k \in 0 .. Len(to_switch) : Behind(x, k) => b <= v[k] \/ b <= c,
           \/ \A m \in Msgs(to_switch') : IsPut(m) => m \in Msgs(to_switch)
           \/ b <= w[Len(to_switch')]
    PROVE  b <= w[i] \/ b <= c
<1> DEFINE n == Len(to_switch)
<1>0. to_switch \in Seq(Request) /\ n \in Nat
  BY DEF LoopType, ChannelType
<1>1. CASE UNCHANGED to_switch /\ w = v
  BY <1>1 DEF Behind
<1>2. ASSUME NEW m \in Request, to_switch' = Append(to_switch, m), \A k \in 0 .. n : w[k] = v[k],
             w[n + 1] = After(m, t, v[n])
      PROVE  b <= w[i] \/ b <= c
  <2>1. /\ Len(to_switch') = n + 1 /\ to_switch'[n + 1] = m
        /\ \A k \in 1 .. n : to_switch'[k] = to_switch[k]
    BY <1>0, <1>2
  <2>2. CASE i \in 0 .. n
    <3>1. Behind(x, i)
      BY <1>0, <2>1, <2>2 DEF Behind, IsPut
    <3> QED
      BY <1>2, <2>2, <3>1
  <2>3. CASE i = n + 1 /\ ~IsPut(m)
    <3>1. w[n + 1] = v[n]
      BY <1>2, <2>3 DEF After, IsPut
    <3>2. Behind(x, n)
      BY <1>0 DEF Behind
    <3> QED
      BY <1>0, <2>3, <3>1, <3>2
  <2>4. CASE i = n + 1 /\ IsPut(m)
    <3>1. m \in Msgs(to_switch')
      BY <1>0, <2>1 DEF Msgs
    <3>2. m \notin Msgs(to_switch)
      <4> SUFFICES ASSUME NEW k \in 1 .. n, to_switch[k] = m PROVE FALSE
        BY DEF Msgs
      <4>1. k < n + 1 /\ k \in 1 .. n + 1 /\ n + 1 \in 1 .. n + 1 /\ to_switch'[k] = m
        BY <1>0, <2>1
      <4>2. m.xid < m.xid
        BY <2>1, <4>1 DEF OrderInv
      <4>3. m.xid \in Nat
        BY RequestFields
      <4> QED
        BY <4>2, <4>3
    <3> QED
      BY <2>1, <2>4, <3>1, <3>2
  <2> QED
    BY <1>0, <2>1, <2>2, <2>3, <2>4
<1>3. CASE to_switch # <<>> /\ to_switch' = Tail(to_switch) /\ \A k \in 0 .. n - 1 : w[k] = v[k + 1]
  <2>1. /\ n \in Nat \ {0} /\ Len(to_switch') = n - 1
        /\ \A k \in 1 .. n - 1 : to_switch'[k] = to_switch[k + 1]
    BY <1>0, <1>3
  <2>2. i + 1 \in 0 .. n /\ w[i] = v[i + 1]
    <3>1. i \in 0 .. n - 1 /\ i + 1 \in 0 .. n
      BY <2>1
    <3> QED
      BY <1>3, <3>1
  <2>3. Behind(x, i + 1)
    <3> SUFFICES ASSUME NEW j \in (i + 1) + 1 .. n, IsPut(to_switch[j]) PROVE x < to_switch[j].xid
      BY DEF Behind
    <3>1. j - 1 \in i + 1 .. n - 1 /\ j - 1 \in 1 .. n - 1 /\ (j - 1) + 1 = j
      BY <2>1
    <3>2. to_switch'[j - 1] = to_switch[j]
      BY <2>1, <3>1
    <3> QED
      BY <2>1, <3>1, <3>2 DEF Behind, IsPut
  <2> QED
    BY <2>2, <2>3
<1> QED
  BY <1>1, <1>2, <1>3 DEF Follows

\* Only ofctrl_put() makes a flow update, the last one.
LEMMA NewUpdates ==
    ASSUME LoopType, ConnInv, UpInv, TablesInv, TablesInv', AskedInv, UpdatesInv, [Next]_vars, conn => conn'
    PROVE  \A u \in Msgs(flow_updates') \ Msgs(flow_updates) :
               /\ PutAnswers /\ flow_updates' # <<>>
               /\ u.xid = flow_updates'[Len(flow_updates')].xid
<1>0. /\ next_xid \in Nat /\ flow_updates \in Seq(FlowUpdate) /\ ofctrl_req_seqno \in Nat
      /\ \A u \in Msgs(flow_updates) : u.req_cfg <= ofctrl_req_seqno
  BY DEF LoopType, ChannelType, UpdatesInv, AskedInv
<1>1. CASE CfgQuiet \/ PutDone
  BY <1>1 DEF CfgQuiet, PutDone
<1>2. CASE CfgCleared
  BY <1>2, MsgsNone DEF CfgCleared
<1>3. CASE CfgConfirmed
  BY <1>0, <1>3, MsgsTail DEF CfgConfirmed
<1>4. CASE PutAnswers /\ PutRaised
  <2> DEFINE n == Len(flow_updates)
             new == [xid |-> flow_updates[n].xid, req_cfg |-> ofctrl_req_seqno]
  <2>1. /\ Len(flow_updates') = n /\ flow_updates' # <<>> /\ flow_updates'[n] = new
        /\ Msgs(flow_updates') \subseteq Msgs(flow_updates) \cup {new}
    BY <1>0, <1>4, LastRaised DEF PutRaised
  <2> HIDE DEF new
  <2> QED
    BY <1>4, <2>1
<1>5. CASE PutAnswers /\ PutTracked
  <2> DEFINE new == [xid |-> next_xid, req_cfg |-> ofctrl_req_seqno]
  <2>1. /\ flow_updates' # <<>> /\ flow_updates'[Len(flow_updates')] = new
        /\ Msgs(flow_updates') \subseteq Msgs(flow_updates) \cup {new}
    BY <1>0, <1>5, TrackUpdateLast DEF PutTracked
  <2> HIDE DEF new
  <2> QED
    BY <1>5, <2>1
<1> QED
  BY <1>1, <1>2, <1>3, <1>4, <1>5, CfgSteps

\* When ofctrl_put() answers for a configuration, the switch will hold what the
\* requests are about once it has processed what is on its way.
LEMMA SettledCovers ==
    ASSUME AskedInv', PutAnswers, NEW t \in Tables, NEW w, Leads(w, t)'
    PROVE  \A r \in Requests : r[2][t] <= w[Len(to_switch')]
<1>1. w[Len(to_switch')] = input'[t] /\ Requests' = Requests
  BY DEF PutAnswers, Settled, Leads
<1> QED
  BY <1>1 DEF AskedInv

LEMMA AwaitedStep ==
    ASSUME LoopType, LoopType', ConnInv, UpInv, TablesInv, TablesInv', AskedInv, AskedInv', UpdatesInv, UpdatesInv',
           OrderInv', PutsTracked', ReachedInv, ReachedInv', [Next]_vars, conn => conn',
           NEW t \in Tables, NEW v, NEW w, Leads(v, t), Leads(w, t)', Follows(w, v, t),
           conn' \/ (UNCHANGED to_switch /\ w = v),
           Steady(w)', Awaited(v, t)
    PROVE  Awaited(w, t)'
<1> SUFFICES ASSUME NEW r \in Requests', NEW u \in Msgs(flow_updates'), NEW i \in 0 .. Len(to_switch'),
                    r[1] <= u.req_cfg, Behind(u.xid, i)'
             PROVE  r[2][t] <= w[i] \/ r[2][t] <= sw_reached'[t]
  BY DEF Awaited, Behind, IsPut
<1>1. CASE u \in Msgs(flow_updates)
  <2>1. u \in FlowUpdate /\ u.req_cfg <= ofctrl_req_seqno
    BY <1>1, MsgsTyped DEF UpdatesInv
  <2>2. u.req_cfg \in Nat /\ ofctrl_req_seqno \in Nat
    BY <2>1 DEF FlowUpdate, AskedInv
  <2>3. r \in Requests
    <3>1. RequestsSame \/ RequestsGrow
      BY AskedStep
    <3>2. \A n : r = <<ofctrl_req_seqno + 1, n>> => r[1] = ofctrl_req_seqno + 1
      OBVIOUS
    <3>3. r[1] # ofctrl_req_seqno + 1
      BY <2>1, <2>2
    <3> QED
      BY <3>1, <3>2, <3>3 DEF RequestsSame, RequestsGrow
  <2>4. r[2][t] \in Nat
    BY <2>3, RequestsTyped
  <2>5. sw_reached[t] \in Int /\ sw_reached'[t] \in Int /\ sw_reached[t] <= sw_reached'[t]
    BY ReachedStep DEF ReachedInv
  <2>6. \A k \in 0 .. Len(to_switch) :
           Behind(u.xid, k) => r[2][t] <= v[k] \/ r[2][t] <= sw_reached[t]
    BY <1>1, <2>3 DEF Awaited
  <2>7. \/ \A m \in Msgs(to_switch') : IsPut(m) => m \in Msgs(to_switch)
        \/ r[2][t] <= w[Len(to_switch')]
    <3>1. CASE PutAnswers
      BY <2>3, <3>1, SettledCovers
    <3>2. CASE ~PutAnswers
      BY <3>2, CfgSteps DEF CfgQuiet, CfgCleared, CfgConfirmed
    <3> QED
      BY <3>1, <3>2
  <2>8. r[2][t] <= w[i] \/ r[2][t] <= sw_reached[t]
    BY <2>6, <2>7, PromiseKept
  <2> QED
    BY <2>4, <2>5, <2>8
<1>2. CASE u \notin Msgs(flow_updates)
  <2>1. PutAnswers /\ flow_updates' # <<>> /\ u.xid = flow_updates'[Len(flow_updates')].xid
    BY <1>2, NewUpdates
  <2>2. r[2][t] <= w[Len(to_switch')]
    BY <2>1, SettledCovers DEF PutAnswers
  <2>3. NoPutAfter(i)'
    <3> SUFFICES ASSUME NEW j \in i + 1 .. Len(to_switch'), IsPut(to_switch'[j]) PROVE FALSE
      BY DEF NoPutAfter, IsPut
    <3>1. j \in 1 .. Len(to_switch') /\ to_switch' \in Seq(Request)
      BY DEF LoopType, ChannelType
    <3>2. to_switch'[j] \in Msgs(to_switch') /\ to_switch'[j].xid \in Nat
      BY <3>1, RequestFields DEF Msgs
    <3>3. to_switch'[j].xid <= u.xid
      BY <2>1, <3>2 DEF PutsTracked, IsPut
    <3>4. u.xid < to_switch'[j].xid
      BY DEF Behind, IsPut
    <3>5. u.xid \in Nat
      BY MsgsTyped DEF UpdatesInv, FlowUpdate
    <3> QED
      BY <3>2, <3>3, <3>4, <3>5
  <2>4. w[i] = w[Len(to_switch')]
    BY <2>3 DEF Steady
  <2> QED
    BY <2>2, <2>4
<1> QED
  BY <1>1, <1>2

LEMMA ConfirmedStep ==
    ASSUME LoopType, LoopType', ConnInv, UpInv, TablesInv, TablesInv', AskedInv, AskedInv', UpdatesInv,
           OrderInv, PutsTracked', ReachedInv, ReachedInv', [Next]_vars, conn => conn',
           NEW t \in Tables, NEW v, NEW w, Leads(v, t), Leads(w, t)', Steady(w)', Awaited(v, t),
           Confirmed(t)
    PROVE  Confirmed(t)'
<1>0. /\ sw_reached[t] \in Int /\ sw_reached'[t] \in Int /\ sw_reached[t] <= sw_reached'[t]
      /\ sw_flows[t] \in Int /\ sw_flows[t] <= sw_reached[t]
      /\ sw_flows'[t] \in Int /\ sw_flows'[t] <= sw_reached'[t]
      /\ cur_cfg \in Nat /\ ofctrl_req_seqno \in Nat /\ cur_cfg <= ofctrl_req_seqno
      /\ to_switch \in Seq(Request) /\ to_ofctrl \in Seq(Answer) /\ flow_updates \in Seq(FlowUpdate)
  BY ReachedStep DEF ReachedInv, LoopType, TableType, ChannelType, UpdatesInv, AskedInv
<1> SUFFICES ASSUME NEW r \in Requests', r[1] <= cur_cfg' PROVE r[2][t] <= sw_reached'[t]
  BY DEF Confirmed
<1>1. ASSUME r \in Requests, r[2][t] <= sw_reached[t] PROVE r[2][t] <= sw_reached'[t]
  <2>1. r[2][t] \in Nat
    BY <1>1, RequestsTyped
  <2> QED
    BY <1>0, <1>1, <2>1
<1>2. CASE UNCHANGED cur_cfg
  <2>1. r \in Requests
    <3>1. RequestsSame \/ RequestsGrow
      BY AskedStep
    <3>2. \A n : r = <<ofctrl_req_seqno + 1, n>> => r[1] = ofctrl_req_seqno + 1
      OBVIOUS
    <3>3. r[1] # ofctrl_req_seqno + 1
      BY <1>0, <1>2
    <3> QED
      BY <3>1, <3>2, <3>3 DEF RequestsSame, RequestsGrow
  <2> QED
    BY <1>1, <1>2, <2>1 DEF Confirmed
<1>3. CASE CfgConfirmed /\ cur_cfg' # cur_cfg
  <2> DEFINE u == Head(flow_updates)
  <2>1. u \in Msgs(flow_updates) /\ cur_cfg' = u.req_cfg /\ Head(to_ofctrl) \in Msgs(to_ofctrl)
        /\ u.xid = Head(to_ofctrl).xid
    BY <1>0, <1>3 DEF CfgConfirmed, Msgs
  <2>2. u.req_cfg \in Nat /\ u.req_cfg <= ofctrl_req_seqno
    BY <1>0, <2>1, MsgsTyped DEF UpdatesInv, FlowUpdate
  <2>3. Behind(u.xid, 0)
    <3> SUFFICES ASSUME NEW j \in 1 .. Len(to_switch) PROVE u.xid < to_switch[j].xid
      BY DEF Behind
    <3>1. to_switch[j] \in Msgs(to_switch)
      BY DEF Msgs
    <3> QED
      BY <2>1, <3>1 DEF OrderInv
  <2>4. r \in Requests
    <3>1. RequestsSame \/ RequestsGrow
      BY AskedStep
    <3>2. \A n : r = <<ofctrl_req_seqno + 1, n>> => r[1] = ofctrl_req_seqno + 1
      OBVIOUS
    <3>3. r[1] # ofctrl_req_seqno + 1
      BY <1>0, <2>1, <2>2
    <3> QED
      BY <3>1, <3>2, <3>3 DEF RequestsSame, RequestsGrow
  <2>5. r[2][t] <= v[0] \/ r[2][t] <= sw_reached[t]
    <3>1. 0 \in 0 .. Len(to_switch)
      BY <1>0
    <3> QED
      BY <2>1, <2>3, <2>4, <3>1 DEF Awaited
  <2>6. r[2][t] \in Nat /\ v[0] = sw_flows[t]
    BY <2>4, RequestsTyped DEF Leads
  <2> HIDE DEF u
  <2> QED
    BY <1>0, <1>1, <2>4, <2>5, <2>6
<1>4. CASE PutAnswers /\ PutDone
  <2>1. r \in Requests /\ r[2][t] <= w[Len(to_switch')]
    BY <1>4, SettledCovers DEF PutAnswers
  <2>2. NoPutAfter(0)'
    <3>1. \A j \in 1 .. Len(to_switch') : ~IsPut(to_switch'[j])
      BY <1>4 DEF PutDone, PutsTracked, Msgs, IsPut
    <3> QED
      BY <3>1 DEF NoPutAfter, IsPut
  <2>3. w[0] = w[Len(to_switch')]
    <3>1. 0 \in 0 .. Len(to_switch')
      BY DEF LoopType, ChannelType
    <3> QED
      BY <2>2, <3>1 DEF Steady
  <2>4. w[0] = sw_flows'[t] /\ r[2][t] \in Nat
    BY <2>1, RequestsTyped DEF Leads
  <2> QED
    BY <1>0, <2>1, <2>3, <2>4
<1> QED
  BY <1>2, <1>3, <1>4, CfgSteps DEF CfgQuiet, CfgCleared, PutRaised, PutTracked

-----------------------------------------------------------------------------

\* What the switch answers and what the process believes of it, while nothing is
\* refused.
AckTable(v, t) == Leads(v, t) /\ Steady(v) /\ Awaited(v, t) /\ Confirmed(t)

\* The inductive invariant: the flow tables and the connection (FlowTablesProofs),
\* the order of requests and answers, the requests of the applications, the flow
\* updates, and what they promise of every table.
AckInv ==
    /\ LoopType /\ HoldInv /\ TablesInv /\ SwitchInv
    /\ XidsIssued /\ OrderInv /\ UpInv /\ AskedInv /\ UpdatesInv /\ RunInv /\ PutsTracked /\ ReachedInv
    /\ n_errors = 0 => \A t \in Tables : \E v : AckTable(v, t)

LEMMA AckInit == Init => AckInv
<1> SUFFICES ASSUME Init PROVE AckInv
  OBVIOUS
<1> USE DEF Init, OfctrlInit, SeqnoInit
<1>1. LoopType /\ HoldInv /\ TablesInv /\ SwitchInv
  BY TablesInit
<1>2. Msgs(to_switch) = {} /\ Msgs(to_ofctrl) = {} /\ Msgs(flow_updates) = {} /\ Len(to_switch) = 0
  BY MsgsNone
<1>3. XidsIssued /\ OrderInv /\ UpInv /\ RunInv /\ PutsTracked
  BY <1>2 DEF XidsIssued, OrderInv, UpInv, RunInv, PutsTracked
<1>4. Requests = {}
  BY DEF Requests
<1>5. AskedInv
  <2>1. type_req_cfg \in [Types -> Nat] /\ type_req_cfg[NbType] = 0 /\ type_req_cfg[IfType] = 0
    BY LoopTypesAssumption
  <2>2. /\ ofctrl_seqno_updates \in Seq(Asked) /\ needs \in Seq([Tables -> Nat])
        /\ Len(needs) = Len(ofctrl_seqno_updates)
    OBVIOUS
  <2> QED
    BY <1>4, <2>1, <2>2 DEF AskedInv
<1>6. UpdatesInv
  BY <1>2 DEF UpdatesInv
<1>7. ReachedInv
  BY DEF ReachedInv, Foreign, Empty
<1>8. ASSUME n_errors = 0, NEW t \in Tables PROVE \E v : AckTable(v, t)
  <2>1. PICK v : Leads(v, t)
    BY <1>1, <1>8 DEF SwitchInv
  <2>2. Steady(v)
    BY <1>2 DEF Steady
  <2> QED
    BY <1>4, <2>1, <2>2 DEF AckTable, Awaited, Confirmed
<1> QED
  BY <1>1, <1>3, <1>5, <1>6, <1>7, <1>8 DEF AckInv

LEMMA AckStep == AckInv /\ [Next]_vars /\ (conn => conn') => AckInv'
<1> SUFFICES ASSUME AckInv, [Next]_vars, conn => conn' PROVE AckInv'
  OBVIOUS
<1> USE DEF AckInv
<1>1. LoopType' /\ HoldInv' /\ TablesInv' /\ SwitchInv' /\ ConnInv
  BY TypeStep, HoldStep, TablesStep, SwitchStepInv DEF SwitchInv
<1>2. XidsIssued' /\ OrderInv' /\ UpInv' /\ AskedInv' /\ RunInv' /\ ReachedInv'
  BY <1>1, XidsStep, OrderStep, UpStep, AskedStep, RunInvStep, ReachedStep
<1>3. UpdatesInv' /\ PutsTracked'
  BY <1>1, <1>2, UpdatesStep, PutsStep
<1>4. ASSUME n_errors' = 0, NEW t \in Tables PROVE \E w : AckTable(w, t)'
  <2>1. n_errors = 0
    BY <1>1, <1>4, ErrorsStay DEF ConnInv
  <2>2. PICK v : Leads(v, t) /\ Steady(v) /\ Awaited(v, t) /\ Confirmed(t)
    BY <2>1 DEF AckTable
  <2>3. PICK w : Leads(w, t)' /\ Follows(w, v, t) /\ (conn' \/ (UNCHANGED to_switch /\ w = v))
    <3>1. CASE conn'
      BY <1>1, <1>4, <2>2, <3>1, LeadsStep
    <3>2. CASE ~conn'
      <4>1. to_switch = <<>> /\ to_switch' = <<>>
        BY <1>1, <3>2 DEF SwitchInv, ConnInv
      <4>2. UNCHANGED sw_flows
        BY <1>1, <4>1, ReachedStep
      <4>3. Leads(v, t)' /\ Follows(v, v, t)
        BY <2>2, <3>2, <4>1, <4>2, LeadsKept DEF InSync
      <4> QED
        BY <4>1, <4>3
    <3> QED
      BY <3>1, <3>2
  <2>4. Steady(w)'
    BY <2>2, <2>3, SteadyStep
  <2>5. Awaited(w, t)'
    BY <1>1, <1>2, <1>3, <2>2, <2>3, <2>4, AwaitedStep
  <2>6. Confirmed(t)'
    BY <1>1, <1>2, <1>3, <2>2, <2>3, <2>4, ConfirmedStep
  <2> QED
    BY <2>3, <2>4, <2>5, <2>6 DEF AckTable
<1> QED
  BY <1>1, <1>2, <1>3, <1>4 DEF AckInv

\* ofctrl-seqno.c: "when the barrier corresponding to the 'flow_cfg' sequence
\* number is replied to by OVS then it is safe to inform the application".  While
\* the connection stays up and the switch refuses no message, whatever puts are
\* skipped, merged into one update or found to need no message: when
\* ofctrl_seqno_run() takes a request, every table's contents that the request was
\* made for have reached the switch.  (A reconnection that is over before the engine
\* looks at the connection breaks it: the run ack_reconnect.)
THEOREM AckedIsInstalled ==
    Spec /\ [][conn => conn']_vars => [](n_errors = 0 => AckOnlyInstalled)
<1>1. AckInv => (n_errors = 0 => AckOnlyInstalled)
  <2> SUFFICES ASSUME AckInv, n_errors = 0, run_cfg # Idle, Covered(run_cfg), NEW t \in Tables
               PROVE  sw_reached[t] >= Head(needs)[t]
    BY DEF AckOnlyInstalled
  <2>1. PICK v : AckTable(v, t)
    BY DEF AckInv
  <2>2. /\ ofctrl_seqno_updates \in Seq(Asked) /\ ofctrl_seqno_updates # <<>>
        /\ needs \in Seq([Tables -> Nat]) /\ Len(needs) = Len(ofctrl_seqno_updates)
    BY DEF AckInv, AskedInv, Covered
  <2>3. /\ 1 \in 1 .. Len(ofctrl_seqno_updates) /\ needs # <<>>
        /\ Head(ofctrl_seqno_updates) = ofctrl_seqno_updates[1] /\ Head(needs) = needs[1]
    BY <2>2
  <2>4. <<ofctrl_seqno_updates[1].flow_cfg, needs[1]>> \in Requests
    BY <2>3 DEF Requests
  <2>5. needs[1][t] \in Nat /\ ofctrl_seqno_updates[1].flow_cfg \in Nat
    <3>1. needs[1] \in [Tables -> Nat] /\ ofctrl_seqno_updates[1] \in Asked
      BY <2>2, <2>3
    <3> QED
      BY <3>1 DEF Asked
  <2>6. cur_cfg \in Nat /\ cur_cfg >= ofctrl_seqno_updates[1].flow_cfg
    BY <2>3 DEF AckInv, RunInv, UpdatesInv, Covered
  <2>7. needs[1][t] <= sw_reached[t] /\ sw_reached[t] \in Int
    BY <2>1, <2>4, <2>5, <2>6 DEF AckTable, Confirmed, AckInv, ReachedInv
  <2> QED
    BY <2>3, <2>5, <2>7
<1>2. AckInv /\ [Next]_vars /\ [conn => conn']_vars => AckInv'
  <2> SUFFICES ASSUME AckInv, [Next]_vars, [conn => conn']_vars PROVE AckInv'
    OBVIOUS
  <2>1. UNCHANGED vars => UNCHANGED conn
    BY DEF vars, ofctrl_vars, net_vars
  <2> QED
    BY <2>1, AckStep
<1> QED
  BY <1>1, <1>2, AckInit, PTL DEF Spec
=============================================================================
