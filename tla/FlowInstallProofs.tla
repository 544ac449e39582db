------------------------- MODULE FlowInstallProofs -------------------------
(***************************************************************************)
(* What the loop of ovn-controller guarantees for any number of tables,    *)
(* conntrack zones, configurations, lost connections and switch restarts.  *)
(***************************************************************************)
EXTENDS FlowInstall, TLAPS

USE TlvAssumption, WaitAssumption, BudgetAssumption, FlowBoundsAssumption, NTypesAssumption

-----------------------------------------------------------------------------
(* Messages in a channel: what a channel holds when one is sent or taken. *)

Msgs(s) == {s[i] : i \in 1 .. Len(s)}

LEMMA MsgsNone == Msgs(<<>>) = {}
BY DEF Msgs

LEMMA MsgsTyped ==
    ASSUME NEW S, NEW s \in Seq(S)
    PROVE  Msgs(s) \subseteq S
BY DEF Msgs

LEMMA MsgsHead ==
    ASSUME NEW S, NEW s \in Seq(S), s # <<>>
    PROVE  Head(s) \in Msgs(s) /\ Head(s) \in S
BY DEF Msgs

LEMMA MsgsTail ==
    ASSUME NEW S, NEW s \in Seq(S), s # <<>>
    PROVE  Tail(s) \in Seq(S) /\ Msgs(Tail(s)) \subseteq Msgs(s)
<1>1. Tail(s) \in Seq(S) /\ Len(Tail(s)) = Len(s) - 1
  OBVIOUS
<1>2. \A i \in 1 .. Len(Tail(s)) : Tail(s)[i] = s[i + 1] /\ i + 1 \in 1 .. Len(s)
  BY <1>1
<1> QED
  BY <1>1, <1>2 DEF Msgs

LEMMA MsgsAppend ==
    ASSUME NEW S, NEW s \in Seq(S), NEW m \in S
    PROVE  Append(s, m) \in Seq(S) /\ Msgs(Append(s, m)) = Msgs(s) \cup {m}
<1>1. Append(s, m) \in Seq(S) /\ Len(Append(s, m)) = Len(s) + 1
  OBVIOUS
<1>2. \A i \in 1 .. Len(s) : Append(s, m)[i] = s[i]
  OBVIOUS
<1>3. Append(s, m)[Len(s) + 1] = m
  OBVIOUS
<1>4. Len(s) \in Nat
  OBVIOUS
<1> QED
  BY <1>1, <1>2, <1>3, <1>4 DEF Msgs

-----------------------------------------------------------------------------
(* Types of the channels, of the flow tables and of the zones. *)

TlvRequest == [type : {"tlv_request"}, xid : Nat]
TlvMod == [type : {"tlv_mod"}, xid : Nat, xid2 : Nat]
PutRequest ==
    UNION {[type : {"put"}, xid : Nat, flush : SUBSET Zones, clear : BOOLEAN,
            from : [ts -> Int], to : [ts -> Int]] : ts \in SUBSET Tables}
Request == TlvRequest \cup TlvMod \cup PutRequest

TlvInfo == {"ours", "free", "full", "unsupported"}
Answer == [type : {"error", "tlv_reply", "barrier"}, xid : Nat,
           info : TlvInfo \cup {"refused", "raced", ""}]

ChannelType ==
    /\ to_switch \in Seq(Request) /\ to_ofctrl \in Seq(Answer)
    /\ xid \in Nat /\ xid2 \in Nat /\ next_xid \in Nat \ {0}
    /\ sw_tlv \in TlvInfo

ZoneType ==
    /\ zone_state \in [Zones -> ZoneStates]
    /\ zone_xid \in [Zones -> Nat]

TableType ==
    /\ input \in [Tables -> Nat \ {0}]
    /\ desired \in [Tables -> Nat] /\ tracked_from \in [Tables -> Nat]
    /\ change_tracked \in [Tables -> BOOLEAN]
    /\ installed \in [Tables -> Int] /\ sw_flows \in [Tables -> Int]
    /\ updated \subseteq Tables
    /\ ofctrl_initial_clear \in BOOLEAN /\ skipped_last_time \in BOOLEAN

LoopType == ChannelType /\ ZoneType /\ TableType

\* The request ofctrl_put() sends is a request.
LEMMA PutIsRequest ==
    ASSUME NEW id \in Nat, NEW flush \in SUBSET Zones, NEW clear \in BOOLEAN,
           NEW ts \in SUBSET Tables, NEW f \in [ts -> Int], NEW g \in [ts -> Int]
    PROVE  [type |-> "put", xid |-> id, flush |-> flush, clear |-> clear,
            from |-> f, to |-> g] \in Request
<1> DEFINE R == [type : {"put"}, xid : Nat, flush : SUBSET Zones, clear : BOOLEAN,
                 from : [ts -> Int], to : [ts -> Int]]
<1>1. [type |-> "put", xid |-> id, flush |-> flush, clear |-> clear, from |-> f, to |-> g] \in R
  OBVIOUS
<1>2. R \subseteq PutRequest
  BY DEF PutRequest
<1> QED
  BY <1>1, <1>2 DEF Request

\* The type of a request tells its fields.
LEMMA RequestFields ==
    ASSUME NEW m \in Request
    PROVE  /\ m.xid \in Nat
           /\ m.type = "tlv_mod" => m.xid2 \in Nat
           /\ m.type = "put" =>
                 /\ m.flush \subseteq Zones /\ m.clear \in BOOLEAN
                 /\ \E ts \in SUBSET Tables : m.from \in [ts -> Int] /\ m.to \in [ts -> Int]
<1>1. CASE m \in TlvRequest
  BY <1>1 DEF TlvRequest
<1>2. CASE m \in TlvMod
  BY <1>2 DEF TlvMod
<1>3. CASE m \in PutRequest
  <2>1. PICK ts \in SUBSET Tables :
          m \in [type : {"put"}, xid : Nat, flush : SUBSET Zones, clear : BOOLEAN,
                 from : [ts -> Int], to : [ts -> Int]]
    BY <1>3 DEF PutRequest
  <2>2. m.from \in [ts -> Int] /\ m.to \in [ts -> Int]
    BY <2>1
  <2>3. m.flush \subseteq Zones /\ m.clear \in BOOLEAN /\ m.xid \in Nat /\ m.type = "put"
    BY <2>1
  <2> QED
    BY <2>2, <2>3
<1> QED
  BY <1>1, <1>2, <1>3 DEF Request


\* Messages from the switch.
LEMMA RecvKeepsTypes ==
    ASSUME NEW m, RecvMsg(m), LoopType
    PROVE  ChannelType' /\ ZoneType'
<1> USE DEF LoopType
<1>0. to_ofctrl # <<>> /\ m = Head(to_ofctrl) /\ m \in Answer
  BY MsgsHead DEF RecvMsg, Received, ChannelType
<1>1. Tail(to_ofctrl) \in Seq(Answer)
  BY <1>0, MsgsTail DEF ChannelType
<1>2. <<>> \in Seq(Answer) /\ <<>> \in Seq(Request)
  OBVIOUS
<1>3. UNCHANGED sw_tlv
  BY DEF RecvMsg, switch_vars
<1>4. ASSUME ofctrl_recv(m) PROVE ChannelType' /\ ZoneType'
  BY <1>1, <1>2, <1>3, <1>4 DEF ofctrl_recv, Disconnect, Consume, fsm_vars, zone_vars, ChannelType, ZoneType
<1>5. CASE recv_S_TLV_TABLE_REQUESTED(m)
  <2>1. [type |-> "tlv_mod", xid |-> next_xid, xid2 |-> next_xid + 1] \in Request
    BY DEF Request, TlvMod, ChannelType
  <2>2. QueueMsg([type |-> "tlv_mod", xid |-> next_xid, xid2 |-> next_xid + 1]) \in Seq(Request)
    BY <2>1, MsgsAppend DEF QueueMsg, ChannelType
  <2>3. CASE ofctrl_recv(m)
    BY <1>4, <2>3
  <2>4. CASE ~ofctrl_recv(m)
    <3>1. UNCHANGED zone_vars /\ to_ofctrl' = Tail(to_ofctrl)
          /\ to_switch' \in {to_switch, QueueMsg([type |-> "tlv_mod", xid |-> next_xid, xid2 |-> next_xid + 1])}
      BY <1>5, <2>4 DEF recv_S_TLV_TABLE_REQUESTED, Consume
    <3>2. xid' \in Nat /\ xid2' \in Nat /\ next_xid' \in Nat \ {0}
      <4>1. xid \in Nat /\ xid2 \in Nat /\ next_xid \in Nat /\ next_xid # 0
        BY DEF ChannelType
      <4>2. /\ xid' \in {xid, next_xid} /\ xid2' \in {xid2, next_xid + 1}
            /\ next_xid' \in {next_xid, next_xid + 2}
        BY <1>5, <2>4 DEF recv_S_TLV_TABLE_REQUESTED
      <4> QED
        BY <4>1, <4>2
    <3> QED
      BY <1>1, <1>3, <2>2, <3>1, <3>2 DEF ChannelType, ZoneType, zone_vars
  <2> QED
    BY <2>3, <2>4
<1>6. CASE recv_S_TLV_TABLE_MOD_SENT(m)
  BY <1>1, <1>3, <1>4, <1>6 DEF recv_S_TLV_TABLE_MOD_SENT, Consume, zone_vars, ChannelType, ZoneType
<1>7. CASE recv_S_WAIT_or_CLEAR(m)
  BY <1>4, <1>7 DEF recv_S_WAIT_or_CLEAR
<1>8. CASE recv_S_UPDATE_FLOWS(m)
  BY <1>1, <1>3, <1>4, <1>8 DEF recv_S_UPDATE_FLOWS, Consume, fsm_vars, ChannelType, ZoneType, ZoneStates
<1> QED
  BY <1>5, <1>6, <1>7, <1>8 DEF RecvMsg

\* The switch answers with one message, or with an error and a barrier reply.
LEMMA AnswersTyped ==
    \A s \in Seq(Answer), m, n \in Answer :
        {Append(s, m), s \o <<>> \o <<m>>, s \o <<m>> \o <<n>>, s \o <<m, n>>} \subseteq Seq(Answer)
OBVIOUS

LEMMA AnswerAdded ==
    \A s \in Seq(Answer), m \in Answer :
        /\ Msgs(Append(s, m)) = Msgs(s) \cup {m}
        /\ Msgs(s \o <<>> \o <<m>>) = Msgs(s) \cup {m}
<1> SUFFICES ASSUME NEW s \in Seq(Answer), NEW m \in Answer
             PROVE  /\ Msgs(Append(s, m)) = Msgs(s) \cup {m}
                    /\ Msgs(s \o <<>> \o <<m>>) = Msgs(s) \cup {m}
  OBVIOUS
<1>1. Msgs(Append(s, m)) = Msgs(s) \cup {m}
  BY MsgsAppend
<1>2. s \o <<>> \o <<m>> = Append(s, m)
  OBVIOUS
<1> QED
  BY <1>1, <1>2

LEMMA AnswersAdded ==
    ASSUME to_ofctrl \in Seq(Answer), NEW m \in Answer, NEW n \in Answer
    PROVE  /\ Msgs(to_ofctrl \o <<m>> \o <<n>>) = Msgs(to_ofctrl) \cup {m, n}
           /\ Msgs(to_ofctrl \o <<m, n>>) = Msgs(to_ofctrl) \cup {m, n}
<1> DEFINE s == to_ofctrl
<1>0. s \in Seq(Answer)
  OBVIOUS
<1> HIDE DEF s
<1>1. Append(s, m) \in Seq(Answer) /\ Msgs(Append(s, m)) = Msgs(s) \cup {m}
  BY <1>0, MsgsAppend
<1>2. \A r \in Seq(Answer) : Append(r, n) \in Seq(Answer) /\ Msgs(Append(r, n)) = Msgs(r) \cup {n}
  BY <1>0, MsgsAppend
<1>3. s \o <<m, n>> = Append(Append(s, m), n)
  BY <1>0
<1>4. s \o <<m>> \o <<n>> = Append(Append(s, m), n)
  BY <1>0
<1>5. Msgs(Append(Append(s, m), n)) = Msgs(s) \cup {m, n}
  BY <1>1, <1>2
<1>6. Msgs(s \o <<m>> \o <<n>>) = Msgs(s) \cup {m, n}
  BY <1>4, <1>5
<1>7. Msgs(s \o <<m, n>>) = Msgs(s) \cup {m, n}
  BY <1>3, <1>5
<1> QED
  BY <1>6, <1>7 DEF s

LEMMA Answered ==
    ASSUME to_ofctrl \in Seq(Answer), NEW b \in Answer, NEW e \in Answer,
           \/ to_ofctrl' = Append(to_ofctrl, b)
           \/ to_ofctrl' = to_ofctrl \o <<>> \o <<b>>
           \/ to_ofctrl' = to_ofctrl \o <<e>> \o <<b>>
           \/ to_ofctrl' = to_ofctrl \o <<e, b>>
    PROVE  Msgs(to_ofctrl') \subseteq Msgs(to_ofctrl) \cup {b, e}
<1>1. Msgs(to_ofctrl') = Msgs(to_ofctrl) \cup {b} \/ Msgs(to_ofctrl') = Msgs(to_ofctrl) \cup {e, b}
  <2>1. CASE to_ofctrl' = Append(to_ofctrl, b)
    BY <2>1, AnswerAdded
  <2>2. CASE to_ofctrl' = to_ofctrl \o <<>> \o <<b>>
    BY <2>2, AnswerAdded
  <2>3. CASE to_ofctrl' = to_ofctrl \o <<e>> \o <<b>>
    BY <2>3, AnswersAdded
  <2>4. CASE to_ofctrl' = to_ofctrl \o <<e, b>>
    BY <2>4, AnswersAdded
  <2> QED
    BY <2>1, <2>2, <2>3, <2>4
<1> QED
  BY <1>1

\* Messages to the switch.
LEMMA SwitchKeepsTypes ==
    ASSUME Switch, LoopType
    PROVE  ChannelType' /\ UNCHANGED zone_vars /\ sw_flows' \in [Tables -> Int]
           /\ UNCHANGED <<table_vars, skipped_last_time>>
<1> USE DEF LoopType, ChannelType
<1>1. CASE SwitchTlvRequest
  <2>1. Head(to_switch).xid \in Nat /\ Tail(to_switch) \in Seq(Request)
    BY <1>1, MsgsHead, MsgsTail, RequestFields DEF SwitchTlvRequest
  <2>2. Reply("error", Head(to_switch).xid, "refused") \in Answer
        /\ Reply("tlv_reply", Head(to_switch).xid, sw_tlv) \in Answer
    BY <2>1 DEF Reply, Answer
  <2> QED
    BY <1>1, <2>1, <2>2, MsgsAppend DEF SwitchTlvRequest, fsm_vars, switch_vars, cfg_vars, TableType
<1>2. CASE SwitchTlvMod
  <2> DEFINE m == Head(to_switch)
  <2>1. m.xid \in Nat /\ m.xid2 \in Nat /\ Tail(to_switch) \in Seq(Request)
    BY <1>2, MsgsHead, MsgsTail, RequestFields DEF SwitchTlvMod
  <2>2. /\ Reply("barrier", m.xid2, "") \in Answer /\ Reply("error", m.xid, "raced") \in Answer
        /\ Reply("error", m.xid, "refused") \in Answer
    BY <2>1 DEF Reply, Answer
  <2> DEFINE b == Reply("barrier", m.xid2, "")
             raced == Reply("error", m.xid, "raced")
             refused == Reply("error", m.xid, "refused")
  <2>3. to_ofctrl' \in Seq(Answer)
    <3>1. \/ to_ofctrl' = to_ofctrl \o <<>> \o <<b>>
          \/ to_ofctrl' = to_ofctrl \o <<raced>> \o <<b>>
          \/ to_ofctrl' = to_ofctrl \o <<refused>> \o <<b>>
      BY <1>2 DEF SwitchTlvMod
    <3>2. b \in Answer /\ raced \in Answer /\ refused \in Answer
      BY <2>2
    <3> HIDE DEF b, raced, refused
    <3> QED
      BY <3>1, <3>2, AnswersTyped
  <2>4. sw_tlv' \in TlvInfo
    BY <1>2 DEF SwitchTlvMod, TlvInfo
  <2> QED
    BY <1>2, <2>1, <2>3, <2>4 DEF SwitchTlvMod, fsm_vars, cfg_vars, TableType
<1>3. CASE SwitchPut
  <2> DEFINE m == Head(to_switch)
  <2>1. m \in Request /\ m.type = "put" /\ Tail(to_switch) \in Seq(Request)
    BY <1>3, MsgsHead, MsgsTail DEF SwitchPut
  <2>2. /\ Reply("barrier", m.xid, "") \in Answer /\ Reply("error", 0, "refused") \in Answer
    BY <2>1, RequestFields DEF Reply, Answer
  <2> DEFINE b == Reply("barrier", m.xid, "")
             refused == Reply("error", 0, "refused")
  <2>3. to_ofctrl' \in Seq(Answer)
    <3>1. to_ofctrl' = Append(to_ofctrl, b) \/ to_ofctrl' = to_ofctrl \o <<refused, b>>
      BY <1>3 DEF SwitchPut
    <3>2. b \in Answer /\ refused \in Answer
      BY <2>2
    <3> HIDE DEF b, refused
    <3> QED
      BY <3>1, <3>2, AnswersTyped
  <2>4. ASSUME NEW t \in Tables PROVE Applied(m, t) \in Int
    <3>1. PICK ts \in SUBSET Tables : m.from \in [ts -> Int] /\ m.to \in [ts -> Int]
      BY <2>1, RequestFields
    <3>2. sw_flows[t] \in Int
      BY DEF TableType
    <3> HIDE DEF m
    <3> QED
      BY <3>1, <3>2 DEF Applied, Empty, Mixed
  <2>5. sw_flows' \in [Tables -> Int]
    BY <1>3, <2>4 DEF SwitchPut, TableType
  <2> QED
    BY <1>3, <2>1, <2>3, <2>5 DEF SwitchPut, fsm_vars, cfg_vars
<1> QED
  BY <1>1, <1>2, <1>3 DEF Switch

\* The request ofctrl_put() sends is a request.
LEMMA PutTyped ==
    ASSUME NEW changed \in SUBSET Tables, LoopType
    PROVE  LET flush == {z \in Zones : zone_state[z] = "OF_QUEUED"}
               differing == {t \in Touched(changed) : SentFrom(t) # desired[t]}
           IN  [type |-> "put", xid |-> next_xid, flush |-> flush, clear |-> ofctrl_initial_clear,
                from |-> [t \in differing |-> SentFrom(t)],
                to |-> [t \in differing |-> desired[t]]] \in Request
<1> DEFINE flush == {z \in Zones : zone_state[z] = "OF_QUEUED"}
           differing == {t \in Touched(changed) : SentFrom(t) # desired[t]}
<1>1. Touched(changed) \subseteq Tables
  BY DEF Touched
<1>2. \A t \in Tables : SentFrom(t) \in Int /\ desired[t] \in Int
  BY DEF SentFrom, LoopType, TableType
<1>3. differing \in SUBSET Tables /\ flush \in SUBSET Zones
  BY <1>1
<1>4. [t \in differing |-> SentFrom(t)] \in [differing -> Int]
      /\ [t \in differing |-> desired[t]] \in [differing -> Int]
  BY <1>1, <1>2
<1>5. next_xid \in Nat /\ ofctrl_initial_clear \in BOOLEAN
  BY DEF LoopType, ChannelType, TableType
<1> HIDE DEF flush, differing
<1>6. [type |-> "put", xid |-> next_xid, flush |-> flush, clear |-> ofctrl_initial_clear,
       from |-> [t \in differing |-> SentFrom(t)], to |-> [t \in differing |-> desired[t]]] \in Request
  BY <1>3, <1>4, <1>5, PutIsRequest
<1> QED
  BY <1>6 DEF flush, differing

\* ofctrl_put().
LEMMA PutKeepsTypes ==
    ASSUME NEW req, NEW changed \in SUBSET Tables, ofctrl_put(req, changed), LoopType
    PROVE  /\ ChannelType' /\ ZoneType' /\ UNCHANGED <<sw_flows, desired>>
           /\ tracked_from' \in [Tables -> Nat] /\ change_tracked' \in [Tables -> BOOLEAN]
           /\ installed' \in [Tables -> Int]
           /\ ofctrl_initial_clear' \in BOOLEAN /\ skipped_last_time' \in BOOLEAN
<1> USE DEF LoopType
<1>0. UNCHANGED <<xid, xid2, sw_flows, sw_tlv>>
  BY DEF ofctrl_put, switch_vars
<1>1. CASE PutNotNeeded(req, changed)
  BY <1>0, <1>1 DEF PutNotNeeded, net_vars, table_vars, zone_vars, ChannelType, ZoneType, TableType
<1>2. CASE \E backlog \in HasBacklog : PutSkipped(req, changed, backlog)
  BY <1>0, <1>2 DEF PutSkipped, net_vars, table_vars, zone_vars, ChannelType, ZoneType, TableType
<1>3. ASSUME NEW backlog, PutSend(req, changed, backlog)
      PROVE  /\ ChannelType' /\ ZoneType' /\ UNCHANGED desired
             /\ tracked_from' \in [Tables -> Nat] /\ change_tracked' \in [Tables -> BOOLEAN]
             /\ installed' \in [Tables -> Int]
             /\ ofctrl_initial_clear' \in BOOLEAN /\ skipped_last_time' \in BOOLEAN
  <2> DEFINE flush == {z \in Zones : zone_state[z] = "OF_QUEUED"}
             differing == {t \in Touched(changed) : SentFrom(t) # desired[t]}
             put == [type |-> "put", xid |-> next_xid, flush |-> flush,
                     clear |-> ofctrl_initial_clear,
                     from |-> [t \in differing |-> SentFrom(t)],
                     to |-> [t \in differing |-> desired[t]]]
  <2>2. \A t \in Tables : SentFrom(t) \in Int /\ desired[t] \in Int
    BY DEF SentFrom, TableType
  <2>3. put \in Request
    BY PutTyped
  <2>4. QueueMsg(put) \in Seq(Request)
    <3> HIDE DEF put
    <3> QED
      BY <2>3, MsgsAppend DEF QueueMsg, ChannelType
  <2>5. to_switch' \in {to_switch, QueueMsg(put)} /\ next_xid' \in {next_xid, next_xid + 1}
        /\ UNCHANGED to_ofctrl
    BY <1>3 DEF PutSend
  <2>6. ChannelType'
    <3> HIDE DEF put
    <3> QED
      BY <1>0, <2>4, <2>5 DEF ChannelType
  <2>7. ZoneType'
    BY <1>3 DEF PutSend, zone_vars, ZoneType, ZoneStates, ChannelType
  <2>8. installed' \in [Tables -> Int]
    BY <1>3, <2>2 DEF PutSend, TableType, Mixed
  <2>9. tracked_from' = desired /\ change_tracked' = [t \in Tables |-> TRUE] /\ UNCHANGED desired
        /\ ofctrl_initial_clear' = FALSE /\ skipped_last_time' = FALSE
    BY <1>3 DEF PutSend
  <2> QED
    BY <2>6, <2>7, <2>8, <2>9 DEF TableType
<1> QED
  BY <1>0, <1>1, <1>2, <1>3 DEF ofctrl_put

\* Every step keeps the types.
LEMMA TypeStep == LoopType /\ [Next]_vars => LoopType'
<1> SUFFICES ASSUME LoopType, [Next]_vars PROVE LoopType'
  OBVIOUS
<1> DEFINE Unmoved == UNCHANGED <<to_switch, to_ofctrl, xid, xid2, next_xid, sw_tlv, zone_state, zone_xid,
                                  input, desired, tracked_from, change_tracked, installed, sw_flows,
                                  updated, ofctrl_initial_clear, skipped_last_time>>
<1>0. ASSUME Unmoved PROVE LoopType'
  BY <1>0 DEF LoopType, ChannelType, ZoneType, TableType
<1>1. ASSUME UNCHANGED <<ofctrl_vars, input, updated>> PROVE LoopType'
  BY <1>0, <1>1 DEF ofctrl_vars, net_vars, switch_vars, fsm_vars, table_vars, cfg_vars, zone_vars
<1> USE DEF LoopType
<1>2. CASE UNCHANGED vars \/ Start \/ SbReply \/ RequestIf \/ SeqnoRunStart \/ SeqnoRun \/ IfAcks
           \/ Tail_of_iteration \/ Clock
  <2>1. CASE RequestIf
    BY <1>0, <2>1 DEF RequestIf, net_vars, switch_vars, fsm_vars, table_vars, cfg_vars, zone_vars, db_vars,
                      engine_vars
  <2>2. CASE Clock
    BY <1>0, <2>2 DEF Clock, TimerDue, net_vars, switch_vars, fsm_vars, table_vars, cfg_vars, zone_vars, db_vars,
                      engine_vars
  <2> QED
    BY <1>1, <1>2, <2>1, <2>2 DEF vars, Start, SbReply, SeqnoRunStart, SeqnoRun, IfAcks,
       Tail_of_iteration, db_vars, engine_vars
<1>3. CASE Store
  BY <1>3 DEF Store, ofctrl_vars, net_vars, switch_vars, fsm_vars, table_vars, cfg_vars, zone_vars, db_vars,
     ChannelType, ZoneType, TableType
<1>4. CASE SbUpdate \/ CondReply
  <2>1. UNCHANGED <<ofctrl_vars, updated>> /\ input' \in [Tables -> Nat \ {0}]
    BY <1>4 DEF SbUpdate, CondReply, engine_vars, TableType
  <2> QED
    BY <2>1 DEF ofctrl_vars, net_vars, switch_vars, fsm_vars, table_vars, cfg_vars, zone_vars,
       ChannelType, ZoneType, TableType
<1>5. CASE OvsCommitted \/ RequestNb
  <2>1. zone_state' \in [Zones -> ZoneStates] /\ UNCHANGED zone_xid
    BY <1>5 DEF OvsCommitted, RequestNb, commit_ct_zones, ZoneType, ZoneStates
  <2>2. UNCHANGED <<net_vars, switch_vars, fsm_vars, table_vars, cfg_vars, input, updated>>
    BY <1>5 DEF OvsCommitted, RequestNb, db_vars, engine_vars
  <2> QED
    BY <2>1, <2>2 DEF net_vars, switch_vars, fsm_vars, table_vars, cfg_vars, ChannelType, ZoneType, TableType
<1>6. CASE Network
  <2>1. UNCHANGED <<fsm_vars, table_vars, cfg_vars, zone_vars, input, updated>>
    BY <1>6 DEF Network, Drop, Restart, Connect, db_vars, engine_vars
  <2>2. to_switch' \in {to_switch, <<>>} /\ to_ofctrl' \in {to_ofctrl, <<>>}
    BY <1>6 DEF Network, Drop, Restart, Connect, Disconnect
  <2>3. sw_tlv' \in {sw_tlv, "free"} /\ sw_flows' \in {sw_flows, [t \in Tables |-> Empty]}
    BY <1>6 DEF Network, Drop, Restart, Connect, switch_vars
  <2>4. ChannelType'
    <3>1. <<>> \in Seq(Request) /\ <<>> \in Seq(Answer)
      OBVIOUS
    <3>2. to_switch' \in Seq(Request) /\ to_ofctrl' \in Seq(Answer)
      BY <2>2, <3>1 DEF ChannelType
    <3> QED
      BY <2>1, <2>3, <3>2 DEF fsm_vars, ChannelType, TlvInfo
  <2>5. ZoneType' /\ TableType'
    BY <2>1, <2>3 DEF table_vars, cfg_vars, zone_vars, ZoneType, TableType, Empty
  <2> QED
    BY <2>4, <2>5
<1>7. CASE SwitchStep
  BY <1>7, SwitchKeepsTypes DEF SwitchStep, db_vars, engine_vars, table_vars, zone_vars, ZoneType, TableType
<1>8. CASE RunBegin
  <2>1. CASE conn
    <3>1. zone_state' \in {zone_state, ZonesRequeued}
      BY <1>8, <2>1 DEF RunBegin, OfctrlRunBegin
    <3>2. UNCHANGED <<to_switch, to_ofctrl, switch_vars, xid, xid2, next_xid, table_vars, cfg_vars, zone_xid,
                      input, updated>>
      BY <1>8, <2>1 DEF RunBegin, OfctrlRunBegin, db_vars
    <3> QED
      BY <3>1, <3>2 DEF switch_vars, table_vars, cfg_vars, ZonesRequeued, ZoneStates, ChannelType, ZoneType, TableType
  <2>2. CASE ~conn
    BY <1>1, <1>8, <2>2 DEF RunBegin, db_vars
  <2> QED
    BY <2>1, <2>2
<1>9. CASE Run
  <2>0. UNCHANGED <<switch_vars, zone_vars, input, updated>>
    BY <1>9 DEF Run, RunState, db_vars, engine_vars
  <2>1. CASE run_S_NEW
    <3>1. [type |-> "tlv_request", xid |-> next_xid] \in Request
      BY DEF Request, TlvRequest, ChannelType
    <3>2. QueueMsg([type |-> "tlv_request", xid |-> next_xid]) \in Seq(Request)
      BY <3>1, MsgsAppend DEF QueueMsg, ChannelType
    <3> QED
      BY <2>0, <2>1, <3>2 DEF run_S_NEW, switch_vars, zone_vars, table_vars, cfg_vars, ChannelType, ZoneType,
         TableType
  <2>2. CASE run_nothing \/ run_S_WAIT_BEFORE_CLEAR
    BY <1>0, <2>0, <2>2 DEF run_nothing, run_S_WAIT_BEFORE_CLEAR, net_vars, fsm_vars, switch_vars, table_vars,
       cfg_vars, zone_vars
  <2>3. CASE run_S_CLEAR_FLOWS
    BY <2>0, <2>3 DEF run_S_CLEAR_FLOWS, InstalledCleared, Empty, net_vars, switch_vars, desired_vars, zone_vars,
       ChannelType, ZoneType, TableType
  <2> QED
    BY <1>9, <2>1, <2>2, <2>3 DEF Run, RunState
<1>10. CASE Recv
  <2>1. CASE RecvMsg(Head(to_ofctrl))
    <3>1. UNCHANGED <<sw_flows, table_vars, skipped_last_time, input, updated>>
      BY <1>10, <2>1 DEF Recv, RecvMsg, switch_vars, db_vars, engine_vars, recv_S_TLV_TABLE_REQUESTED,
         recv_S_TLV_TABLE_MOD_SENT, recv_S_WAIT_or_CLEAR, recv_S_UPDATE_FLOWS, ofctrl_recv, cfg_vars
    <3> QED
      BY <2>1, <3>1, RecvKeepsTypes DEF table_vars, TableType
  <2> QED
    BY <1>1, <1>10, <2>1 DEF Recv, db_vars, engine_vars
<1>11. CASE EngineRun
  <2>0. PICK backlog \in HasBacklog :
        LET allowed == ~sb_busy /\ ~backlog IN
        \/ /\ EngineSkipped(allowed)
           /\ UNCHANGED <<seqno_vars, ofctrl_vars, db_vars, engine_run_aborted, engine,
                          updated, of_connected, needs>>
        \/ EngineAborted(allowed)
        \/ EngineCompleted(allowed)
    BY <1>11 DEF EngineRun
  <2> DEFINE allowed == ~sb_busy /\ ~backlog
  <2>1. CASE UNCHANGED <<ofctrl_vars, db_vars, updated>>
    BY <1>1, <2>1 DEF db_vars
  <2>2. CASE EngineCompleted(allowed)
    <3>1. UNCHANGED <<to_switch, to_ofctrl, xid, xid2, next_xid, sw_tlv, zone_xid, input, tracked_from, installed,
                      sw_flows, ofctrl_initial_clear, skipped_last_time>>
      BY <2>2 DEF EngineCompleted, net_vars, fsm_vars, cfg_vars
    <3>2. desired' = input /\ updated' \subseteq Tables /\ change_tracked' \in [Tables -> BOOLEAN]
      BY <2>2 DEF EngineCompleted, Dirty, TableType
    <3>3. zone_state' \in [Zones -> ZoneStates]
      BY <2>2 DEF EngineCompleted, QueueZones, ZoneStates, ZoneType
    <3> QED
      BY <3>1, <3>2, <3>3 DEF ChannelType, ZoneType, TableType
  <2> QED
    BY <2>0, <2>1, <2>2 DEF EngineAborted
<1>12. CASE Put
  <2>1. CASE ofctrl_put(ofctrl_req_seqno, updated)
    BY <1>12, <2>1, PutKeepsTypes DEF Put, TableType, db_vars, engine_vars
  <2> QED
    BY <1>1, <1>12, <2>1 DEF Put, db_vars, engine_vars
<1> QED
  BY <1>2, <1>3, <1>4, <1>5, <1>6, <1>7, <1>8, <1>9, <1>10, <1>11, <1>12 DEF Next, Environment, Iteration

LEMMA TypeInit == Init => LoopType
<1> SUFFICES ASSUME Init PROVE LoopType
  OBVIOUS
<1>1. <<>> \in Seq(Request) /\ <<>> \in Seq(Answer)
  OBVIOUS
<1>2. ChannelType
  BY <1>1 DEF Init, OfctrlInit, ChannelType, TlvInfo
<1>3. ZoneType
  BY DEF Init, OfctrlInit, ZoneType, ZoneStates
<1>4. TableType
  <2>1. input \in [Tables -> Nat \ {0}]
    BY DEF Init
  <2>2. desired \in [Tables -> Nat] /\ tracked_from \in [Tables -> Nat] /\ installed \in [Tables -> Int]
    BY DEF Init, OfctrlInit, Empty
  <2>3. sw_flows \in [Tables -> Int]
    BY DEF Init, OfctrlInit, Foreign
  <2>4. change_tracked \in [Tables -> BOOLEAN] /\ updated \subseteq Tables
        /\ ofctrl_initial_clear \in BOOLEAN /\ skipped_last_time \in BOOLEAN
    BY DEF Init, OfctrlInit
  <2> QED
    BY <2>1, <2>2, <2>3, <2>4 DEF TableType
<1> QED
  BY <1>2, <1>3, <1>4 DEF LoopType

-----------------------------------------------------------------------------
(***************************************************************************)
(* The hold before old flows are cleared (ofctrl-wait-before-clear).       *)
(***************************************************************************)
\* initial_flows_ready and an expired timer stand for this connection: the
\* outputs are valid only from the engine run to the end of an iteration, and
\* only in between does initial_flows_ready become true.
HoldInv ==
    /\ {may_clear, cond_pending, initial_flows_ready} \subseteq BOOLEAN
    /\ WaitHonoured
    /\ wait_before_clear_expire = "due" => may_clear
    /\ initial_flows_ready => may_clear
    /\ pc \in {"start", "top", "run", "recv", "engine"} => engine = "stale"
    /\ pc \in {"nb", "if"} /\ OutputsValid /\ ~cond_pending => may_clear

\* A message from the switch never takes the connection to S_CLEAR_FLOWS.
LEMMA RecvKeepsHold ==
    ASSUME NEW m, RecvMsg(m), HoldInv
    PROVE  /\ state' = "S_CLEAR_FLOWS" => state = "S_CLEAR_FLOWS"
           /\ UNCHANGED wait_vars
<1>1. UNCHANGED wait_vars
  BY DEF RecvMsg
<1>2. ASSUME ofctrl_recv(m) PROVE state' = state
  BY <1>2 DEF ofctrl_recv, fsm_vars
<1>3. CASE recv_S_TLV_TABLE_REQUESTED(m)
  BY <1>1, <1>2, <1>3 DEF recv_S_TLV_TABLE_REQUESTED
<1>4. CASE recv_S_TLV_TABLE_MOD_SENT(m)
  BY <1>1, <1>2, <1>4 DEF recv_S_TLV_TABLE_MOD_SENT, AfterTlvMod
<1>5. CASE recv_S_WAIT_or_CLEAR(m)
  BY <1>1, <1>2, <1>5 DEF recv_S_WAIT_or_CLEAR
<1>6. CASE recv_S_UPDATE_FLOWS(m)
  BY <1>1, <1>2, <1>6 DEF recv_S_UPDATE_FLOWS, fsm_vars
<1> QED
  BY <1>3, <1>4, <1>5, <1>6 DEF RecvMsg

\* Every step of the loop and of its surroundings keeps the hold.
LEMMA HoldStep == HoldInv /\ [Next]_vars => HoldInv'
<1> SUFFICES ASSUME HoldInv, [Next]_vars PROVE HoldInv'
  OBVIOUS
<1> USE DEF HoldInv, WaitHonoured, OutputsValid
<1>1. CASE UNCHANGED vars
  BY <1>1 DEF vars, ofctrl_vars, fsm_vars, wait_vars, db_vars, engine_vars
<1>2. CASE Start
  BY <1>2 DEF Start, Goto, ofctrl_vars, fsm_vars, wait_vars, db_vars, engine_vars
<1>3. CASE SbUpdate
  BY <1>3 DEF SbUpdate, ofctrl_vars, fsm_vars, wait_vars, engine_vars
<1>4. CASE CondReply
  BY <1>4 DEF CondReply, ofctrl_vars, fsm_vars, wait_vars, engine_vars
<1>5. CASE SbReply
  BY <1>5 DEF SbReply, ofctrl_vars, fsm_vars, wait_vars, db_vars
<1>6. CASE OvsCommitted
  BY <1>6 DEF OvsCommitted, fsm_vars, wait_vars, db_vars, engine_vars
<1>7. CASE Network
  <2>1. UNCHANGED <<state, wait_vars, db_vars, pc, engine_vars>>
    BY <1>7 DEF Network, Drop, Restart, Connect, fsm_vars
  <2> QED
    BY <2>1 DEF wait_vars, db_vars, engine_vars
<1>8. CASE SwitchStep
  <2>1. UNCHANGED <<fsm_vars, wait_vars>>
    BY <1>8 DEF SwitchStep, Switch, SwitchTlvRequest, SwitchTlvMod, SwitchPut
  <2> QED
    BY <1>8, <2>1 DEF SwitchStep, fsm_vars, wait_vars, db_vars, engine_vars
<1>9. CASE Clock
  BY <1>9 DEF Clock, TimerDue, fsm_vars, db_vars, engine_vars
<1>10. CASE RunBegin
  <2>1. CASE conn
    BY <1>10, <2>1 DEF RunBegin, OfctrlRunBegin, HoldReset, Goto, db_vars
  <2>2. CASE ~conn
    BY <1>10, <2>2 DEF RunBegin, Goto, ofctrl_vars, fsm_vars, wait_vars, db_vars
  <2> QED
    BY <2>1, <2>2
<1>11. CASE Run
  <2> USE <1>11 DEF Run, RunState, Goto, db_vars, engine_vars
  <2>1. CASE run_S_NEW
    BY <2>1 DEF run_S_NEW, wait_vars
  <2>2. CASE run_nothing
    BY <2>2 DEF run_nothing, fsm_vars, wait_vars
  <2>3. CASE run_S_WAIT_BEFORE_CLEAR
    BY <2>3 DEF run_S_WAIT_BEFORE_CLEAR, WaitDecision
  <2>4. CASE run_S_CLEAR_FLOWS
    BY <2>4 DEF run_S_CLEAR_FLOWS, wait_vars
  <2> QED
    BY <2>1, <2>2, <2>3, <2>4
<1>12. CASE Recv
  <2>1. CASE RecvMsg(Head(to_ofctrl))
    BY <1>12, <2>1, RecvKeepsHold DEF Recv, Goto, wait_vars, db_vars, engine_vars
  <2>2. CASE UNCHANGED ofctrl_vars
    BY <1>12, <2>2 DEF Recv, Goto, ofctrl_vars, fsm_vars, wait_vars, db_vars, engine_vars
  <2> QED
    BY <1>12, <2>1, <2>2 DEF Recv
<1>13. CASE EngineRun
  <2> PICK backlog \in HasBacklog :
        LET allowed == ~sb_busy /\ ~backlog IN
        \/ /\ EngineSkipped(allowed)
           /\ UNCHANGED <<seqno_vars, ofctrl_vars, db_vars, engine_run_aborted, engine,
                          updated, of_connected, needs>>
        \/ EngineAborted(allowed)
        \/ EngineCompleted(allowed)
    BY <1>13 DEF EngineRun
  <2> DEFINE allowed == ~sb_busy /\ ~backlog
  <2>0. pc = "engine" /\ pc' = "nb"
    BY <1>13 DEF EngineRun, Goto
  <2>1. CASE EngineSkipped(allowed) /\ UNCHANGED <<seqno_vars, ofctrl_vars, db_vars, engine_run_aborted,
                                                   engine, updated, of_connected, needs>>
    BY <2>0, <2>1 DEF ofctrl_vars, fsm_vars, wait_vars, db_vars
  <2>2. CASE EngineAborted(allowed)
    BY <2>0, <2>2 DEF EngineAborted, ofctrl_vars, fsm_vars, wait_vars, db_vars
  <2>3. CASE EngineCompleted(allowed)
    <3>1. cond_pending' \in BOOLEAN
      BY <2>3 DEF EngineCompleted, Widen
    <3>2. may_clear' = (may_clear \/ ~cond_pending')
      BY <2>3 DEF EngineCompleted
    <3>3. UNCHANGED <<state, wait_before_clear_time, wait_before_clear_expire, initial_flows_ready>>
      BY <2>3 DEF EngineCompleted, fsm_vars
    <3> QED
      BY <2>0, <3>1, <3>2, <3>3
  <2> QED
    BY <2>1, <2>2, <2>3
<1>14. CASE RequestNb
  BY <1>14 DEF RequestNb, Goto, fsm_vars, wait_vars, db_vars, engine_vars
<1>15. CASE RequestIf
  BY <1>15 DEF RequestIf, InitialFlowsReady, Goto, fsm_vars, db_vars, engine_vars
<1>16. CASE Put
  BY <1>16 DEF Put, ofctrl_put, Goto, ofctrl_vars, fsm_vars, wait_vars, db_vars, engine_vars
<1>17. CASE SeqnoRunStart
  BY <1>17 DEF SeqnoRunStart, Goto, ofctrl_vars, fsm_vars, wait_vars, db_vars, engine_vars
<1>18. CASE SeqnoRun
  BY <1>18 DEF SeqnoRun, Goto, ofctrl_vars, fsm_vars, wait_vars, db_vars, engine_vars
<1>19. CASE IfAcks
  BY <1>19 DEF IfAcks, Goto, ofctrl_vars, fsm_vars, wait_vars, db_vars, engine_vars
<1>20. CASE Tail_of_iteration
  BY <1>20 DEF Tail_of_iteration, Goto, ofctrl_vars, fsm_vars, wait_vars, db_vars
<1>21. CASE Store
  BY <1>21 DEF Store, Goto, ofctrl_vars, fsm_vars, wait_vars, db_vars
<1> QED
  BY <1>1, <1>2, <1>3, <1>4, <1>5, <1>6, <1>7, <1>8, <1>9, <1>10, <1>11, <1>12, <1>13, <1>14, <1>15,
     <1>16, <1>17, <1>18, <1>19, <1>20, <1>21
  DEF Next, Environment, Iteration

\* ovn-ofctrl-wait-before-clear: for every configuration, the flows of an
\* earlier connection are cleared only without a configured wait, or after the
\* timer of this connection or once its flows were complete.
THEOREM WaitAlwaysHonoured == Spec => []WaitHonoured
<1>1. Init => HoldInv
  BY DEF Init, OfctrlInit, HoldInv, WaitHonoured, OutputsValid
<1>2. HoldInv => WaitHonoured
  BY DEF HoldInv
<1> QED
  BY <1>1, <1>2, HoldStep, PTL DEF Spec

-----------------------------------------------------------------------------
(***************************************************************************)
(* Conntrack zones: the flush of a zone is confirmed by the barrier behind *)
(* it, and only then is the zone recorded in the database.                 *)
(***************************************************************************)
\* A zone whose flush is under way waits for the barrier of the request that
\* holds the flush: no other barrier, sent earlier or later, has its number.
Outstanding(z, id) == zone_state[z] = "OF_SENT" /\ zone_xid[z] = id

ZonesWait ==
    /\ \A z \in Zones : zone_xid[z] < next_xid
    /\ FlushedBeforeCommit

RequestsWait ==
    \A m \in Msgs(to_switch) :
        /\ m.type = "tlv_mod" => m.xid2 < next_xid /\ \A z \in Zones : zone_xid[z] # m.xid2
        /\ m.type = "put" =>
              m.xid < next_xid /\ \A z \in Zones : Outstanding(z, m.xid) => z \in m.flush

AnswersWait ==
    \A m \in Msgs(to_ofctrl) :
        m.type = "barrier" =>
            m.xid < next_xid /\ \A z \in Zones : Outstanding(z, m.xid) => z \in sw_flushed

FlushInv == ZonesWait /\ RequestsWait /\ AnswersWait

\* A step that sends nothing, confirms nothing and asks for no flush of its own.
LEMMA FlushKept ==
    ASSUME LoopType, LoopType', FlushInv,
           Msgs(to_switch)' \subseteq Msgs(to_switch), Msgs(to_ofctrl)' \subseteq Msgs(to_ofctrl),
           next_xid' >= next_xid, UNCHANGED zone_xid,
           \A z \in Zones : zone_state'[z] = "OF_SENT" =>
               zone_state[z] = "OF_SENT" /\ (z \in sw_flushed => z \in sw_flushed'),
           FlushedBeforeCommit'
    PROVE  FlushInv'
<1>0. /\ to_switch \in Seq(Request) /\ to_switch' \in Seq(Request)
      /\ to_ofctrl \in Seq(Answer)
      /\ next_xid \in Nat /\ next_xid' \in Nat
      /\ zone_xid \in [Zones -> Nat] /\ zone_xid' \in [Zones -> Nat]
  BY DEF LoopType, ChannelType, ZoneType
<1>00. /\ \A z \in Zones : zone_xid[z] \in Nat /\ zone_xid[z] < next_xid
       /\ FlushedBeforeCommit /\ RequestsWait /\ AnswersWait
  BY <1>0 DEF FlushInv, ZonesWait
<1>1. ZonesWait'
  BY <1>0, <1>00 DEF ZonesWait
<1>2. RequestsWait'
  <2> SUFFICES ASSUME NEW m \in Msgs(to_switch)'
               PROVE  /\ m.type = "tlv_mod" => m.xid2 < next_xid' /\ \A z \in Zones : zone_xid'[z] # m.xid2
                      /\ m.type = "put" => m.xid < next_xid' /\ \A z \in Zones : Outstanding(z, m.xid)' => z \in m.flush
    BY DEF RequestsWait
  <2>1. m \in Msgs(to_switch) /\ m \in Request
    BY <1>0, MsgsTyped
  <2>2. m.xid \in Nat /\ (m.type = "tlv_mod" => m.xid2 \in Nat)
    BY <2>1, RequestFields
  <2>3. CASE m.type = "tlv_mod"
    BY <1>0, <1>00, <2>1, <2>2, <2>3 DEF RequestsWait
  <2>4. CASE m.type = "put"
    BY <1>0, <1>00, <2>1, <2>2, <2>4 DEF RequestsWait, Outstanding
  <2> QED
    BY <2>3, <2>4
<1>3. AnswersWait'
  <2> SUFFICES ASSUME NEW m \in Msgs(to_ofctrl)', m.type = "barrier"
               PROVE  m.xid < next_xid' /\ \A z \in Zones : Outstanding(z, m.xid)' => z \in sw_flushed'
    BY DEF AnswersWait
  <2>1. m \in Msgs(to_ofctrl) /\ m \in Answer
    BY <1>0, MsgsTyped
  <2>2. m.xid \in Nat
    BY <2>1 DEF Answer
  <2> QED
    BY <1>0, <1>00, <2>1, <2>2 DEF AnswersWait, Outstanding
<1> QED
  BY <1>1, <1>2, <1>3 DEF FlushInv

\* A request with numbers that were not used before; it may carry the flush of
\* zones that wait for its barrier from now on.
LEMMA FlushSent ==
    ASSUME LoopType, LoopType', FlushInv, NEW m \in Request,
           to_switch' = QueueMsg(m), Msgs(to_ofctrl)' \subseteq Msgs(to_ofctrl),
           next_xid' > next_xid, UNCHANGED sw_flushed,
           m.type = "tlv_mod" => m.xid2 >= next_xid /\ m.xid2 < next_xid',
           m.type = "put" => m.xid = next_xid,
           \A z \in Zones :
              \/ zone_state'[z] = zone_state[z] /\ zone_xid'[z] = zone_xid[z]
              \/ /\ m.type = "put" /\ z \in m.flush
                 /\ zone_state'[z] = "OF_SENT" /\ zone_xid'[z] = next_xid
    PROVE  FlushInv'
<1>0. /\ to_switch \in Seq(Request) /\ to_switch' \in Seq(Request)
      /\ to_ofctrl \in Seq(Answer)
      /\ next_xid \in Nat /\ next_xid' \in Nat
      /\ zone_xid \in [Zones -> Nat] /\ zone_xid' \in [Zones -> Nat]
  BY DEF LoopType, ChannelType, ZoneType
<1>00. /\ \A z \in Zones : zone_xid[z] \in Nat /\ zone_xid[z] < next_xid
       /\ FlushedBeforeCommit /\ RequestsWait /\ AnswersWait
  BY <1>0 DEF FlushInv, ZonesWait
<1>1. ZonesWait'
  <2>1. \A z \in Zones : zone_xid'[z] < next_xid'
    BY <1>0, <1>00
  <2>2. FlushedBeforeCommit'
    BY <1>00 DEF FlushedBeforeCommit
  <2> QED
    BY <2>1, <2>2 DEF ZonesWait
<1>2. RequestsWait'
  <2> SUFFICES ASSUME NEW n \in Msgs(to_switch')
               PROVE  /\ n.type = "tlv_mod" => n.xid2 < next_xid' /\ \A z \in Zones : zone_xid'[z] # n.xid2
                      /\ n.type = "put" => n.xid < next_xid' /\ \A z \in Zones : Outstanding(z, n.xid)' => z \in n.flush
    BY DEF RequestsWait, Msgs
  <2>1. n \in Msgs(to_switch) \/ n = m
    <3>1. to_switch' \in {to_switch, Append(to_switch, m)}
      BY DEF QueueMsg
    <3>2. Msgs(Append(to_switch, m)) = Msgs(to_switch) \cup {m}
      BY <1>0, MsgsAppend
    <3> QED
      BY <3>1, <3>2
  <2>2. n \in Request
    BY <1>0, <2>1, MsgsTyped
  <2>3. n.xid \in Nat /\ (n.type = "tlv_mod" => n.xid2 \in Nat)
    BY <2>2, RequestFields
  <2>4. CASE n = m
    <3>1. CASE m.type = "tlv_mod"
      BY <1>0, <1>00, <2>3, <2>4, <3>1
    <3>2. CASE m.type = "put"
      BY <1>0, <1>00, <2>3, <2>4, <3>2 DEF Outstanding
    <3> QED
      BY <2>4, <3>1, <3>2
  <2>5. CASE n \in Msgs(to_switch)
    <3>1. CASE n.type = "tlv_mod"
      <4>1. n.xid2 < next_xid /\ \A z \in Zones : zone_xid[z] # n.xid2
        BY <1>00, <2>5, <3>1 DEF RequestsWait
      <4> QED
        BY <1>0, <2>3, <3>1, <4>1
    <3>2. CASE n.type = "put"
      <4>1. n.xid < next_xid /\ \A z \in Zones : Outstanding(z, n.xid) => z \in n.flush
        BY <1>00, <2>5, <3>2 DEF RequestsWait
      <4>2. \A z \in Zones : Outstanding(z, n.xid)' => Outstanding(z, n.xid)
        BY <1>0, <2>3, <4>1 DEF Outstanding
      <4> QED
        BY <1>0, <2>3, <3>2, <4>1, <4>2
    <3> QED
      BY <3>1, <3>2
  <2> QED
    BY <2>1, <2>4, <2>5
<1>3. AnswersWait'
  <2> SUFFICES ASSUME NEW n \in Msgs(to_ofctrl)', n.type = "barrier"
               PROVE  n.xid < next_xid' /\ \A z \in Zones : Outstanding(z, n.xid)' => z \in sw_flushed'
    BY DEF AnswersWait
  <2>1. n \in Msgs(to_ofctrl) /\ n \in Answer
    BY <1>0, MsgsTyped
  <2>2. n.xid \in Nat
    BY <2>1 DEF Answer
  <2>3. n.xid < next_xid /\ \A z \in Zones : Outstanding(z, n.xid) => z \in sw_flushed
    BY <1>00, <2>1 DEF AnswersWait
  <2>4. \A z \in Zones : Outstanding(z, n.xid)' => Outstanding(z, n.xid)
    BY <1>0, <2>2, <2>3 DEF Outstanding
  <2> QED
    BY <1>0, <2>2, <2>3, <2>4
<1> QED
  BY <1>1, <1>2, <1>3 DEF FlushInv

\* The switch answers request m.
LEMMA FlushAnswered ==
    ASSUME LoopType, LoopType', FlushInv, NEW m \in Msgs(to_switch),
           Msgs(to_switch)' \subseteq Msgs(to_switch),
           UNCHANGED <<zone_vars, next_xid>>, sw_flushed \subseteq sw_flushed',
           \A n \in Msgs(to_ofctrl)' : n.type = "barrier" =>
               \/ n \in Msgs(to_ofctrl)
               \/ m.type = "tlv_mod" /\ n.xid = m.xid2
               \/ m.type = "put" /\ n.xid = m.xid /\ m.flush \subseteq sw_flushed'
    PROVE  FlushInv'
<1> USE DEF FlushInv, zone_vars
<1>1. ZonesWait'
  BY DEF ZonesWait, FlushedBeforeCommit
<1>2. RequestsWait'
  BY DEF RequestsWait, Outstanding
<1>3. AnswersWait'
  <2> SUFFICES ASSUME NEW n \in Msgs(to_ofctrl)', n.type = "barrier"
               PROVE  n.xid < next_xid' /\ \A z \in Zones : Outstanding(z, n.xid)' => z \in sw_flushed'
    BY DEF AnswersWait
  <2>1. CASE n \in Msgs(to_ofctrl)
    BY <2>1 DEF AnswersWait, Outstanding
  <2>2. CASE n \notin Msgs(to_ofctrl)
    BY <2>2 DEF RequestsWait, Outstanding
  <2> QED
    BY <2>1, <2>2
<1> QED
  BY <1>1, <1>2, <1>3

\* Messages from the switch.
LEMMA RecvKeepsFlushes ==
    ASSUME NEW m, RecvMsg(m), LoopType, LoopType', FlushInv
    PROVE  FlushInv'
<1> USE DEF LoopType, ChannelType
<1>0. to_ofctrl # <<>> /\ m \in Msgs(to_ofctrl) /\ UNCHANGED sw_flushed /\ FlushedBeforeCommit
  BY MsgsHead DEF RecvMsg, Received, switch_vars, FlushInv, ZonesWait
<1>1. Msgs(Tail(to_ofctrl)) \subseteq Msgs(to_ofctrl)
  BY <1>0, MsgsTail
<1>2. ASSUME to_switch' \in {to_switch, <<>>}, to_ofctrl' \in {Tail(to_ofctrl), <<>>},
             UNCHANGED <<next_xid, zone_vars>>
      PROVE  FlushInv'
  <2>1. Msgs(to_switch)' \subseteq Msgs(to_switch) /\ Msgs(to_ofctrl)' \subseteq Msgs(to_ofctrl)
    BY <1>1, <1>2, MsgsNone
  <2> QED
    BY <1>0, <1>2, <2>1, FlushKept DEF zone_vars, FlushedBeforeCommit
<1>3. ASSUME ofctrl_recv(m) PROVE FlushInv'
  BY <1>2, <1>3 DEF ofctrl_recv, Disconnect, Consume, fsm_vars
<1>4. CASE recv_S_TLV_TABLE_REQUESTED(m)
  <2> DEFINE n == [type |-> "tlv_mod", xid |-> next_xid, xid2 |-> next_xid + 1]
  <2>1. CASE to_switch' = QueueMsg(n) /\ to_ofctrl' = Tail(to_ofctrl) /\ next_xid' = next_xid + 2
             /\ UNCHANGED zone_vars
    <3>1. n \in Request /\ n.type = "tlv_mod" /\ n.xid2 = next_xid + 1
      BY DEF Request, TlvMod
    <3>2. Msgs(to_ofctrl)' \subseteq Msgs(to_ofctrl) /\ next_xid' > next_xid /\ n.xid2 >= next_xid
          /\ n.xid2 < next_xid' /\ zone_state' = zone_state /\ zone_xid' = zone_xid
      BY <1>1, <2>1, <3>1 DEF zone_vars
    <3> HIDE DEF n
    <3> QED
      BY <1>0, <2>1, <3>1, <3>2, FlushSent
  <2> QED
    BY <1>2, <1>3, <1>4, <2>1 DEF recv_S_TLV_TABLE_REQUESTED, Consume
<1>5. CASE recv_S_TLV_TABLE_MOD_SENT(m)
  BY <1>2, <1>3, <1>5 DEF recv_S_TLV_TABLE_MOD_SENT, Consume
<1>6. CASE recv_S_WAIT_or_CLEAR(m)
  BY <1>3, <1>6 DEF recv_S_WAIT_or_CLEAR
<1>7. CASE recv_S_UPDATE_FLOWS(m)
  <2>1. CASE m.type = "barrier" /\ flow_updates # <<>>
    <3>1. /\ zone_state' = [z \in Zones |-> IF ZoneConfirmed(m, z) THEN "DB_QUEUED" ELSE zone_state[z]]
          /\ UNCHANGED <<to_switch, next_xid, zone_xid>> /\ to_ofctrl' = Tail(to_ofctrl)
      BY <1>7, <2>1 DEF recv_S_UPDATE_FLOWS, Consume, fsm_vars
    <3>2. \A z \in Zones : ZoneConfirmed(m, z) => z \in sw_flushed
      BY <1>0, <2>1 DEF ZoneConfirmed, FlushInv, AnswersWait, Outstanding
    <3>3. FlushedBeforeCommit'
      BY <1>0, <3>1, <3>2 DEF FlushedBeforeCommit
    <3>4. \A z \in Zones : zone_state'[z] = "OF_SENT" => zone_state[z] = "OF_SENT"
      BY <3>1
    <3> QED
      BY <1>0, <1>1, <3>1, <3>3, <3>4, FlushKept
  <2> QED
    BY <1>3, <1>7, <2>1 DEF recv_S_UPDATE_FLOWS
<1> QED
  BY <1>4, <1>5, <1>6, <1>7 DEF RecvMsg

\* ofctrl_put().
LEMMA PutKeepsFlushes ==
    ASSUME NEW req, NEW changed \in SUBSET Tables, ofctrl_put(req, changed), LoopType, LoopType', FlushInv
    PROVE  FlushInv'
<1> USE DEF LoopType, ChannelType
<1>0. UNCHANGED sw_flushed /\ FlushedBeforeCommit
  BY DEF ofctrl_put, switch_vars, FlushInv, ZonesWait
<1>1. ASSUME UNCHANGED <<to_switch, to_ofctrl, next_xid, zone_vars>> PROVE FlushInv'
  BY <1>0, <1>1, FlushKept DEF zone_vars, FlushedBeforeCommit
<1>2. ASSUME NEW backlog, PutSend(req, changed, backlog) PROVE FlushInv'
  <2> DEFINE flush == {z \in Zones : zone_state[z] = "OF_QUEUED"}
             differing == {t \in Touched(changed) : SentFrom(t) # desired[t]}
             put == [type |-> "put", xid |-> next_xid, flush |-> flush,
                     clear |-> ofctrl_initial_clear,
                     from |-> [t \in differing |-> SentFrom(t)],
                     to |-> [t \in differing |-> desired[t]]]
  <2>1. put \in Request
    BY PutTyped
  <2>2. put.type = "put" /\ put.xid = next_xid /\ put.flush = flush /\ flush \in SUBSET Zones
    OBVIOUS
  <2>3. UNCHANGED to_ofctrl
    BY <1>2 DEF PutSend
  <2>4. CASE to_switch' = QueueMsg(put) /\ next_xid' = next_xid + 1
             /\ zone_state' = [z \in Zones |-> IF z \in flush THEN "OF_SENT" ELSE zone_state[z]]
             /\ zone_xid' = [z \in Zones |-> IF z \in flush THEN next_xid ELSE zone_xid[z]]
    <3>1. \A z \in Zones :
             \/ zone_state'[z] = zone_state[z] /\ zone_xid'[z] = zone_xid[z]
             \/ z \in flush /\ zone_state'[z] = "OF_SENT" /\ zone_xid'[z] = next_xid
      BY <2>4
    <3> HIDE DEF put, flush
    <3>2. put.type # "tlv_mod" /\ next_xid' > next_xid
      BY <2>2, <2>4
    <3>3. Msgs(to_ofctrl)' \subseteq Msgs(to_ofctrl)
      BY <2>3
    <3>4. \A z \in Zones :
             \/ zone_state'[z] = zone_state[z] /\ zone_xid'[z] = zone_xid[z]
             \/ /\ put.type = "put" /\ z \in put.flush
                /\ zone_state'[z] = "OF_SENT" /\ zone_xid'[z] = next_xid
      BY <2>2, <3>1
    <3> HIDE DEF LoopType
    <3> QED
      BY <1>0, <2>1, <2>2, <2>4, <3>2, <3>3, <3>4, FlushSent
  <2>5. CASE UNCHANGED <<to_switch, next_xid, zone_vars>>
    BY <1>1, <2>3, <2>5
  <2> QED
    BY <1>2, <2>4, <2>5 DEF PutSend
<1> QED
  BY <1>1, <1>2 DEF ofctrl_put, PutNotNeeded, PutSkipped, net_vars

LEMMA FlushStep == LoopType /\ LoopType' /\ FlushInv /\ [Next]_vars => FlushInv'
<1> SUFFICES ASSUME LoopType, LoopType', FlushInv, [Next]_vars PROVE FlushInv'
  OBVIOUS
<1>0. FlushedBeforeCommit /\ next_xid \in Nat /\ next_xid >= next_xid
  BY DEF FlushInv, ZonesWait, LoopType, ChannelType
<1>1. ASSUME UNCHANGED <<to_switch, to_ofctrl, next_xid, zone_vars, sw_flushed>> PROVE FlushInv'
  BY <1>0, <1>1, FlushKept DEF zone_vars, FlushedBeforeCommit
<1>2. ASSUME UNCHANGED ofctrl_vars PROVE FlushInv'
  BY <1>1, <1>2 DEF ofctrl_vars, net_vars, switch_vars, fsm_vars
\* The steps that touch no channel.
<1>3. CASE UNCHANGED vars \/ Start \/ SbUpdate \/ CondReply \/ SbReply \/ RequestIf \/ SeqnoRunStart
           \/ SeqnoRun \/ IfAcks \/ Tail_of_iteration \/ Store \/ Clock
  <2>1. CASE RequestIf \/ Clock
    BY <1>1, <2>1 DEF RequestIf, Clock, TimerDue, net_vars, switch_vars, fsm_vars
  <2> QED
    BY <1>2, <1>3, <2>1 DEF vars, Start, SbUpdate, CondReply, SbReply, SeqnoRunStart, SeqnoRun, IfAcks,
       Tail_of_iteration, Store
<1>4. CASE OvsCommitted \/ RequestNb
  <2>1. UNCHANGED <<to_switch, to_ofctrl, next_xid, zone_xid, sw_flushed>>
    BY <1>4 DEF OvsCommitted, RequestNb, net_vars, switch_vars, fsm_vars
  <2>2. \A z \in Zones : /\ zone_state'[z] = "OF_SENT" => zone_state[z] = "OF_SENT"
                         /\ zone_state'[z] \in {"DB_QUEUED", "DB_SENT"}
                               => zone_state[z] \in {"DB_QUEUED", "DB_SENT"}
    BY <1>4 DEF OvsCommitted, RequestNb, commit_ct_zones
  <2> QED
    BY <1>0, <2>1, <2>2, FlushKept DEF FlushedBeforeCommit
<1>5. CASE Network
  <2>1. UNCHANGED <<next_xid, zone_vars, sw_flushed>>
    BY <1>5 DEF Network, Drop, Restart, Connect, fsm_vars, switch_vars
  <2>2. to_switch' \in {to_switch, <<>>} /\ to_ofctrl' \in {to_ofctrl, <<>>}
    BY <1>5 DEF Network, Drop, Restart, Connect, Disconnect
  <2>3. Msgs(to_switch)' \subseteq Msgs(to_switch) /\ Msgs(to_ofctrl)' \subseteq Msgs(to_ofctrl)
    BY <2>2, MsgsNone
  <2> QED
    BY <1>0, <2>1, <2>3, FlushKept DEF FlushedBeforeCommit, zone_vars
<1>6. CASE SwitchStep
  <2> USE DEF LoopType, ChannelType
  <2>0. ASSUME to_switch # <<>>, to_switch' = Tail(to_switch)
        PROVE  Head(to_switch) \in Msgs(to_switch) /\ Msgs(to_switch)' \subseteq Msgs(to_switch)
    BY <2>0, MsgsHead, MsgsTail
  <2>9. to_ofctrl \in Seq(Answer)
    OBVIOUS
  <2>1. CASE SwitchTlvRequest
    <3> DEFINE m == Head(to_switch)
               refused == Reply("error", m.xid, "refused")
               reply == Reply("tlv_reply", m.xid, sw_tlv)
    <3>1. to_ofctrl' = Append(to_ofctrl, refused) \/ to_ofctrl' = Append(to_ofctrl, reply)
      BY <2>1 DEF SwitchTlvRequest
    <3>2. UNCHANGED <<zone_vars, next_xid, sw_flushed>> /\ to_switch # <<>> /\ to_switch' = Tail(to_switch)
      BY <2>1 DEF SwitchTlvRequest, fsm_vars, switch_vars
    <3>3. m \in Request /\ m.xid \in Nat
      BY <3>2, MsgsHead, RequestFields
    <3>4. refused \in Answer /\ reply \in Answer
      BY <3>3 DEF Reply, Answer
    <3>5. refused.type = "error" /\ reply.type = "tlv_reply"
      BY DEF Reply
    <3> HIDE DEF m, refused, reply
    <3>6. Msgs(to_ofctrl') \subseteq Msgs(to_ofctrl) \cup {refused, reply}
      BY <2>9, <3>1, <3>4, Answered
    <3> QED
      BY <2>0, <3>2, <3>5, <3>6, FlushAnswered DEF m
  <2>2. CASE SwitchTlvMod
    <3> DEFINE m == Head(to_switch)
               b == Reply("barrier", m.xid2, "")
               raced == Reply("error", m.xid, "raced")
               refused == Reply("error", m.xid, "refused")
    <3>1. \/ to_ofctrl' = to_ofctrl \o <<>> \o <<b>>
          \/ to_ofctrl' = to_ofctrl \o <<raced>> \o <<b>>
          \/ to_ofctrl' = to_ofctrl \o <<refused>> \o <<b>>
      BY <2>2 DEF SwitchTlvMod
    <3>2. to_switch # <<>> /\ to_switch' = Tail(to_switch) /\ m.type = "tlv_mod"
          /\ UNCHANGED <<zone_vars, next_xid, sw_flushed>>
      BY <2>2 DEF SwitchTlvMod, fsm_vars
    <3>3. m \in Request /\ m.xid \in Nat /\ m.xid2 \in Nat
      BY <3>2, MsgsHead, RequestFields
    <3>4. b \in Answer /\ raced \in Answer /\ refused \in Answer
      BY <3>3 DEF Reply, Answer
    <3>5. b.xid = m.xid2 /\ raced.type = "error" /\ refused.type = "error"
      BY DEF Reply
    <3> HIDE DEF m, b, raced, refused
    <3>6. Msgs(to_ofctrl') \subseteq Msgs(to_ofctrl) \cup {b, raced, refused}
      BY <2>9, <3>1, <3>4, Answered
    <3> QED
      BY <2>0, <3>2, <3>5, <3>6, FlushAnswered DEF m
  <2>3. CASE SwitchPut
    <3> DEFINE m == Head(to_switch)
               b == Reply("barrier", m.xid, "")
               refused == Reply("error", 0, "refused")
    <3>1. to_ofctrl' = Append(to_ofctrl, b) \/ to_ofctrl' = to_ofctrl \o <<refused, b>>
      BY <2>3 DEF SwitchPut
    <3>2. to_switch # <<>> /\ to_switch' = Tail(to_switch) /\ m.type = "put"
          /\ UNCHANGED <<zone_vars, next_xid>> /\ sw_flushed' = sw_flushed \cup m.flush
      BY <2>3 DEF SwitchPut, fsm_vars
    <3>3. m \in Request /\ m.xid \in Nat
      BY <3>2, MsgsHead, RequestFields
    <3>4. b \in Answer /\ refused \in Answer
      BY <3>3 DEF Reply, Answer
    <3>5. b.xid = m.xid /\ refused.type = "error"
      BY DEF Reply
    <3> HIDE DEF m, b, refused
    <3>6. Msgs(to_ofctrl') \subseteq Msgs(to_ofctrl) \cup {b, refused}
      BY <2>9, <3>1, <3>4, Answered
    <3> QED
      BY <2>0, <3>2, <3>5, <3>6, FlushAnswered DEF m
  <2> QED
    BY <1>6, <2>1, <2>2, <2>3 DEF SwitchStep, Switch
<1>7. CASE RunBegin
  <2>1. CASE conn
    <3>1. zone_state' \in {zone_state, ZonesRequeued}
      BY <1>7, <2>1 DEF RunBegin, OfctrlRunBegin
    <3>2. UNCHANGED <<to_switch, to_ofctrl, sw_flushed, next_xid, zone_xid>>
      BY <1>7, <2>1 DEF RunBegin, OfctrlRunBegin, switch_vars
    <3>3. \A z \in Zones : /\ zone_state'[z] = "OF_SENT" => zone_state[z] = "OF_SENT"
                           /\ zone_state'[z] \in {"DB_QUEUED", "DB_SENT"} => zone_state'[z] = zone_state[z]
      BY <3>1 DEF ZonesRequeued
    <3> QED
      BY <1>0, <3>2, <3>3, FlushKept DEF FlushedBeforeCommit
  <2>2. CASE ~conn
    BY <1>2, <1>7, <2>2 DEF RunBegin
  <2> QED
    BY <2>1, <2>2
<1>8. CASE Run
  <2>0. UNCHANGED <<sw_flushed, zone_vars>>
    BY <1>8 DEF Run, RunState, switch_vars
  <2>1. CASE run_S_NEW
    <3> DEFINE m == [type |-> "tlv_request", xid |-> next_xid]
    <3>1. m \in Request /\ m.type = "tlv_request"
      BY DEF Request, TlvRequest, LoopType, ChannelType
    <3>2. to_switch' = QueueMsg(m) /\ UNCHANGED to_ofctrl /\ next_xid' = next_xid + 1
      BY <2>1 DEF run_S_NEW
    <3> HIDE DEF m
    <3> QED
      BY <1>0, <2>0, <3>1, <3>2, FlushSent DEF zone_vars
  <2>2. CASE run_nothing \/ run_S_WAIT_BEFORE_CLEAR \/ run_S_CLEAR_FLOWS
    BY <1>1, <2>0, <2>2 DEF run_nothing, run_S_WAIT_BEFORE_CLEAR, run_S_CLEAR_FLOWS, net_vars, fsm_vars
  <2> QED
    BY <1>8, <2>1, <2>2 DEF Run, RunState
<1>9. CASE Recv
  <2>1. CASE RecvMsg(Head(to_ofctrl))
    BY <2>1, RecvKeepsFlushes
  <2> QED
    BY <1>2, <1>9, <2>1 DEF Recv
<1>10. CASE EngineRun
  <2>0. PICK backlog \in HasBacklog :
        LET allowed == ~sb_busy /\ ~backlog IN
        \/ /\ EngineSkipped(allowed)
           /\ UNCHANGED <<seqno_vars, ofctrl_vars, db_vars, engine_run_aborted, engine,
                          updated, of_connected, needs>>
        \/ EngineAborted(allowed)
        \/ EngineCompleted(allowed)
    BY <1>10 DEF EngineRun
  <2> DEFINE allowed == ~sb_busy /\ ~backlog
  <2>1. CASE UNCHANGED ofctrl_vars
    BY <1>2, <2>1
  <2>2. CASE EngineCompleted(allowed)
    <3>1. UNCHANGED <<to_switch, to_ofctrl, next_xid, zone_xid>>
      BY <2>2 DEF EngineCompleted, net_vars, fsm_vars
    <3>2. PICK zs \in SUBSET Zones : QueueZones(zs)
      BY <2>2 DEF EngineCompleted
    <3>3. \A z \in Zones : /\ zone_state'[z] = "OF_SENT" =>
                                 zone_state[z] = "OF_SENT" /\ (z \in sw_flushed => z \in sw_flushed')
                           /\ zone_state'[z] \in {"DB_QUEUED", "DB_SENT"} =>
                                 zone_state'[z] = zone_state[z] /\ (z \in sw_flushed => z \in sw_flushed')
      BY <3>2 DEF QueueZones
    <3> QED
      BY <1>0, <3>1, <3>3, FlushKept DEF FlushedBeforeCommit
  <2> QED
    BY <2>0, <2>1, <2>2 DEF EngineAborted
<1>11. CASE Put
  <2>1. CASE ofctrl_put(ofctrl_req_seqno, updated)
    BY <2>1, PutKeepsFlushes DEF LoopType, TableType
  <2> QED
    BY <1>2, <1>11, <2>1 DEF Put
<1> QED
  BY <1>3, <1>4, <1>5, <1>6, <1>7, <1>8, <1>9, <1>10, <1>11 DEF Next, Environment, Iteration

\* commit_ct_zones() and recv_S_UPDATE_FLOWS(): for any zones and any number of
\* lost connections, a zone is recorded in the database only after the switch
\* flushed it for its new user.
THEOREM AlwaysFlushedBeforeCommit == Spec => []FlushedBeforeCommit
<1>1. Init => LoopType /\ FlushInv
  <2> SUFFICES ASSUME Init PROVE FlushInv
    BY TypeInit
  <2>1. Msgs(to_switch) = {} /\ Msgs(to_ofctrl) = {}
    BY MsgsNone DEF Init, OfctrlInit
  <2>2. ZonesWait
    BY DEF Init, OfctrlInit, ZonesWait, FlushedBeforeCommit
  <2> QED
    BY <2>1, <2>2 DEF FlushInv, RequestsWait, AnswersWait
<1>2. FlushInv => FlushedBeforeCommit
  BY DEF FlushInv, ZonesWait
<1> QED
  BY <1>1, <1>2, TypeStep, FlushStep, PTL DEF Spec
=============================================================================
