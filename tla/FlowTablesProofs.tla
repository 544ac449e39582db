-------------------------- MODULE FlowTablesProofs --------------------------
(***************************************************************************)
(* What ofctrl_put() sends is the difference between what the switch holds *)
(* and what it should hold, for any number of flow tables, versions, lost  *)
(* connections, restarts, aborted engine runs and skipped puts.            *)
(***************************************************************************)
EXTENDS FlowInstallProofs

-----------------------------------------------------------------------------
(* The bookkeeping of the flow tables: change tracking against what is     *)
(* installed.                                                              *)

\* This connection has not been given its first flows yet.
Fresh == state # "S_UPDATE_FLOWS" \/ ofctrl_initial_clear

\* The next ofctrl_put() that may send looks at table t.
Pending(t) ==
    skipped_last_time \/ (pc \in {"nb", "if", "put"} /\ OutputsValid /\ t \in updated)

\* The next engine run that completes recomputes everything.
RecomputeDue == engine_force_recompute /\ ~OutputsValid

\* What is tracked of a table is tracked from what is installed, and a table
\* nobody will look at is installed as desired.  On a new connection that holds
\* only once a recomputation has made every table untracked and pending.
TableTracked(t) ==
    \/ Fresh /\ RecomputeDue
    \/ /\ change_tracked[t] => tracked_from[t] = installed[t]
       /\ ~Pending(t) => installed[t] = desired[t]
       /\ Fresh => ~change_tracked[t] /\ Pending(t)

\* The engine's outputs are those of the contents at hand.
OutputsFresh ==
    /\ engine \in {"stale", "aborted", "late", "done"} /\ engine_force_recompute \in BOOLEAN
    /\ pc \in {"nb", "if", "put"} /\ OutputsValid => desired = input

InstalledInv ==
    /\ ofctrl_initial_clear => \A t \in Tables : installed[t] = Empty
    /\ \A t \in Tables : TableTracked(t) /\ installed[t] # Mixed

\* A bundle that clears the switch brings every table, and no bundle leaves a
\* table empty.
PutsComplete ==
    \A m \in Msgs(to_switch) :
        m.type = "put" =>
            /\ m.clear => \A t \in Tables : t \in DOMAIN m.from
            /\ \A t \in DOMAIN m.from : m.to[t] > 0

TablesInv == OutputsFresh /\ InstalledInv /\ PutsComplete

\* A step that leaves the tables and what is known of them alone.
LEMMA TablesKept ==
    ASSUME TablesInv, LoopType, HoldInv,
           UNCHANGED <<desired, change_tracked, tracked_from, installed, ofctrl_initial_clear,
                       skipped_last_time, engine, updated>>,
           state' # state => state # "S_UPDATE_FLOWS" /\ state' # "S_UPDATE_FLOWS",
           engine_force_recompute' \in {engine_force_recompute, TRUE},
           input' = input \/ pc' \notin {"nb", "if", "put"},
           \/ pc' = pc
           \/ pc \in {"nb", "if", "put"} /\ pc' \in {"nb", "if", "put"}
           \/ pc \notin {"nb", "if", "put"} /\ pc' \notin {"nb", "if", "put"}
           \/ ~OutputsValid,
           Msgs(to_switch') \subseteq Msgs(to_switch)
    PROVE  TablesInv'
<1> USE DEF TablesInv
<1>1. OutputsFresh'
  BY DEF OutputsFresh, OutputsValid
<1>2. InstalledInv'
  <2>1. Fresh' = Fresh /\ OutputsValid' = OutputsValid
    BY DEF Fresh, OutputsValid
  <2>2. ASSUME NEW t \in Tables PROVE Pending(t)' <=> Pending(t)
    BY <2>1 DEF Pending
  <2>3. RecomputeDue => RecomputeDue'
    BY <2>1 DEF RecomputeDue, OutputsFresh
  <2>4. ASSUME NEW t \in Tables PROVE TableTracked(t)'
    BY <2>1, <2>2, <2>3 DEF InstalledInv, TableTracked
  <2> QED
    BY <2>4 DEF InstalledInv
<1>3. PutsComplete'
  BY DEF PutsComplete, Msgs
<1> QED
  BY <1>1, <1>2, <1>3

\* The switch and the connection take messages away.
LEMMA SentAreKept ==
    ASSUME LoopType, Network \/ SwitchStep
    PROVE  /\ Msgs(to_switch') \subseteq Msgs(to_switch)
           /\ UNCHANGED <<state, table_vars, skipped_last_time, engine_vars, input, pc>>
<1> USE DEF LoopType, ChannelType
<1>1. CASE Network
  <2>1. to_switch' \in {to_switch, <<>>}
    BY <1>1 DEF Network, Drop, Restart, Connect, Disconnect
  <2>2. UNCHANGED <<fsm_vars, table_vars, cfg_vars>>
    BY <1>1 DEF Network, Drop, Restart, Connect
  <2> QED
    BY <1>1, <2>1, <2>2, MsgsNone DEF Network, fsm_vars, cfg_vars, db_vars
<1>2. CASE SwitchStep
  <2>1. to_switch # <<>> /\ to_switch' = Tail(to_switch)
    BY <1>2 DEF SwitchStep, Switch, SwitchTlvRequest, SwitchTlvMod, SwitchPut
  <2>2. UNCHANGED <<fsm_vars, table_vars, cfg_vars>>
    BY <1>2 DEF SwitchStep, Switch, SwitchTlvRequest, SwitchTlvMod, SwitchPut
  <2> QED
    BY <1>2, <2>1, <2>2, MsgsTail DEF SwitchStep, fsm_vars, cfg_vars, db_vars
<1> QED
  BY <1>1, <1>2

\* ofctrl_run() sends Geneve requests only, and what it receives takes it to
\* another state only before S_UPDATE_FLOWS.
LEMMA TlvSendsKept ==
    ASSUME LoopType, PutsComplete, NEW m \in TlvRequest \cup TlvMod, to_switch' = QueueMsg(m)
    PROVE  PutsComplete'
<1>1. m \in Request /\ m.type # "put"
  BY DEF Request, TlvRequest, TlvMod
<1>2. Msgs(to_switch') \subseteq Msgs(to_switch) \cup {m}
  BY <1>1, MsgsAppend DEF QueueMsg, LoopType, ChannelType
<1> QED
  BY <1>1, <1>2 DEF PutsComplete

LEMMA RecvKeepsTables ==
    ASSUME LoopType, PutsComplete, NEW m, RecvMsg(m)
    PROVE  /\ PutsComplete'
           /\ UNCHANGED <<table_vars, skipped_last_time>>
           /\ state' # state => state # "S_UPDATE_FLOWS" /\ state' # "S_UPDATE_FLOWS"
<1>0. UNCHANGED table_vars
  BY DEF RecvMsg
<1>1. ASSUME to_switch' \in {to_switch, <<>>} PROVE PutsComplete'
  BY <1>1, MsgsNone DEF PutsComplete
<1>2. CASE ofctrl_recv(m)
  BY <1>0, <1>1, <1>2 DEF ofctrl_recv, Disconnect, Consume, fsm_vars, cfg_vars
<1>3. CASE recv_S_TLV_TABLE_REQUESTED(m) /\ ~ofctrl_recv(m)
  <2> DEFINE n == [type |-> "tlv_mod", xid |-> next_xid, xid2 |-> next_xid + 1]
  <2>1. n \in TlvMod
    BY DEF TlvMod, LoopType, ChannelType
  <2>2. to_switch' \in {to_switch, QueueMsg(n)}
    BY <1>3 DEF recv_S_TLV_TABLE_REQUESTED, Consume
  <2>3. PutsComplete'
    <3> HIDE DEF n
    <3> QED
      BY <1>1, <2>1, <2>2, TlvSendsKept
  <2> QED
    BY <1>0, <1>3, <2>3 DEF recv_S_TLV_TABLE_REQUESTED, cfg_vars
<1>4. CASE recv_S_TLV_TABLE_MOD_SENT(m) /\ ~ofctrl_recv(m)
  BY <1>0, <1>1, <1>4 DEF recv_S_TLV_TABLE_MOD_SENT, AfterTlvMod, Consume, cfg_vars
<1>5. CASE recv_S_UPDATE_FLOWS(m) /\ ~ofctrl_recv(m)
  BY <1>0, <1>1, <1>5 DEF recv_S_UPDATE_FLOWS, Consume, fsm_vars
<1> QED
  BY <1>2, <1>3, <1>4, <1>5 DEF RecvMsg, recv_S_WAIT_or_CLEAR

\* Nothing to send: every table is installed as desired already.
LEMMA PutKeepsTables ==
    ASSUME LoopType, LoopType', TablesInv, pc = "put", OutputsValid, pc' = "seqno",
           ofctrl_put(ofctrl_req_seqno, updated), UNCHANGED <<engine_vars, input>>
    PROVE  TablesInv'
<1> USE DEF TablesInv
<1>0. UNCHANGED <<state, engine, updated, engine_force_recompute>> /\ ~RecomputeDue /\ OutputsValid'
  BY DEF ofctrl_put, engine_vars, RecomputeDue, OutputsValid
<1>1. OutputsFresh'
  BY <1>0 DEF OutputsFresh
<1>2. \A t \in Tables : Pending(t) <=> skipped_last_time \/ t \in updated
  BY DEF Pending
<1>3. \A t \in Tables : (Pending(t))' <=> skipped_last_time'
  BY DEF Pending
<1>4. CASE PutNotNeeded(ofctrl_req_seqno, updated)
  <2>1. UNCHANGED <<to_switch, desired, change_tracked, tracked_from, installed, ofctrl_initial_clear,
                    skipped_last_time>>
    BY <1>4 DEF PutNotNeeded, net_vars, table_vars
  <2>2. updated = {} /\ ~skipped_last_time
    BY <1>4 DEF PutNotNeeded, NeedPut, FlowsPending
  <2>3. InstalledInv'
    BY <1>0, <1>2, <1>3, <2>1, <2>2 DEF InstalledInv, TableTracked, Fresh
  <2> QED
    BY <1>1, <2>1, <2>3 DEF PutsComplete
<1>5. CASE \E backlog \in HasBacklog : PutSkipped(ofctrl_req_seqno, updated, backlog)
  <2>1. UNCHANGED <<to_switch, desired, change_tracked, tracked_from, installed, ofctrl_initial_clear>>
        /\ skipped_last_time' = TRUE
    BY <1>5 DEF PutSkipped, net_vars, table_vars
  <2>2. InstalledInv'
    BY <1>0, <1>3, <2>1 DEF InstalledInv, TableTracked, Fresh
  <2> QED
    BY <1>1, <2>1, <2>2 DEF PutsComplete
<1>6. ASSUME NEW backlog, PutSend(ofctrl_req_seqno, updated, backlog) PROVE TablesInv'
  <2> DEFINE touched == Touched(updated)
             flush == {z \in Zones : zone_state[z] = "OF_QUEUED"}
             differing == {t \in touched : SentFrom(t) # desired[t]}
             put == [type |-> "put", xid |-> next_xid, flush |-> flush,
                     clear |-> ofctrl_initial_clear,
                     from |-> [t \in differing |-> SentFrom(t)],
                     to |-> [t \in differing |-> desired[t]]]
  <2>1. \A t \in Tables : t \in touched <=> Pending(t)
    BY <1>2 DEF Touched, LoopType, TableType
  <2>2. touched \subseteq Tables
    BY DEF Touched, LoopType, TableType
  <2>3. \A t \in Tables : SentFrom(t) = installed[t] /\ (t \notin touched => installed[t] = desired[t])
    BY <1>0, <2>1 DEF InstalledInv, TableTracked, SentFrom
  <2>4. \A t \in Tables : desired[t] > 0 /\ desired[t] # Mixed
    BY DEF OutputsFresh, LoopType, TableType, Mixed
  <2>5. \A t \in Tables : installed'[t] = desired[t]
    BY <1>6, <2>3 DEF PutSend
  <2>6. /\ change_tracked' = [t \in Tables |-> TRUE] /\ tracked_from' = desired
        /\ ofctrl_initial_clear' = FALSE /\ skipped_last_time' = FALSE /\ UNCHANGED desired
    BY <1>6 DEF PutSend
  <2>7. ~Fresh'
    BY <1>0, <1>6, <2>6 DEF PutSend, CanPut, Fresh
  <2>8. InstalledInv'
    BY <2>4, <2>5, <2>6, <2>7 DEF InstalledInv, TableTracked
  <2>9. PutsComplete'
    <3>1. to_switch' \in {to_switch, QueueMsg(put)}
      BY <1>6 DEF PutSend
    <3>2. put \in Request
      BY PutTyped DEF LoopType, TableType
    <3>3. put.clear => \A t \in Tables : t \in DOMAIN put.from
      <4>1. ofctrl_initial_clear => \A t \in Tables : t \in touched /\ SentFrom(t) = Empty
        BY <1>0, <2>1, <2>3 DEF InstalledInv, TableTracked, Fresh
      <4>2. ofctrl_initial_clear => \A t \in Tables : t \in differing
        BY <2>4, <4>1 DEF Empty
      <4> QED
        BY <4>2
    <3>4. \A t \in DOMAIN put.from : put.to[t] > 0
      BY <2>2, <2>4
    <3> HIDE DEF put
    <3>5. Msgs(to_switch') \subseteq Msgs(to_switch) \cup {put}
      BY <3>1, <3>2, MsgsAppend DEF QueueMsg, LoopType, ChannelType
    <3> QED
      BY <3>3, <3>4, <3>5 DEF PutsComplete
  <2> QED
    BY <1>1, <2>8, <2>9
<1> QED
  BY <1>4, <1>5, <1>6 DEF ofctrl_put

LEMMA TablesStep == LoopType /\ LoopType' /\ HoldInv /\ TablesInv /\ [Next]_vars => TablesInv'
<1> SUFFICES ASSUME LoopType, LoopType', HoldInv, TablesInv, [Next]_vars PROVE TablesInv'
  OBVIOUS
<1> DEFINE Busy == {"nb", "if", "put"}
<1>0. Msgs(to_switch) \subseteq Msgs(to_switch)
  OBVIOUS
<1>1. ASSUME UNCHANGED ofctrl_vars, UNCHANGED engine, UNCHANGED updated,
             engine_force_recompute' \in {engine_force_recompute, TRUE},
             input' = input \/ pc' \notin Busy,
             \/ pc' = pc
             \/ pc \in Busy /\ pc' \in Busy
             \/ pc \notin Busy /\ pc' \notin Busy
             \/ ~OutputsValid
      PROVE  TablesInv'
  BY <1>1, TablesKept DEF ofctrl_vars, net_vars, fsm_vars, table_vars, cfg_vars
<1>2. CASE UNCHANGED vars
  <2>1. UNCHANGED <<ofctrl_vars, engine, updated, engine_force_recompute, input, pc>>
    BY <1>2 DEF vars, engine_vars, db_vars
  <2> QED
    BY <2>1, TablesKept DEF ofctrl_vars, net_vars, fsm_vars, table_vars, cfg_vars
<1>3. CASE Start
  BY <1>1, <1>3 DEF Start, Goto, engine_vars, db_vars
<1>4. CASE SbUpdate \/ CondReply
  BY <1>1, <1>4 DEF SbUpdate, CondReply, engine_vars
<1>5. CASE SbReply
  <2>1. UNCHANGED <<ofctrl_vars, engine, updated, input, pc>>
        /\ engine_force_recompute' \in {engine_force_recompute, TRUE}
    BY <1>5 DEF SbReply, db_vars
  <2> QED
    BY <2>1, TablesKept DEF ofctrl_vars, net_vars, fsm_vars, table_vars, cfg_vars
<1>6. CASE OvsCommitted \/ Clock
  <2>1. UNCHANGED <<net_vars, fsm_vars, table_vars, cfg_vars, engine_vars, db_vars, pc>>
    BY <1>6 DEF OvsCommitted, Clock, TimerDue
  <2> QED
    BY <2>1, TablesKept DEF net_vars, fsm_vars, table_vars, cfg_vars, engine_vars, db_vars
<1>7. CASE Network \/ SwitchStep
  BY <1>7, SentAreKept, TablesKept DEF table_vars, engine_vars
<1>8. CASE RunBegin
  <2>1. engine = "stale" /\ pc = "top" /\ pc' \notin Busy /\ UNCHANGED <<engine, updated, input>>
    BY <1>8 DEF RunBegin, Goto, HoldInv, db_vars
  <2>2. CASE conn /\ Reconnected
    <3>1. UNCHANGED <<to_switch, table_vars, skipped_last_time>> /\ state' = "S_NEW" /\ engine_force_recompute' = TRUE
      BY <1>8, <2>2 DEF RunBegin, OfctrlRunBegin, cfg_vars
    <3>2. Fresh' /\ RecomputeDue'
      BY <2>1, <3>1 DEF Fresh, RecomputeDue, OutputsValid
    <3>3. OutputsFresh' /\ PutsComplete'
      BY <2>1, <3>1 DEF TablesInv, OutputsFresh, PutsComplete
    <3> QED
      BY <3>1, <3>2, <3>3 DEF TablesInv, InstalledInv, TableTracked, table_vars
  <2>3. CASE conn /\ ~Reconnected
    <3>1. UNCHANGED <<to_switch, table_vars, skipped_last_time, state>>
          /\ engine_force_recompute' = (engine_force_recompute \/ FALSE)
      BY <1>8, <2>3 DEF RunBegin, OfctrlRunBegin, cfg_vars
    <3> QED
      BY <2>1, <3>1, TablesKept DEF table_vars, TablesInv, OutputsFresh
  <2>4. CASE ~conn
    BY <1>1, <1>8, <2>1, <2>4 DEF RunBegin
  <2> QED
    BY <2>2, <2>3, <2>4
<1>9. CASE Run
  <2>0. UNCHANGED <<engine_vars, input, engine, updated, engine_force_recompute>> /\ pc = "run" /\ pc' = "recv"
        /\ engine = "stale"
    BY <1>9 DEF Run, Goto, engine_vars, db_vars, HoldInv
  <2>1. CASE run_S_NEW
    <3> DEFINE m == [type |-> "tlv_request", xid |-> next_xid]
    <3>1. m \in TlvRequest
      BY DEF TlvRequest, LoopType, ChannelType
    <3>2. to_switch' = QueueMsg(m)
      BY <2>1 DEF run_S_NEW
    <3>3. PutsComplete'
      <4> HIDE DEF m
      <4> QED
        BY <3>1, <3>2, TlvSendsKept DEF TablesInv
    <3>4. UNCHANGED <<table_vars, skipped_last_time>> /\ Fresh /\ Fresh'
      BY <2>1 DEF run_S_NEW, cfg_vars, Fresh
    <3>5. InstalledInv' /\ OutputsFresh'
      BY <2>0, <3>4 DEF TablesInv, InstalledInv, OutputsFresh, TableTracked, Pending, RecomputeDue, OutputsValid,
         table_vars
    <3> QED
      BY <3>3, <3>5 DEF TablesInv
  <2>2. CASE run_nothing \/ run_S_WAIT_BEFORE_CLEAR
    <3>1. UNCHANGED <<to_switch, table_vars, cfg_vars>>
          /\ (state' # state => state # "S_UPDATE_FLOWS" /\ state' # "S_UPDATE_FLOWS")
      BY <2>2 DEF run_nothing, run_S_WAIT_BEFORE_CLEAR, net_vars, fsm_vars
    <3> QED
      BY <2>0, <3>1, TablesKept DEF table_vars, cfg_vars
  <2>3. CASE run_S_CLEAR_FLOWS
    <3>1. /\ UNCHANGED <<to_switch, desired, change_tracked, tracked_from, skipped_last_time>>
          /\ installed' = InstalledCleared /\ ofctrl_initial_clear' = TRUE
      BY <2>3 DEF run_S_CLEAR_FLOWS, net_vars, desired_vars
    <3>2. Fresh /\ Fresh'
      BY <2>3, <3>1 DEF run_S_CLEAR_FLOWS, Fresh
    <3>3. \A t \in Tables : installed'[t] = Empty /\ Empty # Mixed
      BY <3>1 DEF InstalledCleared, Empty, Mixed
    <3>4. \A t \in Tables : (Pending(t))' <=> Pending(t)
      BY <2>0, <3>1 DEF Pending, OutputsValid
    <3>5. RecomputeDue' <=> RecomputeDue
      BY <2>0 DEF RecomputeDue, OutputsValid
    <3>6. InstalledInv'
      BY <3>1, <3>2, <3>3, <3>4, <3>5 DEF TablesInv, InstalledInv, TableTracked
    <3>7. OutputsFresh' /\ PutsComplete'
      BY <2>0, <3>1 DEF TablesInv, OutputsFresh, PutsComplete
    <3> QED
      BY <3>6, <3>7 DEF TablesInv
  <2> QED
    BY <1>9, <2>1, <2>2, <2>3 DEF Run, RunState
<1>10. CASE Recv
  <2>1. CASE RecvMsg(Head(to_ofctrl))
    <3>1. UNCHANGED <<engine_vars, db_vars>> /\ pc = "recv" /\ pc' \in {"run", "engine"} /\ engine = "stale"
      BY <1>10, <2>1 DEF Recv, Goto, HoldInv, RecvMsg, Received
    <3>2. /\ PutsComplete' /\ UNCHANGED <<table_vars, skipped_last_time>>
          /\ state' # state => state # "S_UPDATE_FLOWS" /\ state' # "S_UPDATE_FLOWS"
      BY <2>1, RecvKeepsTables DEF TablesInv
    <3>3. InstalledInv' /\ OutputsFresh'
      BY <3>1, <3>2 DEF TablesInv, InstalledInv, OutputsFresh, TableTracked, Pending, RecomputeDue, OutputsValid,
         Fresh, table_vars, engine_vars, db_vars
    <3> QED
      BY <3>2, <3>3 DEF TablesInv
  <2>2. CASE UNCHANGED ofctrl_vars
    BY <1>1, <1>10, <2>2 DEF Recv, Goto, db_vars, engine_vars
  <2> QED
    BY <1>10, <2>1, <2>2 DEF Recv
<1>11. CASE EngineRun
  <2>0. PICK backlog \in HasBacklog :
        LET allowed == ~sb_busy /\ ~backlog IN
        \/ /\ EngineSkipped(allowed)
           /\ UNCHANGED <<seqno_vars, ofctrl_vars, db_vars, engine_run_aborted, engine,
                          updated, of_connected, needs>>
        \/ EngineAborted(allowed)
        \/ EngineCompleted(allowed)
    BY <1>11 DEF EngineRun
  <2> DEFINE allowed == ~sb_busy /\ ~backlog
  <2>1. pc = "engine" /\ pc' = "nb" /\ engine = "stale" /\ UNCHANGED engine_force_recompute /\ ~OutputsValid
    BY <1>11 DEF EngineRun, Goto, HoldInv, OutputsValid
  <2>2. CASE UNCHANGED <<ofctrl_vars, db_vars, engine, updated>>
    BY <1>1, <2>1, <2>2 DEF db_vars
  <2>3. CASE EngineAborted(allowed)
    <3>1. UNCHANGED <<ofctrl_vars, db_vars, updated>> /\ engine' = "aborted"
      BY <2>3 DEF EngineAborted
    <3>2. OutputsFresh' /\ PutsComplete'
      BY <2>1, <3>1 DEF TablesInv, OutputsFresh, OutputsValid, PutsComplete, ofctrl_vars, net_vars
    <3>3. InstalledInv'
      BY <2>1, <3>1 DEF TablesInv, InstalledInv, TableTracked, Pending, RecomputeDue, OutputsValid, Fresh,
         ofctrl_vars, fsm_vars, table_vars, cfg_vars
    <3> QED
      BY <3>2, <3>3 DEF TablesInv
  <2>4. CASE EngineCompleted(allowed)
    <3>1. UNCHANGED <<to_switch, state, tracked_from, installed, ofctrl_initial_clear, skipped_last_time, input>>
      BY <2>4 DEF EngineCompleted, net_vars, fsm_vars, cfg_vars
    <3>2. desired' = input /\ engine' \in {"done", "late"}
      BY <2>4 DEF EngineCompleted
    <3>3. PICK recomputed \in SUBSET Tables, spurious \in SUBSET Tables :
            /\ engine_force_recompute => recomputed = Tables
            /\ updated' = Dirty \cup recomputed \cup spurious
            /\ change_tracked' = [t \in Tables |-> change_tracked[t] /\ t \notin recomputed]
      BY <2>4 DEF EngineCompleted
    <3>4. OutputsFresh' /\ PutsComplete'
      BY <2>1, <3>1, <3>2 DEF TablesInv, OutputsFresh, PutsComplete
    <3>5. ASSUME NEW t \in Tables PROVE TableTracked(t)'
      <4>1. Pending(t)' <=> skipped_last_time \/ t \in updated'
        BY <2>1, <3>1, <3>2 DEF Pending, OutputsValid
      <4>2. Pending(t) <=> skipped_last_time
        BY <2>1 DEF Pending
      <4>3. t \notin updated' => desired'[t] = desired[t]
        BY <3>2, <3>3 DEF Dirty
      <4>4. Fresh' <=> Fresh
        BY <3>1 DEF Fresh
      <4>5. CASE Fresh /\ RecomputeDue
        <5>1. ~change_tracked'[t] /\ t \in updated'
          BY <3>3, <4>5 DEF RecomputeDue
        <5> QED
          BY <4>1, <5>1 DEF TableTracked
      <4>6. CASE ~(Fresh /\ RecomputeDue)
        <5>1. /\ change_tracked[t] => tracked_from[t] = installed[t]
              /\ ~Pending(t) => installed[t] = desired[t]
              /\ Fresh => ~change_tracked[t] /\ Pending(t)
          BY <4>6 DEF TablesInv, InstalledInv, TableTracked
        <5>2. change_tracked'[t] => change_tracked[t]
          BY <3>3
        <5> QED
          BY <3>1, <4>1, <4>2, <4>3, <4>4, <5>1, <5>2 DEF TableTracked
      <4> QED
        BY <4>5, <4>6
    <3>6. InstalledInv'
      BY <3>1, <3>5 DEF TablesInv, InstalledInv
    <3> QED
      BY <3>4, <3>6 DEF TablesInv
  <2> QED
    BY <2>0, <2>2, <2>3, <2>4
<1>12. CASE RequestNb \/ RequestIf
  <2>1. UNCHANGED <<net_vars, fsm_vars, table_vars, cfg_vars, engine_vars, input>>
        /\ pc \in Busy /\ pc' \in Busy
    BY <1>12 DEF RequestNb, RequestIf, Goto, db_vars
  <2> QED
    BY <2>1, TablesKept DEF net_vars, fsm_vars, table_vars, cfg_vars, engine_vars
<1>13. CASE Put
  <2>1. CASE OutputsValid
    BY <1>13, <2>1, PutKeepsTables DEF Put, Goto, db_vars
  <2>2. CASE ~OutputsValid
    BY <1>1, <1>13, <2>2 DEF Put, Goto, engine_vars, db_vars
  <2> QED
    BY <2>1, <2>2
<1>14. CASE SeqnoRunStart \/ SeqnoRun \/ IfAcks
  BY <1>1, <1>14 DEF SeqnoRunStart, SeqnoRun, IfAcks, Goto, engine_vars, db_vars
<1>15. CASE Tail_of_iteration
  <2>1. UNCHANGED <<ofctrl_vars, db_vars, engine, updated>> /\ pc = "tail" /\ pc' = "store"
    BY <1>15 DEF Tail_of_iteration, Goto
  <2>2. CASE ~OutputsValid
    <3>1. engine_force_recompute' \in {engine_force_recompute, TRUE}
      BY <1>15, <2>2 DEF Tail_of_iteration, NeedRun, ForceAfter, OutputsValid, TablesInv, OutputsFresh
    <3> QED
      BY <1>1, <2>1, <3>1 DEF db_vars
  <2>3. CASE OutputsValid
    <3>1. PutsComplete' /\ engine_force_recompute' = ForceAfter /\ ForceAfter \in BOOLEAN
      BY <1>15, <2>1, <2>3 DEF Tail_of_iteration, ForceAfter, OutputsValid, TablesInv, PutsComplete, ofctrl_vars, net_vars
    <3>3. OutputsFresh'
      BY <2>1, <3>1 DEF TablesInv, OutputsFresh
    <3>2. InstalledInv'
      BY <2>1, <2>3 DEF TablesInv, InstalledInv, TableTracked, Pending, RecomputeDue, OutputsValid, Fresh,
         ofctrl_vars, fsm_vars, table_vars, cfg_vars
    <3> QED
      BY <3>1, <3>2, <3>3 DEF TablesInv
  <2> QED
    BY <2>2, <2>3
<1>16. CASE Store
  <2>1. /\ UNCHANGED <<ofctrl_vars, db_vars, engine_force_recompute>> /\ pc = "store" /\ pc' = "top"
        /\ engine' = "stale"
    BY <1>16 DEF Store, Goto
  <2>2. OutputsFresh' /\ PutsComplete'
    BY <2>1 DEF TablesInv, OutputsFresh, PutsComplete, ofctrl_vars, net_vars
  <2>3. InstalledInv'
    BY <2>1 DEF TablesInv, InstalledInv, TableTracked, Pending, RecomputeDue, OutputsValid, Fresh,
       ofctrl_vars, fsm_vars, table_vars, cfg_vars
  <2> QED
    BY <2>2, <2>3 DEF TablesInv
<1> QED
  BY <1>2, <1>3, <1>4, <1>5, <1>6, <1>7, <1>8, <1>9, <1>10, <1>11, <1>12, <1>13, <1>14, <1>15, <1>16
  DEF Next, Environment, Iteration

-----------------------------------------------------------------------------
(* What the switch holds, and will hold when it has processed what is on   *)
(* its way.                                                                *)

\* The version of table t once request m is applied to version v.
After(m, t, v) ==
    IF m.type # "put" THEN v
    ELSE LET base == IF m.clear THEN Empty ELSE v IN
         IF t \notin DOMAIN m.from THEN base
         ELSE IF m.from[t] = base THEN m.to[t] ELSE Mixed

\* ofctrl.c knows what the switch will hold.
InSync == conn /\ ~conn_changed /\ ~Fresh

\* v[i] is the version of t after i of the requests on their way.
Leads(v, t) ==
    /\ v \in [0 .. Len(to_switch) -> Int]
    /\ v[0] = sw_flows[t]
    /\ \A i \in 1 .. Len(to_switch) : v[i] = After(to_switch[i], t, v[i - 1])
    /\ \A i \in 0 .. Len(to_switch) : v[i] # Mixed
    /\ InSync => v[Len(to_switch)] = installed[t]

\* How the versions w after a step follow from the versions v before it.
Follows(w, v, t) ==
    \/ UNCHANGED to_switch /\ w = v
    \/ \E m \in Request :
          /\ to_switch' = Append(to_switch, m)
          /\ \A i \in 0 .. Len(to_switch) : w[i] = v[i]
          /\ w[Len(to_switch) + 1] = After(m, t, v[Len(to_switch)])
    \/ /\ to_switch # <<>> /\ to_switch' = Tail(to_switch)
       /\ \A i \in 0 .. Len(to_switch) - 1 : w[i] = v[i + 1]
    \/ ~conn'

ConnInv ==
    /\ n_errors \in Nat
    /\ ~conn => to_switch = <<>>
    /\ conn /\ pc # "top" => ~conn_changed

SwitchInv == ConnInv /\ (n_errors = 0 => \A t \in Tables : \E v : Leads(v, t))

\* The channel and the switch stay, and ofctrl.c does not learn more.
LEMMA LeadsKept ==
    ASSUME NEW t \in Tables, NEW v, Leads(v, t), UNCHANGED to_switch, sw_flows'[t] = sw_flows[t],
           InSync' => InSync /\ installed'[t] = installed[t]
    PROVE  Leads(v, t)' /\ Follows(v, v, t)
BY DEF Leads, Follows

\* The connection is lost.
LEMMA LeadsLost ==
    ASSUME LoopType', NEW t \in Tables, NEW v, to_switch' = <<>>, sw_flows'[t] # Mixed, ~conn'
    PROVE  \E w : Leads(w, t)' /\ Follows(w, v, t)
<1>0. PICK w : w = [i \in 0 .. 0 |-> sw_flows'[t]]
  OBVIOUS
<1>1. Len(to_switch') = 0 /\ sw_flows'[t] \in Int
  BY DEF LoopType, TableType
<1>2. Leads(w, t)' /\ Follows(w, v, t)
  BY <1>0, <1>1 DEF Leads, InSync, Follows
<1> QED
  BY <1>2

\* A request is sent.
LEMMA LeadsSent ==
    ASSUME LoopType, NEW t \in Tables, NEW v, Leads(v, t), NEW m \in Request,
           to_switch' = Append(to_switch, m), sw_flows'[t] = sw_flows[t],
           After(m, t, v[Len(to_switch)]) \in Int \ {Mixed},
           InSync' => After(m, t, v[Len(to_switch)]) = installed'[t]
    PROVE  \E w : Leads(w, t)' /\ Follows(w, v, t)
<1> DEFINE n == Len(to_switch)
<1>0. PICK w : w = [i \in 0 .. n + 1 |-> IF i <= n THEN v[i] ELSE After(m, t, v[n])]
  OBVIOUS
<1>1. n \in Nat /\ Len(to_switch') = n + 1 /\ to_switch'[n + 1] = m
      /\ \A i \in 1 .. n : to_switch'[i] = to_switch[i]
  BY DEF LoopType, ChannelType
<1>2. w \in [0 .. n + 1 -> Int] /\ w[n + 1] = After(m, t, v[n]) /\ \A i \in 0 .. n : w[i] = v[i]
  BY <1>0, <1>1 DEF Leads
<1>3. \A i \in 1 .. n + 1 : w[i] = After(to_switch'[i], t, w[i - 1])
  <2> SUFFICES ASSUME NEW i \in 1 .. n + 1 PROVE w[i] = After(to_switch'[i], t, w[i - 1])
    OBVIOUS
  <2> HIDE DEF n
  <2>1. CASE i = n + 1
    BY <1>1, <1>2, <2>1
  <2>2. CASE i \in 1 .. n
    BY <1>1, <1>2, <2>2 DEF Leads, n
  <2> QED
    BY <1>1, <2>1, <2>2
<1>4. \A i \in 0 .. n + 1 : w[i] # Mixed
  BY <1>1, <1>2 DEF Leads
<1>5. w[0] = sw_flows'[t]
  BY <1>1, <1>2 DEF Leads
<1> HIDE DEF n
<1>6. Leads(w, t)'
  BY <1>1, <1>2, <1>3, <1>4, <1>5 DEF Leads
<1> QED
  BY <1>2, <1>6 DEF n, Follows

\* The switch has processed a request.
LEMMA LeadsProcessed ==
    ASSUME LoopType, NEW t \in Tables, NEW v, Leads(v, t), to_switch # <<>>, to_switch' = Tail(to_switch),
           sw_flows'[t] = After(Head(to_switch), t, sw_flows[t]),
           InSync' => InSync /\ installed'[t] = installed[t]
    PROVE  \E w : Leads(w, t)' /\ Follows(w, v, t)
<1> DEFINE n == Len(to_switch)
<1>0. PICK w : w = [i \in 0 .. n - 1 |-> v[i + 1]]
  OBVIOUS
<1>1. n \in Nat \ {0} /\ Len(to_switch') = n - 1 /\ Head(to_switch) = to_switch[1]
      /\ \A i \in 1 .. n - 1 : to_switch'[i] = to_switch[i + 1]
  BY DEF LoopType, ChannelType
<1>2. \A i \in 0 .. n - 1 : i + 1 \in 1 .. n /\ i + 1 \in 0 .. n
  BY <1>1
<1>3. w \in [0 .. n - 1 -> Int] /\ \A i \in 0 .. n - 1 : w[i] = v[i + 1]
  BY <1>0, <1>2 DEF Leads
<1>4. w[0] = sw_flows'[t]
  BY <1>1, <1>3 DEF Leads
<1>5. \A i \in 1 .. n - 1 : w[i] = After(to_switch'[i], t, w[i - 1])
  <2> SUFFICES ASSUME NEW i \in 1 .. n - 1 PROVE w[i] = After(to_switch'[i], t, w[i - 1])
    OBVIOUS
  <2>1. w[i] = v[i + 1] /\ w[i - 1] = v[i] /\ i + 1 \in 1 .. n
    BY <1>1, <1>3
  <2>2. v[i + 1] = After(to_switch[i + 1], t, v[(i + 1) - 1])
    BY <2>1 DEF Leads
  <2> QED
    BY <1>1, <2>1, <2>2
<1>6. \A i \in 0 .. n - 1 : w[i] # Mixed
  BY <1>2, <1>3 DEF Leads
<1>7. w[n - 1] = v[n]
  BY <1>1, <1>3
<1>8. Leads(w, t)'
  BY <1>1, <1>3, <1>4, <1>5, <1>6, <1>7 DEF Leads
<1> QED
  BY <1>3, <1>8 DEF Follows

\* Nothing reaches a channel that is down, and a new connection is noticed
\* before anything is sent on it.
LEMMA ConnStep == ConnInv /\ [Next]_vars => ConnInv'
<1> SUFFICES ASSUME ConnInv, [Next]_vars PROVE ConnInv'
  OBVIOUS
<1> USE DEF ConnInv
<1>1. ASSUME UNCHANGED <<net_vars, budget_vars>>, pc' = pc \/ pc # "top" \/ ~conn PROVE ConnInv'
  BY <1>1 DEF net_vars, budget_vars
<1>2. CASE UNCHANGED vars \/ SbUpdate \/ CondReply \/ SbReply \/ OvsCommitted \/ Clock
  BY <1>1, <1>2 DEF vars, ofctrl_vars, SbUpdate, CondReply, SbReply, OvsCommitted, Clock, TimerDue
<1>3. CASE Start \/ RequestNb \/ RequestIf \/ SeqnoRunStart \/ SeqnoRun \/ IfAcks \/ Tail_of_iteration \/ Store
  BY <1>1, <1>3 DEF Start, RequestNb, RequestIf, SeqnoRunStart, SeqnoRun, IfAcks, Tail_of_iteration, Store,
     ofctrl_vars
<1>4. CASE EngineRun
  BY <1>1, <1>4 DEF EngineRun, EngineAborted, EngineCompleted, ofctrl_vars
<1>5. CASE Network
  BY <1>5 DEF Network, Drop, Restart, Connect, Disconnect, budget_vars
<1>6. CASE SwitchStep
  <2>1. to_switch # <<>> /\ UNCHANGED <<conn, conn_changed, pc>> /\ n_errors' \in {n_errors, n_errors + 1}
    BY <1>6 DEF SwitchStep, Switch, SwitchTlvRequest, SwitchTlvMod, SwitchPut, budget_vars
  <2> QED
    BY <2>1
<1>7. CASE RunBegin
  <2>1. CASE conn
    BY <1>7, <2>1 DEF RunBegin, OfctrlRunBegin, Goto, budget_vars
  <2>2. CASE ~conn
    BY <1>1, <1>7, <2>2 DEF RunBegin, ofctrl_vars
  <2> QED
    BY <2>1, <2>2
<1>8. CASE Run
  <2>1. UNCHANGED <<conn, conn_changed, n_errors>> /\ pc # "top" /\ (~conn => UNCHANGED to_switch)
    BY <1>8 DEF Run, RunState, run_S_NEW, run_nothing, run_S_WAIT_BEFORE_CLEAR, run_S_CLEAR_FLOWS, QueueMsg,
       net_vars, budget_vars
  <2> QED
    BY <2>1
<1>9. CASE Recv
  <2>1. CASE RecvMsg(Head(to_ofctrl))
    <3>1. UNCHANGED <<conn_changed, n_errors>> /\ pc # "top"
      BY <1>9, <2>1 DEF Recv, RecvMsg, budget_vars, recv_S_TLV_TABLE_REQUESTED, recv_S_TLV_TABLE_MOD_SENT,
         recv_S_WAIT_or_CLEAR, recv_S_UPDATE_FLOWS, ofctrl_recv
    <3>2. \/ conn' = FALSE /\ to_switch' = <<>>
          \/ UNCHANGED <<conn, to_switch>>
          \/ UNCHANGED conn /\ \E m : to_switch' = QueueMsg(m)
      BY <2>1 DEF RecvMsg, recv_S_TLV_TABLE_REQUESTED, recv_S_TLV_TABLE_MOD_SENT, recv_S_WAIT_or_CLEAR,
         recv_S_UPDATE_FLOWS, ofctrl_recv, Consume, Disconnect
    <3> QED
      BY <3>1, <3>2 DEF QueueMsg
  <2>2. CASE UNCHANGED ofctrl_vars
    BY <1>1, <1>9, <2>2 DEF Recv, ofctrl_vars
  <2> QED
    BY <1>9, <2>1, <2>2 DEF Recv
<1>10. CASE Put
  <2>1. CASE ofctrl_put(ofctrl_req_seqno, updated)
    <3>1. UNCHANGED <<conn, conn_changed, n_errors>> /\ pc # "top"
      BY <1>10, <2>1 DEF Put, ofctrl_put, PutNotNeeded, PutSkipped, PutSend, net_vars, budget_vars
    <3>2. UNCHANGED to_switch \/ \E m : to_switch' = QueueMsg(m)
      BY <2>1 DEF ofctrl_put, PutNotNeeded, PutSkipped, PutSend, net_vars
    <3> QED
      BY <3>1, <3>2 DEF QueueMsg
  <2>2. CASE UNCHANGED ofctrl_vars
    BY <1>1, <1>10, <2>2 DEF Put, ofctrl_vars
  <2> QED
    BY <1>10, <2>1, <2>2 DEF Put
<1> QED
  BY <1>2, <1>3, <1>4, <1>5, <1>6, <1>7, <1>8, <1>9, <1>10 DEF Next, Environment, Iteration

LEMMA ErrorsStay == [Next]_vars => n_errors' \in {n_errors, n_errors + 1}
<1> SUFFICES ASSUME [Next]_vars PROVE n_errors' \in {n_errors, n_errors + 1}
  OBVIOUS
<1>1. CASE SwitchStep
  BY <1>1 DEF SwitchStep, Switch, SwitchTlvRequest, SwitchTlvMod, SwitchPut, budget_vars
<1>2. CASE Network
  BY <1>2 DEF Network, Drop, Restart, Connect, budget_vars
<1>3. ASSUME UNCHANGED ofctrl_vars PROVE n_errors' = n_errors
  BY <1>3 DEF ofctrl_vars, budget_vars
<1>4. CASE UNCHANGED vars \/ Start \/ SbUpdate \/ CondReply \/ SbReply \/ SeqnoRunStart \/ SeqnoRun \/ IfAcks
           \/ Tail_of_iteration \/ Store
  BY <1>3, <1>4 DEF vars, Start, SbUpdate, CondReply, SbReply, SeqnoRunStart, SeqnoRun, IfAcks,
     Tail_of_iteration, Store
<1>5. CASE OvsCommitted \/ Clock \/ RequestNb \/ RequestIf
  BY <1>5 DEF OvsCommitted, Clock, TimerDue, RequestNb, RequestIf, budget_vars
<1>6. CASE EngineRun
  BY <1>3, <1>6 DEF EngineRun, EngineAborted, EngineCompleted, budget_vars
<1>7. CASE RunBegin \/ Run
  BY <1>3, <1>7 DEF RunBegin, OfctrlRunBegin, Run, RunState, budget_vars
<1>8. CASE Recv
  BY <1>3, <1>8 DEF Recv, RecvMsg, budget_vars
<1>9. CASE Put
  BY <1>3, <1>9 DEF Put, ofctrl_put, budget_vars
<1> QED
  BY <1>1, <1>2, <1>4, <1>5, <1>6, <1>7, <1>8, <1>9 DEF Next, Environment, Iteration

\* ofctrl_put() sends the difference to what the switch will hold, or nothing
\* because the switch will hold what is desired.
LEMMA PutSent ==
    ASSUME LoopType, TablesInv, ConnInv, pc = "put", OutputsValid, NEW t \in Tables, NEW v, Leads(v, t),
           NEW backlog \in HasBacklog, PutSend(ofctrl_req_seqno, updated, backlog)
    PROVE  /\ conn /\ ~conn_changed /\ state = "S_UPDATE_FLOWS" /\ UNCHANGED <<conn, conn_changed>>
           /\ desired[t] \in Int \ {Mixed, Empty} /\ installed'[t] = desired[t]
           /\ \/ /\ next_xid' = next_xid + 1
                 /\ flow_updates' = TrackUpdate(ofctrl_req_seqno, next_xid) /\ UNCHANGED cur_cfg
                 /\ \E m \in Request : /\ m.type = "put" /\ m.xid = next_xid
                                      /\ to_switch' = Append(to_switch, m)
                                      /\ After(m, t, v[Len(to_switch)]) = desired[t]
              \/ /\ UNCHANGED <<to_switch, next_xid>> /\ NothingSent(ofctrl_req_seqno)
                 /\ InSync /\ installed[t] = desired[t]
<1> DEFINE touched == Touched(updated)
           flush == {z \in Zones : zone_state[z] = "OF_QUEUED"}
           differing == {x \in touched : SentFrom(x) # desired[x]}
           put == [type |-> "put", xid |-> next_xid, flush |-> flush,
                   clear |-> ofctrl_initial_clear,
                   from |-> [x \in differing |-> SentFrom(x)],
                   to |-> [x \in differing |-> desired[x]]]
           last == v[Len(to_switch)]
<1>1. conn /\ ~conn_changed /\ state = "S_UPDATE_FLOWS"
  BY DEF PutSend, CanPut, HasBacklog, ConnInv
<1>2. t \in touched <=> Pending(t)
  BY DEF Touched, Pending, LoopType, TableType
<1>3. SentFrom(t) = installed[t] /\ (t \notin touched => installed[t] = desired[t])
  BY <1>2 DEF TablesInv, InstalledInv, TableTracked, SentFrom, RecomputeDue
<1>4. desired[t] \in Int \ {Mixed, Empty}
  BY DEF TablesInv, OutputsFresh, LoopType, TableType, Mixed, Empty
<1>5. installed'[t] = desired[t] /\ UNCHANGED <<conn, conn_changed>>
  BY <1>3 DEF PutSend
<1>6. ~ofctrl_initial_clear => last = installed[t]
  BY <1>1 DEF Leads, InSync, Fresh
<1>7. t \notin differing => installed[t] = desired[t]
  BY <1>3
<1>8. ofctrl_initial_clear => t \in differing /\ SentFrom(t) = Empty
  BY <1>1, <1>2, <1>3, <1>4 DEF TablesInv, InstalledInv, TableTracked, Fresh, RecomputeDue
<1>9. After(put, t, last) = desired[t]
  <2>1. /\ put.type = "put" /\ put.clear = ofctrl_initial_clear /\ DOMAIN put.from = differing
        /\ t \in differing => put.from[t] = SentFrom(t) /\ put.to[t] = desired[t]
    OBVIOUS
  <2> HIDE DEF put, differing, last
  <2>2. CASE ofctrl_initial_clear
    BY <1>8, <2>1, <2>2 DEF After
  <2>3. CASE ~ofctrl_initial_clear
    BY <1>3, <1>6, <1>7, <2>1, <2>3 DEF After
  <2> QED
    BY <2>2, <2>3
<1>10. put \in Request /\ put.type = "put" /\ put.xid = next_xid
  BY PutTyped DEF LoopType, TableType
<1>11. CASE /\ to_switch' = QueueMsg(put) /\ next_xid' = next_xid + 1
            /\ flow_updates' = TrackUpdate(ofctrl_req_seqno, next_xid) /\ UNCHANGED cur_cfg
  <2>1. to_switch' = Append(to_switch, put)
    BY <1>1, <1>11 DEF QueueMsg
  <2> HIDE DEF put
  <2> QED
    BY <1>1, <1>4, <1>5, <1>9, <1>10, <1>11, <2>1
<1>12. CASE /\ UNCHANGED <<to_switch, next_xid>> /\ ~ofctrl_initial_clear /\ differing = {}
            /\ NothingSent(ofctrl_req_seqno)
  <2>1. InSync
    BY <1>1, <1>12 DEF InSync, Fresh
  <2> QED
    BY <1>1, <1>4, <1>5, <1>7, <1>12, <2>1
<1> QED
  BY <1>11, <1>12 DEF PutSend

LEMMA PutLeads ==
    ASSUME LoopType, TablesInv, ConnInv, pc = "put", OutputsValid, NEW t \in Tables, NEW v, Leads(v, t),
           ofctrl_put(ofctrl_req_seqno, updated)
    PROVE  \E w : Leads(w, t)' /\ Follows(w, v, t)
<1>0. UNCHANGED <<state, sw_flows>>
  BY DEF ofctrl_put, switch_vars
<1>1. ASSUME UNCHANGED <<net_vars, installed, ofctrl_initial_clear>> PROVE Leads(v, t)' /\ Follows(v, v, t)
  BY <1>0, <1>1, LeadsKept DEF InSync, Fresh, net_vars
<1>2. CASE \E backlog \in HasBacklog :
             PutNotNeeded(ofctrl_req_seqno, updated) \/ PutSkipped(ofctrl_req_seqno, updated, backlog)
  BY <1>1, <1>2 DEF PutNotNeeded, PutSkipped, table_vars
<1>3. ASSUME NEW backlog \in HasBacklog, PutSend(ofctrl_req_seqno, updated, backlog)
      PROVE  \E w : Leads(w, t)' /\ Follows(w, v, t)
  <2>1. installed'[t] = desired[t] /\ desired[t] \in Int \ {Mixed, Empty}
    BY <1>3, PutSent
  <2>2. CASE UNCHANGED to_switch /\ InSync /\ installed[t] = desired[t]
    BY <1>0, <2>1, <2>2, LeadsKept
  <2>3. ASSUME NEW m \in Request, to_switch' = Append(to_switch, m),
               After(m, t, v[Len(to_switch)]) = desired[t]
        PROVE  \E w : Leads(w, t)' /\ Follows(w, v, t)
    BY <1>0, <2>1, <2>3, LeadsSent
  <2> QED
    BY <1>3, <2>2, <2>3, PutSent
<1> QED
  BY <1>2, <1>3 DEF ofctrl_put

LEMMA LeadsStep ==
    ASSUME LoopType, LoopType', TablesInv, ConnInv, [Next]_vars, n_errors' = 0, NEW t \in Tables,
           NEW v, Leads(v, t)
    PROVE  \E w : Leads(w, t)' /\ Follows(w, v, t)
<1>1. ASSUME UNCHANGED <<net_vars, sw_flows, state, installed, ofctrl_initial_clear>>
      PROVE  Leads(v, t)' /\ Follows(v, v, t)
  BY <1>1, LeadsKept DEF InSync, Fresh, net_vars
<1>2. ASSUME UNCHANGED ofctrl_vars PROVE Leads(v, t)' /\ Follows(v, v, t)
  BY <1>1, <1>2 DEF ofctrl_vars, net_vars, switch_vars, fsm_vars, table_vars
<1>3. CASE UNCHANGED vars \/ Start \/ SbUpdate \/ CondReply \/ SbReply \/ SeqnoRunStart \/ SeqnoRun \/ IfAcks
           \/ Tail_of_iteration \/ Store
  BY <1>2, <1>3 DEF vars, Start, SbUpdate, CondReply, SbReply, SeqnoRunStart, SeqnoRun, IfAcks,
     Tail_of_iteration, Store
<1>4. CASE OvsCommitted \/ Clock \/ RequestNb \/ RequestIf
  BY <1>1, <1>4 DEF OvsCommitted, Clock, TimerDue, RequestNb, RequestIf, switch_vars, fsm_vars, table_vars
<1>5. CASE EngineRun
  <2>1. CASE UNCHANGED ofctrl_vars
    BY <1>2, <2>1
  <2>2. CASE \E allowed : EngineCompleted(allowed)
    BY <1>1, <2>2 DEF EngineCompleted, fsm_vars
  <2> QED
    BY <1>5, <2>1, <2>2 DEF EngineRun, EngineAborted
<1>6. v[0] = sw_flows[t] /\ v[0] # Mixed
  BY DEF Leads, LoopType, ChannelType
<1>7. CASE Network
  <2>1. CASE Connect
    <3>1. UNCHANGED <<to_switch, sw_flows>> /\ ~InSync'
      BY <2>1 DEF Connect, switch_vars, InSync
    <3> QED
      BY <3>1, LeadsKept
  <2>2. CASE Drop \/ Restart
    <3>1. to_switch' = <<>> /\ ~conn' /\ sw_flows'[t] # Mixed
      BY <1>6, <2>2 DEF Drop, Restart, Disconnect, switch_vars, Empty, Mixed
    <3> QED
      BY <3>1, LeadsLost
  <2> QED
    BY <1>7, <2>1, <2>2 DEF Network
<1>8. CASE SwitchStep
  <2>1. /\ to_switch # <<>> /\ to_switch' = Tail(to_switch)
        /\ UNCHANGED <<conn, conn_changed, state, installed, ofctrl_initial_clear>>
    BY <1>8 DEF SwitchStep, Switch, SwitchTlvRequest, SwitchTlvMod, SwitchPut, fsm_vars, table_vars
  <2>2. InSync' => InSync /\ installed'[t] = installed[t]
    BY <2>1 DEF InSync, Fresh
  <2>3. sw_flows'[t] = After(Head(to_switch), t, sw_flows[t])
    <3>1. CASE SwitchTlvRequest \/ SwitchTlvMod
      BY <3>1 DEF SwitchTlvRequest, SwitchTlvMod, switch_vars, After
    <3>2. CASE SwitchPut
      <4>1. n_errors' # n_errors + 1
        BY DEF ConnInv
      <4>2. sw_flows'[t] = Applied(Head(to_switch), t) /\ Head(to_switch).type = "put"
        BY <3>2, <4>1 DEF SwitchPut
      <4> QED
        BY <4>2 DEF Applied, After
    <3> QED
      BY <1>8, <3>1, <3>2 DEF SwitchStep, Switch
  <2> QED
    BY <2>1, <2>2, <2>3, LeadsProcessed
<1>9. CASE RunBegin
  <2>1. CASE conn
    <3>1. UNCHANGED <<to_switch, sw_flows, installed, ofctrl_initial_clear, conn>>
          /\ (Reconnected => state' = "S_NEW") /\ (~Reconnected => state' = state)
      BY <1>9, <2>1 DEF RunBegin, OfctrlRunBegin, switch_vars, table_vars
    <3>2. InSync' => InSync
      BY <2>1, <3>1 DEF InSync, Fresh, Reconnected
    <3> QED
      BY <3>1, <3>2, LeadsKept
  <2>2. CASE ~conn
    BY <1>2, <1>9, <2>2 DEF RunBegin
  <2> QED
    BY <2>1, <2>2
<1>10. ASSUME NEW m \in TlvRequest \cup TlvMod, to_switch' = QueueMsg(m), UNCHANGED sw_flows, ~InSync'
       PROVE  \E w : Leads(w, t)' /\ Follows(w, v, t)
  <2>1. CASE ~conn
    BY <1>10, <2>1, LeadsKept DEF QueueMsg
  <2>2. CASE conn
    <3>1. m \in Request /\ m.type # "put" /\ to_switch' = Append(to_switch, m)
      BY <1>10, <2>2 DEF QueueMsg, Request, TlvRequest, TlvMod
    <3>2. After(m, t, v[Len(to_switch)]) = v[Len(to_switch)]
      BY <3>1 DEF After
    <3>3. v[Len(to_switch)] \in Int \ {Mixed}
      <4>1. Len(to_switch) \in 0 .. Len(to_switch)
        BY DEF LoopType, ChannelType
      <4> QED
        BY <4>1 DEF Leads
    <3> QED
      BY <1>10, <3>1, <3>2, <3>3, LeadsSent
  <2> QED
    BY <2>1, <2>2
<1>11. CASE Run
  <2>0. UNCHANGED sw_flows
    BY <1>11 DEF Run, RunState, switch_vars
  <2>1. CASE run_S_NEW
    <3> DEFINE m == [type |-> "tlv_request", xid |-> next_xid]
    <3>1. m \in TlvRequest
      BY DEF TlvRequest, LoopType, ChannelType
    <3>2. to_switch' = QueueMsg(m) /\ ~InSync'
      BY <2>1 DEF run_S_NEW, InSync, Fresh
    <3> HIDE DEF m
    <3> QED
      BY <1>10, <2>0, <3>1, <3>2
  <2>2. CASE run_nothing
    BY <1>1, <2>0, <2>2 DEF run_nothing, fsm_vars, table_vars
  <2>3. CASE run_S_WAIT_BEFORE_CLEAR \/ run_S_CLEAR_FLOWS
    <3>1. UNCHANGED to_switch /\ ~InSync'
      BY <2>3 DEF run_S_WAIT_BEFORE_CLEAR, run_S_CLEAR_FLOWS, net_vars, InSync, Fresh
    <3> QED
      BY <2>0, <3>1, LeadsKept
  <2> QED
    BY <1>11, <2>1, <2>2, <2>3 DEF Run, RunState
<1>12. CASE Recv
  <2>1. CASE RecvMsg(Head(to_ofctrl))
    <3> DEFINE m == Head(to_ofctrl)
               n == [type |-> "tlv_mod", xid |-> next_xid, xid2 |-> next_xid + 1]
    <3>1. UNCHANGED <<sw_flows, installed, ofctrl_initial_clear, conn_changed>>
      BY <2>1 DEF RecvMsg, switch_vars, table_vars, recv_S_TLV_TABLE_REQUESTED, recv_S_TLV_TABLE_MOD_SENT,
         recv_S_WAIT_or_CLEAR, recv_S_UPDATE_FLOWS, ofctrl_recv
    <3>2. \/ conn' = FALSE /\ to_switch' = <<>>
          \/ UNCHANGED <<conn, to_switch, state>>
          \/ UNCHANGED to_switch /\ state' # "S_UPDATE_FLOWS"
          \/ to_switch' = QueueMsg(n) /\ state' # "S_UPDATE_FLOWS"
      BY <2>1 DEF RecvMsg, recv_S_TLV_TABLE_REQUESTED, recv_S_TLV_TABLE_MOD_SENT, recv_S_WAIT_or_CLEAR,
         recv_S_UPDATE_FLOWS, ofctrl_recv, Consume, Disconnect, AfterTlvMod, fsm_vars
    <3>3. n \in TlvMod
      BY DEF TlvMod, LoopType, ChannelType
    <3> HIDE DEF n
    <3>4. CASE conn' = FALSE /\ to_switch' = <<>>
      BY <1>6, <3>1, <3>4, LeadsLost
    <3>5. CASE UNCHANGED <<conn, to_switch, state>>
      BY <3>1, <3>5, LeadsKept DEF InSync, Fresh
    <3>6. CASE UNCHANGED to_switch /\ state' # "S_UPDATE_FLOWS"
      BY <3>1, <3>6, LeadsKept DEF InSync, Fresh
    <3>7. CASE to_switch' = QueueMsg(n) /\ state' # "S_UPDATE_FLOWS"
      BY <1>10, <3>1, <3>3, <3>7 DEF InSync, Fresh
    <3> QED
      BY <3>2, <3>4, <3>5, <3>6, <3>7
  <2>2. CASE UNCHANGED ofctrl_vars
    BY <1>2, <2>2
  <2> QED
    BY <1>12, <2>1, <2>2 DEF Recv
<1>13. CASE Put
  BY <1>2, <1>13, PutLeads DEF Put
<1> QED
  BY <1>3, <1>4, <1>5, <1>7, <1>8, <1>9, <1>11, <1>12, <1>13 DEF Next, Environment, Iteration

LEMMA SwitchStepInv == LoopType /\ LoopType' /\ TablesInv /\ SwitchInv /\ [Next]_vars => SwitchInv'
<1> SUFFICES ASSUME LoopType, LoopType', TablesInv, SwitchInv, [Next]_vars PROVE SwitchInv'
  OBVIOUS
<1>1. ConnInv'
  BY ConnStep DEF SwitchInv
<1>2. ASSUME n_errors' = 0 PROVE n_errors = 0
  BY <1>2, ErrorsStay DEF SwitchInv, ConnInv
<1>3. ASSUME n_errors' = 0, NEW t \in Tables PROVE \E w : Leads(w, t)'
  <2>1. PICK v : Leads(v, t)
    BY <1>2, <1>3 DEF SwitchInv
  <2> QED
    BY <1>3, <2>1, LeadsStep DEF SwitchInv
<1> QED
  BY <1>1, <1>3 DEF SwitchInv

LEMMA TablesInit == Init => LoopType /\ HoldInv /\ TablesInv /\ SwitchInv
<1> SUFFICES ASSUME Init PROVE LoopType /\ HoldInv /\ TablesInv /\ SwitchInv
  OBVIOUS
<1> USE DEF Init, OfctrlInit
<1>1. LoopType
  BY TypeInit
<1>2. HoldInv
  BY DEF HoldInv, WaitHonoured, OutputsValid
<1>3. TablesInv
  BY MsgsNone DEF TablesInv, OutputsFresh, InstalledInv, TableTracked, Fresh, RecomputeDue, OutputsValid,
     PutsComplete, Mixed, Empty
<1>4. ASSUME NEW t \in Tables PROVE \E v : Leads(v, t)
  <2>1. PICK v : v = [i \in 0 .. 0 |-> Foreign]
    OBVIOUS
  <2>2. Len(to_switch) = 0 /\ sw_flows[t] = Foreign /\ ~InSync
    BY DEF InSync
  <2>3. Leads(v, t)
    BY <2>1, <2>2 DEF Leads, Foreign, Mixed
  <2> QED
    BY <2>3
<1> QED
  BY <1>1, <1>2, <1>3, <1>4 DEF SwitchInv, ConnInv

\* The inductive invariant of the flow tables and the switch.
LEMMA TablesAlways == Spec => [](LoopType /\ HoldInv /\ TablesInv /\ SwitchInv)
<1>1. LoopType /\ HoldInv /\ TablesInv /\ SwitchInv /\ [Next]_vars
          => (LoopType /\ HoldInv /\ TablesInv /\ SwitchInv)'
  BY TypeStep, HoldStep, TablesStep, SwitchStepInv
<1> QED
  BY <1>1, TablesInit, PTL DEF Spec

\* The differences ofctrl_put() sends are taken against what the switch really
\* holds: as long as the switch refuses none of them, no table of the switch or of
\* the bookkeeping is ever a mixture of two versions.  (After a refusal, puts
\* already on their way reach a switch that does not hold what they start from;
\* ofctrl_recv() then drops the connection.)
THEOREM NeverMixedWithoutErrors == Spec => [](n_errors = 0 => SwitchNeverMixed)
<1>1. LoopType /\ TablesInv /\ SwitchInv => (n_errors = 0 => SwitchNeverMixed)
  <2> SUFFICES ASSUME LoopType, TablesInv, SwitchInv, n_errors = 0, NEW t \in Tables
               PROVE  Mixed \notin {sw_flows[t], installed[t]}
    BY DEF SwitchNeverMixed
  <2>1. PICK v : Leads(v, t)
    BY DEF SwitchInv
  <2>2. sw_flows[t] # Mixed
    BY <2>1 DEF Leads, LoopType, ChannelType
  <2>3. installed[t] # Mixed
    BY DEF TablesInv, InstalledInv
  <2> QED
    BY <2>2, <2>3
<1> QED
  BY <1>1, TablesAlways, PTL

\* The bookkeeping is right whatever the switch refuses: each table's changes are
\* tracked against what is installed when ofctrl_put() uses them.
THEOREM InstalledNeverMixed == Spec => [](\A t \in Tables : installed[t] # Mixed)
<1>1. TablesInv => \A t \in Tables : installed[t] # Mixed
  BY DEF TablesInv, InstalledInv
<1> QED
  BY <1>1, TablesAlways, PTL

\* The two assertions at the end of ofctrl_put() that no tracked flow is left hold
\* in every put: a table that is not looked at has nothing to send.
THEOREM TrackedFlowsAlwaysSent == Spec => []AssertNoTrackedFlows
<1>1. LoopType /\ TablesInv => AssertNoTrackedFlows
  <2> SUFFICES ASSUME LoopType, TablesInv, pc = "put", OutputsValid, state = "S_UPDATE_FLOWS",
                      NEW t \in Tables \ Touched(updated), change_tracked[t]
               PROVE  tracked_from[t] = desired[t]
    BY DEF AssertNoTrackedFlows, PutLeavesNoTracked
  <2>1. ~Pending(t)
    BY DEF Pending, Touched
  <2> QED
    BY <2>1 DEF TablesInv, InstalledInv, TableTracked, RecomputeDue
<1> QED
  BY <1>1, TablesAlways, PTL

\* Forwarding stops only with the switch: a bundle that clears what an earlier
\* connection left brings every table with it, so that no table of the switch
\* becomes empty in a step of ovn-controller or of the switch processing its
\* requests.
THEOREM FlowsAlwaysReplaced == Spec => FlowsOnlyReplaced
<1> DEFINE Replaced == \A t \in Tables : sw_flows[t] # Empty /\ sw_flows'[t] = Empty => Restart
<1>1. ASSUME LoopType, TablesInv, [Next]_vars, NEW t \in Tables, sw_flows[t] # Empty, sw_flows'[t] = Empty
      PROVE  Restart
  <2>1. CASE Network
    BY <1>1, <2>1 DEF Network, Drop, Connect, switch_vars
  <2>2. CASE SwitchStep
    <3>1. CASE SwitchTlvRequest \/ SwitchTlvMod
      BY <1>1, <3>1 DEF SwitchTlvRequest, SwitchTlvMod, switch_vars
    <3>2. CASE SwitchPut
      <4> DEFINE m == Head(to_switch)
      <4>1. to_switch # <<>> /\ m.type = "put" /\ m \in Msgs(to_switch)
        BY <1>1, <3>2, MsgsHead DEF SwitchPut, LoopType, ChannelType
      <4>2. /\ m.clear => t \in DOMAIN m.from
            /\ t \in DOMAIN m.from => m.to[t] # Empty
        BY <1>1, <4>1 DEF TablesInv, PutsComplete, Empty
      <4>3. Applied(m, t) # Empty
        <5> HIDE DEF m
        <5> QED
          BY <1>1, <4>2 DEF Applied, Mixed, Empty
      <4>4. sw_flows'[t] \in {sw_flows[t], Applied(m, t)}
        BY <1>1, <3>2 DEF SwitchPut
      <4> QED
        BY <1>1, <4>3, <4>4
    <3> QED
      BY <2>2, <3>1, <3>2 DEF SwitchStep, Switch
  <2>3. CASE UNCHANGED vars \/ Start \/ SbUpdate \/ CondReply \/ SbReply \/ OvsCommitted \/ Clock
    BY <1>1, <2>3 DEF vars, ofctrl_vars, switch_vars, Start, SbUpdate, CondReply, SbReply, OvsCommitted, Clock,
       TimerDue
  <2>4. CASE RunBegin \/ Run \/ Recv \/ EngineRun \/ RequestNb \/ RequestIf
    <3>1. UNCHANGED sw_flows
      <4>1. CASE RunBegin \/ Run
        BY <4>1 DEF RunBegin, OfctrlRunBegin, Run, RunState, ofctrl_vars, switch_vars
      <4>2. CASE Recv
        BY <4>2 DEF Recv, RecvMsg, ofctrl_vars, switch_vars
      <4>3. CASE EngineRun
        BY <4>3 DEF EngineRun, EngineAborted, EngineCompleted, ofctrl_vars, switch_vars
      <4>4. CASE RequestNb \/ RequestIf
        BY <4>4 DEF RequestNb, RequestIf, switch_vars
      <4> QED
        BY <2>4, <4>1, <4>2, <4>3, <4>4
    <3> QED
      BY <1>1, <3>1
  <2>5. CASE Put \/ SeqnoRunStart \/ SeqnoRun \/ IfAcks \/ Tail_of_iteration \/ Store
    BY <1>1, <2>5 DEF Put, ofctrl_put, SeqnoRunStart, SeqnoRun, IfAcks, Tail_of_iteration, Store, ofctrl_vars,
       switch_vars
  <2> QED
    BY <1>1, <2>1, <2>2, <2>3, <2>4, <2>5 DEF Next, Environment, Iteration
<1>2. LoopType /\ TablesInv /\ [Next]_vars => [Replaced]_vars
  BY <1>1
<1> QED
  BY <1>2, TablesAlways, PTL DEF Spec, FlowsOnlyReplaced

-----------------------------------------------------------------------------
(***************************************************************************)
(* The negotiation of the Geneve option: whatever connections are lost,    *)
(* switches restart and races with another controller are lost, flows use  *)
(* the option only when the switch maps it.                                *)
(***************************************************************************)

\* Nothing is in transit before the process has noticed the connection.
ChannelsClean == ~conn \/ conn_changed => to_switch = <<>> /\ to_ofctrl = <<>>

IsMod(m) == m.type = "tlv_mod"

\* Transaction ids are never used twice.
XidsIssued ==
    /\ xid < next_xid /\ xid2 < next_xid
    /\ \A m \in Msgs(to_switch) : m.xid < next_xid /\ (IsMod(m) => m.xid2 < next_xid)
    /\ \A m \in Msgs(to_ofctrl) : m.xid < next_xid

\* The switch has refused the mapping because another controller was faster.
LostRace(m) == m.type = "error" /\ m.xid = xid /\ m.info = "raced"

\* A mapping on its way to the switch is the one S_TLV_TABLE_MOD_SENT waits for,
\* and is not answered yet.
ModsAwaited ==
    \A i \in 1 .. Len(to_switch) :
        IsMod(to_switch[i]) =>
            /\ state = "S_TLV_TABLE_MOD_SENT"
            /\ to_switch[i].xid = xid /\ to_switch[i].xid2 = xid2
            /\ \A j \in 1 .. Len(to_switch) : IsMod(to_switch[j]) => j = i
            /\ \A m \in Msgs(to_ofctrl) : m.xid \notin {xid, xid2}

\* No other request has one of its ids.
OthersDiffer ==
    state = "S_TLV_TABLE_MOD_SENT" =>
        \A m \in Msgs(to_switch) : ~IsMod(m) => m.xid \notin {xid, xid2}

\* A reply that finds the option mapped is still true when it is received.
RepliesTrue ==
    state = "S_TLV_TABLE_REQUESTED" =>
        \A m \in Msgs(to_ofctrl) :
            m.type = "tlv_reply" /\ m.xid = xid /\ m.info = "ours" => sw_tlv = "ours"

\* The first answer to the mapping tells whether it was made.
AnswersTrue ==
    state = "S_TLV_TABLE_MOD_SENT" =>
        \A i \in 1 .. Len(to_ofctrl) :
            to_ofctrl[i].xid \in {xid, xid2} =>
                sw_tlv = "ours" \/ \E j \in 1 .. i : LostRace(to_ofctrl[j])

TlvInv == ModsAwaited /\ OthersDiffer /\ RepliesTrue /\ AnswersTrue /\ GeneveOnlyIfMapped

GeneveInv == ChannelsClean /\ XidsIssued /\ (n_errors = 0 => TlvInv)

-----------------------------------------------------------------------------
(* The steps that concern the negotiation. *)

tlv_vars == <<net_vars, sw_tlv, fsm_vars>>

\* A request of ofctrl_put() is queued.
PutQueued ==
    /\ pc = "put" /\ state = "S_UPDATE_FLOWS"
    /\ next_xid' = next_xid + 1
    /\ UNCHANGED <<conn, conn_changed, to_ofctrl, sw_tlv, state, xid, xid2, mff_ovn_geneve>>
    /\ \E m \in Request : m.type = "put" /\ m.xid = next_xid /\ to_switch' = QueueMsg(m)

\* The hold ends or the old flows are cleared.
HoldMoves ==
    /\ {state, state'} \subseteq {"S_WAIT_BEFORE_CLEAR", "S_CLEAR_FLOWS", "S_UPDATE_FLOWS"}
    /\ UNCHANGED <<net_vars, sw_tlv, xid, xid2, next_xid, mff_ovn_geneve>>

LEMMA PutSteps ==
    ASSUME LoopType, pc = "put", ofctrl_put(ofctrl_req_seqno, updated)
    PROVE  UNCHANGED tlv_vars \/ PutQueued
<1>0. UNCHANGED <<sw_tlv, state, xid, xid2, mff_ovn_geneve>>
  BY DEF ofctrl_put, switch_vars
<1>1. ASSUME UNCHANGED <<net_vars, next_xid>> PROVE UNCHANGED tlv_vars
  BY <1>0, <1>1 DEF tlv_vars, fsm_vars
<1>2. CASE \E backlog \in HasBacklog :
             PutNotNeeded(ofctrl_req_seqno, updated) \/ PutSkipped(ofctrl_req_seqno, updated, backlog)
  BY <1>1, <1>2 DEF PutNotNeeded, PutSkipped
<1>3. ASSUME NEW backlog \in HasBacklog, PutSend(ofctrl_req_seqno, updated, backlog)
      PROVE  UNCHANGED tlv_vars \/ PutQueued
  <2> DEFINE flush == {z \in Zones : zone_state[z] = "OF_QUEUED"}
             differing == {x \in Touched(updated) : SentFrom(x) # desired[x]}
             put == [type |-> "put", xid |-> next_xid, flush |-> flush,
                     clear |-> ofctrl_initial_clear,
                     from |-> [x \in differing |-> SentFrom(x)],
                     to |-> [x \in differing |-> desired[x]]]
  <2>1. state = "S_UPDATE_FLOWS" /\ UNCHANGED <<conn, conn_changed, to_ofctrl>>
    BY <1>3 DEF PutSend, CanPut
  <2>2. UNCHANGED <<to_switch, next_xid>> \/ (to_switch' = QueueMsg(put) /\ next_xid' = next_xid + 1)
    BY <1>3 DEF PutSend
  <2>3. put \in Request
    BY PutTyped DEF LoopType, TableType
  <2>4. put.type = "put" /\ put.xid = next_xid
    OBVIOUS
  <2> HIDE DEF put
  <2> QED
    BY <1>0, <1>1, <2>1, <2>2, <2>3, <2>4 DEF PutQueued, net_vars
<1> QED
  BY <1>2, <1>3 DEF ofctrl_put

LEMMA TlvSteps ==
    ASSUME LoopType, [Next]_vars
    PROVE  \/ UNCHANGED tlv_vars
           \/ Drop \/ Restart \/ (pc = "top" /\ Connect)
           \/ SwitchTlvRequest \/ SwitchTlvMod \/ SwitchPut
           \/ pc = "top" /\ OfctrlRunBegin
           \/ pc = "run" /\ run_S_NEW /\ UNCHANGED sw_tlv
           \/ HoldMoves
           \/ pc = "recv" /\ RecvMsg(Head(to_ofctrl))
           \/ PutQueued
<1>1. ASSUME UNCHANGED ofctrl_vars PROVE UNCHANGED tlv_vars
  BY <1>1 DEF ofctrl_vars, tlv_vars, switch_vars
<1>2. CASE UNCHANGED vars \/ Start \/ SbUpdate \/ CondReply \/ SbReply \/ SeqnoRunStart \/ SeqnoRun \/ IfAcks
           \/ Tail_of_iteration \/ Store
  BY <1>1, <1>2 DEF vars, Start, SbUpdate, CondReply, SbReply, SeqnoRunStart, SeqnoRun, IfAcks,
     Tail_of_iteration, Store
<1>3. CASE OvsCommitted \/ Clock \/ RequestNb \/ RequestIf
  BY <1>3 DEF OvsCommitted, Clock, TimerDue, RequestNb, RequestIf, switch_vars, tlv_vars
<1>4. CASE EngineRun
  BY <1>1, <1>4 DEF EngineRun, EngineAborted, EngineCompleted, tlv_vars
<1>5. CASE Network \/ SwitchStep
  BY <1>5 DEF Network, SwitchStep, Switch
<1>6. CASE RunBegin
  BY <1>1, <1>6 DEF RunBegin
<1>7. CASE Run
  <2>1. CASE run_S_NEW
    BY <1>7, <2>1 DEF Run, RunState, switch_vars
  <2>2. CASE run_nothing
    BY <1>7, <2>2 DEF Run, RunState, switch_vars, run_nothing, tlv_vars
  <2>3. CASE run_S_WAIT_BEFORE_CLEAR \/ run_S_CLEAR_FLOWS
    BY <1>7, <2>3 DEF Run, RunState, switch_vars, run_S_WAIT_BEFORE_CLEAR, run_S_CLEAR_FLOWS, HoldMoves
  <2> QED
    BY <1>7, <2>1, <2>2, <2>3 DEF Run, RunState
<1>8. CASE Recv
  BY <1>1, <1>8 DEF Recv
<1>9. CASE Put
  BY <1>1, <1>9, PutSteps DEF Put
<1> QED
  BY <1>2, <1>3, <1>4, <1>5, <1>6, <1>7, <1>8, <1>9 DEF Next, Environment, Iteration

\* What receiving a message does to the negotiation: the message is passed over
\* (or the connection dropped for it), or it answers what the state waits for.
RecvPasses(m) ==
    /\ state = "S_TLV_TABLE_REQUESTED" => m.xid # xid
    /\ state = "S_TLV_TABLE_MOD_SENT" => m.xid \notin {xid, xid2}
    /\ Disconnect \/ Consume
    /\ UNCHANGED <<fsm_vars, conn_changed>>

RecvAnswers(m) ==
    /\ state = "S_TLV_TABLE_REQUESTED"
    /\ state' = "S_WAIT_BEFORE_CLEAR"
    /\ mff_ovn_geneve' # 0 => m.type = "tlv_reply" /\ m.xid = xid /\ m.info = "ours"
    /\ Consume
    /\ UNCHANGED <<conn_changed, xid, xid2, next_xid>>

RecvFree ==
    /\ state = "S_TLV_TABLE_REQUESTED"
    /\ state' = "S_TLV_TABLE_MOD_SENT"
    /\ xid' = next_xid /\ xid2' = next_xid + 1 /\ next_xid' = next_xid + 2
    /\ to_switch' = QueueMsg([type |-> "tlv_mod", xid |-> next_xid, xid2 |-> next_xid + 1])
    /\ to_ofctrl' = Tail(to_ofctrl)
    /\ UNCHANGED <<conn, conn_changed>>

RecvModAnswer(m) ==
    /\ state = "S_TLV_TABLE_MOD_SENT"
    /\ m.xid \in {xid, xid2}
    /\ state' = IF LostRace(m) THEN "S_NEW" ELSE "S_WAIT_BEFORE_CLEAR"
    /\ Consume
    /\ UNCHANGED <<conn_changed, xid, xid2, next_xid, mff_ovn_geneve>>

LEMMA RecvSteps ==
    ASSUME NEW m, RecvMsg(m)
    PROVE  /\ to_ofctrl # <<>> /\ m = Head(to_ofctrl) /\ UNCHANGED <<sw_tlv, n_errors>>
           /\ RecvPasses(m) \/ RecvAnswers(m) \/ RecvFree \/ RecvModAnswer(m)
<1>1. to_ofctrl # <<>> /\ m = Head(to_ofctrl) /\ UNCHANGED <<sw_tlv, n_errors>>
  BY DEF RecvMsg, Received, switch_vars, budget_vars
<1>2. CASE recv_S_TLV_TABLE_REQUESTED(m)
  <2>1. CASE m.xid # xid /\ ofctrl_recv(m)
    BY <1>1, <1>2, <2>1 DEF recv_S_TLV_TABLE_REQUESTED, ofctrl_recv, RecvPasses
  <2>2. CASE RecvFree
    BY <1>1, <2>2
  <2>3. CASE ~RecvFree /\ ~(m.xid # xid /\ ofctrl_recv(m))
    BY <1>1, <1>2, <2>3 DEF recv_S_TLV_TABLE_REQUESTED, RecvFree, RecvAnswers
  <2> QED
    BY <1>1, <2>1, <2>2, <2>3
<1>3. CASE recv_S_TLV_TABLE_MOD_SENT(m)
  <2>1. CASE m.xid \notin {xid, xid2} /\ ofctrl_recv(m)
    BY <1>1, <1>3, <2>1 DEF recv_S_TLV_TABLE_MOD_SENT, ofctrl_recv, RecvPasses
  <2>2. CASE m.xid \in {xid, xid2}
    BY <1>1, <1>3, <2>2 DEF recv_S_TLV_TABLE_MOD_SENT, AfterTlvMod, LostRace, RecvModAnswer
  <2> QED
    BY <1>3, <2>1, <2>2 DEF recv_S_TLV_TABLE_MOD_SENT
<1>4. CASE recv_S_WAIT_or_CLEAR(m)
  BY <1>1, <1>4 DEF recv_S_WAIT_or_CLEAR, ofctrl_recv, RecvPasses
<1>5. CASE recv_S_UPDATE_FLOWS(m)
  BY <1>1, <1>5 DEF recv_S_UPDATE_FLOWS, ofctrl_recv, RecvPasses
<1> QED
  BY <1>1, <1>2, <1>3, <1>4, <1>5 DEF RecvMsg

-----------------------------------------------------------------------------
(* Channels and transaction ids. *)

LEMMA CleanStep == LoopType /\ ConnInv /\ ChannelsClean /\ [Next]_vars => ChannelsClean'
<1> SUFFICES ASSUME LoopType, ConnInv, ChannelsClean, [Next]_vars PROVE ChannelsClean'
  OBVIOUS
<1> USE DEF ChannelsClean
<1>1. CASE UNCHANGED tlv_vars \/ HoldMoves
  BY <1>1 DEF tlv_vars, HoldMoves, net_vars
<1>2. CASE Drop \/ Restart \/ Connect
  BY <1>2 DEF Drop, Restart, Connect, Disconnect
<1>3. CASE SwitchTlvRequest \/ SwitchTlvMod \/ SwitchPut
  BY <1>3 DEF SwitchTlvRequest, SwitchTlvMod, SwitchPut
<1>4. CASE OfctrlRunBegin
  BY <1>4 DEF OfctrlRunBegin
<1>5. ASSUME pc # "top", UNCHANGED <<conn, conn_changed, to_ofctrl>>, NEW m, to_switch' = QueueMsg(m)
      PROVE  ChannelsClean'
  BY <1>5 DEF QueueMsg, ConnInv
<1>6. CASE pc = "run" /\ run_S_NEW
  BY <1>5, <1>6 DEF run_S_NEW
<1>7. CASE PutQueued
  BY <1>5, <1>7 DEF PutQueued
<1>8. CASE pc = "recv" /\ RecvMsg(Head(to_ofctrl))
  <2>1. to_ofctrl # <<>> /\ UNCHANGED conn_changed
    BY <1>8, RecvSteps DEF RecvPasses, RecvAnswers, RecvFree, RecvModAnswer
  <2>2. Disconnect \/ UNCHANGED conn
    BY <1>8, RecvSteps DEF RecvPasses, RecvAnswers, RecvFree, RecvModAnswer, Consume
  <2> QED
    BY <2>1, <2>2 DEF Disconnect
<1> QED
  BY <1>1, <1>2, <1>3, <1>4, <1>6, <1>7, <1>8, TlvSteps

\* What the channels hold after a step.
LEMMA XidsKept ==
    ASSUME LoopType, LoopType', XidsIssued, next_xid' >= next_xid, xid' < next_xid', xid2' < next_xid',
           \A m \in Msgs(to_switch') \ Msgs(to_switch) :
               m.xid < next_xid' /\ (IsMod(m) => m.xid2 < next_xid'),
           \A m \in Msgs(to_ofctrl') \ Msgs(to_ofctrl) : m.xid < next_xid'
    PROVE  XidsIssued'
<1>1. next_xid \in Nat /\ next_xid' \in Nat
  BY DEF LoopType, ChannelType
<1>2. \A m \in Msgs(to_switch) : m.xid \in Nat /\ (IsMod(m) => m.xid2 \in Nat)
  BY MsgsTyped, RequestFields DEF LoopType, ChannelType, IsMod
<1>3. \A m \in Msgs(to_ofctrl) : m.xid \in Nat
  <2>1. Msgs(to_ofctrl) \subseteq Answer
    BY MsgsTyped DEF LoopType, ChannelType
  <2> QED
    BY <2>1 DEF Answer
<1>4. ASSUME NEW m \in Msgs(to_switch') PROVE m.xid < next_xid' /\ (IsMod(m) => m.xid2 < next_xid')
  BY <1>1, <1>2 DEF XidsIssued
<1>5. ASSUME NEW m \in Msgs(to_ofctrl') PROVE m.xid < next_xid'
  BY <1>1, <1>3 DEF XidsIssued
<1> QED
  BY <1>4, <1>5 DEF XidsIssued, IsMod

\* The answers of the switch.
LEMMA SwitchAnswers ==
    ASSUME LoopType, Switch
    PROVE  /\ to_switch # <<>> /\ Head(to_switch) \in Msgs(to_switch) /\ to_switch' = Tail(to_switch)
           /\ UNCHANGED <<conn, conn_changed, fsm_vars>>
           /\ \A m \in Msgs(to_ofctrl') \ Msgs(to_ofctrl) :
                  m.xid \in {0, Head(to_switch).xid} \/ (IsMod(Head(to_switch)) /\ m.xid = Head(to_switch).xid2)
<1> DEFINE h == Head(to_switch)
<1>1. to_switch # <<>> /\ to_switch' = Tail(to_switch) /\ UNCHANGED <<conn, conn_changed, fsm_vars>>
  BY DEF Switch, SwitchTlvRequest, SwitchTlvMod, SwitchPut
<1>2. h \in Msgs(to_switch) /\ h \in Request
  BY <1>1, MsgsHead DEF LoopType, ChannelType
<1>3. h.xid \in Nat /\ (IsMod(h) => h.xid2 \in Nat)
  BY <1>2, RequestFields DEF IsMod
<1>4. to_ofctrl \in Seq(Answer) /\ sw_tlv \in TlvInfo
  BY DEF LoopType, ChannelType
<1>5. CASE SwitchTlvRequest
  <2>1. PICK b \in Answer : b.xid = h.xid /\ to_ofctrl' = Append(to_ofctrl, b)
    <3>1. /\ Reply("error", h.xid, "refused") \in Answer /\ Reply("error", h.xid, "refused").xid = h.xid
          /\ Reply("tlv_reply", h.xid, sw_tlv) \in Answer /\ Reply("tlv_reply", h.xid, sw_tlv).xid = h.xid
      BY <1>3, <1>4 DEF Reply, Answer
    <3>2. \/ to_ofctrl' = Append(to_ofctrl, Reply("error", h.xid, "refused"))
          \/ to_ofctrl' = Append(to_ofctrl, Reply("tlv_reply", h.xid, sw_tlv))
      BY <1>5 DEF SwitchTlvRequest
    <3> QED
      BY <3>1, <3>2
  <2>2. Msgs(to_ofctrl') \subseteq Msgs(to_ofctrl) \cup {b}
    BY <1>4, <2>1, AnswerAdded
  <2> QED
    BY <1>1, <1>2, <2>1, <2>2
<1>6. CASE SwitchTlvMod
  <2> DEFINE b == Reply("barrier", h.xid2, "")
             raced == Reply("error", h.xid, "raced")
             refused == Reply("error", h.xid, "refused")
  <2>1. IsMod(h)
    BY <1>6 DEF SwitchTlvMod, IsMod
  <2>2. b \in Answer /\ raced \in Answer /\ refused \in Answer
    BY <1>3, <2>1 DEF Reply, Answer
  <2>3. b.xid = h.xid2 /\ raced.xid = h.xid /\ refused.xid = h.xid
    BY DEF Reply
  <2>4. \/ to_ofctrl' = to_ofctrl \o <<>> \o <<b>>
        \/ to_ofctrl' = to_ofctrl \o <<raced>> \o <<b>>
        \/ to_ofctrl' = to_ofctrl \o <<refused>> \o <<b>>
    BY <1>6 DEF SwitchTlvMod
  <2> HIDE DEF b, raced, refused
  <2>5. Msgs(to_ofctrl') \subseteq Msgs(to_ofctrl) \cup {b, raced, refused}
    <3>1. CASE to_ofctrl' = to_ofctrl \o <<>> \o <<b>>
      BY <1>4, <2>2, <3>1, AnswerAdded
    <3>2. CASE to_ofctrl' = to_ofctrl \o <<raced>> \o <<b>>
      <4>1. Msgs(to_ofctrl') \subseteq Msgs(to_ofctrl) \cup {b, raced}
        BY <1>4, <2>2, <3>2, Answered
      <4> QED
        BY <4>1
    <3>3. CASE to_ofctrl' = to_ofctrl \o <<refused>> \o <<b>>
      <4>1. Msgs(to_ofctrl') \subseteq Msgs(to_ofctrl) \cup {b, refused}
        BY <1>4, <2>2, <3>3, Answered
      <4> QED
        BY <4>1
    <3> QED
      BY <2>4, <3>1, <3>2, <3>3
  <2> QED
    BY <1>1, <1>2, <2>1, <2>3, <2>5
<1>7. CASE SwitchPut
  <2> DEFINE b == Reply("barrier", h.xid, "")
             refused == Reply("error", 0, "refused")
  <2>1. b \in Answer /\ refused \in Answer /\ b.xid = h.xid /\ refused.xid = 0
    BY <1>3 DEF Reply, Answer
  <2>2. to_ofctrl' = Append(to_ofctrl, b) \/ to_ofctrl' = to_ofctrl \o <<refused, b>>
    BY <1>7 DEF SwitchPut
  <2> HIDE DEF b, refused
  <2>3. Msgs(to_ofctrl') \subseteq Msgs(to_ofctrl) \cup {b, refused}
    BY <1>4, <2>1, <2>2, Answered
  <2> QED
    BY <1>1, <1>2, <2>1, <2>3
<1> QED
  BY <1>5, <1>6, <1>7 DEF Switch

LEMMA XidsStep == LoopType /\ LoopType' /\ XidsIssued /\ [Next]_vars => XidsIssued'
<1> SUFFICES ASSUME LoopType, LoopType', XidsIssued, [Next]_vars PROVE XidsIssued'
  OBVIOUS
<1>0. /\ next_xid \in Nat \ {0} /\ next_xid' \in Nat /\ xid \in Nat /\ xid2 \in Nat
      /\ xid < next_xid /\ xid2 < next_xid /\ to_switch \in Seq(Request) /\ to_ofctrl \in Seq(Answer)
  BY DEF LoopType, ChannelType, XidsIssued
<1>1. ASSUME UNCHANGED <<xid, xid2, next_xid>>, to_switch' \in {to_switch, <<>>},
             to_ofctrl' \in {to_ofctrl, <<>>}
      PROVE  XidsIssued'
  BY <1>0, <1>1, MsgsNone DEF XidsIssued
<1>2. CASE UNCHANGED tlv_vars \/ HoldMoves \/ Drop \/ Restart \/ Connect \/ OfctrlRunBegin
  BY <1>1, <1>2 DEF tlv_vars, HoldMoves, Drop, Restart, Connect, Disconnect, OfctrlRunBegin, net_vars, fsm_vars
<1>3. CASE Switch
  <2>1. Msgs(to_switch') \subseteq Msgs(to_switch) /\ UNCHANGED <<xid, xid2, next_xid>>
    BY <1>0, <1>3, SwitchAnswers, MsgsTail DEF fsm_vars
  <2>2. Head(to_switch).xid < next_xid /\ (IsMod(Head(to_switch)) => Head(to_switch).xid2 < next_xid)
    BY <1>3, SwitchAnswers DEF XidsIssued
  <2>3. \A m \in Msgs(to_ofctrl') \ Msgs(to_ofctrl) : m.xid < next_xid'
    BY <1>0, <1>3, <2>1, <2>2, SwitchAnswers
  <2> QED
    BY <1>0, <2>1, <2>3, XidsKept
<1>4. ASSUME NEW m \in Request, to_switch' = QueueMsg(m)
      PROVE  Msgs(to_switch') \subseteq Msgs(to_switch) \cup {m}
  BY <1>0, <1>4, MsgsAppend DEF QueueMsg
<1>5. CASE run_S_NEW
  <2> DEFINE m == [type |-> "tlv_request", xid |-> next_xid]
  <2>1. m \in Request /\ m.xid = next_xid /\ ~IsMod(m) /\ to_switch' = QueueMsg(m)
    BY <1>0, <1>5 DEF Request, TlvRequest, IsMod, run_S_NEW
  <2>2. xid' = next_xid /\ next_xid' = next_xid + 1 /\ UNCHANGED <<to_ofctrl, xid2>>
    BY <1>5 DEF run_S_NEW
  <2> HIDE DEF m
  <2>3. Msgs(to_switch') \subseteq Msgs(to_switch) \cup {m}
    BY <1>4, <2>1
  <2> QED
    BY <1>0, <2>1, <2>2, <2>3, XidsKept
<1>6. CASE PutQueued
  <2>1. PICK m \in Request : m.type = "put" /\ m.xid = next_xid /\ to_switch' = QueueMsg(m)
    BY <1>6 DEF PutQueued
  <2>2. next_xid' = next_xid + 1 /\ UNCHANGED <<to_ofctrl, xid, xid2>>
    BY <1>6 DEF PutQueued
  <2>3. Msgs(to_switch') \subseteq Msgs(to_switch) \cup {m} /\ ~IsMod(m)
    BY <1>4, <2>1 DEF IsMod
  <2> QED
    BY <1>0, <2>1, <2>2, <2>3, XidsKept
<1>7. CASE RecvMsg(Head(to_ofctrl))
  <2>1. to_ofctrl # <<>> /\ Msgs(Tail(to_ofctrl)) \subseteq Msgs(to_ofctrl)
    BY <1>0, <1>7, RecvSteps, MsgsTail
  <2>2. CASE RecvFree
    <3> DEFINE m == [type |-> "tlv_mod", xid |-> next_xid, xid2 |-> next_xid + 1]
    <3>1. m \in Request /\ m.xid = next_xid /\ m.xid2 = next_xid + 1 /\ to_switch' = QueueMsg(m)
      BY <1>0, <2>2 DEF Request, TlvMod, RecvFree
    <3>2. xid' = next_xid /\ xid2' = next_xid + 1 /\ next_xid' = next_xid + 2 /\ to_ofctrl' = Tail(to_ofctrl)
      BY <2>2 DEF RecvFree
    <3> HIDE DEF m
    <3>3. Msgs(to_switch') \subseteq Msgs(to_switch) \cup {m}
      BY <1>4, <3>1
    <3> QED
      BY <1>0, <2>1, <3>1, <3>2, <3>3, XidsKept
  <2>3. CASE ~RecvFree
    <3>1. UNCHANGED <<xid, xid2, next_xid>> /\ (Disconnect \/ Consume)
      BY <1>7, <2>3, RecvSteps DEF RecvPasses, RecvAnswers, RecvModAnswer, fsm_vars
    <3>2. Msgs(to_switch') \subseteq Msgs(to_switch) /\ Msgs(to_ofctrl') \subseteq Msgs(to_ofctrl)
      BY <2>1, <3>1, MsgsNone DEF Disconnect, Consume
    <3> QED
      BY <1>0, <3>1, <3>2, XidsKept
  <2> QED
    BY <2>2, <2>3
<1> QED
  BY <1>2, <1>3, <1>5, <1>6, <1>7, TlvSteps DEF Switch

-----------------------------------------------------------------------------
(* The negotiation. *)

LEMMA NoMods ==
    ASSUME LoopType, ModsAwaited, state # "S_TLV_TABLE_MOD_SENT"
    PROVE  \A m \in Msgs(to_switch) : ~IsMod(m)
BY DEF ModsAwaited, Msgs

\* A connection without messages promises nothing.
LEMMA TlvClean ==
    ASSUME to_switch' = <<>>, to_ofctrl' = <<>>, ~conn' \/ conn_changed'
    PROVE  TlvInv'
<1>1. Len(to_switch') = 0 /\ Len(to_ofctrl') = 0 /\ Msgs(to_switch') = {} /\ Msgs(to_ofctrl') = {}
  BY MsgsNone
<1>2. ModsAwaited' /\ OthersDiffer'
  BY <1>1 DEF ModsAwaited, OthersDiffer
<1>3. RepliesTrue' /\ AnswersTrue'
  BY <1>1 DEF RepliesTrue, AnswersTrue
<1> QED
  BY <1>2, <1>3 DEF TlvInv, GeneveOnlyIfMapped

\* Nothing is negotiated.
LEMMA TlvOver ==
    ASSUME LoopType', \A m \in Msgs(to_switch') : ~IsMod(m), GeneveOnlyIfMapped',
           state' \notin {"S_TLV_TABLE_REQUESTED", "S_TLV_TABLE_MOD_SENT"}
    PROVE  TlvInv'
<1>1. ModsAwaited'
  BY DEF ModsAwaited, Msgs, IsMod
<1>2. OthersDiffer' /\ RepliesTrue' /\ AnswersTrue'
  BY DEF OthersDiffer, RepliesTrue, AnswersTrue
<1> QED
  BY <1>1, <1>2 DEF TlvInv

\* The switch answers a request that is no mapping.
LEMMA TlvPlainAnswer ==
    ASSUME LoopType, TlvInv, to_switch # <<>>, ~IsMod(Head(to_switch)), NEW b \in Answer,
           b.xid = Head(to_switch).xid,
           b.type = "tlv_reply" /\ b.info = "ours" => sw_tlv = "ours",
           to_switch' = Tail(to_switch), to_ofctrl' = Append(to_ofctrl, b),
           UNCHANGED <<conn, conn_changed, fsm_vars, sw_tlv>>
    PROVE  TlvInv'
<1>0. UNCHANGED <<state, xid, xid2, mff_ovn_geneve>>
  BY DEF fsm_vars
<1>1. to_switch \in Seq(Request) /\ to_ofctrl \in Seq(Answer)
  BY DEF LoopType, ChannelType
<1>2. Msgs(to_switch') \subseteq Msgs(to_switch) /\ Head(to_switch) \in Msgs(to_switch)
  BY <1>1, MsgsTail, MsgsHead
<1>3. Msgs(to_ofctrl') = Msgs(to_ofctrl) \cup {b}
  BY <1>1, AnswerAdded
<1>4. state = "S_TLV_TABLE_MOD_SENT" => b.xid \notin {xid, xid2}
  BY <1>2 DEF TlvInv, OthersDiffer
<1>5. Len(to_switch') = Len(to_switch) - 1 /\ Len(to_switch) \in Nat
      /\ \A i \in 1 .. Len(to_switch') : i + 1 \in 1 .. Len(to_switch) /\ to_switch'[i] = to_switch[i + 1]
  BY <1>1
<1>6. ModsAwaited'
  <2> SUFFICES ASSUME NEW i \in 1 .. Len(to_switch'), IsMod(to_switch'[i])
               PROVE  /\ state = "S_TLV_TABLE_MOD_SENT"
                      /\ to_switch'[i].xid = xid /\ to_switch'[i].xid2 = xid2
                      /\ \A j \in 1 .. Len(to_switch') : IsMod(to_switch'[j]) => j = i
                      /\ \A m \in Msgs(to_ofctrl') : m.xid \notin {xid, xid2}
    BY <1>0 DEF ModsAwaited, IsMod
  <2>1. i + 1 \in 1 .. Len(to_switch) /\ to_switch'[i] = to_switch[i + 1] /\ IsMod(to_switch[i + 1])
    BY <1>5
  <2>2. /\ state = "S_TLV_TABLE_MOD_SENT"
        /\ to_switch[i + 1].xid = xid /\ to_switch[i + 1].xid2 = xid2
        /\ \A j \in 1 .. Len(to_switch) : IsMod(to_switch[j]) => j = i + 1
        /\ \A m \in Msgs(to_ofctrl) : m.xid \notin {xid, xid2}
    BY <2>1 DEF TlvInv, ModsAwaited
  <2>3. ASSUME NEW j \in 1 .. Len(to_switch'), IsMod(to_switch'[j]) PROVE j = i
    <3>1. j + 1 \in 1 .. Len(to_switch) /\ IsMod(to_switch[j + 1])
      BY <1>5, <2>3
    <3>2. j + 1 = i + 1
      BY <2>2, <3>1
    <3> QED
      BY <1>5, <3>2
  <2> QED
    BY <1>3, <1>4, <2>1, <2>2, <2>3
<1>7. OthersDiffer'
  BY <1>0, <1>2 DEF TlvInv, OthersDiffer, IsMod
<1>8. RepliesTrue'
  BY <1>0, <1>3 DEF TlvInv, RepliesTrue
<1>9. AnswersTrue'
  <2> SUFFICES ASSUME state = "S_TLV_TABLE_MOD_SENT", NEW i \in 1 .. Len(to_ofctrl'),
                      to_ofctrl'[i].xid \in {xid, xid2}
               PROVE  sw_tlv = "ours" \/ \E j \in 1 .. i : LostRace(to_ofctrl[j]) /\ j \in 1 .. Len(to_ofctrl)
    BY <1>0, <1>1 DEF AnswersTrue, LostRace
  <2>1. i \in 1 .. Len(to_ofctrl) /\ to_ofctrl'[i] = to_ofctrl[i]
    BY <1>1, <1>4
  <2> QED
    BY <1>1, <2>1 DEF TlvInv, AnswersTrue
<1>10. GeneveOnlyIfMapped'
  BY <1>0 DEF TlvInv, GeneveOnlyIfMapped
<1> QED
  BY <1>6, <1>7, <1>8, <1>9, <1>10 DEF TlvInv

\* The switch answers a mapping.
LEMMA TlvModAnswer ==
    ASSUME LoopType, ConnInv, TlvInv, SwitchTlvMod, n_errors' = 0
    PROVE  TlvInv'
<1> DEFINE h == Head(to_switch)
           b == Reply("barrier", h.xid2, "")
           e == Reply("error", h.xid, "raced")
<1>1. to_switch \in Seq(Request) /\ to_ofctrl \in Seq(Answer)
  BY DEF LoopType, ChannelType
<1>2. /\ to_switch # <<>> /\ IsMod(to_switch[1]) /\ h = to_switch[1]
      /\ to_switch' = Tail(to_switch) /\ UNCHANGED <<conn, conn_changed, fsm_vars>>
  <2>1. to_switch # <<>> /\ h.type = "tlv_mod"
    BY DEF SwitchTlvMod
  <2>2. h = to_switch[1]
    BY <1>1, <2>1
  <2>3. to_switch' = Tail(to_switch) /\ UNCHANGED <<conn, conn_changed, fsm_vars>>
    BY DEF SwitchTlvMod
  <2> QED
    BY <2>1, <2>2, <2>3 DEF IsMod
<1>3. 1 \in 1 .. Len(to_switch)
  BY <1>1, <1>2
<1>4. /\ state = "S_TLV_TABLE_MOD_SENT" /\ h.xid = xid /\ h.xid2 = xid2
      /\ \A j \in 1 .. Len(to_switch) : IsMod(to_switch[j]) => j = 1
      /\ \A m \in Msgs(to_ofctrl) : m.xid \notin {xid, xid2}
  BY <1>2, <1>3 DEF TlvInv, ModsAwaited
<1>5. UNCHANGED <<state, xid, xid2, mff_ovn_geneve>>
  BY <1>2 DEF fsm_vars
<1>6. \A i \in 1 .. Len(to_switch') : ~IsMod(to_switch'[i])
  <2> SUFFICES ASSUME NEW i \in 1 .. Len(to_switch'), IsMod(to_switch'[i]) PROVE FALSE
    OBVIOUS
  <2>1. i + 1 \in 1 .. Len(to_switch) /\ to_switch'[i] = to_switch[i + 1]
    BY <1>1, <1>2
  <2>2. i + 1 = 1
    BY <1>4, <2>1
  <2> QED
    BY <1>1, <2>2
<1>7. ModsAwaited'
  BY <1>6 DEF ModsAwaited, IsMod
<1>8. OthersDiffer'
  <2>1. Msgs(to_switch') \subseteq Msgs(to_switch)
    BY <1>1, <1>2, MsgsTail
  <2> QED
    BY <1>5, <2>1 DEF TlvInv, OthersDiffer, IsMod
<1>9. RepliesTrue' /\ GeneveOnlyIfMapped'
  BY <1>4, <1>5 DEF RepliesTrue, GeneveOnlyIfMapped
<1>10. AnswersTrue'
  <2>1. n_errors' # n_errors + 1
    BY DEF ConnInv
  <2>2. sw_tlv' = "ours" \/ to_ofctrl' = to_ofctrl \o <<e>> \o <<b>>
    BY <2>1 DEF SwitchTlvMod
  <2>3. ASSUME to_ofctrl' = to_ofctrl \o <<e>> \o <<b>>, NEW i \in 1 .. Len(to_ofctrl'),
               to_ofctrl'[i].xid \in {xid, xid2}
        PROVE  \E j \in 1 .. i : LostRace(to_ofctrl[j])'
    <3>0. PICK n : n = Len(to_ofctrl) + 1
      OBVIOUS
    <3>1. e.type = "error" /\ e.xid = xid /\ e.info = "raced"
      BY <1>4 DEF Reply
    <3> HIDE DEF b, e
    <3>2. n \in Nat /\ to_ofctrl'[n] = e /\ \A j \in 1 .. Len(to_ofctrl) : to_ofctrl'[j] = to_ofctrl[j]
      BY <1>1, <2>3, <3>0
    <3>3. i \notin 1 .. Len(to_ofctrl)
      BY <1>4, <2>3, <3>2 DEF Msgs
    <3>4. n \in 1 .. i
      BY <1>1, <2>3, <3>0, <3>3
    <3>5. LostRace(to_ofctrl[n])'
      BY <1>5, <3>1, <3>2 DEF LostRace
    <3> QED
      BY <3>4, <3>5
  <2> QED
    BY <1>5, <2>2, <2>3 DEF AnswersTrue
<1> QED
  BY <1>7, <1>8, <1>9, <1>10 DEF TlvInv

\* ofctrl_run() takes a message.
LEMMA TlvRecv ==
    ASSUME LoopType, LoopType', XidsIssued, TlvInv, NEW m, RecvMsg(m)
    PROVE  TlvInv'
<1>1. to_switch \in Seq(Request) /\ to_ofctrl \in Seq(Answer) /\ next_xid \in Nat
  BY DEF LoopType, ChannelType
<1>2. to_ofctrl # <<>> /\ m = Head(to_ofctrl) /\ UNCHANGED sw_tlv
  BY RecvSteps
<1>3. m \in Msgs(to_ofctrl) /\ m = to_ofctrl[1] /\ 1 \in 1 .. Len(to_ofctrl)
  BY <1>1, <1>2, MsgsHead
<1>4. Msgs(Tail(to_ofctrl)) \subseteq Msgs(to_ofctrl)
  BY <1>1, <1>2, MsgsTail
<1>5. CASE RecvPasses(m)
  <2>1. UNCHANGED <<state, xid, xid2, mff_ovn_geneve, conn_changed>>
    BY <1>5 DEF RecvPasses, fsm_vars
  <2>2. CASE Disconnect
    BY <2>2, TlvClean DEF Disconnect
  <2>3. CASE Consume
    <3>1. to_ofctrl' = Tail(to_ofctrl) /\ UNCHANGED <<conn, to_switch>>
      BY <2>3 DEF Consume
    <3>2. Msgs(to_ofctrl') \subseteq Msgs(to_ofctrl)
      BY <1>4, <3>1
    <3>3. ModsAwaited'
      BY <2>1, <3>1, <3>2 DEF TlvInv, ModsAwaited, IsMod
    <3>4. OthersDiffer'
      BY <2>1, <3>1 DEF TlvInv, OthersDiffer, IsMod
    <3>5. RepliesTrue'
      BY <1>2, <2>1, <3>2 DEF TlvInv, RepliesTrue
    <3>6. AnswersTrue'
      <4> SUFFICES ASSUME state = "S_TLV_TABLE_MOD_SENT", NEW i \in 1 .. Len(to_ofctrl'),
                          to_ofctrl'[i].xid \in {xid, xid2}, sw_tlv # "ours"
                   PROVE  \E j \in 1 .. i : LostRace(to_ofctrl[j])'
        BY <1>2, <2>1 DEF AnswersTrue
      <4>1. i \in Nat /\ i + 1 \in 1 .. Len(to_ofctrl) /\ to_ofctrl'[i] = to_ofctrl[i + 1]
        BY <1>1, <1>2, <3>1
      <4>2. PICK k \in 1 .. i + 1 : LostRace(to_ofctrl[k])
        BY <4>1 DEF TlvInv, AnswersTrue
      <4>3. k # 1
        BY <1>3, <1>5, <4>2 DEF LostRace, RecvPasses
      <4>4. PICK j : j = k - 1
        OBVIOUS
      <4>5. j \in 1 .. i /\ to_ofctrl'[j] = to_ofctrl[k]
        BY <1>1, <1>2, <3>1, <4>1, <4>3, <4>4
      <4>6. LostRace(to_ofctrl[j])'
        BY <2>1, <4>2, <4>5 DEF LostRace
      <4> QED
        BY <4>5, <4>6
    <3>7. GeneveOnlyIfMapped'
      BY <1>2, <2>1, <3>1 DEF TlvInv, GeneveOnlyIfMapped
    <3> QED
      BY <3>3, <3>4, <3>5, <3>6, <3>7 DEF TlvInv
  <2> QED
    BY <1>5, <2>2, <2>3 DEF RecvPasses
<1>6. CASE RecvAnswers(m)
  <2>1. state = "S_TLV_TABLE_REQUESTED" /\ state' = "S_WAIT_BEFORE_CLEAR" /\ UNCHANGED to_switch
    BY <1>6 DEF RecvAnswers, Consume
  <2>2. mff_ovn_geneve' # 0 => sw_tlv = "ours"
    BY <1>3, <1>6, <2>1 DEF RecvAnswers, TlvInv, RepliesTrue
  <2>3. GeneveOnlyIfMapped'
    BY <1>2, <2>2 DEF GeneveOnlyIfMapped
  <2>4. \A n \in Msgs(to_switch) : ~IsMod(n)
    BY <2>1, NoMods DEF TlvInv
  <2> QED
    BY <2>1, <2>3, <2>4, TlvOver
<1>7. CASE RecvFree
  <2> DEFINE n == [type |-> "tlv_mod", xid |-> next_xid, xid2 |-> next_xid + 1]
  <2>1. /\ state' = "S_TLV_TABLE_MOD_SENT" /\ xid' = next_xid /\ xid2' = next_xid + 1
        /\ to_switch' = QueueMsg(n) /\ to_ofctrl' = Tail(to_ofctrl)
    BY <1>7 DEF RecvFree
  <2>2. \A i \in 1 .. Len(to_switch) : ~IsMod(to_switch[i])
    BY <1>7, NoMods DEF TlvInv, RecvFree, Msgs
  <2>3. n \in Request /\ n.xid = next_xid /\ n.xid2 = next_xid + 1 /\ IsMod(n)
    BY <1>1 DEF Request, TlvMod, IsMod
  <2>4. \A a \in Msgs(to_ofctrl') : a.xid \notin {xid', xid2'}
    <3>1. \A a \in Msgs(to_ofctrl) : a.xid \in Nat
      BY <1>1, MsgsTyped DEF Answer
    <3> QED
      BY <1>1, <1>4, <2>1, <3>1 DEF XidsIssued
  <2> HIDE DEF n
  <2>5. ModsAwaited'
    <3> SUFFICES ASSUME NEW i \in 1 .. Len(to_switch'), IsMod(to_switch'[i])
                 PROVE  /\ to_switch'[i].xid = xid' /\ to_switch'[i].xid2 = xid2'
                        /\ \A j \in 1 .. Len(to_switch') : IsMod(to_switch'[j]) => j = i
      BY <2>1, <2>4 DEF ModsAwaited, IsMod
    <3>1. to_switch' = Append(to_switch, n)
      BY <2>1, <2>2 DEF QueueMsg
    <3>2. /\ Len(to_switch') = Len(to_switch) + 1 /\ Len(to_switch) \in Nat /\ to_switch'[Len(to_switch) + 1] = n
          /\ \A j \in 1 .. Len(to_switch) : to_switch'[j] = to_switch[j]
      BY <1>1, <2>3, <3>1
    <3>3. \A j \in 1 .. Len(to_switch') : IsMod(to_switch'[j]) => j = Len(to_switch) + 1
      BY <2>2, <3>2
    <3> QED
      BY <2>1, <2>3, <3>2, <3>3
  <2>6. OthersDiffer'
    <3>1. Msgs(to_switch') \subseteq Msgs(to_switch) \cup {n}
      BY <1>1, <2>1, <2>3, MsgsAppend DEF QueueMsg
    <3>2. \A a \in Msgs(to_switch) : a.xid \in Nat
      BY <1>1, MsgsTyped, RequestFields
    <3> QED
      BY <1>1, <2>1, <2>3, <3>1, <3>2 DEF OthersDiffer, XidsIssued, IsMod
  <2>7. AnswersTrue'
    BY <2>4 DEF AnswersTrue, Msgs
  <2>8. RepliesTrue' /\ GeneveOnlyIfMapped'
    BY <2>1 DEF RepliesTrue, GeneveOnlyIfMapped
  <2> QED
    BY <2>5, <2>6, <2>7, <2>8 DEF TlvInv
<1>8. CASE RecvModAnswer(m)
  <2>1. state = "S_TLV_TABLE_MOD_SENT" /\ m.xid \in {xid, xid2} /\ UNCHANGED to_switch
        /\ state' = IF LostRace(m) THEN "S_NEW" ELSE "S_WAIT_BEFORE_CLEAR"
    BY <1>8 DEF RecvModAnswer, Consume
  <2>2. \A n \in Msgs(to_switch) : ~IsMod(n)
    BY <1>3, <2>1 DEF TlvInv, ModsAwaited, Msgs
  <2>3. ~LostRace(m) => sw_tlv = "ours"
    <3>1. sw_tlv = "ours" \/ \E j \in 1 .. 1 : LostRace(to_ofctrl[j])
      BY <1>3, <2>1 DEF TlvInv, AnswersTrue
    <3> QED
      BY <1>3, <3>1
  <2>4. GeneveOnlyIfMapped'
    BY <1>2, <2>1, <2>3 DEF GeneveOnlyIfMapped
  <2> QED
    BY <2>1, <2>2, <2>4, TlvOver
<1> QED
  BY <1>5, <1>6, <1>7, <1>8, RecvSteps

LEMMA TlvStep ==
    ASSUME LoopType, LoopType', ConnInv, ChannelsClean, XidsIssued, TlvInv, [Next]_vars, n_errors' = 0
    PROVE  TlvInv'
<1>1. to_switch \in Seq(Request) /\ to_ofctrl \in Seq(Answer) /\ next_xid \in Nat
  BY DEF LoopType, ChannelType
<1>2. CASE UNCHANGED tlv_vars
  BY <1>2 DEF tlv_vars, net_vars, fsm_vars, TlvInv, ModsAwaited, OthersDiffer, RepliesTrue, AnswersTrue,
     GeneveOnlyIfMapped, IsMod, LostRace
<1>3. CASE Drop \/ Restart \/ Connect
  BY <1>3, TlvClean DEF Drop, Restart, Connect, Disconnect, ChannelsClean
<1>4. CASE SwitchTlvRequest
  <2>1. PICK b \in Answer : /\ b.xid = Head(to_switch).xid /\ to_ofctrl' = Append(to_ofctrl, b)
                            /\ b.type = "tlv_reply" /\ b.info = "ours" => sw_tlv = "ours"
    <3> DEFINE e == Reply("error", Head(to_switch).xid, "refused")
               r == Reply("tlv_reply", Head(to_switch).xid, sw_tlv)
    <3>1. Head(to_switch).xid \in Nat /\ sw_tlv \in TlvInfo
      BY <1>1, <1>4, MsgsHead, RequestFields DEF SwitchTlvRequest, LoopType, ChannelType
    <3>2. /\ e \in Answer /\ e.xid = Head(to_switch).xid /\ e.type = "error"
          /\ r \in Answer /\ r.xid = Head(to_switch).xid /\ r.info = sw_tlv
      BY <3>1 DEF Reply, Answer
    <3>3. to_ofctrl' = Append(to_ofctrl, e) \/ to_ofctrl' = Append(to_ofctrl, r)
      BY <1>4 DEF SwitchTlvRequest
    <3> HIDE DEF e, r
    <3> QED
      BY <3>2, <3>3
  <2>2. to_switch # <<>> /\ ~IsMod(Head(to_switch)) /\ to_switch' = Tail(to_switch)
        /\ UNCHANGED <<conn, conn_changed, fsm_vars, sw_tlv>>
    BY <1>4 DEF SwitchTlvRequest, IsMod, switch_vars
  <2> QED
    BY <2>1, <2>2, TlvPlainAnswer
<1>5. CASE SwitchTlvMod
  BY <1>5, TlvModAnswer
<1>6. CASE SwitchPut
  <2> DEFINE b == Reply("barrier", Head(to_switch).xid, "")
  <2>1. to_switch # <<>> /\ ~IsMod(Head(to_switch)) /\ to_switch' = Tail(to_switch)
        /\ UNCHANGED <<conn, conn_changed, fsm_vars, sw_tlv>>
    BY <1>6 DEF SwitchPut, IsMod
  <2>2. Head(to_switch).xid \in Nat
    BY <1>1, <2>1, MsgsHead, RequestFields
  <2>3. b \in Answer /\ b.xid = Head(to_switch).xid /\ b.type = "barrier"
    BY <2>2 DEF Reply, Answer
  <2>4. n_errors' # n_errors + 1
    BY DEF ConnInv
  <2>5. to_ofctrl' = Append(to_ofctrl, b)
    BY <1>6, <2>4 DEF SwitchPut
  <2> HIDE DEF b
  <2> QED
    BY <2>1, <2>3, <2>5, TlvPlainAnswer
<1>7. CASE OfctrlRunBegin
  <2>1. UNCHANGED <<conn, to_switch, to_ofctrl, sw_tlv, xid, xid2, mff_ovn_geneve>> /\ conn
    BY <1>7 DEF OfctrlRunBegin, switch_vars
  <2>2. CASE Reconnected
    <3>1. state' = "S_NEW" /\ Msgs(to_switch') = {}
      BY <1>7, <2>1, <2>2, MsgsNone DEF OfctrlRunBegin, Reconnected, ChannelsClean
    <3>2. GeneveOnlyIfMapped'
      BY <3>1 DEF GeneveOnlyIfMapped
    <3> QED
      BY <3>1, <3>2, TlvOver
  <2>3. CASE ~Reconnected
    <3>1. state' = state /\ ~conn_changed
      BY <1>7, <2>1, <2>3 DEF OfctrlRunBegin, Reconnected
    <3> QED
      BY <2>1, <3>1 DEF TlvInv, ModsAwaited, OthersDiffer, RepliesTrue, AnswersTrue,
         GeneveOnlyIfMapped, IsMod, LostRace
  <2> QED
    BY <2>2, <2>3
<1>8. ASSUME state # "S_TLV_TABLE_MOD_SENT", NEW m \in Request, ~IsMod(m), to_switch' = QueueMsg(m)
      PROVE  \A n \in Msgs(to_switch') : ~IsMod(n)
  <2>1. Msgs(to_switch') \subseteq Msgs(to_switch) \cup {m}
    BY <1>1, <1>8, MsgsAppend DEF QueueMsg
  <2> QED
    BY <1>8, <2>1, NoMods DEF TlvInv
<1>9. CASE run_S_NEW /\ UNCHANGED sw_tlv
  <2> DEFINE m == [type |-> "tlv_request", xid |-> next_xid]
  <2>1. m \in Request /\ ~IsMod(m) /\ to_switch' = QueueMsg(m)
    BY <1>1, <1>9 DEF Request, TlvRequest, IsMod, run_S_NEW
  <2>2. state = "S_NEW" /\ state' = "S_TLV_TABLE_REQUESTED" /\ xid' = next_xid /\ UNCHANGED to_ofctrl
    BY <1>9 DEF run_S_NEW
  <2> HIDE DEF m
  <2>3. \A n \in Msgs(to_switch') : ~IsMod(n)
    BY <1>8, <2>1, <2>2
  <2>4. ModsAwaited'
    BY <2>3 DEF ModsAwaited, Msgs, IsMod
  <2>5. RepliesTrue'
    <3>1. \A a \in Msgs(to_ofctrl) : a.xid \in Nat
      BY <1>1, MsgsTyped DEF Answer
    <3> QED
      BY <1>1, <2>2, <3>1 DEF RepliesTrue, XidsIssued
  <2>6. OthersDiffer' /\ AnswersTrue' /\ GeneveOnlyIfMapped'
    BY <2>2 DEF OthersDiffer, AnswersTrue, GeneveOnlyIfMapped
  <2> QED
    BY <2>4, <2>5, <2>6 DEF TlvInv
<1>10. CASE HoldMoves
  <2>1. UNCHANGED <<conn, conn_changed, to_switch, sw_tlv, mff_ovn_geneve>>
    BY <1>10 DEF HoldMoves, net_vars
  <2>2. GeneveOnlyIfMapped'
    BY <1>10, <2>1 DEF HoldMoves, TlvInv, GeneveOnlyIfMapped
  <2>3. \A n \in Msgs(to_switch') : ~IsMod(n)
    BY <1>10, <2>1, NoMods DEF HoldMoves, TlvInv
  <2>4. state' \notin {"S_TLV_TABLE_REQUESTED", "S_TLV_TABLE_MOD_SENT"}
    BY <1>10 DEF HoldMoves
  <2> QED
    BY <2>2, <2>3, <2>4, TlvOver
<1>11. CASE PutQueued
  <2>1. PICK m \in Request : m.type = "put" /\ to_switch' = QueueMsg(m)
    BY <1>11 DEF PutQueued
  <2>2. state = "S_UPDATE_FLOWS" /\ UNCHANGED <<conn, conn_changed, sw_tlv, state, mff_ovn_geneve>>
    BY <1>11 DEF PutQueued
  <2>3. \A n \in Msgs(to_switch') : ~IsMod(n)
    BY <1>8, <2>1, <2>2 DEF IsMod
  <2>4. GeneveOnlyIfMapped'
    BY <2>2 DEF TlvInv, GeneveOnlyIfMapped
  <2> QED
    BY <2>2, <2>3, <2>4, TlvOver
<1>12. CASE RecvMsg(Head(to_ofctrl))
  BY <1>12, TlvRecv
<1> QED
  BY <1>2, <1>3, <1>4, <1>5, <1>6, <1>7, <1>9, <1>10, <1>11, <1>12, TlvSteps

\* recv_S_TLV_TABLE_MOD_SENT(): flows use the Geneve option only when this switch
\* maps it, through lost races, restarts and reconnections, as long as the switch
\* refuses no request.  (A refused mapping is the exception: the option stays in use
\* although the comment says that the error disables it.)
THEOREM GeneveMappedWithoutErrors == Spec => [](n_errors = 0 => GeneveOnlyIfMapped)
<1> DEFINE Inv == LoopType /\ ConnInv /\ GeneveInv
<1>1. Init => Inv
  <2> SUFFICES ASSUME Init PROVE Inv
    OBVIOUS
  <2>1. LoopType /\ ConnInv
    BY TablesInit DEF SwitchInv
  <2>2. Msgs(to_switch) = {} /\ Msgs(to_ofctrl) = {} /\ Len(to_switch) = 0 /\ Len(to_ofctrl) = 0
    BY MsgsNone DEF Init, OfctrlInit
  <2>3. ChannelsClean /\ XidsIssued
    BY <2>2 DEF Init, OfctrlInit, ChannelsClean, XidsIssued
  <2>4. TlvInv
    BY <2>2 DEF Init, OfctrlInit, TlvInv, ModsAwaited, OthersDiffer, RepliesTrue, AnswersTrue, GeneveOnlyIfMapped
  <2> QED
    BY <2>1, <2>3, <2>4 DEF GeneveInv
<1>2. Inv /\ [Next]_vars => Inv'
  <2> SUFFICES ASSUME Inv, [Next]_vars PROVE Inv'
    OBVIOUS
  <2>1. LoopType' /\ ConnInv'
    BY TypeStep, ConnStep
  <2>2. ChannelsClean' /\ XidsIssued'
    BY <2>1, CleanStep, XidsStep DEF GeneveInv
  <2>3. n_errors' = 0 => n_errors = 0
    BY ErrorsStay DEF ConnInv
  <2>4. n_errors' = 0 => TlvInv'
    BY <2>1, <2>3, TlvStep DEF GeneveInv
  <2> QED
    BY <2>1, <2>2, <2>4 DEF GeneveInv
<1>3. Inv => (n_errors = 0 => GeneveOnlyIfMapped)
  BY DEF GeneveInv, TlvInv
<1> QED
  BY <1>1, <1>2, <1>3, PTL DEF Spec
=============================================================================
