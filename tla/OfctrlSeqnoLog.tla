--------------------------- MODULE OfctrlSeqnoLog ---------------------------
(***************************************************************************)
(* The sequence number tracker with a log, per type, of the requests made  *)
(* and of the acknowledgements consumed since the last flush.              *)
(***************************************************************************)
EXTENDS OfctrlSeqno, FiniteSets

VARIABLES requested, delivered

log_vars == <<requested, delivered>>
log_seqno_vars == <<seqno_vars, log_vars>>

LogInit ==
    /\ SeqnoInit
    /\ requested = [t \in Types |-> <<>>]
    /\ delivered = [t \in Types |-> <<>>]

LogRequest(t, new_cfg) ==
    /\ ofctrl_req_seqno < MaxSeqno
    /\ UpdateCreate(t, new_cfg)
    /\ requested' = IF UpdateIsNew(t, new_cfg)
                    THEN [requested EXCEPT ![t] = Append(@, new_cfg)] ELSE requested
    /\ UNCHANGED delivered

LogConsume(t) ==
    /\ AckedSeqnosGet(t)
    /\ delivered' = [delivered EXCEPT ![t] = @ \o acked_cfgs[t]]
    /\ UNCHANGED requested

LogFlush ==
    /\ Flush
    /\ requested' = [t \in Types |-> <<>>]
    /\ delivered' = [t \in Types |-> <<>>]

LogNext ==
    \/ \E t \in Types, new_cfg \in Cfgs : LogRequest(t, new_cfg)
    \/ \E t \in Types : LogConsume(t)
    \/ LogFlush
    \/ AddType /\ UNCHANGED log_vars
    \/ \E flow_cfg \in 0 .. MaxSeqno : RunStart(flow_cfg) /\ UNCHANGED log_vars
    \/ RunPop /\ UNCHANGED log_vars
    \/ RunEnd /\ UNCHANGED log_vars

LogSpec == LogInit /\ [][LogNext]_log_seqno_vars

\* The places of the requests of type t among the first n of the list.
PlacesOf(t, n) == {i \in 1 .. n : ofctrl_seqno_updates[i].seqno_type = t}

\* The acknowledgements of type t, those its owner took first.
AckedOf(t) == delivered[t] \o acked_cfgs[t]

\* Between two flushes a type's requests are neither lost, duplicated nor
\* reordered, although all types share one list and ofctrl_seqno_run() may be
\* given any number: the requests made are what ofctrl_acked_seqnos_get()
\* returned, then the acks not consumed, then the requests of the type that
\* are in the list, in its order.
AcksConserveRequests ==
    \A t \in Types :
        LET pending == PlacesOf(t, Len(ofctrl_seqno_updates)) IN
        /\ Len(requested[t]) = Len(AckedOf(t)) + Cardinality(pending)
        /\ \A k \in 1 .. Len(AckedOf(t)) : requested[t][k] = AckedOf(t)[k]
        /\ \A i \in pending :
              requested[t][Len(AckedOf(t)) + Cardinality(PlacesOf(t, i))]
                  = ofctrl_seqno_updates[i].req_cfg
=============================================================================
