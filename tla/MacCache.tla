------------------------------ MODULE MacCache ------------------------------
(***************************************************************************)
(* The engine node mac_cache of ovn-controller: which MAC_Binding and FDB  *)
(* rows of the local datapaths are subject to aging.  Its data are the     *)
(* thresholds of the datapaths and the rows, kept up to date by one        *)
(* handler per input, or computed anew when runtime_data was.              *)
(*                                                                         *)
(* A MAC_Binding is found by the UUID of its row (cookie), an FDB entry by *)
(* datapath key and MAC: the row that replaces a deleted one has its key.  *)
(*                                                                         *)
(* Left out: datapaths that change their tunnel key                        *)
(* (mac_cache_thresholds_sync()), rows that are updated in place, and the  *)
(* packets that wait for a MAC binding.                                    *)
(***************************************************************************)
EXTENDS Integers, Sequences, SequencesExt

CONSTANTS
    McDps,          \* Datapath_Binding rows
    McThresholds,   \* values of mac_binding_age_threshold or fdb_age_threshold; 0 is unset
    MaxMcRows,      \* bound: MAC_Binding and FDB rows ever inserted
    MaxMcChanges    \* bound: changes of the Southbound and of the local datapaths

VARIABLES
    mcdp,           \* datapaths in the Southbound, with their threshold
    mcmb,           \* MAC_Binding rows
    mcfdb,          \* FDB rows, one per datapath (one MAC)
    mclocal,        \* local_datapaths of runtime_data
    mctrack,        \* changes the node has not handled
    mccache,        \* struct mac_cache_data
    mccount         \* changes so far

mcVars == <<mcdp, mcmb, mcfdb, mclocal, mctrack, mccache, mccount>>

Datapaths == DOMAIN mcdp

Untracked == [dps |-> {}, mbs |-> <<>>, fdbs |-> <<>>, locals |-> {}, full |-> FALSE]
EmptyCache == [thresholds |-> {}, mbs |-> {}, fdbs |-> {}]

MacCacheInit ==
    /\ mcdp \in [McDps -> McThresholds]
    /\ mcmb = {} /\ mcfdb = {} /\ mclocal = {}
    /\ mctrack = [Untracked EXCEPT !.full = TRUE]
    /\ mccache = EmptyCache
    /\ mccount = 0

MacCacheTypeOK ==
    /\ Datapaths \subseteq McDps /\ mclocal \subseteq Datapaths
    /\ \A r \in mcmb : r.dp \in Datapaths
    /\ \A d \in McDps : \A r, q \in mcfdb : r.dp = d /\ q.dp = d => r = q
    /\ mccount \in 0..MaxMcChanges

(***************************************************************************)
(* The Southbound and runtime_data (external to the node).  A row is       *)
(* tracked in the order of the changes.                                    *)
(***************************************************************************)
McChange == mccount < MaxMcChanges /\ mccount' = mccount + 1

Row(d) == [id |-> mccount, dp |-> d]

InsertMb(d) ==
    /\ McChange /\ Cardinality(mcmb) < MaxMcRows
    /\ mcmb' = mcmb \cup {Row(d)}
    /\ mctrack' = [mctrack EXCEPT !.mbs = Append(@, [op |-> "new", row |-> Row(d)])]
    /\ UNCHANGED <<mcdp, mcfdb, mclocal, mccache>>

DeleteMb(r) ==
    /\ McChange
    /\ mcmb' = mcmb \ {r}
    /\ mctrack' = [mctrack EXCEPT !.mbs = Append(SelectSeq(@, LAMBDA t : t.row # r),
                                                 [op |-> "deleted", row |-> r])]
    /\ UNCHANGED <<mcdp, mcfdb, mclocal, mccache>>

InsertFdb(d) ==
    /\ McChange /\ \A r \in mcfdb : r.dp # d
    /\ mcfdb' = mcfdb \cup {Row(d)}
    /\ mctrack' = [mctrack EXCEPT !.fdbs = Append(@, [op |-> "new", row |-> Row(d)])]
    /\ UNCHANGED <<mcdp, mcmb, mclocal, mccache>>

DeleteFdb(r) ==
    /\ McChange
    /\ mcfdb' = mcfdb \ {r}
    /\ mctrack' = [mctrack EXCEPT !.fdbs =
                       IF \E i \in DOMAIN @ : @[i].row = r
                       THEN SelectSeq(@, LAMBDA t : t.row # r)
                       ELSE Append(@, [op |-> "deleted", row |-> r])]
    /\ UNCHANGED <<mcdp, mcmb, mclocal, mccache>>

SetThreshold(d, v) ==
    /\ McChange /\ mcdp[d] # v
    /\ mcdp' = [mcdp EXCEPT ![d] = v]
    /\ mctrack' = [mctrack EXCEPT !.dps = @ \cup {d}]
    /\ UNCHANGED <<mcmb, mcfdb, mclocal, mccache>>

\* A deleted local datapath makes runtime_data_sb_datapath_binding_handler()
\* ask for a recomputation; FDB rows, which only name its key, may stay.
DeleteDp(d) ==
    /\ McChange /\ \A r \in mcmb : r.dp # d
    /\ mcdp' = [x \in Datapaths \ {d} |-> mcdp[x]]
    /\ mclocal' = mclocal \ {d}
    /\ mctrack' = [mctrack EXCEPT !.dps = @ \cup {d}, !.full = @ \/ d \in mclocal,
                                  !.locals = @ \ {d}]
    /\ UNCHANGED <<mcmb, mcfdb, mccache>>

\* runtime_data finds a new local datapath incrementally, and loses one only
\* by being recomputed.
AddLocal(d) ==
    /\ McChange /\ d \notin mclocal
    /\ mclocal' = mclocal \cup {d}
    /\ mctrack' = [mctrack EXCEPT !.locals = @ \cup {d}]
    /\ UNCHANGED <<mcdp, mcmb, mcfdb, mccache>>

RecomputeLocal(d) ==
    /\ McChange /\ d \in mclocal
    /\ mclocal' = mclocal \ {d}
    /\ mctrack' = [mctrack EXCEPT !.full = TRUE]
    /\ UNCHANGED <<mcdp, mcmb, mcfdb, mccache>>

(***************************************************************************)
(* The cache and its handlers.                                             *)
(***************************************************************************)
mac_cache_threshold_find(c, d) == \E t \in c.thresholds : t.dp = d

\* mac_cache_threshold_add() with mac_cache_threshold_get_value_ms()
ThresholdOf(d) == {[dp |-> d, value |-> mcdp[x]] : x \in {y \in Datapaths : y = d /\ mcdp[y] # 0}}

mac_cache_threshold_replace(c, d) ==
    [c EXCEPT !.thresholds = {t \in @ : t.dp # d}
                             \cup (IF d \in mclocal THEN ThresholdOf(d) ELSE {})]

mac_binding_remove_sb(c, r) == [c EXCEPT !.mbs = @ \ {r}]
mac_binding_add_sb(c, r) == [c EXCEPT !.mbs = @ \cup {r}]

\* fdb_data_equals(): datapath and MAC
fdb_remove_sb(c, r) == [c EXCEPT !.fdbs = {f \in @ : f.dp # r.dp}]
fdb_add_sb(c, r) == [c EXCEPT !.fdbs = {f \in @ : f.dp # r.dp} \cup {r}]

\* Rows of a datapath that lost its threshold stay.
RowsOnlyAdded(c, d) ==
    LET m == {r \in mcmb : r.dp = d} f == {r \in mcfdb : r.dp = d}
    IN  IF mac_cache_threshold_find(c, d)
        THEN [c EXCEPT !.mbs = @ \cup m, !.fdbs = {r \in @ : r.dp # d} \cup f]
        ELSE c

\* mac_cache_mb_handle_for_datapath(), mac_cache_fdb_handle_for_datapath()
HandleForDatapath(c, d) ==
    LET m == {r \in mcmb : r.dp = d} f == {r \in mcfdb : r.dp = d}
    IN  IF mac_cache_threshold_find(c, d)
        THEN [c EXCEPT !.mbs = @ \cup m, !.fdbs = {r \in @ : f # {} => r.dp # d} \cup f]
        ELSE [c EXCEPT !.mbs = @ \ m, !.fdbs = {r \in @ : f # {} => r.dp # d}]

\* Thresholds of all tracked datapaths first, then their rows.
HandleDatapaths(c, S) ==
    LET thr == FoldSet(LAMBDA d, x : mac_cache_threshold_replace(x, d), c, S)
    IN  FoldSet(LAMBDA d, x : HandleForDatapath(x, d), thr, S)

mac_cache_runtime_data_handler(c) == HandleDatapaths(c, mctrack.locals)

mac_cache_sb_mac_binding_handler(c) ==
    FoldLeft(LAMBDA x, t :
                 LET y == IF t.op = "new" THEN x ELSE mac_binding_remove_sb(x, t.row)
                 IN  IF t.op = "deleted" \/ t.row.dp \notin mclocal
                        \/ ~mac_cache_threshold_find(y, t.row.dp)
                     THEN y ELSE mac_binding_add_sb(y, t.row),
             c, mctrack.mbs)

mac_cache_sb_fdb_handler(c) ==
    FoldLeft(LAMBDA x, t :
                 LET y == IF t.op = "new" THEN x ELSE fdb_remove_sb(x, t.row)
                 IN  IF t.op = "deleted" \/ t.row.dp \notin mclocal
                        \/ ~mac_cache_threshold_find(y, t.row.dp)
                     THEN y ELSE fdb_add_sb(y, t.row),
             c, mctrack.fdbs)

mac_cache_sb_datapath_binding_handler(c) == HandleDatapaths(c, mctrack.dps)

en_mac_cache_run ==
    LET thr == UNION {ThresholdOf(d) : d \in mclocal}
        has(d) == \E t \in thr : t.dp = d
    IN  [thresholds |-> thr, mbs |-> {r \in mcmb : has(r.dp)}, fdbs |-> {r \in mcfdb : has(r.dp)}]

\* An iteration of the engine: the handlers in the order of engine_add_input().
mac_cache_engine ==
    /\ mctrack # Untracked
    /\ mccache' = IF mctrack.full THEN en_mac_cache_run
                  ELSE mac_cache_sb_datapath_binding_handler(
                           mac_cache_sb_fdb_handler(
                               mac_cache_sb_mac_binding_handler(
                                   mac_cache_runtime_data_handler(mccache))))
    /\ mctrack' = Untracked
    /\ UNCHANGED <<mcdp, mcmb, mcfdb, mclocal, mccount>>

MacCacheNext ==
    \/ \E d \in Datapaths : \/ InsertMb(d) \/ InsertFdb(d) \/ DeleteDp(d)
                            \/ AddLocal(d) \/ RecomputeLocal(d)
                            \/ \E v \in McThresholds : SetThreshold(d, v)
    \/ \E r \in mcmb : DeleteMb(r)
    \/ \E r \in mcfdb : DeleteFdb(r)
    \/ mac_cache_engine

MacCacheSpec == MacCacheInit /\ [][MacCacheNext]_mcVars

(***************************************************************************)
(* Properties.                                                             *)
(***************************************************************************)
\* After every iteration the handlers have left what a recomputation would
\* compute: no row without the threshold that mac_binding_stats_run() and
\* fdb_stats_run() dereference, no row that is gone from the Southbound.
MacCacheAsRecomputed ==
    mctrack = Untracked => mccache = en_mac_cache_run
=============================================================================
