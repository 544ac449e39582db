---------------------------- MODULE OfctrlFlows ----------------------------
(***************************************************************************)
(* The flow tables of controller/ofctrl.c: one table of desired flows,     *)
(* which the engine changes flow by flow, and the installed flows that     *)
(* ofctrl_put() derives from it, either from the tracked changes or by     *)
(* comparing the two tables.                                               *)
(*                                                                         *)
(* Several desired flows may have the same match.  The installed flow of a *)
(* match then has a list of them (desired_refs) whose first is the active  *)
(* one.  Flows that are only clauses of a conjunction are shared: one      *)
(* desired flow has the actions of all the logical flows that refer to it. *)
(*                                                                         *)
(* Table, priority and match are one value.  Actions are sequences of      *)
(* atoms: Out for any forwarding action, nothing for drop, and for a       *)
(* conjunction the logical flow it belongs to, since conjunction ids are   *)
(* not shared.  The cookie is the logical flow, or None for conjunctions.  *)
(***************************************************************************)
EXTENDS Naturals, Sequences, FiniteSets, SequencesExt

CONSTANTS
    Uuids,          \* Southbound rows (logical flows) that generate flows
    Matches,
    MaxFlows,       \* bound: desired flows in memory at a time
    Out, None       \* model values

ASSUME FlowsAssumption ==
    /\ IsFiniteSet(Uuids) /\ IsFiniteSet(Matches) /\ MaxFlows \in Nat
    /\ Out \notin Uuids /\ None \notin Uuids /\ Out # None

VARIABLES
    flow,           \* struct desired_flow, by address
    tracked_flows, change_tracked,
    refs,           \* per match: desired_refs of its installed flow
    installed,      \* per match: actions and cookie installed, or None
    touched,        \* matches for which the last ofctrl_put() sent a message
    assert_failed,  \* an assertion of ofctrl.c failed
    want            \* what the callers asked for: [uuid, match, action]

flow_vars == <<flow, tracked_flows, change_tracked, refs, installed, touched,
               assert_failed, want>>

Init ==
    /\ flow = <<>>
    /\ tracked_flows = <<>> /\ change_tracked = FALSE
    /\ refs = [m \in Matches |-> <<>>]
    /\ installed = [m \in Matches |-> None]
    /\ touched = {} /\ assert_failed = FALSE /\ want = {}

-----------------------------------------------------------------------------

has_drop(ofpacts) == ofpacts = <<>>
has_conj(ofpacts) == \E i \in DOMAIN ofpacts : ofpacts[i] \in Uuids
has_allow(ofpacts) == ~has_drop(ofpacts) /\ ~has_conj(ofpacts)

Content(f) == [ofpacts |-> f.ofpacts, cookie |-> f.cookie]

\* flow_is_preferred() cannot rank two conjunctions: OVS_NOT_REACHED().
Unranked(a, b) == has_conj(a) /\ has_conj(b)

flow_is_preferred(a, b) ==
    \/ has_allow(a) /\ ~has_allow(b)
    \/ has_drop(a) /\ has_conj(b)

\* desired_flow_lookup*(): a flow in the desired table with this match.
InTable(id) == ~flow[id].is_deleted
desired_flow_lookup(m) == {id \in DOMAIN flow : InTable(id) /\ flow[id].match = m}
lookup_conjunctive(m) == {id \in desired_flow_lookup(m) : has_conj(flow[id].ofpacts)}
lookup_check_uuid(m, u) == {id \in desired_flow_lookup(m) : u \in flow[id].references}

FreeIds == (1..MaxFlows) \ DOMAIN flow
NewId == Min(FreeIds)

Without(f, ids) == [id \in DOMAIN f \ ids |-> f[id]]
With(f, id, new) == [i \in DOMAIN f \cup {id} |-> IF i = id THEN new ELSE f[i]]

Tracked(id) == Contains(tracked_flows, id)
Linked(id) == Contains(refs[flow[id].match], id)

\* track_flow_add_or_modify().
TrackChange(id) ==
    tracked_flows' = IF change_tracked THEN Append(Remove(tracked_flows, id), id)
                     ELSE tracked_flows

-----------------------------------------------------------------------------
(* The engine's interface.                                                 *)

desired_flow_alloc(m, ofpacts, cookie) ==
    [match |-> m, ofpacts |-> ofpacts, cookie |-> cookie, references |-> {},
     as_ip |-> {}, is_deleted |-> FALSE]

\* A flow generated for one address of an address set is found by it.
link_flow_to_sb(f, u, as_info) ==
    [f EXCEPT !.references = @ \cup {u},
              !.as_ip = IF as_info THEN @ \cup {u} ELSE @]

\* A new flow in the table, linked and tracked.
Insert(f, u, as_info) ==
    /\ FreeIds # {}
    /\ flow' = With(flow, NewId, link_flow_to_sb(f, u, as_info))
    /\ TrackChange(NewId)

\* ofctrl_add_flow_metered(): a second flow of a row for one match is dropped.
AddFlow(u, m, ofpacts, as_info) ==
    /\ lookup_check_uuid(m, u) = {}
    /\ Insert(desired_flow_alloc(m, ofpacts, u), u, as_info)
    /\ want' = want \cup {[uuid |-> u, match |-> m, action |-> ofpacts]}
    /\ touched' = {}
    /\ UNCHANGED <<change_tracked, refs, installed, assert_failed>>

Shared(m) == lookup_conjunctive(m)

\* ofctrl_add_or_append_flow(): a flow that becomes shared is no longer removed
\* by address.  (The matches of one logical flow are distinct, see
\* expr_match_add(), so that it asks once for each.)
AddOrAppend(u, m, as_info) ==
    LET appended(f) == [f EXCEPT !.ofpacts = Append(@, u), !.as_ip = {}]
    IN  /\ lookup_check_uuid(m, u) = {}
        /\ \/ \E id \in Shared(m) :
                 /\ flow' = [flow EXCEPT ![id] = link_flow_to_sb(appended(@), u, FALSE)]
                 /\ TrackChange(id)
           \/ /\ Shared(m) = {}
              /\ Insert(desired_flow_alloc(m, <<u>>, None), u, as_info)
        /\ want' = want \cup {[uuid |-> u, match |-> m, action |-> <<u>>]}
        /\ touched' = {}
        /\ UNCHANGED <<change_tracked, refs, installed, assert_failed>>

\* unlink_installed_to_desired(), before flows are destroyed.
Unlinked(ids) ==
    [m \in Matches |-> SelectSeq(refs[m], LAMBDA id : id \notin ids)]

\* track_or_destroy_for_flow_del() for several flows, in the order given.  When
\* changes are tracked a flow is destroyed if it was never installed, and else
\* kept until ofctrl_put().
TrackDeletions(ids, order) ==
    LET destroyed == {id \in ids : change_tracked => Tracked(id) /\ ~Linked(id)}
        kept == SelectSeq(order, LAMBDA id : id \notin destroyed)
        others == SelectSeq(tracked_flows, LAMBDA id : id \notin ids)
        gone(id) == [flow[id] EXCEPT !.is_deleted = TRUE, !.references = {},
                                     !.as_ip = {}]
    IN  /\ flow' = [id \in DOMAIN flow \ destroyed |->
                       IF id \in ids THEN gone(id) ELSE flow[id]]
        /\ refs' = Unlinked(destroyed)
        /\ tracked_flows' = others \o kept
        /\ touched' = {}
        /\ UNCHANGED <<change_tracked, installed>>

FlowsOf(uuids) == {id \in DOMAIN flow : flow[id].references \cap uuids # {}}

\* Rows that share a flow with one of uuids, directly or through others.
SharedBy(uuids) == uuids \cup UNION {flow[id].references : id \in FlowsOf(uuids)}
Flood(uuids) ==
    LET reach[k \in 0..Cardinality(Uuids)] ==
            IF k = 0 THEN uuids ELSE SharedBy(reach[k - 1])
    IN  reach[Cardinality(Uuids)]

\* ofctrl_flood_remove_flows(); its callers ask again for the rows it reached.
FloodRemove(uuids) ==
    LET removed == Flood(uuids)
        ids == FlowsOf(removed)
    IN  /\ ids # {}
        /\ \E order \in SetToSeqs(ids) : TrackDeletions(ids, order)
        /\ want' = {w \in want : w.uuid \notin removed}
        /\ UNCHANGED assert_failed

\* ofctrl_remove_flows_for_as_ip(), with its assertion that no other row refers
\* to a flow it removes.
RemoveForAsIp(u) ==
    LET ids == {id \in DOMAIN flow : u \in flow[id].as_ip}
    IN  /\ ids # {}
        /\ \E order \in SetToSeqs(ids) : TrackDeletions(ids, order)
        /\ want' = {w \in want :
                      ~\E id \in ids : w.uuid = u /\ w.match = flow[id].match}
        /\ assert_failed' = (assert_failed \/ \E id \in ids : flow[id].references # {u})

\* ovn_desired_flow_table_clear(), when the engine recomputes.
Clear ==
    /\ change_tracked' = FALSE
    /\ flow' = <<>>
    /\ tracked_flows' = <<>>
    /\ refs' = Unlinked(DOMAIN flow)
    /\ want' = {}
    /\ touched' = {}
    /\ UNCHANGED <<installed, assert_failed>>

\* ovn_installed_flow_table_clear(), on a new connection.  The engine recomputes
\* when the connection comes and goes, and tracks changes again only after an
\* ofctrl_put(), which needs the connection.
InstalledClear ==
    /\ ~change_tracked
    /\ installed' = [m \in Matches |-> None]
    /\ refs' = [m \in Matches |-> <<>>]
    /\ touched' = {}
    /\ UNCHANGED <<flow, tracked_flows, change_tracked, assert_failed, want>>

-----------------------------------------------------------------------------
(* ofctrl_put().  Its loops fold over a record of what they change.        *)

Tables == [flow |-> flow, tracked |-> tracked_flows, refs |-> refs,
           installed |-> installed, touched |-> {}, bad |-> assert_failed,
           deleted |-> {}]

Install(s, id) ==
    LET m == s.flow[id].match IN
    [s EXCEPT !.installed[m] = Content(s.flow[id]), !.touched = @ \cup {m}]

Uninstall(s, m) == [s EXCEPT !.installed[m] = None, !.touched = @ \cup {m}]

\* link_installed_to_desired(): before the first flow it is preferred to.
link_installed_to_desired(s, id) ==
    LET m == s.flow[id].match
        acts == s.flow[id].ofpacts
        first == SelectInSeq(s.refs[m], LAMBDA r :
                     flow_is_preferred(acts, s.flow[r].ofpacts))
        at == IF first = 0 THEN Len(s.refs[m]) + 1 ELSE first
    IN  [s EXCEPT !.refs[m] = InsertAt(@, at, id),
                  !.bad = @ \/ \E i \in 1..(at - 1) :
                                   Unranked(acts, s.flow[s.refs[m][i]].ofpacts)]

get_active(s, m) == IF s.refs[m] = <<>> THEN None ELSE Head(s.refs[m])

LinkAndInstall(s, id) ==
    LET linked == link_installed_to_desired(s, id) IN
    IF get_active(linked, s.flow[id].match) = id THEN Install(linked, id) ELSE linked

Destroy(s, ids) ==
    [s EXCEPT !.flow = Without(@, ids),
              !.tracked = SelectSeq(@, LAMBDA id : id \notin ids)]

\* deleted_flow_lookup(): the flow deleted before that is the same as f and is
\* what is installed.  There is at most one.
SameAsDeleted(s, f) ==
    {id \in s.deleted : s.flow[id].match = f.match /\ Content(s.flow[id]) = Content(f)}
deleted_flow_lookup(s, f) ==
    {id \in SameAsDeleted(s, f) : s.installed[f.match] = Content(f)}

\* One step of merge_tracked_flows().
merge_tracked(s, id) ==
    LET f == s.flow[id]
        m == f.match
        del_f == deleted_flow_lookup(s, f)
        d == CHOOSE x \in del_f : TRUE
        merged == [s EXCEPT
            !.refs[m] = IF Contains(@, id) THEN Remove(@, d) ELSE ReplaceAll(@, d, id),
            !.deleted = @ \ {d},
            !.tracked = Remove(@, id)]
    IN  IF f.is_deleted THEN [s EXCEPT !.deleted = @ \cup {id}]
        ELSE IF del_f = {} THEN s
        ELSE Destroy([merged EXCEPT !.bad = @ \/ ~Contains(s.refs[m], d)], {d})

\* Mutant: the flow behind a removed one is not looked at.
UninstallOnly(s, id) ==
    LET m == s.flow[id].match
        left == [s EXCEPT !.refs[m] = Remove(@, id)]
    IN  IF ~Contains(s.refs[m], id) THEN s
        ELSE IF left.refs[m] = <<>> THEN Uninstall(left, m)
        ELSE left

\* update_installed_flows_by_track(): a tracked deletion ...
track_deleted(s, id) ==
    LET m == s.flow[id].match
        left == [s EXCEPT !.refs[m] = Remove(@, id)]
    IN  IF ~Contains(s.refs[m], id) THEN s
        ELSE IF left.refs[m] = <<>> THEN Uninstall(left, m)
        ELSE IF get_active(s, m) = id THEN Install(left, get_active(left, m))
        ELSE left

\* ... and a tracked addition or modification.
track_changed(s, id) ==
    LET m == s.flow[id].match IN
    IF s.installed[m] = None \/ ~Contains(s.refs[m], id) THEN LinkAndInstall(s, id)
    ELSE IF get_active(s, m) = id THEN Install(s, id)
    ELSE s

track_flow(s, id) ==
    IF s.flow[id].is_deleted THEN Destroy(track_deleted(s, id), {id})
    ELSE track_changed(s, id)

by_track ==
    LET merged == FoldLeft(merge_tracked, Tables, tracked_flows)
    IN  FoldLeft(track_flow, merged, merged.tracked)

\* update_installed_flows_by_compare(), over the desired flows in the order in
\* which the hash map has them: the first flow of a match takes over what is
\* installed for it, the others are linked behind or before it.
compare_flow(s, id) ==
    LET m == s.flow[id].match IN
    IF s.refs[m] # <<>> THEN LinkAndInstall(s, id)
    ELSE IF s.installed[m] = Content(s.flow[id]) THEN link_installed_to_desired(s, id)
    ELSE Install(link_installed_to_desired(s, id), id)

by_compare(order) ==
    LET unwanted == {m \in Matches : installed[m] # None /\ desired_flow_lookup(m) = {}}
        unlinked == [Tables EXCEPT !.refs = [m \in Matches |-> <<>>],
                                   !.bad = @ \/ tracked_flows # <<>>]
        kept == [unlinked EXCEPT
                    !.installed = [m \in Matches |-> IF m \in unwanted THEN None
                                                     ELSE installed[m]],
                    !.touched = unwanted]
    IN  FoldLeft(compare_flow, kept, order)

PutDone(s) ==
    /\ flow' = s.flow /\ refs' = s.refs /\ installed' = s.installed
    /\ touched' = s.touched /\ assert_failed' = s.bad
    /\ tracked_flows' = <<>>
    /\ change_tracked' = TRUE
    /\ UNCHANGED want

PutByTrack == change_tracked /\ tracked_flows # <<>> /\ PutDone(by_track)

PutByCompare ==
    /\ ~change_tracked
    /\ \E order \in SetToSeqs(DOMAIN flow) : PutDone(by_compare(order))

Next ==
    \/ \E u \in Uuids, m \in Matches, as_info \in BOOLEAN :
          \/ AddFlow(u, m, <<Out>>, as_info)
          \/ AddFlow(u, m, <<>>, as_info)
          \/ AddOrAppend(u, m, as_info)
    \/ \E u \in Uuids : FloodRemove({u}) \/ RemoveForAsIp(u)
    \/ Clear \/ InstalledClear
    \/ PutByTrack \/ PutByCompare

Spec == Init /\ [][Next]_flow_vars

-----------------------------------------------------------------------------

\* Types of the variables.
TypeOK ==
    /\ DOMAIN flow \subseteq 1..MaxFlows
    /\ \A id \in DOMAIN flow :
          flow[id] \in [match : Matches, ofpacts : Seq(Uuids \cup {Out}),
                        cookie : Uuids \cup {None}, references : SUBSET Uuids,
                        as_ip : SUBSET Uuids, is_deleted : BOOLEAN]
    /\ tracked_flows \in Seq(DOMAIN flow)
    /\ refs \in [Matches -> Seq(DOMAIN flow)]
    /\ \A m \in Matches : installed[m] # None =>
          installed[m] \in [ofpacts : Seq(Uuids \cup {Out}), cookie : Uuids \cup {None}]
    /\ touched \subseteq Matches
    /\ {change_tracked, assert_failed} \subseteq BOOLEAN
    /\ want \subseteq [uuid : Uuids, match : Matches, action : Seq(Uuids \cup {Out})]

\* No assertion of ofctrl.c fails: two conjunctions never compete for a match, a
\* deleted flow that is found again is still installed, a flow removed for an
\* address belongs to one row, and nothing is tracked when tables are compared.
AssertsHold == ~assert_failed

\* The desired flows that an installed flow lists by address exist.
LinksAlive == \A m \in Matches : Range(refs[m]) \subseteq DOMAIN flow

Asked(m, action) == {w \in want : w.match = m /\ w.action = action}
Conjoined(m) == {w.uuid : w \in {w \in want : w.match = m /\ has_conj(w.action)}}

\* What has to be installed for a match, from what was asked alone: the least
\* restrictive action asked for, and for conjunctions those of all the rows.
Expected(m, i) ==
    CASE Asked(m, <<Out>>) # {} ->
            \E w \in Asked(m, <<Out>>) : i = [ofpacts |-> <<Out>>, cookie |-> w.uuid]
      [] Asked(m, <<Out>>) = {} /\ Asked(m, <<>>) # {} ->
            \E w \in Asked(m, <<>>) : i = [ofpacts |-> <<>>, cookie |-> w.uuid]
      [] Asked(m, <<Out>>) = {} /\ Asked(m, <<>>) = {} /\ Conjoined(m) # {} ->
            \E acts \in SetToSeqs(Conjoined(m)) : i = [ofpacts |-> acts, cookie |-> None]
      [] OTHER -> i = None

\* Once ofctrl_put() has caught up, what is installed is what a computation from
\* scratch would install, whatever was added, shared, removed, added again,
\* skipped and recomputed since.
InstalledAsAsked ==
    change_tracked /\ tracked_flows = <<>> => \A m \in Matches : Expected(m, installed[m])

\* merge_tracked_flows(): "to avoid unnecessary OF messages being sent to OVS".
\* An incremental ofctrl_put() sends nothing for a match when the flow it leaves
\* installed, not a conjunction, was installed before: rows removed and added
\* again do not disturb the switch.
NoNeedlessMessages ==
    [][change_tracked =>
          \A m \in touched' : \/ installed'[m] # installed[m]
                               \/ has_conj(installed[m].ofpacts)]_flow_vars
=============================================================================
