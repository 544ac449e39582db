------------------------------ MODULE HaGroups ------------------------------
(***************************************************************************)
(* Gateway high availability.  ovn-northd turns the gateway chassis of a   *)
(* distributed router port into an HA_Chassis_Group of the Southbound      *)
(* database and records in it the chassis whose ports depend on the        *)
(* gateway (ref_chassis); every ovn-controller runs BFD on its tunnels to  *)
(* the chassis of the group, and the chassis that finds itself first in    *)
(* the group, among those it can reach, claims the chassisredirect port.   *)
(* Sources: northd/northd.c, controller/bfd.c, controller/ha-chassis.c.    *)
(*                                                                         *)
(* One distributed gateway port, and one VIF on a switch behind its        *)
(* router.  The tunnels of a chassis fail and heal together.               *)
(*                                                                         *)
(* No chassis is remote (bfd_calculate_chassis() skips those with is-      *)
(* remote).                                                                *)
(***************************************************************************)
EXTENDS Integers, FiniteSets

CONSTANTS
    HaChassis,      \* chassis names
    HaRank,         \* chassis -> position of its name in strcmp() order
    HaConfigs,      \* Northbound: [kind: "gw" | "group" | "none", prio: chassis -> priority]
    HaNone,         \* no chassis
    MaxHaEvents,    \* bound: changes of the configuration and of the world,
                    \* failed transactions included
    MaxHaFails      \* bound: Southbound transactions of ovn-northd that fail

VARIABLES
    haNb,           \* the router port's configuration
    haHosting,      \* NB status:hosting-chassis of the router port
    haNbUp,         \* NB up of the VIF
    haGroup,        \* SB group: [name, members, ref]; members: name -> [priority, linked]
    haRows,         \* chassis that have a row in the Chassis table
    haOwner,        \* SB chassis of the chassisredirect port
    haVif,          \* SB chassis of the VIF
    haVifUp,        \* SB up of the VIF: "unset", "no", "yes"
    haBfd,          \* chassis -> the chassis to which it runs BFD
    haSeen,         \* chassis -> the BFD sessions its switch reports up
    haCut,          \* chassis whose tunnels are down
    haEvents, haFails

haNbVars == <<haNb, haHosting, haNbUp>>
haSbVars == <<haGroup, haRows, haOwner, haVif, haVifUp>>
haHostVars == <<haBfd, haSeen, haCut>>
haVars == <<haNb, haHosting, haNbUp, haGroup, haRows, haOwner, haVif, haVifUp,
            haBfd, haSeen, haCut, haEvents, haFails>>

NoGroup == [name |-> "none", members |-> [c \in {} |-> 0], ref |-> {}]

HaInit ==
    /\ haNb \in HaConfigs
    /\ haRows = HaChassis
    /\ haGroup = NoGroup
    /\ haHosting = HaNone /\ haNbUp = FALSE
    /\ haOwner = HaNone /\ haVif = HaNone /\ haVifUp = "unset"
    /\ haBfd = [c \in HaChassis |-> {}]
    /\ haSeen = [c \in HaChassis |-> {}]
    /\ haCut = {}
    /\ haEvents = 0 /\ haFails = 0

-----------------------------------------------------------------------------
(* ovn-northd *)

create_sb_ha_chassis(c) ==
    [priority |-> haNb.prio[c], linked |-> c \in haRows]

\* A member differs from its Northbound row, or its chassis has come back.
MembersChanged(group) ==
    \/ DOMAIN group.members # DOMAIN haNb.prio
    \/ \E c \in DOMAIN group.members :
          LET m == group.members[c]
          IN m.priority # haNb.prio[c] \/ (~m.linked /\ c \in haRows)

sbpb_gw_chassis_needs_update(group) == group.name # "lrp" \/ MembersChanged(group)
chassis_group_list_changed(group) == group.name # "hag" \/ MembersChanged(group)

\* All rows of the group are inserted anew; a group of another name is the
\* one cleanup_sb_ha_chassis_groups() deletes.
Rewritten(name) ==
    [name |-> name, ref |-> IF haGroup.name = name THEN haGroup.ref ELSE {},
     members |-> [c \in DOMAIN haNb.prio |-> create_sb_ha_chassis(c)]]

sync_ha_chassis_group_for_sbpb ==
    IF chassis_group_list_changed(haGroup) THEN Rewritten("hag") ELSE haGroup

copy_gw_chassis_from_nbrp_to_sbpb ==
    IF sbpb_gw_chassis_needs_update(haGroup) THEN Rewritten("lrp") ELSE haGroup

SyncedGroup ==
    CASE haNb.kind = "group" -> sync_ha_chassis_group_for_sbpb
      [] haNb.kind = "gw"    -> copy_gw_chassis_from_nbrp_to_sbpb
      [] haNb.kind = "none"  -> NoGroup

\* The router is in the group's lr_group only if the group has several members.
collect_lr_groups_for_ha_chassis_groups(group) ==
    IF Cardinality(DOMAIN group.members) > 1 /\ haVif # HaNone THEN {haVif} ELSE {}

\* The groups no port refers to get an empty ref_chassis.
update_sb_ha_group_ref_chassis(group) ==
    [group EXCEPT !.ref = collect_lr_groups_for_ha_chassis_groups(group)]

\* hosting-chassis and up in the Northbound database, and the first "false"
\* in the binding's up.
handle_port_binding_changes ==
    /\ haHosting' = haOwner
    /\ haNbUp' = (haVif # HaNone /\ haVifUp = "yes")

NorthdCommitted ==
    /\ haGroup' = update_sb_ha_group_ref_chassis(SyncedGroup)
    /\ haVifUp' = IF haVifUp = "unset" THEN "no" ELSE haVifUp
    /\ UNCHANGED haFails

NorthdFailed ==
    /\ haFails < MaxHaFails /\ haEvents + haFails < MaxHaEvents
    /\ haFails' = haFails + 1
    /\ UNCHANGED <<haGroup, haVifUp>>

HaNorthd ==
    /\ handle_port_binding_changes
    /\ NorthdCommitted \/ NorthdFailed
    /\ UNCHANGED <<haNb, haRows, haOwner, haVif, haHostVars, haEvents>>

-----------------------------------------------------------------------------
(* ovn-controller *)

Linked == {c \in DOMAIN haGroup.members : haGroup.members[c].linked}

\* Mutant: a gateway runs BFD to the other gateways only.
GatewaysOnly(c) ==
    IF Cardinality(DOMAIN haGroup.members) < 2 THEN {}
    ELSE IF c \in Linked \cup haGroup.ref THEN Linked \ {c} ELSE {}

\* The chassis to which c sets up BFD sessions (its own name has no tunnel).
bfd_calculate_chassis(c) ==
    CASE Cardinality(DOMAIN haGroup.members) < 2 -> {}
      [] Cardinality(DOMAIN haGroup.members) >= 2 ->
            IF c \in Linked THEN (Linked \cup haGroup.ref) \ {c}
            ELSE IF c \in haGroup.ref THEN Linked ELSE {}

\* The tunnels on which BFD is enabled and up.
bfd_calculate_active_tunnels(c) == haSeen[c] \cap haBfd[c]

\* c goes before d in the list sorted by compare_chassis_prio_().
compare_chassis_prio_(c, d) ==
    LET p == haGroup.members[c].priority
        q == haGroup.members[d].priority
    IN p > q \/ (p = q /\ HaRank[c] > HaRank[d])

is_local_chassis_only_candidate(c) == Linked = {c}

\* The candidates c can see, itself included; alone, only if it reaches a
\* chassis that needs the gateway.
get_ordered_ha_chassis_list(c, active) ==
    LET seen == {d \in Linked : d = c \/ d \in active}
    IN IF Cardinality(seen) = 1 /\ haGroup.ref \cap active = {} THEN {} ELSE seen

ha_chassis_group_is_active(c) ==
    LET active == bfd_calculate_active_tunnels(c)
        order == get_ordered_ha_chassis_list(c, active)
    IN CASE Cardinality(DOMAIN haGroup.members) = 1 -> Linked = {c}
         [] Cardinality(DOMAIN haGroup.members) > 1 ->
              \/ is_local_chassis_only_candidate(c)
              \/ /\ active # {}
                 /\ c \in order
                 /\ \A d \in order \ {c} : compare_chassis_prio_(c, d)
         [] Cardinality(DOMAIN haGroup.members) = 0 -> FALSE

ha_chassis_group_contains(c) == c \in Linked

\* One iteration: the port is claimed or released, then BFD is configured.
HaController(c) ==
    /\ c \in haRows
    /\ haOwner' = IF ha_chassis_group_contains(c) /\ ha_chassis_group_is_active(c) THEN c
                  ELSE IF haOwner = c THEN HaNone ELSE haOwner
    /\ haBfd' = [haBfd EXCEPT ![c] = bfd_calculate_chassis(c)]
    /\ haVifUp' = IF haVif = c /\ haVifUp = "no" THEN "yes" ELSE haVifUp
    /\ UNCHANGED <<haNbVars, haGroup, haRows, haVif, haSeen, haCut, haEvents, haFails>>

\* BFD in ovs-vswitchd notices what became of the session to d.
HaBfdSession(c, d) ==
    LET up == d \in haBfd[c] /\ c \in haBfd[d] /\ {c, d} \cap haCut = {}
    IN /\ c # d
       /\ up # (d \in haSeen[c])
       /\ haSeen' = [haSeen EXCEPT ![c] = IF up THEN @ \cup {d} ELSE @ \ {d}]
       /\ UNCHANGED <<haNbVars, haSbVars, haBfd, haCut, haEvents, haFails>>

-----------------------------------------------------------------------------
(* The administrator, the hypervisors and the network. *)

HaEvent == haEvents + haFails < MaxHaEvents /\ haEvents' = haEvents + 1

HaConfigure ==
    /\ HaEvent
    /\ haNb' \in HaConfigs \ {haNb}
    /\ UNCHANGED <<haHosting, haNbUp, haSbVars, haHostVars, haFails>>

\* The tunnels of c go down, or come back.
HaCut(c) ==
    /\ HaEvent
    /\ haCut' = IF c \in haCut THEN haCut \ {c} ELSE haCut \cup {c}
    /\ UNCHANGED <<haNbVars, haSbVars, haBfd, haSeen, haFails>>

\* The VIF is plugged on another chassis, which claims it.
HaPlug(c) ==
    /\ HaEvent
    /\ c \in haRows /\ haVif # c
    /\ haVif' = c
    /\ haVifUp' = IF haVifUp = "unset" THEN "unset" ELSE "no"
    /\ UNCHANGED <<haNbVars, haGroup, haRows, haOwner, haHostVars, haFails>>

\* ovn-controller exits: it releases its ports and deletes its Chassis row,
\* and the weak references to the row go with it; or it registers again.
HaExit(c) ==
    /\ HaEvent
    /\ c \in haRows
    /\ haRows' = haRows \ {c}
    /\ haOwner' = IF haOwner = c THEN HaNone ELSE haOwner
    /\ haVif' = IF haVif = c THEN HaNone ELSE haVif
    /\ haVifUp' = IF haVif = c /\ haVifUp # "unset" THEN "no" ELSE haVifUp
    /\ haGroup' = [haGroup EXCEPT !.ref = @ \ {c},
                     !.members = [d \in DOMAIN @ |-> IF d = c THEN [@[d] EXCEPT !.linked = FALSE]
                                                     ELSE @[d]]]
    /\ haBfd' = [d \in HaChassis |-> IF d = c THEN {} ELSE haBfd[d] \ {c}]
    /\ UNCHANGED <<haNbVars, haSeen, haCut, haFails>>

HaRegister(c) ==
    /\ HaEvent
    /\ c \notin haRows
    /\ haRows' = haRows \cup {c}
    /\ UNCHANGED <<haNbVars, haGroup, haOwner, haVif, haVifUp, haHostVars, haFails>>

HaNext ==
    \/ HaNorthd
    \/ HaConfigure
    \/ \E c \in HaChassis :
          HaController(c) \/ HaCut(c) \/ HaPlug(c) \/ HaExit(c) \/ HaRegister(c)
    \/ \E c, d \in HaChassis : HaBfdSession(c, d)

HaGroupsSpec == HaInit /\ [][HaNext]_haVars

\* The daemons and the switches keep running, and not every transaction fails.
HaGroupsFairSpec ==
    /\ HaGroupsSpec
    /\ WF_haVars(HaNorthd)
    /\ \A c \in HaChassis : WF_haVars(HaController(c))
    /\ \A c \in HaChassis : \A d \in HaChassis \ {c} : WF_haVars(HaBfdSession(c, d))

-----------------------------------------------------------------------------
(* Properties. *)

HaGroupsTypeOK ==
    /\ haNb \in HaConfigs
    /\ {haHosting, haOwner, haVif} \subseteq HaChassis \cup {HaNone}
    /\ haNbUp \in BOOLEAN /\ haVifUp \in {"unset", "no", "yes"}
    /\ haGroup.name \in {"none", "lrp", "hag"}
    /\ DOMAIN haGroup.members \subseteq HaChassis /\ haGroup.ref \subseteq haRows
    /\ haRows \subseteq HaChassis /\ haCut \subseteq HaChassis
    /\ haBfd \in [HaChassis -> SUBSET HaChassis]
    /\ haSeen \in [HaChassis -> SUBSET HaChassis]
    /\ haEvents \in 0 .. MaxHaEvents /\ haFails \in 0 .. MaxHaFails

\* The gateways that run ovn-controller, those that reach somebody they are
\* there for, and the first of them.
Gateways == DOMAIN haNb.prio \cap haRows
InTouch(c) ==
    /\ c \notin haCut
    /\ \E d \in (Gateways \cup {haVif}) \ {c, HaNone} : d \notin haCut
Serving ==
    IF Cardinality(Gateways) = 1 THEN Gateways ELSE {c \in Gateways : InTouch(c)}
Master ==
    LET Before(c, d) == \/ haNb.prio[c] > haNb.prio[d]
                        \/ haNb.prio[c] = haNb.prio[d] /\ HaRank[c] > HaRank[d]
    IN IF Serving = {} THEN HaNone
       ELSE CHOOSE c \in Serving : \A d \in Serving \ {c} : Before(c, d)

\* Once the network, the chassis and the configuration stay as they are, the
\* gateway port ends up on one chassis and stays there: the gateway with the
\* highest priority among those that reach another gateway or the chassis of
\* the VIF (or the only gateway there is), and nobody when none does,
\* whatever the order in which ovn-northd, BFD and the ovn-controllers learn
\* of it; the Northbound database names that chassis.
GatewayMovesToMaster == <>[](haOwner = Master /\ haHosting = haOwner)
=============================================================================
