----------------------------- MODULE NbBarrier -----------------------------
(***************************************************************************)
(* What ovn-nbctl --wait promises.  Changes of the Northbound are counted; *)
(* the Southbound and then every chassis come to reflect them, in order    *)
(* and each at its own pace.  A command that waits for "sb" or "hv" exits  *)
(* only when its change is there.                                          *)
(***************************************************************************)
EXTENDS Naturals

CONSTANT Hypervisors

VARIABLES
    asked,      \* changes made to the Northbound
    insb,       \* the newest of them that the Southbound reflects
    inhv,       \* and that each chassis reflects
    returned    \* the commands that exited: <<what it waited for, its change>>

bVars == <<asked, insb, inhv, returned>>

BInit ==
    /\ asked = 0
    /\ insb = 0
    /\ inhv = [h \in Hypervisors |-> 0]
    /\ returned = {}

BAsk ==
    /\ asked' = asked + 1
    /\ UNCHANGED <<insb, inhv, returned>>

BToSb ==
    /\ insb' \in insb..asked
    /\ UNCHANGED <<asked, inhv, returned>>

BToHv(h) ==
    /\ \E v \in inhv[h]..insb : inhv' = [inhv EXCEPT ![h] = v]
    /\ UNCHANGED <<asked, insb, returned>>

\* "With --wait=hv, before ovn-nbctl exits, it additionally waits for all OVN
\* chassis".
BReturn(w, n) ==
    /\ n <= insb
    /\ w = "hv" => \A h \in Hypervisors : n <= inhv[h]
    /\ returned' = returned \cup {<<w, n>>}
    /\ UNCHANGED <<asked, insb, inhv>>

BNext ==
    \/ BAsk \/ BToSb
    \/ \E h \in Hypervisors : BToHv(h)
    \/ \E w \in {"sb", "hv"}, n \in 1..asked : BReturn(w, n)

BSpec == BInit /\ [][BNext]_bVars
=============================================================================
