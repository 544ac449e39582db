---------------------------- MODULE AclPipeline ----------------------------
(***************************************************************************)
(* The ACLs of a logical switch: the logical flows that ovn-northd builds  *)
(* for them (northd/northd.c) and the packets that go through them, with   *)
(* the connection tracker.  A connection goes from port "a" to port "b"    *)
(* or to the router port "r"; each port has its own zone.  ACLs come and   *)
(* go between packets.                                                     *)
(*                                                                         *)
(* Left out: enable_router_port_acl, the bit that remembers a fragment,    *)
(* DNS answers of ovn-controller. An established related packet goes on as *)
(* with next (ct_commit_nat adds no connection), and a rejected packet is  *)
(* one that does not arrive: the answer that reject sends is not here.     *)
(***************************************************************************)
EXTENDS Lflow

CONSTANTS
    MaxAcls,        \* bound: ACLs at a time
    AclTiers,       \* bound: the greatest tier
    AclConfigs,     \* [lb, drop, peer, rules], rules: ACLs [dir, pri, match, action, tier, afterlb, label, log]
    MaxAclEvents    \* bound: changes and packets

VARIABLES
    acls,           \* Logical_Switch.acls and those of its port groups
    aclcfg,         \* a load balancer with a VIP, default_acl_drop, the port of
                    \* the server, the ACLs that come and go
    aclct,          \* per zone: the connection in the connection tracker
    aclpass,        \* history, per zone: what the ACLs said of the connection last
    aclevents

aclVars == <<acls, aclcfg, aclct, aclpass, aclevents>>

AclPorts == {"a", "b", "r"}
acllb == aclcfg.lb
Pipes == {"in", "out"}
Outputs == <<"end", "output">>
Delivered == <<"end", "delivered">>
AclDropped == <<"end", "dropped">>
NoEntry == [known |-> FALSE, orig |-> "a", est |-> FALSE, blocked |-> FALSE, label |-> 0]

\* Kinds of packets.  All but "arp" are IP.
AclIpKinds == {"tcp", "err", "nd", "mcast", "to_monitor", "from_monitor", "toobig", "dns"}
NdKinds == {"nd"}

(***************************************************************************)
(* struct ls_stateful_record.                                              *)
(***************************************************************************)
has_stateful_acl == \E r \in acls : r.action = "allow-related"
max_acl_tier == IF acls = {} THEN 0
                ELSE CHOOSE t \in 0..AclTiers : /\ \E r \in acls : r.tier = t
                                                /\ \A r \in acls : r.tier <= t
has_acls == acls # {}
has_stateful == has_stateful_acl \/ acllb

(***************************************************************************)
(* The logical flows.                                                      *)
(***************************************************************************)
OVN_ACL_PRI_OFFSET == 1000
Kind(K) == {[kind |-> K]}
Bit(f) == {[x \in {f} |-> {TRUE}]}
On(fs) == [f \in fs |-> Val(TRUE)]
Clear(fs) == [f \in fs |-> Val(FALSE)]

build_stateless_filters ==
    UNION {Flow(<<IF r.dir = "from" THEN "in" ELSE "out", "pre_acl">>, r.pri + OVN_ACL_PRI_OFFSET,
                Kind(r.match), On({"stateless"}), "next") : r \in {x \in acls : x.action = "allow-stateless"}}

build_pre_acls ==
    UNION {Flow(<<d, "pre_acl">>, 0, Always, NoLoad, "next") : d \in Pipes}
    \cup Flow(<<"in", "pre_acl">>, 110, Kind({"to_monitor"}), NoLoad, "next")
    \cup Flow(<<"out", "pre_acl">>, 110, Kind({"from_monitor"}), NoLoad, "next")

\* IP of router and localnet ports does not go to conntrack.
skip_port_from_conntrack(stage) ==
    Flow(<<"in", stage>>, 110, {[kind |-> AclIpKinds, inport |-> {"r"}]}, NoLoad, "next")
    \cup Flow(<<"out", stage>>, 110, {[kind |-> AclIpKinds, outport |-> {"r"}]}, NoLoad,
              IF has_stateful_acl THEN "next" ELSE "ct_clear")

build_ls_stateful_rec_pre_acls ==
    IF has_stateful_acl
    THEN skip_port_from_conntrack("pre_acl") \cup build_stateless_filters
         \cup UNION {Flow(<<d, "pre_acl">>, 110, Kind(NdKinds), NoLoad, "next")
                     \cup Flow(<<d, "pre_acl">>, 110, Kind({"mcast"}), NoLoad, "next")
                     \cup Flow(<<d, "pre_acl">>, 100, Kind(AclIpKinds), On({"defrag"}), "next") : d \in Pipes}
         \cup Flow(<<"in", "pre_acl">>, 110, Kind({"toobig"}), NoLoad, "next")
    ELSE IF acllb THEN build_stateless_filters ELSE {}

build_pre_lb ==
    UNION {Flow(<<d, "pre_lb">>, 110, Kind({"mcast"}), NoLoad, "next")
           \cup Flow(<<d, "pre_lb">>, 110, Kind(NdKinds), NoLoad, "next")
           \cup Flow(<<d, "pre_lb">>, 110, Bit("stateless"), NoLoad, "next")
           \cup Flow(<<d, "pre_lb">>, 0, Always, NoLoad, "next") : d \in Pipes}
    \cup Flow(<<"in", "pre_lb">>, 110, Kind({"toobig"}), NoLoad, "next")
    \cup Flow(<<"in", "pre_lb">>, 110, Kind({"to_monitor"}), NoLoad, "next")
    \cup Flow(<<"out", "pre_lb">>, 110, Kind({"from_monitor"}), NoLoad, "next")

build_ls_stateful_rec_pre_lb ==
    skip_port_from_conntrack("pre_lb")
    \cup (IF ~acllb THEN {}
          ELSE UNION {Flow(<<d, "pre_lb">>, 100, Kind(AclIpKinds), On({"nat"}), "next") : d \in Pipes})

build_pre_stateful ==
    UNION {Flow(<<d, "pre_stateful">>, 0, Always, NoLoad, "next")
           \cup Flow(<<d, "pre_stateful">>, 110, Bit("nat"), NoLoad, "ct_next")
           \cup Flow(<<d, "pre_stateful">>, 100, Bit("defrag"), NoLoad, "ct_next") : d \in Pipes}

Est(blocked) == [new |-> {FALSE}, est |-> {TRUE}, rpl |-> {FALSE}, blocked |-> {blocked}]

build_acl_hints ==
    LET hint(d, pri, match, bits) == Flow(<<d, "acl_hint">>, pri, {match}, On(bits), "next")
        stateful(d) ==
            hint(d, 7, [new |-> {TRUE}, est |-> {FALSE}], {"allow_new", "drop", "commit"})
            \cup hint(d, 6, Est(TRUE), {"allow_new", "drop", "commit"})
            \cup hint(d, 5, [trk |-> {FALSE}], {"allow", "drop"})
            \cup hint(d, 4, Est(FALSE), {"allow", "block"})
            \cup hint(d, 3, [est |-> {FALSE}], {"drop"})
            \cup hint(d, 2, [est |-> {TRUE}, blocked |-> {TRUE}], {"drop"})
            \cup hint(d, 1, [est |-> {TRUE}, blocked |-> {FALSE}], {"block"})
    IN  UNION {Flow(<<d, "acl_hint">>, IF has_acls \/ acllb THEN 0 ELSE 65535, Always, NoLoad, "next")
               \cup (IF has_stateful THEN stateful(d) ELSE {}) : d \in Pipes}

Verdict(r) == CASE r.action = "drop" -> On({"v_drop"})
                [] r.action = "reject" -> On({"v_reject"})
                [] r.action = "pass" -> NoLoad
                [] OTHER -> On({"v_allow"})

AclStage(r) == IF r.dir = "to" THEN <<"out", "acl_eval">>
               ELSE <<"in", IF r.afterlb THEN "acl_after_lb_eval" ELSE "acl_eval">>

Label(r) == IF r.label = 0 THEN NoLoad ELSE [acllabel |-> Val(TRUE), reglabel |-> Val(r.label)]

consider_acl(r) ==
    LET pri == r.pri + OVN_ACL_PRI_OFFSET
        m(bits) == Both(Both(Kind(r.match), bits), IF max_acl_tier = 0 THEN Always ELSE {[tier |-> {r.tier}]})
        f(match, load, then) == Flow(AclStage(r), pri, match, load, then)
    IN  IF ~has_stateful \/ r.action \in {"pass", "allow-stateless"} THEN f(m(Always), Verdict(r), "next")
        ELSE IF r.action \in {"allow", "allow-related"}
        THEN f(m(Bit("allow_new")), Verdict(r) @@ Label(r), "next")
             \cup f(m(Bit("allow")), Verdict(r) @@ Label(r) @@ (IF r.label = 0 THEN NoLoad ELSE On({"commit"})), "next")
        ELSE f(m(Bit("drop")), Verdict(r), "next") \cup f(m(Bit("block")), Verdict(r), "ct_commit_blocked")

\* r.log: log and options:log-related.
build_acl_log_related_flows(r) ==
    IF ~has_stateful \/ r.action \notin {"allow", "allow-related"} \/ r.label = 0 \/ ~r.log THEN {}
    ELSE LET f(m) == Flow(<<IF r.dir = "from" THEN "out" ELSE "in", "acl_eval">>, 65533,
                          {m @@ [inv |-> {FALSE}, new |-> {FALSE}, blocked |-> {FALSE}, ctlabel |-> {r.label}]},
                          On({"v_allow"}), "next")
         IN  f([est |-> {TRUE}, rel |-> {FALSE}, rpl |-> {TRUE}]) \cup f([est |-> {FALSE}, rel |-> {TRUE}])

\* The flows of build_acls() that do not depend on an ACL.
AclFixedFlows ==
    LET e(d, pri, match, load) == Flow(<<d, "acl_eval">>, pri, match, load, "next")
        none == IF has_acls \/ acllb THEN 0 ELSE 65535
        reply == {[est |-> {TRUE}, rel |-> {FALSE}, new |-> {FALSE}, inv |-> {FALSE}, rpl |-> {TRUE}, blocked |-> {FALSE}]}
        related == {[est |-> {FALSE}, rel |-> {TRUE}, new |-> {FALSE}, inv |-> {FALSE}, blocked |-> {FALSE}]}
        invalid == {[inv |-> {TRUE}], [est |-> {TRUE}, rpl |-> {TRUE}, blocked |-> {TRUE}]}
        stateful(d) ==
            e(d, 1, {[kind |-> AclIpKinds, est |-> {TRUE}, blocked |-> {TRUE}]}, On({"v_allow"}))
            \cup e(d, 1, {[kind |-> AclIpKinds, est |-> {FALSE}]}, NoLoad)
            \cup e(d, 65532, invalid, On({"v_drop"}))
            \cup e(d, 65532, reply, IF d = "in" THEN Clear({"drop", "block"}) @@ On({"allow_rel", "v_allow"})
                                    ELSE On({"v_allow"}))
            \cup e(d, 65532, related, On({"v_allow"} \cup IF d = "in" THEN {"allow_rel"} ELSE {}))
    IN  UNION {e(d, none, Always, NoLoad) \cup (IF has_stateful THEN stateful(d) ELSE {})
               \cup e(d, 65532, Kind(NdKinds), On({"v_allow"})) : d \in Pipes}
        \cup Flow(<<"in", "acl_after_lb_eval">>, 0, Always, NoLoad, "next")
        \cup Flow(<<"in", "acl_after_lb_eval">>, 65532, Kind(NdKinds), On({"v_allow"}), "next")
        \cup (IF has_stateful THEN Flow(<<"in", "acl_after_lb_eval">>, 65532, Bit("allow_rel"), On({"v_allow"}), "next")
              ELSE {})
        \cup Flow(<<"out", "acl_eval">>, 34000, Kind({"dns"}), On({"v_allow"}), IF has_stateful THEN "ct_commit" ELSE "next")
        \cup (IF has_acls \/ acllb
              THEN e("in", 34000, Kind({"to_monitor"}), On({"v_allow"}))
                   \cup e("out", 34000, Kind({"from_monitor"}), On({"v_allow"}))
              ELSE {})

ActionStages == {<<"in", "acl_action">>, <<"in", "acl_after_lb_action">>, <<"out", "acl_action">>}
EvalOf(s) == <<s[1], IF s[2] = "acl_action" THEN "acl_eval" ELSE "acl_after_lb_eval">>

build_acl_action_lflows ==
    LET reset == Clear({"v_allow", "v_drop", "v_reject"}) @@ [tier |-> Val(0)]
        at(s) == Flow(s, 1000, Bit("v_allow"), reset, "next")
                 \cup Flow(s, 1000, Bit("v_drop"), reset, "drop")
                 \cup Flow(s, 1000, Bit("v_reject"), reset, "reject")
                 \cup Flow(s, 0, Always, reset, IF aclcfg.drop THEN "drop" ELSE "next")
                 \cup UNION {Flow(s, 500, {[tier |-> {j}]}, [tier |-> Val(j + 1)], "back") : j \in 0..(max_acl_tier - 1)}
    IN  UNION {IF has_acls THEN at(s) ELSE Flow(s, 0, Always, NoLoad, "next") : s \in ActionStages}

build_acls ==
    AclFixedFlows \cup UNION {build_acl_log_related_flows(r) \cup consider_acl(r) : r \in acls}
    \cup build_acl_action_lflows

build_stateful ==
    UNION {Flow(<<d, "stateful">>, 0, Always, NoLoad, "next")
           \cup Flow(<<d, "stateful">>, 100, Both(Bit("commit"), Bit("acllabel")), NoLoad, "ct_commit_label")
           \cup Flow(<<d, "stateful">>, 100, {[commit |-> {TRUE}, acllabel |-> {FALSE}]}, NoLoad, "ct_commit") : d \in Pipes}

AclFlows ==
    build_pre_acls \cup build_ls_stateful_rec_pre_acls \cup build_pre_lb \cup build_ls_stateful_rec_pre_lb
    \cup build_pre_stateful \cup build_acl_hints \cup build_acls \cup build_stateful

AclOrder ==
    [i \in 1..8 |-> <<"in", <<"pre_acl", "pre_lb", "pre_stateful", "acl_hint", "acl_eval", "acl_action",
                              "acl_after_lb_eval", "acl_after_lb_action">>[i]>>]
    \o <<<<"in", "stateful">>, Outputs>>
    \o [i \in 1..7 |-> <<"out", <<"pre_acl", "pre_lb", "pre_stateful", "acl_hint", "acl_eval", "acl_action",
                                  "stateful">>[i]>>]
    \o <<Delivered>>

(***************************************************************************)
(* A packet.                                                               *)
(***************************************************************************)
AclRegs == {"stateless", "defrag", "nat", "allow_new", "allow", "drop", "block", "commit", "allow_rel",
            "v_allow", "v_drop", "v_reject", "acllabel"}
CtBits == {"trk", "new", "est", "rpl", "rel", "inv", "blocked"}

AclPacket(k, from, to, stage) ==
    [f \in AclRegs \cup CtBits |-> FALSE]
    @@ [kind |-> k, inport |-> from, outport |-> to, stage |-> stage, tier |-> 0, reglabel |-> 0, ctlabel |-> 0,
        ct |-> aclct]

AclZone(p) == IF p.stage[1] = "in" THEN p.inport ELSE p.outport

\* The connection tracker: the state of the packet in the zone of its port.
CtTrack(p) ==
    LET z == AclZone(p)
        e == p.ct[z]
        reply == e.known /\ e.orig # p.inport
        bits == IF p.kind \in {"err", "toobig"} THEN {"trk"} \cup (IF e.known THEN {"rel"} ELSE {"inv"}) \cup (IF reply THEN {"rpl"} ELSE {})
                ELSE IF p.kind # "tcp" \/ ~e.known THEN {"trk", "new"}
                ELSE IF reply THEN {"trk", "est", "rpl"}
                ELSE {"trk"} \cup IF e.est THEN {"est"} ELSE {"new"}
        mine == e.known /\ p.kind \in {"tcp", "err", "toobig"}
    IN  [f \in CtBits |-> f \in bits \cup IF mine /\ e.blocked THEN {"blocked"} ELSE {}]
        @@ [p EXCEPT !.ctlabel = IF mine THEN e.label ELSE 0,
                     !.ct = IF p.kind = "tcp" /\ reply THEN [p.ct EXCEPT ![z].est = TRUE] ELSE p.ct]

CtCommit(p, blocked, label) ==
    LET z == AclZone(p)
    IN  IF p.kind # "tcp" THEN p
        ELSE [p EXCEPT !.ct[z] = [@ EXCEPT !.known = TRUE, !.orig = IF p.ct[z].known THEN @ ELSE p.inport,
                                           !.blocked = blocked, !.label = label]]

\* output: egress starts with its registers zero.
AclOutput(p) == [f \in AclRegs |-> FALSE] @@ [p EXCEPT !.tier = 0, !.reglabel = 0, !.stage = <<"out", "pre_acl">>]

\* What one of the flows found does to the packet.
AclApply(f, p) ==
    LET q == Load(p, f.load)
        next(r) == [r EXCEPT !.stage = NextStage(AclOrder, p.stage)]
    IN  CASE f.then = "next" -> next(q)
          [] f.then = "ct_next" -> next(CtTrack(q))
          [] f.then = "ct_clear" -> next([b \in CtBits |-> FALSE] @@ q)
          [] f.then = "ct_commit" -> next(CtCommit(q, FALSE, q.ct[AclZone(q)].label))
          [] f.then = "ct_commit_label" -> next(CtCommit(q, FALSE, q.reglabel))
          [] f.then = "ct_commit_blocked" -> next(CtCommit(q, TRUE, q.ct[AclZone(q)].label))
          [] f.then \in {"drop", "reject"} -> [q EXCEPT !.stage = AclDropped]
          [] f.then = "back" -> [q EXCEPT !.stage = EvalOf(p.stage)]

\* All the ways the packet can go through the pipelines.
RECURSIVE AclTrace(_, _)
AclTrace(flows, p) ==
    CASE p.stage \in {AclDropped, Delivered} -> {p}
      [] p.stage = Outputs -> IF p.kind = "to_monitor" THEN {[p EXCEPT !.stage = Delivered]}
                              ELSE AclTrace(flows, AclOutput(p))
      [] OTHER -> UNION {AclTrace(flows, AclApply(f, p)) : f \in TableLookup(flows, p)}

(***************************************************************************)
(* What the ACLs say, from their description in the Northbound schema.     *)
(***************************************************************************)
\* One evaluation: the first tier that has a matching ACL whose action is not
\* "pass" decides.
Decides(rules, k) ==
    LET top(t) == {r \in rules : r.tier = t /\ k \in r.match
                                 /\ \A s \in rules : s.tier = t /\ k \in s.match => s.pri <= r.pri}
        tiers == {t \in 0..AclTiers : \E r \in top(t) : r.action # "pass"}
    IN  IF tiers = {} THEN ~(aclcfg.drop /\ has_acls)
        ELSE LET t == CHOOSE x \in tiers : \A y \in tiers : x <= y
             IN  \E r \in top(t) : r.action \in {"allow", "allow-related", "allow-stateless"}

Policy(rules, d, k) ==
    IF d = "out" THEN Decides({r \in rules : r.dir = "to"}, k)
    ELSE \A after \in BOOLEAN : Decides({r \in rules : r.dir = "from" /\ r.afterlb = after}, k)

\* Only ACLs that deny, and "pass", see a related packet of a denied connection.
Denying == {r \in acls : r.action \in {"drop", "reject", "pass"}}

\* The packet is tracked in this pipeline.
AclTracked(d, k, port) ==
    /\ has_stateful /\ port # "r"
    /\ k \in {"tcp", "err"} \/ (k = "toobig" /\ d = "out")
    /\ ~\E r \in acls : r.action = "allow-stateless" /\ k \in r.match /\ r.dir = IF d = "in" THEN "from" ELSE "to"

\* One pipeline: whether the packet passes, and what is known of the connection
\* in the zone afterwards.  (Without ACLs no verdict counts.)
Judge(d, k, from, port, h) ==
    LET yes == Policy(acls, d, k)
        reply == h.known /\ h.orig # from
    IN  IF k = "nd" THEN [pass |-> TRUE, h |-> h]
        ELSE IF ~AclTracked(d, k, port) THEN [pass |-> yes, h |-> h]
        ELSE IF k # "tcp" THEN [pass |-> has_acls => h.known /\ (h.ok \/ Policy(Denying, d, k)), h |-> h]
        ELSE IF reply THEN [pass |-> has_acls => h.ok, h |-> [h EXCEPT !.answered = TRUE]]
        ELSE [pass |-> yes, h |-> IF yes THEN [known |-> TRUE, orig |-> from, answered |-> h.answered, ok |-> TRUE]
                                  ELSE [h EXCEPT !.ok = @ /\ ~h.answered]]

(***************************************************************************)
(* The steps.                                                              *)
(***************************************************************************)
Unknown == [known |-> FALSE, orig |-> "a", answered |-> FALSE, ok |-> TRUE]

AclInit ==
    /\ acls = {}
    /\ aclcfg \in AclConfigs
    /\ aclct = [z \in AclPorts |-> NoEntry]
    /\ aclpass = [z \in AclPorts |-> Unknown]
    /\ aclevents = 0

AclEvent == aclevents < MaxAclEvents /\ aclevents' = aclevents + 1

AddAcl(r) ==
    /\ AclEvent /\ r \notin acls /\ Cardinality(acls) < MaxAcls
    /\ acls' = acls \cup {r}
    /\ UNCHANGED <<aclcfg, aclct, aclpass>>

DelAcl(r) ==
    /\ AclEvent /\ r \in acls
    /\ acls' = acls \ {r}
    /\ UNCHANGED <<aclcfg, aclct, aclpass>>

\* An entry of the connection tracker times out.
CtTimeout(z) ==
    /\ AclEvent /\ aclct[z].known
    /\ aclct' = [aclct EXCEPT ![z] = NoEntry]
    /\ aclpass' = [aclpass EXCEPT ![z] = Unknown]
    /\ UNCHANGED <<acls, aclcfg>>

\* A packet of the connection.  (Others leave the connection tracker alone.)
AclSend(from, to) ==
    LET i == Judge("in", "tcp", from, from, aclpass[from])
        o == Judge("out", "tcp", from, to, aclpass[to])
    IN  /\ AclEvent
        /\ \E p \in AclTrace(ByStage(AclFlows, AclOrder), AclPacket("tcp", from, to, <<"in", "pre_acl">>)) : aclct' = p.ct
        /\ aclpass' = IF i.pass THEN [aclpass EXCEPT ![from] = i.h, ![to] = o.h] ELSE [aclpass EXCEPT ![from] = i.h]
        /\ UNCHANGED <<acls, aclcfg>>

AclNext ==
    \/ \E r \in aclcfg.rules : AddAcl(r) \/ DelAcl(r)
    \/ \E z \in AclPorts : CtTimeout(z)
    \/ AclSend("a", aclcfg.peer) \/ AclSend(aclcfg.peer, "a")

AclSpec == AclInit /\ [][AclNext]_aclVars

(***************************************************************************)
(* Properties.                                                             *)
(***************************************************************************)
AclTypeOK ==
    /\ acls \subseteq aclcfg.rules
    /\ aclcfg \in AclConfigs
    /\ \A z \in AclPorts : aclct[z].label \in Nat /\ aclct[z].orig \in AclPorts

\* The packets of now: between the ports of the connection, to the service
\* monitor, and from ovn-controller to port "a".
AclProbes ==
    {<<k, p[1], p[2]>> : k \in {"tcp", "err", "nd", "mcast", "toobig"}, p \in {<<"a", aclcfg.peer>>, <<aclcfg.peer, "a">>}}
    \cup {<<"to_monitor", "a", "a">>, <<"from_monitor", "none", "a">>, <<"dns", "none", "a">>}

\* What becomes of them, and what the ACLs want (of the last three, to pass).
AclOutcomes ==
    LET flows == ByStage(AclFlows, AclOrder)
        wanted(k, from, to) ==
            k \in {"to_monitor", "from_monitor", "dns"}
            \/ (Judge("in", k, from, from, aclpass[from]).pass /\ Judge("out", k, from, to, aclpass[to]).pass)
    IN  UNION {{[kind |-> x[1], stage |-> p.stage, inv |-> p.inv, want |-> wanted(x[1], x[2], x[3])] :
                  p \in AclTrace(flows, AclPacket(x[1], x[2], x[3], <<IF x[2] = "none" THEN "out" ELSE "in", "pre_acl">>))} :
               x \in AclProbes}

\* The stages of ACLs, hints, conntrack and verdicts together pass exactly the
\* packets that the ACLs pass: a request by the ACLs in force now, a reply or
\* related packet while the connection was not denied since it was answered.
\* (Of ACLs that deny in a later tier what an earlier one allowed, this fails:
\* see DeniedIsDropped.)
AclAsPolicy == \A s \in AclOutcomes : s.kind = "to_monitor" \/ (s.stage = Delivered <=> s.want)

\* "Always drop traffic that's in an invalid state": build_acls() adds the flow
\* for every switch that has stateful ACLs or a load balancer.
InvalidDropped == \A s \in AclOutcomes : s.inv => s.stage = AclDropped

\* "Tier 0 ACLs are evaluated first. If no verdict can be determined, then tier 1
\* ACLs are evaluated next": a packet that the tiers deny does not get through.
DeniedIsDropped == \A s \in AclOutcomes : s.kind = "tcp" /\ ~s.want => s.stage = AclDropped

\* "Reply and related traffic matched by an 'allow-related' ACL should be allowed
\* in the ls_in_acl_after_lb stage too."
RepliesPassAfterLb == \A s \in AclOutcomes : s.kind = "tcp" /\ s.want => s.stage = Delivered

\* "advance the service monitor reply packets to skip applying ingress ACLs".
MonitorNotFiltered == \A s \in AclOutcomes : s.kind = "to_monitor" => s.stage = Delivered
=============================================================================
