--------------------------- MODULE MCController ---------------------------
(***************************************************************************)
(* ovn-controller's components that keep state of their own, for TLC: the  *)
(* flow tables and the sequence numbers of ofctrl, the MAC cache and its   *)
(* aging, the queues of pinctrl, the flows computed from logical flows,    *)
(* the local bindings and the flows of port security.                      *)
(*                                                                         *)
(* They share nothing here, so a behavior exercises one of them: part says *)
(* which, and the variables of the others keep the value Unused.           *)
(***************************************************************************)
EXTENDS OfctrlFlows, OfctrlSeqnoLog, MacCache, MacAging, PinctrlQueues, LflowOutput,
        LocalBindings, PortSec

CONSTANTS
    Explored,       \* the components of this run
    Unused          \* model value
VARIABLE part

Parts == {"flows", "seqno", "mac", "aging", "queues", "lflow", "binding", "portsec"}

-----------------------------------------------------------------------------
(* Values of the constants                                                 *)

\* Nothing in OfctrlFlows tells rows or matches apart.
Symmetry == Permutations(Uuids) \cup Permutations(Matches)

AgEntry(p, m, t) == [plen |-> p, matches |-> m, threshold |-> t]
MCAgConfigs == {{AgEntry(0, TRUE, 0), AgEntry(24, FALSE, 11), AgEntry(16, TRUE, 12)}}

\* Logical flows: over two address sets, a conjunction, over a port and a
\* template variable, over a set and a port group, with a resident condition.
AnyFlow == [dps |-> {"d1", "d2"}, sets |-> {}, pg |-> FALSE, port |-> Nameless, out |-> Nameless,
            resident |-> Nameless, tv |-> FALSE, conj |-> FALSE]
MCFlows ==
    [f1 |-> [AnyFlow EXCEPT !.sets = {"s1", "s2"}, !.dps = {"d1"}],
     f2 |-> [AnyFlow EXCEPT !.conj = TRUE],
     f3 |-> [AnyFlow EXCEPT !.port = "p1", !.tv = TRUE, !.dps = {"d1"}],
     f4 |-> [AnyFlow EXCEPT !.sets = {"s2"}, !.pg = TRUE, !.conj = TRUE],
     f5 |-> [AnyFlow EXCEPT !.resident = "p2", !.out = "mc"]]
MCPorts == [p1 |-> "d1", p2 |-> "d2"]
MCLb == [dps |-> {"d1", "d2"}, tv |-> TRUE, snat |-> FALSE]

\* A VIF, a port that is a container in it or a VIF of its own, a virtual or
\* external port, and a pair of patch ports to a second datapath.
PbRow(t, dp, par, bind, peer, ver) ==
    [type |-> t, dp |-> dp, parent |-> par, bind |-> bind, peer |-> peer, ver |-> ver]
MCRdPorts == <<"p", "c", "v", "r1", "r2">>
MCRdRows ==
    [p |-> {PbRow("vif", "d1", "none", "this", "none", TRUE),
            PbRow("vif", "d1", "none", "other", "none", TRUE)},
     c |-> {PbRow("container", "d1", "p", "this", "none", TRUE),
            PbRow("vif", "d1", "none", "this", "none", TRUE),
            PbRow("vif", "d1", "none", "this", "none", FALSE)},
     v |-> {PbRow("virtual", "d1", "none", "this", "none", TRUE),
            PbRow("external", "d1", "none", "this", "none", TRUE)},
     r1 |-> {PbRow("patch", "d1", "none", "this", "r2", TRUE)},
     r2 |-> {PbRow("patch", "d2", "none", "this", "r1", TRUE)}]
NewRow(r) == [chassis |-> "none"] @@ r
MCRdStart ==
    LET none == [x \in {"p", "c", "v", "r1", "r2"} |-> NoRow]
        vif == [none EXCEPT !["p"] = NewRow(PbRow("vif", "d1", "none", "this", "none", TRUE)),
                            !["v"] = NewRow(PbRow("virtual", "d1", "none", "this", "none", TRUE))]
    IN  {none,
         [vif EXCEPT !["c"] = NewRow(PbRow("container", "d1", "p", "this", "none", TRUE))],
         [vif EXCEPT !["r1"] = NewRow(PbRow("patch", "d1", "none", "this", "r2", TRUE))]}

\* Port security: an invalid entry, two entries of one MAC, a MAC alone.
PsE(v, ea, a, b) == [valid |-> v, ea |-> ea, ip4 |-> a, ip6 |-> b]
MCEntries ==
    {PsE(FALSE, "none", {}, {}), PsE(TRUE, "m1", {"p4"}, {}), PsE(TRUE, "m1", {"q4"}, {"p6"}),
     PsE(TRUE, "m3", {}, {})}

-----------------------------------------------------------------------------
FlowsIs(chosen) ==
    IF chosen THEN Init
    ELSE /\ flow = Unused /\ tracked_flows = Unused /\ change_tracked = Unused
         /\ refs = Unused /\ installed = Unused /\ touched = Unused
         /\ assert_failed = Unused /\ want = Unused
SeqnoIs(chosen) ==
    IF chosen THEN LogInit
    ELSE /\ ofctrl_seqno_updates = Unused /\ ofctrl_req_seqno = Unused
         /\ n_ofctrl_seqno_states = Unused /\ acked_cfgs = Unused /\ type_cur_cfg = Unused
         /\ type_req_cfg = Unused /\ run_cfg = Unused /\ requested = Unused
         /\ delivered = Unused
MacIs(chosen) ==
    IF chosen THEN MacCacheInit
    ELSE /\ mcdp = Unused /\ mcmb = Unused /\ mcfdb = Unused /\ mclocal = Unused
         /\ mctrack = Unused /\ mccache = Unused /\ mccount = Unused
AgingIs(chosen) ==
    IF chosen THEN MacAgingInit
    ELSE /\ agkind = Unused /\ agcfg = Unused /\ agrow = Unused /\ agidle = Unused
         /\ agmode = Unused /\ agnode = Unused /\ agwake = Unused /\ agbusy = Unused
QueuesIs(chosen) ==
    IF chosen THEN PinctrlQueuesInit
    ELSE /\ pqkind = Unused /\ pqsb = Unused /\ pqidl = Unused /\ pqtxn = Unused
         /\ pqq = Unused /\ pqcount = Unused
LflowIs(chosen) ==
    IF chosen THEN LflowOutputInit
    ELSE /\ losb = Unused /\ loseen = Unused /\ lodata = Unused /\ loout = Unused
         /\ lon = Unused
BindingIs(chosen) ==
    IF chosen THEN LocalBindingsInit
    ELSE /\ rdrows = Unused /\ rdifaces = Unused /\ rdgone = Unused /\ rdnew = Unused
         /\ rd = Unused /\ rdn = Unused
PortsecIs(chosen) ==
    IF chosen THEN PortSecInit
    ELSE /\ psrows = Unused /\ pssent = Unused

MCInit ==
    /\ part \in Explored
    /\ FlowsIs(part = "flows") /\ SeqnoIs(part = "seqno") /\ MacIs(part = "mac")
    /\ AgingIs(part = "aging") /\ QueuesIs(part = "queues") /\ LflowIs(part = "lflow")
    /\ BindingIs(part = "binding") /\ PortsecIs(part = "portsec")

Rests(p) ==
    CASE p = "flows" -> UNCHANGED flow_vars
      [] p = "seqno" -> UNCHANGED log_seqno_vars
      [] p = "mac" -> UNCHANGED mcVars
      [] p = "aging" -> UNCHANGED agVars
      [] p = "queues" -> UNCHANGED pqVars
      [] p = "lflow" -> UNCHANGED lovars
      [] p = "binding" -> UNCHANGED rdvars
      [] p = "portsec" -> UNCHANGED psVars
Alone(p) == part = p /\ UNCHANGED part /\ \A q \in Parts \ {p} : Rests(q)

MCNext ==
    \/ Alone("flows") /\ Next
    \/ Alone("seqno") /\ LogNext
    \/ Alone("mac") /\ MacCacheNext
    \/ Alone("aging") /\ MacAgingNext
    \/ Alone("queues") /\ PinctrlQueuesNext
    \/ Alone("lflow") /\ LflowOutputNext
    \/ Alone("binding") /\ LocalBindingsNext
    \/ Alone("portsec") /\ PortSecNext

vars == <<part, flow_vars, log_seqno_vars, mcVars, agVars, pqVars, lovars, rdvars, psVars>>
MCSpec == MCInit /\ [][MCNext]_vars

-----------------------------------------------------------------------------
(***************************************************************************)
(* The properties of the components, each on the behaviors of its own.     *)
(***************************************************************************)

\* ofctrl-seqno.c: between two flushes a type's requests are neither lost,
\* duplicated nor reordered on their way to its acknowledgements.
SeqnosRight == part = "seqno" => AcksConserveRequests
\* ofctrl.c: whatever rows add, share, remove and add again flows of the same
\* matches, what ends up installed for a match is what they ask for, no
\* assertion fails and no installed flow lists a desired flow that is gone.
InstalledRight == part = "flows" => InstalledAsAsked /\ AssertsHold /\ LinksAlive
\* mac-cache.c: after any changes of MAC bindings, FDB rows, thresholds and
\* local datapaths the handlers leave the cache that a recomputation builds.
MacCacheRight == part = "mac" => MacCacheAsRecomputed
\* mac-cache.c, statctrl.c and northd/aging.c: an entry whose traffic goes on
\* is never aged out, and one that stays idle is.
AgingRight == part = "aging" => AgedByUse
\* pinctrl.c: a request to bind a virtual port stays queued until a committed
\* transaction carried it out, over failed transactions of two chassis.
QueuesRight == part = "queues" => VportNotForgotten
\* binding.c: when every change was handled incrementally a recomputation
\* would claim and release nothing more, and no assertion failed on the way, as
\* long as no parent of a virtual port loses the right to be bound here and no
\* interface is changed and deleted within one iteration (there
\* binding.c:1622-1632 leads to the assertion at 1724).
BindingsRight == part = "binding" => ClaimsAsRecomputed /\ NoAssertionFails
\* lflow.c add_port_sec_flows(): a port sends and receives the IP, ARP and
\* neighbor discovery frames that its port_security allows, except RARP, neighbor
\* solicitations with a foreign link-layer option and advertisements under several
\* elements (PsDisputed), and for elements of which those of one Ethernet
\* address all have IP addresses or none has.
PortSecRight == part = "portsec" => PortSecAsDocumented
==============================================================================
