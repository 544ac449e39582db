------------------------------- MODULE Lflow -------------------------------
(***************************************************************************)
(* Logical flows and how a packet goes through one table of them, as       *)
(* ovn-northd writes them (ovn_lflow_add()) and ovn-trace executes them    *)
(* (utilities/ovn-trace.c).  A packet is a record: its headers, the        *)
(* registers and flags of the logical pipeline, and the stage it is in.    *)
(* A match is a set of conjunctions, a conjunction gives fields the sets   *)
(* of values it accepts.  The actions of a flow load fields and then do    *)
(* one of next, drop, output, ... .                                        *)
(***************************************************************************)
EXTENDS Integers, Sequences, FiniteSets, TLC

\* The match "1".
Always == {<<>>}
NoLoad == <<>>

\* ovn_lflow_add(lflows, od, stage, priority, match, actions).
Flow(stage, pri, match, load, then) ==
    {[stage |-> stage, pri |-> pri, match |-> match, load |-> load, then |-> then]}

\* The value an assignment loads: a constant, or another field (a move).
Val(v) == <<"value", v>>
Move(f) == <<"field", f>>

\* expr_evaluate().
Satisfies(match, p) == \E c \in match : \A f \in DOMAIN c : p[f] \in c[f]

\* "a && b" of two matches.
Both(a, b) == {c1 @@ c2 : c1 \in a, c2 \in b}

\* ovntrace_flow_lookup() on flows ordered by compare_flow(): the flows of the
\* highest priority that match.  Which of several the switch takes is not
\* defined.
Lookup(flows, p) ==
    LET hits == {f \in flows : f.stage = p.stage /\ Satisfies(f.match, p)}
    IN  {f \in hits : \A g \in hits : g.pri <= f.pri}

\* The flows by table; the union makes TLC evaluate them once.
ByStage(flows, order) ==
    [s \in {order[i] : i \in DOMAIN order} |-> {f \in flows : f.stage = s}] @@ <<>>
TableLookup(tables, p) == Lookup(tables[p.stage], p)

\* execute_load() and execute_move().
Load(p, load) ==
    IF DOMAIN load = {} THEN p
    ELSE [f \in DOMAIN p |-> IF f \notin DOMAIN load THEN p[f]
                             ELSE IF load[f][1] = "value" THEN load[f][2] ELSE p[load[f][2]]]

\* execute_next(): the stage after s in the order of the tables.
NextStage(order, s) == order[(CHOOSE i \in DOMAIN order : order[i] = s) + 1]
=============================================================================
