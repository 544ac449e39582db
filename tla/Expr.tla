-------------------------------- MODULE Expr --------------------------------
(***************************************************************************)
(* The match expressions of logical flows (lib/expr.c): what the parser    *)
(* builds, and the passes ovn-controller runs over it, annotate, simplify, *)
(* evaluate the is_chassis_resident() conditions, normalize, and convert   *)
(* to OpenFlow matches with conjunctions (controller/lflow.c).             *)
(*                                                                         *)
(* A bit string is the set of the positions of its 1-bits.  A string       *)
(* constant is the singleton of a port's number.  The text of an           *)
(* expression is a tree: "cmp" (a field or subfield against a list of      *)
(* constants), "range" (x < field < y), "and", "or", "not", "bool", "cond".*)
(* The state is the text, grown by one operator a step; everything the     *)
(* code computes from it is an operator.                                   *)
(*                                                                         *)
(* The texts are well typed: type_check() would refuse the others.         *)
(***************************************************************************)
EXTENDS Integers, Sequences, FiniteSets, FiniteSetsExt, SequencesExt

CONSTANTS
    ExSyms,      \* symbol name -> [width, level, rank, cross, pre, pred, parent, ofs]
    ExTerms,     \* the texts that are combined
    ExPorts,     \* the port numbers lookup_port() finds
    ExPackets,   \* the packets, functions from fields to bits
    MaxExOps     \* bound: operators applied to the first term

VARIABLES
    text,        \* the match column of the logical flow
    exOps        \* operators used so far

exVars == <<text, exOps>>

NoText == [k |-> "none"]
NoName == "none"
NoExpr == [k |-> "null"]
Bool(b) == [k |-> "bool", b |-> b]
Node(type, subs) == [k |-> type, subs |-> subs]
IsAndOr(e) == e.k \in {"and", "or"}
Width(sym) == ExSyms[sym].width

-----------------------------------------------------------------------------
(* Building expressions. *)

expr_relop_turn(op) ==
    CASE op = "<" -> ">" [] op = "<=" -> ">=" [] op = ">" -> "<"
      [] op = ">=" -> "<=" [] op \in {"==", "!="} -> op

expr_relop_invert(op) ==
    CASE op = "==" -> "!=" [] op = "!=" -> "==" [] op = "<" -> ">="
      [] op = "<=" -> ">" [] op = ">" -> "<=" [] op = ">=" -> "<"

\* Bits a as a number are below bits b: the highest one that differs is b's.
Below(a, b) == \E i \in b \ a : \A j \in a \ b : j < i

\* For the 3-way comparison of bits a and b.
expr_relop_test(op, a, b) ==
    CASE op = "==" -> a = b [] op = "!=" -> a # b
      [] op = "<" -> Below(a, b) [] op = ">=" -> ~Below(a, b)
      [] op = ">" -> Below(b, a) [] op = "<=" -> ~Below(b, a)

expr_combine(type, a, b) ==
    CASE a = NoExpr -> b
      [] a # NoExpr /\ b = NoExpr -> a
      [] a # NoExpr /\ b # NoExpr ->
            Node(type, (IF a.k = type THEN a.subs ELSE <<a>>)
                       \o (IF b.k = type THEN b.subs ELSE <<b>>))

\* What replaces one element of an AND or OR of this type.
expr_insert_andor(type, new) == IF new.k = type THEN new.subs ELSE <<new>>

\* Each element replaced by F of it, spliced where F returns the same type.
EachSub(e, F(_)) ==
    FlattenSeq([i \in DOMAIN e.subs |-> expr_insert_andor(e.k, F(e.subs[i]))])

RECURSIVE expr_not(_)
expr_not(e) ==
    CASE e.k = "cmp"  -> [e EXCEPT !.op = expr_relop_invert(e.op)]
      [] IsAndOr(e)   -> Node(IF e.k = "and" THEN "or" ELSE "and",
                              [i \in DOMAIN e.subs |-> expr_not(e.subs[i])])
      [] e.k = "bool" -> Bool(~e.b)
      [] e.k = "cond" -> [e EXCEPT !.not = ~e.not]

expr_fix_andor(e, short) ==
    LET left == SelectSeq(e.subs, LAMBDA s : s.k # "bool")
    IN IF \E i \in DOMAIN e.subs : e.subs[i] = Bool(short)
         THEN Bool(short)
       ELSE CASE Len(left) = 0 -> Bool(~short)
              [] Len(left) = 1 -> left[1]
              [] Len(left) > 1 -> Node(e.k, left)

expr_fix(e) ==
    IF IsAndOr(e) THEN expr_fix_andor(e, e.k = "or") ELSE e

-----------------------------------------------------------------------------
(* Parsing.  `not' is the number of enclosing `!' modulo 2; an error gives *)
(* NoExpr.                                                                 *)

Shift(bits, n) == {b + n : b \in bits}

make_cmp__(f, op, c) ==
    LET field == 0 .. f.n - 1
    IN [k |-> "cmp", sym |-> f.sym, op |-> op, as |-> c.as,
        value |-> IF Width(f.sym) = 0 THEN c.value ELSE Shift(c.value \cap field, f.ofs),
        mask |-> IF Width(f.sym) = 0 THEN c.value
                 ELSE Shift(IF c.masked THEN c.mask \cap field ELSE field, f.ofs)]

make_cmp(f, op, cs, not) ==
    LET sym == ExSyms[f.sym]
        isEq == op \in {"==", "!="}
        refused ==
            \/ ~isEq /\ (sym.level # "ordinal" \/ Len(cs) # 1 \/ cs[1].masked)
            \/ /\ sym.level = "nominal"
               /\ IF sym.pred # NoText
                    THEN \E i \in DOMAIN cs :
                            (((0 \in cs[i].value) # (op = "!=")) # not) = FALSE
                    ELSE op # (IF not THEN "!=" ELSE "==")
        cmps == [i \in DOMAIN cs |-> make_cmp__(f, op, cs[i])]
    IN CASE refused -> NoExpr
         [] ~refused /\ cs = <<>> -> Bool(op = "!=")
         [] ~refused /\ cs # <<>> ->
               FoldLeft(LAMBDA a, b : expr_combine(IF op = "==" THEN "or" ELSE "and", a, b),
                        NoExpr, cmps)

\* x < field < y.
ParseRange(t, not) ==
    LET e1 == make_cmp(t.f, expr_relop_turn(t.r1), <<t.c1>>, not)
        e2 == make_cmp(t.f, t.r2, <<t.c2>>, not)
    IN IF NoExpr \in {e1, e2} THEN NoExpr ELSE expr_combine("and", e1, e2)

RECURSIVE expr_parse(_, _)
expr_parse(t, not) ==
    CASE t.k = "bool"  -> Bool(t.b)
      [] t.k = "cond"  -> [k |-> "cond", port |-> t.port, not |-> FALSE]
      [] t.k = "cmp"   -> make_cmp(t.f, t.op, t.cs, not)
      [] t.k = "range" -> ParseRange(t, not)
      [] t.k = "not"   -> LET e == expr_parse(t.e, ~not)
                          IN IF e = NoExpr THEN NoExpr ELSE expr_not(e)
      [] IsAndOr(t)    -> LET a == expr_parse(t.subs[1], not)
                              b == expr_parse(t.subs[2], not)
                          IN IF NoExpr \in {a, b} THEN NoExpr
                             ELSE expr_combine(t.k, a, b)

-----------------------------------------------------------------------------
(* Annotation: prerequisites, subfields and predicates. *)

NoSymbol == "null"

RECURSIVE expr_get_unique_symbol(_)
expr_get_unique_symbol(e) ==
    CASE e.k = "cmp" -> e.sym
      [] IsAndOr(e)  ->
            LET syms == {expr_get_unique_symbol(e.subs[i]) : i \in DOMAIN e.subs}
            IN IF Cardinality(syms) = 1 THEN CHOOSE s \in syms : TRUE ELSE NoSymbol
      [] e.k \in {"bool", "cond"} -> NoSymbol

RECURSIVE expr_annotate__(_, _, _)

parse_and_annotate(t, nesting) ==
    LET annotated(e) == IF e = NoExpr THEN NoExpr ELSE expr_annotate__(e, TRUE, nesting)
    IN annotated(expr_parse(t, FALSE))

expr_annotate_cmp(e, append, nesting) ==
    LET sym == ExSyms[e.sym]
        inner == nesting \cup {e.sym}
        hasPre == append /\ sym.pre # NoText
        prereqs == IF hasPre THEN parse_and_annotate(sym.pre, inner) ELSE NoExpr
        predicate == parse_and_annotate(sym.pred, inner)
        positive == (0 \in e.value) # (e.op = "!=")
        expanded ==
            CASE sym.parent # NoName ->
                    [e EXCEPT !.sym = sym.parent, !.value = Shift(e.value, sym.ofs),
                              !.mask = Shift(e.mask, sym.ofs)]
              [] sym.parent = NoName /\ sym.pred # NoText ->
                    IF predicate = NoExpr \/ positive THEN predicate ELSE expr_not(predicate)
              [] sym.parent = NoName /\ sym.pred = NoText -> e
    IN IF e.sym \in nesting \/ (hasPre /\ prereqs = NoExpr) \/ expanded = NoExpr
         THEN NoExpr
         ELSE expr_combine("and", expanded, prereqs)

expr_append_prereqs(e, sym, nesting) ==
    IF ExSyms[sym].pre = NoText THEN e
    ELSE LET prereqs == parse_and_annotate(ExSyms[sym].pre, nesting)
         IN IF prereqs = NoExpr THEN NoExpr ELSE expr_combine("and", e, prereqs)

AllAnnotated(type, subs) ==
    IF \E i \in DOMAIN subs : subs[i] = NoExpr THEN NoExpr
    ELSE Node(type, FlattenSeq([i \in DOMAIN subs |-> expr_insert_andor(type, subs[i])]))
expr_annotate__(e, append, nesting) ==
    CASE e.k = "cmp" -> expr_annotate_cmp(e, append, nesting)
      [] e.k \in {"bool", "cond"} -> e
      [] IsAndOr(e) ->
            LET sym == IF append THEN expr_get_unique_symbol(e) ELSE NoSymbol
                Subs(whole) == [i \in DOMAIN whole.subs |->
                                  expr_annotate__(whole.subs[i], append /\ sym = NoSymbol, nesting)]
                Whole(whole) == IF whole = NoExpr THEN NoExpr ELSE AllAnnotated(whole.k, Subs(whole))
            IN Whole(IF sym = NoSymbol THEN e ELSE expr_append_prereqs(e, sym, nesting))

-----------------------------------------------------------------------------
(* Simplification: only equality tests are left. *)

Cmp(e, value, mask) ==
    [e EXCEPT !.op = "==", !.value = value, !.mask = mask]

AnyOf(es) == FoldLeft(LAMBDA a, b : expr_combine("or", a, b), NoExpr, es)

\* The bits from the lowest to the highest.
Ascending(bits) ==
    IF bits = {} THEN <<>>
    ELSE SelectSeq([i \in 1 .. Max(bits) + 1 |-> i - 1], LAMBDA b : b \in bits)

expr_simplify_eq(e) == IF e.mask = {} THEN Bool(TRUE) ELSE e

\* x != v: some bit of the mask differs.
expr_simplify_ne(e) ==
    IF e.mask = {} THEN Bool(FALSE)
    ELSE AnyOf([i \in DOMAIN Ascending(e.mask) |->
                  LET b == Ascending(e.mask)[i]
                  IN [Cmp(e, {b} \ e.value, {b}) EXCEPT !.as = FALSE]])

\* x > v: for some 0-bit z of v, the bits above z agree and bit z is 1.
expr_simplify_relational(e) ==
    LET lt == e.op \in {"<", "<="}
        eq == e.op \in {"<=", ">="}
        toggled == IF lt THEN e.value ELSE e.mask \ e.value
        Above(z) == {b \in e.mask : b > z}
        Smaller(z) == Cmp(e, (e.value \cap Above(z)) \cup ({z} \ e.value), Above(z) \cup {z})
        zs == Ascending(toggled)
        all == (IF eq THEN <<Cmp(e, e.value, e.mask)>> ELSE <<>>)
               \o [i \in DOMAIN zs |-> Smaller(zs[i])]
    IN CASE toggled = e.mask /\ eq  -> Bool(TRUE)
         [] toggled = e.mask /\ ~eq -> expr_simplify_ne(e)
         [] toggled # e.mask -> IF all = <<>> THEN Bool(FALSE) ELSE AnyOf(all)

RECURSIVE expr_simplify(_)
expr_simplify(e) ==
    CASE e.k = "cmp" ->
            (CASE Width(e.sym) = 0 -> e
              [] Width(e.sym) # 0 /\ e.op = "==" -> expr_simplify_eq(e)
              [] Width(e.sym) # 0 /\ e.op = "!=" -> expr_simplify_ne(e)
              [] Width(e.sym) # 0 /\ e.op \notin {"==", "!="} -> expr_simplify_relational(e))
      [] IsAndOr(e) -> expr_fix(Node(e.k, EachSub(e, expr_simplify)))
      [] e.k \in {"bool", "cond"} -> e

\* resident: the ports bound to this chassis.
RECURSIVE expr_evaluate_condition(_, _)
expr_evaluate_condition(e, resident) ==
    LET Evaluated(sub) == expr_fix(expr_evaluate_condition(sub, resident))
    IN CASE e.k = "cond" -> Bool((e.port \in resident) # e.not)
         [] IsAndOr(e) -> expr_fix(Node(e.k, EachSub(e, Evaluated)))
         [] e.k \in {"cmp", "bool"} -> e

-----------------------------------------------------------------------------
(* Crushing an expression over one symbol into a disjunction of            *)
(* comparisons.                                                            *)

Intersects(a, b) == (a.value \cap b.mask) = (b.value \cap a.mask)
Meet(a, b) == Cmp(a, a.value \cup b.value, a.mask \cup b.mask)

\* By mask length, then value, then mask.
compare_cmps_3way(a, b) ==
    LET na == Cardinality(a.mask)
        nb == Cardinality(b.mask)
    IN \/ na < nb
       \/ na = nb /\ (Below(a.value, b.value) \/ (a.value = b.value /\ Below(a.mask, b.mask)))

\* The elements of a sequence without the later copies.
Distinct(es) ==
    FoldLeft(LAMBDA acc, x : IF Contains(acc, x) THEN acc ELSE Append(acc, x), <<>>, es)

\* Same test; a duplicate loses the reference to the address set it came from.
Same(a, b) == a.value = b.value /\ a.mask = b.mask
Merged(e, all) ==
    [e EXCEPT !.as = e.as /\ Cardinality({i \in DOMAIN all : Same(all[i], e)}) = 1]

crush_or_supersets(e, sym) ==
    LET all == e.subs
        hasSet == \E i \in DOMAIN all : all[i].as
        distinct == SortSeq(Distinct([i \in DOMAIN all |-> Merged(all[i], all)]),
                            compare_cmps_3way)
        maskable == Width(sym) # 0 /\ ExSyms[sym].level = "ordinal" /\ ~hasSet
        IsCovered(b) ==
            \E i \in DOMAIN distinct :
                LET a == distinct[i]
                IN /\ Cardinality(a.mask) < Cardinality(b.mask)
                   /\ a.mask \subseteq b.mask
                   /\ Intersects(a, b)
    IN Node("or", IF maskable THEN SelectSeq(distinct, LAMBDA b : ~IsCovered(b))
                  ELSE distinct)

RECURSIVE crush_cmps(_, _)

crush_or(e, sym) ==
    LET Crushed(sub) == crush_cmps(sub, sym)
        fixed == expr_fix(Node("or", EachSub(e, Crushed)))
    IN IF fixed.k # "or" THEN fixed ELSE expr_fix(crush_or_supersets(fixed, sym))

\* The comparisons, the disjunctions and the constants an AND crushes into.
Crushes(e, sym) == [i \in DOMAIN e.subs |-> crush_cmps(e.subs[i], sym)]
OfKind(es, type) == SelectSeq(es, LAMBDA x : x.k = type)

crush_and_string(e, sym) ==
    LET new == Crushes(e, sym)
        singles == OfKind(new, "cmp")
        ors == OfKind(new, "or")
        Strings(or) == {or.subs[i].value : i \in DOMAIN or.subs}
        meet == {v \in Strings(ors[1]) : \A i \in DOMAIN ors : v \in Strings(ors[i])}
    IN CASE \E i \in DOMAIN new : new[i] = Bool(FALSE) -> Bool(FALSE)
         [] (\A i \in DOMAIN new : new[i] # Bool(FALSE)) /\ singles # <<>> ->
               IF /\ \A i \in DOMAIN singles : singles[i].value = singles[1].value
                  /\ \A i \in DOMAIN ors : singles[1].value \in Strings(ors[i])
                 THEN singles[1] ELSE Bool(FALSE)
         [] (\A i \in DOMAIN new : new[i] # Bool(FALSE)) /\ singles = <<>> ->
               expr_fix(Node("or", SelectSeq(ors[1].subs, LAMBDA c : c.value \in meet)))

\* The disjunction of these comparisons, crushed when there are several.
Disjoin(cmps, sym) ==
    CASE Len(cmps) = 0 -> Bool(FALSE)
      [] Len(cmps) = 1 -> cmps[1]
      [] Len(cmps) > 1 -> crush_cmps(Node("or", cmps), sym)

\* "a && (b || c)" becomes "ab || ac": the intersections that are not empty;
\* "ab" still tracks the address set of "b".
Restricted(a, bs) ==
    LET meets == SelectSeq(bs, LAMBDA b : Intersects(a, b))
    IN [j \in DOMAIN meets |-> [Meet(a, meets[j]) EXCEPT !.as = meets[j].as]]

\* "(a0 || a1) && (b0 || b1)" becomes "a0b0 || a0b1 || a1b0 || a1b1".
Products(as, bs) ==
    FlattenSeq([i \in DOMAIN as |->
        LET meets == SelectSeq(bs, LAMBDA b : Intersects(as[i], b))
        IN [j \in DOMAIN meets |-> Meet(as[i], meets[j])]])

crush_and_numeric(e, sym) ==
    LET new == Crushes(e, sym)
        cmps == OfKind(new, "cmp")
        ors == OfKind(new, "or")
        any == [k |-> "cmp", sym |-> sym, op |-> "==", as |-> FALSE,
                value |-> {}, mask |-> {}]
        compatible == \A i, j \in DOMAIN cmps : Intersects(cmps[i], cmps[j])
        x == FoldLeft(Meet, any, cmps)
        rest == SubSeq(ors, 3, Len(ors))
        pairs == Products(Products(<<x>>, ors[1].subs), ors[2].subs)
        head == IF Len(pairs) = 1 THEN pairs[1] ELSE Node("or", pairs)
    IN CASE (\E i \in DOMAIN new : new[i] = Bool(FALSE)) \/ ~compatible -> Bool(FALSE)
         [] (\A i \in DOMAIN new : new[i] # Bool(FALSE)) /\ compatible ->
              (CASE Len(ors) = 0 -> IF x.mask = {} THEN Bool(TRUE) ELSE x
                 [] Len(ors) = 1 -> Disjoin(Restricted(x, ors[1].subs), sym)
                 [] Len(ors) > 1 ->
                       IF pairs = <<>> THEN Bool(FALSE)
                       ELSE crush_cmps(FoldLeft(LAMBDA a, b : expr_combine("and", a, b),
                                                head, rest), sym))

crush_cmps(e, sym) ==
    CASE e.k = "or"  -> crush_or(e, sym)
      [] e.k = "and" -> IF Width(sym) # 0 THEN crush_and_numeric(e, sym)
                        ELSE crush_and_string(e, sym)
      [] e.k \in {"cmp", "bool"} -> e

-----------------------------------------------------------------------------
(* Normalization: OR of ANDs of disjunctions over one symbol each. *)

TypeRank(e) == CASE e.k = "cmp" -> 0 [] e.k = "and" -> 1 [] e.k = "or" -> 2
                 [] e.k = "bool" -> 3 [] e.k = "cond" -> 4

\* The order of subexpressions that have no unique symbol (qsort leaves ties
\* in any order, here in the order of the list).
compare_expr_sort(a, b) ==
    \/ TypeRank(a) < TypeRank(b)
    \/ TypeRank(a) = TypeRank(b) /\ IsAndOr(a) /\ Len(a.subs) < Len(b.subs)

AllOf(es) == FoldLeft(LAMBDA a, b : expr_combine("and", a, b), NoExpr, es)

SortedAnd(crushed, others) ==
    LET whole == AllOf(SelectSeq(crushed, LAMBDA c : c # Bool(TRUE)) \o others)
    IN IF \E i \in DOMAIN crushed : crushed[i] = Bool(FALSE) THEN Bool(FALSE)
       ELSE IF whole = NoExpr THEN Bool(TRUE) ELSE whole

\* The clauses of an AND over one symbol are brought together and crushed.
expr_sort(e) ==
    LET Sym(sub) == expr_get_unique_symbol(sub)
        HasSym(sub) == Sym(sub) # NoSymbol
        clauses == SelectSeq(e.subs, HasSym)
        order == SortSeq(Distinct([i \in DOMAIN clauses |-> Sym(clauses[i])]),
                         LAMBDA s, t : ExSyms[s].rank < ExSyms[t].rank)
        Clauses(s) == SelectSeq(e.subs, LAMBDA sub : Sym(sub) = s)
        others == SortSeq(SelectSeq(e.subs, LAMBDA sub : ~HasSym(sub)), compare_expr_sort)
    IN SortedAnd([i \in DOMAIN order |-> crush_cmps(AllOf(Clauses(order[i])), order[i])], others)

RECURSIVE expr_normalize_or(_)

\* One AND for each alternative of the disjunction at position i.
CrossProduct(e, i) ==
    Node("or", [j \in DOMAIN e.subs[i].subs |->
        Node("and", FlattenSeq([m \in DOMAIN e.subs |->
            expr_insert_andor("and", IF m = i THEN e.subs[i].subs[j] ELSE e.subs[m])]))])

MustCross(sub) ==
    /\ sub.k = "or"
    /\ \/ expr_get_unique_symbol(sub) = NoSymbol
       \/ ExSyms[expr_get_unique_symbol(sub)].cross

\* expr_sort() leaves one clause per symbol, so no two neighbours are tests of
\* one symbol that would have to be intersected here.
NormalizeSorted(s) ==
    IF s.k # "and" \/ \A i \in DOMAIN s.subs : ~MustCross(s.subs[i]) THEN s
    ELSE expr_normalize_or(CrossProduct(s, Min({i \in DOMAIN s.subs : MustCross(s.subs[i])})))
expr_normalize_and(e) == NormalizeSorted(expr_sort(e))

NormalizedOr(new) ==
    LET left == FlattenSeq([i \in DOMAIN new |-> IF new[i] = Bool(FALSE) THEN <<>>
                                                 ELSE expr_insert_andor("or", new[i])])
    IN IF \E i \in DOMAIN new : new[i] = Bool(TRUE) THEN Bool(TRUE)
       ELSE CASE Len(left) = 0 -> Bool(FALSE)
              [] Len(left) = 1 -> left[1]
              [] Len(left) > 1 -> Node("or", left)
expr_normalize_or(e) ==
    NormalizedOr([i \in DOMAIN e.subs |->
                    IF e.subs[i].k = "and" THEN expr_normalize_and(e.subs[i]) ELSE e.subs[i]])

expr_normalize(e) ==
    CASE e.k = "and" -> expr_normalize_and(e)
      [] e.k = "or"  -> expr_normalize_or(e)
      [] e.k \in {"cmp", "bool"} -> e

-----------------------------------------------------------------------------
(* Conversion to OpenFlow: a function from a match (bits and mask of every *)
(* field, conj_id) to its conjunctions, none for an ordinary flow.         *)

Catchall == [f |-> [s \in DOMAIN ExSyms |-> <<{}, {}>>], cid |-> 0]
NoMatches == [m \in {} |-> {}]

\* Mutant: an ordinary flow that meets a conjunctive one gets its conjunctions.
ConjunctionWins(matches, m, conj) ==
    LET merged == IF m \notin DOMAIN matches THEN conj ELSE matches[m] \cup conj
    IN [x \in DOMAIN matches \cup {m} |-> IF x = m THEN merged ELSE matches[x]]

expr_match_add(matches, m, conj) ==
    LET merged == IF m \notin DOMAIN matches THEN conj
                  ELSE IF matches[m] = {} \/ conj = {} THEN {}
                  ELSE matches[m] \cup conj
    IN [x \in DOMAIN matches \cup {m} |-> IF x = m THEN merged ELSE matches[x]]

\* A test of a port that lookup_port() does not find can never match.
Resolves(cmp) == Width(cmp.sym) # 0 \/ cmp.value \subseteq ExPorts
constrain_match(cmp, m) == [m EXCEPT !.f[cmp.sym] = <<cmp.value, cmp.mask>>]

add_disjunction(or, m, conj, matches) ==
    FoldLeft(LAMBDA ms, sub : expr_match_add(ms, constrain_match(sub, m), conj),
             matches, SelectSeq(or.subs, Resolves))

\* acc: [ms: the matches, n: conjunction ids used].
add_conjunction(and, acc) ==
    LET cmps == OfKind(and.subs, "cmp")
        ors == OfKind(and.subs, "or")
        match == FoldLeft(LAMBDA m, c : constrain_match(c, m), Catchall, cmps)
        dead == {i \in DOMAIN ors : SelectSeq(ors[i].subs, Resolves) = <<>>}
        id == acc.n + 1
        upTo == IF dead = {} THEN Len(ors) ELSE Min(dead)
        clauses == FoldLeft(LAMBDA ms, i : add_disjunction(ors[i], match,
                                               {<<id, i, Len(ors)>>}, ms),
                            acc.ms, [i \in 1 .. upTo |-> i])
    IN CASE \E i \in DOMAIN cmps : ~Resolves(cmps[i]) -> acc
         [] \A i \in DOMAIN cmps : Resolves(cmps[i]) ->
              (CASE Len(ors) = 0 -> [acc EXCEPT !.ms = expr_match_add(acc.ms, match, {})]
                 [] Len(ors) = 1 -> [acc EXCEPT !.ms = add_disjunction(ors[1], match, {}, acc.ms)]
                 [] Len(ors) > 1 ->
                      [n |-> id,
                       ms |-> IF dead # {} THEN clauses
                              ELSE expr_match_add(clauses, [match EXCEPT !.cid = id], {})])

add_cmp_flow(cmp, acc) ==
    IF Resolves(cmp)
      THEN [acc EXCEPT !.ms = expr_match_add(acc.ms, constrain_match(cmp, Catchall), {})]
      ELSE acc

expr_to_matches(e) ==
    LET none == [ms |-> NoMatches, n |-> 0]
        Add(acc, sub) == IF sub.k = "and" THEN add_conjunction(sub, acc)
                         ELSE add_cmp_flow(sub, acc)
    IN CASE e.k \in {"cmp", "and"} -> Add(none, e).ms
         [] e.k = "or" -> FoldLeft(Add, none, e.subs).ms
         [] e.k = "bool" -> IF e.b THEN expr_match_add(NoMatches, Catchall, {})
                            ELSE NoMatches

\* The whole conversion of a logical flow's match.
Annotated(t) == parse_and_annotate(t, {})
Normalized(e, resident) ==
    expr_normalize(expr_evaluate_condition(expr_simplify(e), resident))

-----------------------------------------------------------------------------
(* Evaluating an annotated expression directly (expr_evaluate), a function *)
(* from fields to bits being the packet; and what the switch does.         *)

expr_evaluate_cmp(e, pkt) ==
    IF Width(e.sym) # 0
      THEN expr_relop_test(e.op, pkt[e.sym] \cap e.mask, e.value)
      ELSE Resolves(e) /\ expr_relop_test(e.op, pkt[e.sym], e.value)

RECURSIVE expr_evaluate(_, _)
expr_evaluate(e, pkt) ==
    CASE e.k = "cmp"  -> expr_evaluate_cmp(e, pkt)
      [] e.k = "and"  -> \A i \in DOMAIN e.subs : expr_evaluate(e.subs[i], pkt)
      [] e.k = "or"   -> \E i \in DOMAIN e.subs : expr_evaluate(e.subs[i], pkt)
      [] e.k = "bool" -> e.b
      [] e.k = "cond" -> ~e.not

RECURSIVE expr_honors_invariants(_)
expr_honors_invariants(e) ==
    CASE e.k = "cmp" -> Width(e.sym) = 0 \/ e.value \subseteq e.mask
      [] IsAndOr(e)  -> /\ Len(e.subs) > 1
                        /\ \A i \in DOMAIN e.subs :
                              e.subs[i].k # e.k /\ expr_honors_invariants(e.subs[i])
      [] e.k \in {"bool", "cond"} -> TRUE

expr_is_normalized(e) ==
    LET Unique(x) == expr_get_unique_symbol(x) # NoSymbol
        AndOk(x) == \A i \in DOMAIN x.subs : Unique(x.subs[i])
    IN CASE e.k \in {"cmp", "bool"} -> TRUE
         [] e.k = "and" -> AndOk(e)
         [] e.k = "or" -> Unique(e) \/ \A i \in DOMAIN e.subs :
                                          Unique(e.subs[i]) \/ AndOk(e.subs[i])
         [] e.k = "cond" -> FALSE

\* OVS's lookup: an ordinary flow, or a conj_id all of whose clauses match.
Fits(m, pkt) == \A s \in DOMAIN pkt : pkt[s] \cap m.f[s][2] = m.f[s][1]
SwitchMatches(ms, pkt) ==
    LET hit == {m \in DOMAIN ms : Fits(m, pkt)}
        done == UNION {ms[m] : m \in hit}
    IN \E m \in hit :
          /\ ms[m] = {}
          /\ m.cid # 0 => \E c \in done :
                 c[1] = m.cid /\ \A i \in 1 .. c[3] : <<m.cid, i, c[3]>> \in done

-----------------------------------------------------------------------------
(* The text of a match. *)

ExInit == text \in ExTerms /\ exOps = 0

Combined(type) ==
    /\ exOps < MaxExOps
    /\ exOps' = exOps + 1
    /\ \E t \in ExTerms : text' = [k |-> type, subs |-> <<text, t>>]

WithAnd == Combined("and")
WithOr == Combined("or")

WithNot ==
    /\ exOps < MaxExOps
    /\ text.k # "not"
    /\ exOps' = exOps + 1
    /\ text' = [k |-> "not", e |-> text]

ExNext == WithAnd \/ WithOr \/ WithNot
ExprSpec == ExInit /\ [][ExNext]_exVars

-----------------------------------------------------------------------------
(* Properties. *)

\* What the text means, as the language's description gives it: a comparison
\* holds when the field has the value and the prerequisites of its symbol
\* hold; `!' negates the comparison and not the prerequisites.
RECURSIVE Means(_, _, _, _)
Means(t, pkt, resident, neg) ==
    LET Sub(x) == Means(x, pkt, resident, neg)
        Holds(x) == Means(x, pkt, resident, FALSE)
        BitsOf(s) == IF ExSyms[s].parent # NoName
                   THEN {b - ExSyms[s].ofs : b \in {c \in pkt[ExSyms[s].parent] : c >= ExSyms[s].ofs}}
                   ELSE pkt[s]
        FieldOf(f) == {b - f.ofs : b \in {c \in BitsOf(f.sym) : c \in f.ofs .. f.ofs + f.n - 1}}
        Test(f, op, c) ==
            CASE ExSyms[f.sym].pred # NoText ->
                    Means(ExSyms[f.sym].pred, pkt, resident,
                          (0 \in c.value) = (op = "!="))
              [] Width(f.sym) = 0 -> c.value \subseteq ExPorts /\ pkt[f.sym] = c.value
              [] Width(f.sym) # 0 /\ ExSyms[f.sym].pred = NoText ->
                    expr_relop_test(op, IF c.masked THEN FieldOf(f) \cap c.mask
                                        ELSE FieldOf(f), c.value)
        Pre(f) == ExSyms[f.sym].pre = NoText \/ Holds(ExSyms[f.sym].pre)
        Rel(op) == IF neg THEN expr_relop_invert(op) ELSE op
    IN CASE t.k = "bool" -> t.b # neg
         [] t.k = "cond" -> (t.port \in resident) # neg
         [] t.k = "not"  -> Means(t.e, pkt, resident, ~neg)
         [] IsAndOr(t)   -> IF (t.k = "and") # neg THEN \A i \in 1 .. 2 : Sub(t.subs[i])
                            ELSE \E i \in 1 .. 2 : Sub(t.subs[i])
         [] t.k = "cmp"  ->
              (CASE t.cs = <<>> -> (t.op = "!=") # neg
                 [] t.cs # <<>> ->
                      Pre(t.f) /\ IF Rel(t.op) = "!="
                                    THEN \A i \in DOMAIN t.cs : Test(t.f, "!=", t.cs[i])
                                    ELSE \E i \in DOMAIN t.cs : Test(t.f, Rel(t.op), t.cs[i]))
         [] t.k = "range" ->
              Pre(t.f) /\ IF neg THEN \/ Test(t.f, Rel(expr_relop_turn(t.r1)), t.c1)
                                      \/ Test(t.f, Rel(t.r2), t.c2)
                          ELSE /\ Test(t.f, expr_relop_turn(t.r1), t.c1)
                               /\ Test(t.f, t.r2, t.c2)

ExprTypeOK == exOps \in 0 .. MaxExOps /\ text.k \in {"cmp", "range", "and", "or", "not", "bool", "cond"}

RECURSIVE AsksResidence(_)
AsksResidence(t) ==
    \/ t.k = "cond"
    \/ t.k = "not" /\ AsksResidence(t.e)
    \/ IsAndOr(t) /\ \E i \in DOMAIN t.subs : AsksResidence(t.subs[i])

\* expr_evaluate() takes every port to be here.
FlowsRight(flows, e, resident) ==
    \A pkt \in ExPackets :
        LET meant == Means(text, pkt, resident, FALSE)
        IN  /\ SwitchMatches(flows, pkt) = meant
            /\ resident = ExPorts => expr_evaluate(e, pkt) = meant
NormalFormRight(n, e, resident) ==
    expr_honors_invariants(n) /\ expr_is_normalized(n) /\ FlowsRight(expr_to_matches(n), e, resident)
PassesRight(e) ==
    e # NoExpr =>
        /\ expr_honors_invariants(e) /\ expr_honors_invariants(expr_simplify(e))
        /\ \A resident \in {ExPorts} \cup (IF AsksResidence(text) THEN {{}} ELSE {}) :
               NormalFormRight(Normalized(e, resident), e, resident)
\* For every packet, and whether the ports are bound to the chassis or not,
\* the flows expr_to_matches() makes match exactly the packets the text of
\* the match describes, whatever annotation, simplification, crushing, normalization
\* and the sharing of flows between conjunctions did to it on the way; the
\* passes keep the invariants of struct expr and end in normalized form, and
\* expr_evaluate() of the annotated expression agrees.
ExprMatchesExactly == PassesRight(Annotated(text))
=============================================================================
