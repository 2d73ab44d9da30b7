------------------------------- MODULE JayTables -------------------------------
(***************************************************************************)
(* The last passes of jay: the actions of every state with their conflicts *)
(* resolved (jay/mkpar.c), and the packed tables that are printed into the *)
(* parser (jay/output.c).                                                  *)
(***************************************************************************)
EXTENDS JayLALR

(* ------------------------------- mkpar.c -------------------------------- *)

get_shifts(g, lr, n) ==
    LET tokens == SelectSeq(shift_table(lr, n),
                      LAMBDA t : ISTOKEN(g, accessing_symbol(lr, t)))
        act(t) == LET s == accessing_symbol(lr, t)
                  IN  [symbol |-> s, number |-> t, prec |-> g.prec[s],
                       code |-> "SHIFT", assoc |-> g.assoc[s], suppressed |-> 0]
    IN  [k \in DOMAIN tokens |-> act(tokens[k])]

\* The list is ordered by symbol, a shift before the reductions and those by
\* their rules.
add_reduce(g, actions, ruleno, symbol) ==
    LET before(a) == \/ a.symbol < symbol
                     \/ a.symbol = symbol /\ a.code = "SHIFT"
                     \/ a.symbol = symbol /\ a.number < ruleno
        place == Cardinality({k \in DOMAIN actions : before(actions[k])})
    IN  InsertAt(actions, place + 1,
            [symbol |-> symbol, number |-> ruleno, prec |-> g.rprec[ruleno],
             code |-> "REDUCE", assoc |-> g.rassoc[ruleno], suppressed |-> 0])

add_reductions(g, la, n, actions) ==
    LET reduction(acts, j) == FoldLeft(LAMBDA a, s :
            add_reduce(g, a, la.LAruleno[j + 1], s), acts, Reverse(Sorted(la.LA[j])))
    IN  FoldLeft(reduction, actions,
            Sorted(la.lookaheads[n]..(la.lookaheads[n + 1] - 1)))

find_final_state(g, lr) ==
    CHOOSE t \in Range(shift_table(lr, 0)) : accessing_symbol(lr, t) = g.ritem[1]

\* Mutant: of two reductions the first wins silently.
Resolve_SilentRR(pref, p, atEnd) ==
    CASE atEnd -> <<pref.suppressed, 1, "pref", "SR">>
      [] ~atEnd /\ pref.code = "REDUCE" -> <<pref.suppressed, 1, "pref", "none">>
      [] ~atEnd /\ pref.code = "SHIFT" /\ (pref.prec = 0 \/ p.prec = 0) ->
            <<pref.suppressed, 1, "pref", "SR">>
      [] OTHER ->
            CASE pref.prec < p.prec \/ (pref.prec = p.prec /\ pref.assoc = "LEFT") ->
                    <<2, 0, "p", "none">>
              [] pref.prec > p.prec \/ (pref.prec = p.prec /\ pref.assoc = "RIGHT") ->
                    <<pref.suppressed, 2, "pref", "none">>
              [] OTHER -> <<2, 2, "pref", "none">>

\* The fate of action p when pref is the preferred one on its symbol so far:
\* whether each is suppressed and which one is preferred from now on.
Resolve(pref, p, atEnd) ==
    CASE atEnd -> <<pref.suppressed, 1, "pref", "SR">>
      [] ~atEnd /\ pref.code = "REDUCE" -> <<pref.suppressed, 1, "pref", "RR">>
      [] ~atEnd /\ pref.code = "SHIFT" /\ (pref.prec = 0 \/ p.prec = 0) ->
            <<pref.suppressed, 1, "pref", "SR">>
      [] OTHER ->
            CASE pref.prec < p.prec \/ (pref.prec = p.prec /\ pref.assoc = "LEFT") ->
                    <<2, 0, "p", "none">>
              [] pref.prec > p.prec \/ (pref.prec = p.prec /\ pref.assoc = "RIGHT") ->
                    <<pref.suppressed, 2, "pref", "none">>
              [] OTHER -> <<2, 2, "pref", "none">>

remove_conflicts(actions, isFinal) ==
    LET step(a, k) ==
            LET p == a.acts[k]
                r == Resolve(a.acts[a.pref], p, isFinal /\ p.symbol = 0)
            IN  IF a.pref = 0 \/ a.acts[a.pref].symbol # p.symbol
                THEN [a EXCEPT !.pref = k]
                ELSE [acts |-> [a.acts EXCEPT ![a.pref].suppressed = r[1],
                                              ![k].suppressed = r[2]],
                      pref |-> IF r[3] = "p" THEN k ELSE a.pref,
                      SR |-> a.SR + (IF r[4] = "SR" THEN 1 ELSE 0),
                      RR |-> a.RR + (IF r[4] = "RR" THEN 1 ELSE 0)]
    IN  FoldLeft(step, [acts |-> actions, pref |-> 0, SR |-> 0, RR |-> 0],
                 [k \in DOMAIN actions |-> k])

Live(actions) == SelectSeq(actions, LAMBDA a : a.suppressed = 0)

\* The rule of the default reduction of a state, 0 if it has none.
sole_reduction(actions) ==
    LET live  == Range(Live(actions))
        rules == {a.number : a \in live}
    IN  IF (\A a \in live : a.code = "REDUCE") /\ Cardinality(rules) = 1
           /\ \E a \in live : a.symbol # 1
        THEN CHOOSE r \in rules : TRUE ELSE 0

make_parser(g, lr, la) ==
    LET States == 0..(Len(lr.states) - 1)
        final == find_final_state(g, lr)
        resolved == [n \in States |->
            remove_conflicts(add_reductions(g, la, n, get_shifts(g, lr, n)), n = final)]
    IN  [actions |-> [n \in States |-> resolved[n].acts],
         final_state |-> final,
         SRconflicts |-> [n \in States |-> resolved[n].SR],
         RRconflicts |-> [n \in States |-> resolved[n].RR],
         unused |-> (3..(g.nrules - 1)) \ {a.number : a \in
             {a \in UNION {Range(resolved[n].acts) : n \in States} :
                  a.code = "REDUCE" /\ a.suppressed = 0}},
         defred |-> [n \in States |-> sole_reduction(resolved[n].acts)]]

(* ------------------------------- output.c ------------------------------- *)

NoVector == [froms |-> <<>>, tos |-> <<>>]

\* The shifts (code SHIFT) or the reductions of one state by token value.
token_vector(g, live, code, less) ==
    LET acts == SelectSeq(live, LAMBDA a : a.code = code)
    IN  [froms |-> [k \in DOMAIN acts |-> g.value[acts[k].symbol]],
         tos |-> [k \in DOMAIN acts |-> acts[k].number - less]]

token_actions(g, parser) ==
    LET live(n) == SelectSeq(Live(parser.actions[n]), LAMBDA a :
                       a.code = "SHIFT" \/ a.number # parser.defred[n])
    IN  [shifts |-> [n \in DOMAIN parser.actions |-> token_vector(g, live(n), "SHIFT", 0)],
         reductions |-> [n \in DOMAIN parser.actions |->
                            token_vector(g, live(n), "REDUCE", 2)]]

GotosOf(la, symbol) == la.goto_map[symbol]..(la.goto_map[symbol + 1] - 1)

\* The most frequent target of the gotos over a variable, 0 if it has none.
default_goto(la, symbol) ==
    LET count(t) == Cardinality({i \in GotosOf(la, symbol) : la.to_state[i] = t})
        targets  == {la.to_state[i] : i \in GotosOf(la, symbol)}
    IN  IF targets = {} THEN 0
        ELSE Min({t \in targets : \A u \in targets : count(u) <= count(t)})

save_column(la, symbol, default) ==
    LET is == Sorted({i \in GotosOf(la, symbol) : la.to_state[i] # default})
    IN  [froms |-> [k \in DOMAIN is |-> la.from_state[is[k]]],
         tos |-> [k \in DOMAIN is |-> la.to_state[is[k]]]]

tally(v) == Len(v.froms)
width(v) == IF v.froms = <<>> THEN 0 ELSE Max(Range(v.froms)) - Min(Range(v.froms)) + 1

\* The vectors that have entries, the widest first and then the fullest.
sort_actions(vectors) ==
    LET after(i, j) == \/ width(vectors[j]) < width(vectors[i])
                       \/ /\ width(vectors[j]) = width(vectors[i])
                          /\ tally(vectors[j]) < tally(vectors[i])
        insert(order, i) ==
            InsertAt(order, 1 + Cardinality({k \in DOMAIN order : ~after(i, order[k])}), i)
    IN  FoldLeft(insert, <<>>, SelectSeq(UpTo(Cardinality(DOMAIN vectors)),
                                         LAMBDA i : tally(vectors[i]) > 0))

\* Mutant: rows with the same tokens match although their actions differ.
matching_vector_FromsOnly(vectors, order, vector, nstates) ==
    LET i == order[vector]
        same(j) == /\ width(vectors[j]) = width(vectors[i])
                   /\ tally(vectors[j]) = tally(vectors[i])
        near == {k \in 1..(vector - 1) : \A m \in k..(vector - 1) : same(order[m])}
        hits == {k \in near : vectors[order[k]].froms = vectors[i].froms}
    IN  IF i >= 2 * nstates \/ hits = {} THEN -1 ELSE order[Max(hits)]

\* An earlier row of the same entries, -1 if there is none; columns are
\* not compared.
matching_vector(vectors, order, vector, nstates) ==
    LET i == order[vector]
        same(j) == /\ width(vectors[j]) = width(vectors[i])
                   /\ tally(vectors[j]) = tally(vectors[i])
        near == {k \in 1..(vector - 1) : \A m \in k..(vector - 1) : same(order[m])}
        hits == {k \in near : vectors[order[k]] = vectors[i]}
    IN  IF i >= 2 * nstates \/ hits = {} THEN -1 ELSE order[Max(hits)]

lowzero(table) == Min((0..Cardinality(DOMAIN table)) \ DOMAIN table)

\* The first displacement that is not 0, is nobody else's and puts every
\* entry on a free place.
pack_vector(table, pos, v) ==
    LET first == lowzero(table) - Min(Range(v.froms))
        last  == Max(DOMAIN table \cup {0}) + 2 + Len(pos) - Min(Range(v.froms))
    IN  Min({j \in first..last :
               /\ j # 0
               /\ \A k \in DOMAIN v.froms : j + v.froms[k] \notin DOMAIN table
               /\ \A k \in DOMAIN pos : pos[k] # j})

pack_table(vectors, order, nstates) ==
    LET entries(v, j) == [loc \in {j + v.froms[k] : k \in DOMAIN v.froms} |->
            LET k == CHOOSE k \in DOMAIN v.froms : j + v.froms[k] = loc
            IN  [table |-> v.tos[k], check |-> v.froms[k]]]
        pack(t, i) ==
            LET state == matching_vector(vectors, order, i, nstates)
                v     == vectors[order[i]]
                place == IF state < 0 THEN pack_vector(t.table, t.pos, v)
                         ELSE t.base[state]
            IN  [table |-> IF state < 0 THEN entries(v, place) @@ t.table ELSE t.table,
                 pos |-> Append(t.pos, place),
                 base |-> [t.base EXCEPT ![order[i]] = place]]
    IN  FoldLeft(pack, [table |-> <<>>, pos |-> <<>>,
                        base |-> [i \in DOMAIN vectors |-> 0]],
                 [i \in DOMAIN order |-> i])

output_rule_data(g) ==
    [yyLhs |-> [r \in 0..(g.nrules - 3) |-> g.value[g.rlhs[r + 2]]],
     yyLen |-> [r \in 0..(g.nrules - 3) |-> g.rrhs[r + 3] - g.rrhs[r + 2] - 1]]

output_yydefred(parser) ==
    [n \in DOMAIN parser.defred |-> IF parser.defred[n] = 0 THEN 0 ELSE parser.defred[n] - 2]

\* The gotos over each variable, as a default and the column of the others.
goto_actions(g, la) ==
    LET symbol(v) == start_symbol(g) + 1 + v
        yyDgoto == [v \in 0..(nvars(g) - 2) |-> default_goto(la, symbol(v))]
    IN  [yyDgoto |-> yyDgoto,
         columns |-> [v \in 0..(nvars(g) - 2) |->
                         save_column(la, symbol(v), yyDgoto[v])]]

\* Where each packed vector begins: rows of shifts, rows of reductions, columns.
output_base(base, nstates, ncolumns) ==
    [yySindex |-> [n \in 0..(nstates - 1) |-> base[n]],
     yyRindex |-> [n \in 0..(nstates - 1) |-> base[nstates + n]],
     yyGindex |-> [v \in 0..(ncolumns - 1) |-> base[2 * nstates + v]]]

\* The table up to the highest place in use; a free place has no key.
high(table) == Max(DOMAIN table \cup {0})
output_table(table) == [loc \in 0..high(table) |->
    IF loc \in DOMAIN table THEN table[loc].table ELSE 0]
output_check(table) == [loc \in 0..high(table) |->
    IF loc \in DOMAIN table THEN table[loc].check ELSE -1]

output_actions(g, la, parser) ==
    LET nstates  == Cardinality(DOMAIN parser.actions)
        ncolumns == nvars(g) - 1
        rows  == token_actions(g, parser)
        gotos == goto_actions(g, la)
        vectors == [i \in 0..(2 * nstates + nvars(g) - 1) |->
            IF i < nstates THEN rows.shifts[i]
            ELSE IF i < 2 * nstates THEN rows.reductions[i - nstates]
            ELSE IF i < 2 * nstates + ncolumns THEN gotos.columns[i - 2 * nstates]
            ELSE NoVector]
        packed == pack_table(vectors, sort_actions(vectors), nstates)
    IN  output_base(packed.base, nstates, ncolumns) @@
        [yyDgoto |-> gotos.yyDgoto,
         yyTable |-> output_table(packed.table), yyCheck |-> output_check(packed.table)]

\* The token enumeration: the value printed for yyErrorCode when the
\* skeleton gives no prefix is that of symbol number ntokens.
output_defines(g, prefix) == IF prefix THEN g.value[1] ELSE g.value[g.ntokens]

output(g, la, parser) ==
    output_rule_data(g) @@ output_actions(g, la, parser) @@
    [yyDefRed |-> output_yydefred(parser), yyFinal |-> parser.final_state,
     yyErrorCode |-> output_defines(g, FALSE)]
=============================================================================
