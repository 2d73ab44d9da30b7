-------------------------------- MODULE JayLALR --------------------------------
(***************************************************************************)
(* The lookahead pass of jay (jay/lalr.c): DeRemer and Pennello's relations *)
(* over the gotos of the LR(0) automaton lr, and Tarjan's traversal that   *)
(* unions the token sets along them.  A row of F or LA is the set of its   *)
(* tokens.                                                                 *)
(***************************************************************************)
EXTENDS JayLR0

accessing_symbol(lr, n) == lr.states[n + 1].sym
shift_table(lr, n) == lr.shift[n + 1]

\* lookaheads[n] is the index of the first reduction of state n.
initialize_LA(lr) ==
    [lookaheads |-> [n \in 0..Len(lr.reds) |->
         FoldLeft(LAMBDA k, m : k + Len(lr.reds[m]), 0, [m \in 1..n |-> m])],
     LAruleno |-> FlattenSeq(lr.reds)]

\* The gotos of one variable are adjacent, in the order of their states.
set_goto_map(g, lr) ==
    LET from(v, n) == SelectSeq(shift_table(lr, n),
                          LAMBDA t : accessing_symbol(lr, t) = v)
        column(v) == FoldLeft(LAMBDA a, n :
            IF from(v, n) = <<>> THEN a
            ELSE Append(a, [from |-> n, to |-> Head(from(v, n))]),
            <<>>, UpTo(Len(lr.shift)))
        columns == [k \in 1..nvars(g) |-> column(start_symbol(g) + k - 1)]
        gotos == FlattenSeq(columns)
    IN  [goto_map |-> [s \in start_symbol(g)..g.nsyms |->
             FoldLeft(LAMBDA k, m : k + Len(columns[m]), 0,
                      [m \in 1..(s - start_symbol(g)) |-> m])],
         ngotos |-> Len(gotos),
         from_state |-> [i \in 0..(Len(gotos) - 1) |-> gotos[i + 1].from],
         to_state |-> [i \in 0..(Len(gotos) - 1) |-> gotos[i + 1].to]]

\* Binary search among the gotos low..high for the one that leaves state.
RECURSIVE Search(_, _, _, _)
Search(gm, state, low, high) ==
    LET middle == (low + high) \div 2
        s      == gm.from_state[middle]
    IN  IF s = state THEN middle
        ELSE IF s < state THEN Search(gm, state, middle + 1, high)
        ELSE Search(gm, state, low, middle - 1)

map_goto(gm, state, symbol) ==
    Search(gm, state, gm.goto_map[symbol], gm.goto_map[symbol + 1])

(* ------------------------------- digraph -------------------------------- *)

\* s.VERTICES is the stack up to top, s.INDEX is 0 for a vertex not visited.
RECURSIVE traverse(_, _, _)
traverse(R, i, s) ==
    LET height   == Len(s.VERTICES) + 1
        infinity == Cardinality(DOMAIN s.INDEX) + 2
        pushed   == [s EXCEPT !.VERTICES = Append(@, i), !.INDEX[i] = height]
        edge(t, j) ==
            LET u == IF t.INDEX[j] = 0 THEN traverse(R, j, t) ELSE t
            IN  [u EXCEPT !.INDEX[i] = IF @ > u.INDEX[j] THEN u.INDEX[j] ELSE @,
                          !.F[i] = @ \cup u.F[j]]
        walked   == FoldLeft(edge, pushed, R[i])
        popped   == {walked.VERTICES[k] : k \in height..Len(walked.VERTICES)}
    IN  IF walked.INDEX[i] # height THEN walked
        ELSE [VERTICES |-> SubSeq(walked.VERTICES, 1, height - 1),
              INDEX |-> [j \in DOMAIN walked.INDEX |->
                            IF j \in popped THEN infinity ELSE walked.INDEX[j]],
              F |-> [j \in DOMAIN walked.F |->
                            IF j \in popped THEN walked.F[i] ELSE walked.F[j]]]

digraph(R, F) ==
    FoldLeft(LAMBDA s, i :
        IF s.INDEX[i] = 0 /\ R[i] # <<>> THEN traverse(R, i, s) ELSE s,
        [VERTICES |-> <<>>, INDEX |-> [i \in DOMAIN F |-> 0], F |-> F],
        UpTo(Cardinality(DOMAIN F))).F

(* ------------------------------ relations ------------------------------- *)

\* The tokens that can be read right after a goto, directly or past
\* nullable variables; goto 0 is the one over the goal, and is followed by $end.
initialize_F(g, lr, nullable, gm) ==
    LET after(i) == [k \in DOMAIN shift_table(lr, gm.to_state[i]) |->
            accessing_symbol(lr, shift_table(lr, gm.to_state[i])[k])]
        empty(i) == SelectSeq(after(i), LAMBDA s : ISVAR(g, s) /\ nullable[s])
        reads == [i \in 0..(gm.ngotos - 1) |->
            [k \in DOMAIN empty(i) |-> map_goto(gm, gm.to_state[i], empty(i)[k])]]
        direct == [i \in 0..(gm.ngotos - 1) |->
            {s \in Range(after(i)) : ISTOKEN(g, s)} \cup (IF i = 0 THEN {0} ELSE {})]
    IN  digraph(reads, direct)

\* The states passed through from state n along the symbols syms.
Path(lr, n, syms) ==
    FoldLeft(LAMBDA p, s : Append(p, CHOOSE t \in Range(shift_table(lr, Last(p))) :
                                         accessing_symbol(lr, t) = s),
             <<n>>, syms)

\* Mutant: the edges of includes keep their direction.
transpose_Same(R) == [i \in DOMAIN R |-> Sorted(R[i])]

transpose(R) ==
    [i \in DOMAIN R |-> Sorted({m \in DOMAIN R : i \in R[m]})]

\* The index in LAruleno of the reduction by rule r in state n.
add_lookback_edge(la, n, r) ==
    CHOOSE j \in la.lookaheads[n]..(la.lookaheads[n + 1] - 1) : la.LAruleno[j + 1] = r

\* For each goto over A and each rule of A: the reduction by that rule leads
\* back to the goto, and the goto's follow set goes into that of every
\* variable the rule can end with.
build_relations(g, lr, derives, nullable, gm, la) ==
    LET Gotos == 0..(gm.ngotos - 1)
        called(i) == Range(derives[accessing_symbol(lr, gm.to_state[i])])
        path == [i \in Gotos |-> [r \in called(i) |-> Path(lr, gm.from_state[i], Rhs(g, r))]]
        edges(i, r) ==
            LET rhs == Rhs(g, r)
            IN  {map_goto(gm, path[i][r][k], rhs[k]) : k \in
                    {k \in DOMAIN rhs : ISVAR(g, rhs[k])
                        /\ \A m \in (k + 1)..Len(rhs) : nullable[rhs[m]]}}
        back == [i \in Gotos |->
            {add_lookback_edge(la, Last(path[i][r]), r) : r \in called(i)}]
    IN  [includes |-> transpose([i \in Gotos |-> UNION {edges(i, r) : r \in called(i)}]),
         lookback |-> [j \in 0..(Len(la.LAruleno) - 1) |-> {i \in Gotos : j \in back[i]}]]

compute_lookaheads(F, lookback) ==
    [j \in DOMAIN lookback |-> UNION {F[i] : i \in lookback[j]}]

\* What the later passes keep of lalr().
lalr(g, lr, derives, nullable) ==
    LET la  == initialize_LA(lr)
        gm  == set_goto_map(g, lr)
        F   == initialize_F(g, lr, nullable, gm)
        rel == build_relations(g, lr, derives, nullable, gm, la)
        FOLLOW == digraph(rel.includes, F)
    IN  [lookaheads |-> la.lookaheads, LAruleno |-> la.LAruleno,
         LA |-> compute_lookaheads(FOLLOW, rel.lookback),
         goto_map |-> gm.goto_map, from_state |-> gm.from_state,
         to_state |-> gm.to_state]
=============================================================================
