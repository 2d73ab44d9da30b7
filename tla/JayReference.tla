----------------------------- MODULE JayReference -----------------------------
(***************************************************************************)
(* What jay's passes are meant to compute, defined from the grammar alone  *)
(* and without the passes' algorithms: the canonical LR(0) collection, the *)
(* LALR(1) lookaheads by propagation through the automaton, and the        *)
(* sentences of the language.                                              *)
(***************************************************************************)
EXTENDS Integers, FiniteSets, SequencesExt

(* ------------------------ canonical LR(0) automaton --------------------- *)

RulesFor(g, s) == {r \in 2..(g.nrules - 1) : g.rlhs[r] = s}
After(g, items) == {g.ritem[k] : k \in items}

RECURSIVE ItemClosure(_, _)
ItemClosure(g, items) ==
    LET more == items \cup {g.rrhs[r] : r \in
                    UNION {RulesFor(g, s) : s \in After(g, items)}}
    IN  IF more = items THEN items ELSE ItemClosure(g, more)

GotoKernel(g, items, s) ==
    {k + 1 : k \in {k \in ItemClosure(g, items) : g.ritem[k] = s}}

\* The symbols with a transition; $end (0) is never shifted.
Shiftable(g, items) == {s \in After(g, ItemClosure(g, items)) : s > 0}

RECURSIVE Collection(_, _, _)
Collection(g, found, new) ==
    IF new = {} THEN found
    ELSE LET next == UNION {{GotoKernel(g, I, s) : s \in Shiftable(g, I)} : I \in new}
         IN  Collection(g, found \cup new, next \ (found \cup new))

CanonicalCollection(g) == Collection(g, {}, {{g.rrhs[2]}})

(* ---------------------------- LALR(1) lookaheads ------------------------ *)

RECURSIVE NullableFrom(_, _)
NullableFrom(g, N) ==
    LET more == N \cup {g.rlhs[r] : r \in {r \in 2..(g.nrules - 1) :
                    \A k \in g.rrhs[r]..(g.rrhs[r + 1] - 2) : g.ritem[k] \in N}}
    IN  IF more = N THEN N ELSE NullableFrom(g, more)

Nullables(g) == NullableFrom(g, {})

\* Every variable derives some sequence of tokens.
Productive(g) == NullableFrom(g, 0..(g.ntokens - 1)) = 0..(g.nsyms - 1)

\* The tokens that can begin what follows index k of ritem, then t.
RECURSIVE FirstAt(_, _, _, _, _)
FirstAt(g, N, first, k, t) ==
    IF g.ritem[k] < 0 THEN {t}
    ELSE first[g.ritem[k]] \cup
         (IF g.ritem[k] \in N THEN FirstAt(g, N, first, k + 1, t) ELSE {})

RECURSIVE FirstFrom(_, _, _)
FirstFrom(g, N, first) ==
    LET more == [s \in DOMAIN first |-> first[s] \cup
            UNION {FirstAt(g, N, first, g.rrhs[r], -1) \ {-1} : r \in RulesFor(g, s)}]
    IN  IF more = first THEN first ELSE FirstFrom(g, N, more)

Firsts(g) == FirstFrom(g, Nullables(g),
    [s \in 0..(g.nsyms - 1) |-> IF s < g.ntokens THEN {s} ELSE {}])

\* Facts <<n, k, t>>: item k is in state n with lookahead t.  They spread
\* along transitions and from an item to the rules of the variable after its dot.
RECURSIVE Spread(_, _, _, _, _, _)
Spread(g, N, first, goto, found, new) ==
    IF new = {} THEN found
    ELSE LET step(f) ==
                 LET s == g.ritem[f[2]]
                 IN  IF s <= 0 THEN {}
                     ELSE {<<goto[f[1]][s], f[2] + 1, f[3]>>} \cup
                          {<<f[1], g.rrhs[r], t>> : r \in RulesFor(g, s),
                              t \in FirstAt(g, N, first, f[2] + 1, f[3])}
             next == UNION {step(f) : f \in new}
         IN  Spread(g, N, first, goto, found \cup new, next \ (found \cup new))

\* goto[n][s] is the state after s in state n.
LookaheadFacts(g, goto) ==
    Spread(g, Nullables(g), Firsts(g), goto, {}, {<<0, g.rrhs[2], -1>>})

\* The rules that can be reduced in state n on token t.
Reductions(g, facts, n, t) ==
    {r \in 3..(g.nrules - 1) : <<n, g.rrhs[r + 1] - 1, t>> \in facts}

\* Shift, reduce and accept never compete: the grammar is LALR(1).
IsLALR1(g, goto, facts) ==
    \A n \in DOMAIN goto : \A t \in 0..(g.ntokens - 1) :
        LET reds    == Reductions(g, facts, n, t)
            accepts == t = 0 /\ <<n, g.rrhs[2] + 1, -1>> \in facts
        IN  /\ Cardinality(reds) <= 1
            /\ reds # {} => t \notin DOMAIN goto[n] /\ ~accepts

(* ------------------------------- language ------------------------------- *)

Concat(A, B, max) == {w \in {u \o v : u \in A, v \in B} : Len(w) <= max}

\* What each symbol derives, up to max tokens.
RECURSIVE DerivedFrom(_, _, _)
DerivedFrom(g, L, max) ==
    LET body(r) == FoldLeft(LAMBDA A, k : Concat(A, L[g.ritem[k]], max), {<<>>},
                       [i \in 1..(g.rrhs[r + 1] - g.rrhs[r] - 1) |-> g.rrhs[r] + i - 1])
        more == [s \in DOMAIN L |-> L[s] \cup UNION {body(r) : r \in RulesFor(g, s) \ {2}}]
    IN  IF more = L THEN L ELSE DerivedFrom(g, more, max)

Sentences(g, max) ==
    DerivedFrom(g, [s \in 1..(g.nsyms - 1) |->
                        IF s < g.ntokens THEN {<<s>>} ELSE {}], max)[g.ritem[1]]
=============================================================================
