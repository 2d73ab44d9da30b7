-------------------------------- MODULE JayLR0 --------------------------------
(***************************************************************************)
(* The LR(0) pass of jay (jay/lr0.c, jay/closure.c, jay/warshall.c) over a *)
(* packed grammar g: the rules each variable derives, the nullable         *)
(* symbols, the closure of an item set and the states of the automaton.    *)
(*                                                                         *)
(* An item is an index into g.ritem: the symbol after the dot is           *)
(* g.ritem[item], and a negative entry ends a rule.  The matrix EFF is kept *)
(* as the flat array of words the code indexes, a word being the set of    *)
(* its bits that are 1; BITS_PER_WORD is a parameter, so that small        *)
(* grammars already need several words per row.                            *)
(***************************************************************************)
EXTENDS Integers, FiniteSets, SequencesExt

CONSTANT BITS_PER_WORD

ASSUME WordAssumption == BITS_PER_WORD \in Nat \ {0}

start_symbol(g) == g.ntokens
nvars(g) == g.nsyms - g.ntokens
ISVAR(g, s) == s >= start_symbol(g)
ISTOKEN(g, s) == s < start_symbol(g)
Vars(g) == start_symbol(g)..(g.nsyms - 1)

UpTo(n) == [i \in 1..n |-> i - 1]     \* the loop for (i = 0; i < n; i++)

\* The members of a set of integers in ascending order.
Sorted(S) ==
    IF S = {} THEN <<>>
    ELSE SelectSeq([k \in 1..(Max(S) - Min(S) + 1) |-> Min(S) + k - 1],
                   LAMBDA x : x \in S)

(* ----------------------------- bit matrices ----------------------------- *)

WORDSIZE(n) == (n + BITS_PER_WORD - 1) \div BITS_PER_WORD
BIT(r, row, n) == n % BITS_PER_WORD \in r[row + n \div BITS_PER_WORD]

\* Mutant: only the first word of a row is or'ed into the rows that reach it.
transitive_closure_FirstWord(R, n) ==
    LET rowsize == WORDSIZE(n)
        step(m, i) == [w \in DOMAIN m |->
            IF BIT(m, (w \div rowsize) * rowsize, i) /\ w % rowsize = 0
            THEN m[w] \cup m[i * rowsize] ELSE m[w]]
    IN  FoldLeft(step, R, UpTo(n))

transitive_closure(R, n) ==
    LET rowsize == WORDSIZE(n)
        step(m, i) == [w \in DOMAIN m |->
            IF BIT(m, (w \div rowsize) * rowsize, i)
            THEN m[w] \cup m[i * rowsize + (w % rowsize)] ELSE m[w]]
    IN  FoldLeft(step, R, UpTo(n))

reflexive_transitive_closure(R, n) ==
    LET rowsize == WORDSIZE(n)
        closed  == transitive_closure(R, n)
        diagonal(w) == {i % BITS_PER_WORD : i \in
            {i \in 0..(n - 1) : i * rowsize + i \div BITS_PER_WORD = w}}
    IN  [w \in DOMAIN closed |-> closed[w] \cup diagonal(w)]

(* --------------------------- derives, nullable -------------------------- *)

set_derives(g) ==
    [v \in Vars(g) |-> Sorted({r \in 0..(g.nrules - 1) : g.rlhs[r] = v})]

\* The symbols of the right-hand side of rule r.
Rhs(g, r) == [k \in 1..(g.rrhs[r + 1] - g.rrhs[r] - 1) |-> g.ritem[g.rrhs[r] + k - 1]]

\* Passes over the rules until one changes nothing.
RECURSIVE NullablePasses(_, _)
NullablePasses(g, nullable) ==
    LET rule(null, r) ==
            IF \A k \in DOMAIN Rhs(g, r) : null[Rhs(g, r)[k]]
            THEN [null EXCEPT ![g.rlhs[r]] = TRUE] ELSE null
        pass == FoldLeft(rule, nullable, [k \in 1..(g.nrules - 2) |-> k + 1])
    IN  IF pass = nullable THEN nullable ELSE NullablePasses(g, pass)

set_nullable(g) == NullablePasses(g, [s \in 0..(g.nsyms - 1) |-> FALSE])

(* -------------------------------- closure ------------------------------- *)

\* Row i has the variables that begin a right-hand side of variable i.
set_EFF(g, derives) ==
    LET rowsize == WORDSIZE(nvars(g))
        begins(i) == {g.ritem[g.rrhs[r]] - start_symbol(g) : r \in
            {r \in Range(derives[start_symbol(g) + i]) :
                r > 0 /\ ISVAR(g, g.ritem[g.rrhs[r]])}}
        bits(w) == {b \in 0..(BITS_PER_WORD - 1) :
            (w % rowsize) * BITS_PER_WORD + b \in begins(w \div rowsize)}
    IN  reflexive_transitive_closure(
            [w \in 0..(nvars(g) * rowsize - 1) |-> bits(w)], nvars(g))

set_first_derives(g, derives) ==
    LET EFF == set_EFF(g, derives)
        varsetsize == WORDSIZE(nvars(g))
    IN  [v \in Vars(g) |->
            UNION {Range(derives[j]) : j \in
                {j \in Vars(g) : BIT(EFF, (v - g.ntokens) * varsetsize,
                                     j - start_symbol(g))}}]

\* The nucleus and the first items of the rules it calls for, merged in
\* ascending order and without repetition.
closure(g, first_derives, nucleus) ==
    LET ruleset == UNION {first_derives[g.ritem[nucleus[k]]] :
                       k \in {k \in DOMAIN nucleus : ISVAR(g, g.ritem[nucleus[k]])}}
        below(cs, item) == SelectSeq(cs, LAMBDA x : x < item)
        merge(m, r) ==
            LET item == g.rrhs[r]
                low  == below(m.rest, item)
                left == SubSeq(m.rest, Len(low) + 1, Len(m.rest))
            IN  [out |-> m.out \o low \o <<item>>,
                 rest |-> SelectSeq(left, LAMBDA x : x # item)]
        merged == FoldLeft(merge, [out |-> <<>>, rest |-> nucleus], Sorted(ruleset))
    IN  merged.out \o merged.rest

(* --------------------------------- states ------------------------------- *)

\* State n is states[n+1]; shift and reds are shift_table and
\* reduction_table, with an empty sequence for a null pointer.
initialize_states(g, derives) ==
    LET rs == derives[start_symbol(g)]
    IN  [states |-> << [sym |-> 0, items |-> [k \in DOMAIN rs |-> g.rrhs[rs[k]]]] >>,
         shift |-> <<>>, reds |-> <<>>]

save_reductions(g, itemset) ==
    LET ended == SelectSeq(itemset, LAMBDA i : g.ritem[i] < 0)
    IN  [k \in DOMAIN ended |-> -g.ritem[ended[k]]]

\* The kernel reached from the item set over each symbol that can be shifted.
new_itemsets(g, itemset) ==
    LET shifted == {g.ritem[i] : i \in Range(itemset)} \ (-g.nrules)..0
        over(s) == SelectSeq(itemset, LAMBDA i : g.ritem[i] = s)
    IN  [s \in shifted |-> [k \in DOMAIN over(s) |-> over(s)[k] + 1]]

new_state(states, kernel, symbol) == Append(states, [sym |-> symbol, items |-> kernel])

\* The state with this kernel, a new one if there is none.
get_state(states, kernel, symbol) ==
    LET same == {n \in 2..Len(states) : states[n].items = kernel}
    IN  IF same # {} THEN [states |-> states, number |-> Min(same) - 1]
        ELSE [states |-> new_state(states, kernel, symbol), number |-> Len(states)]

append_states(states, kernels) ==
    FoldLeft(LAMBDA a, s :
        LET r == get_state(a.states, kernels[s], s)
        IN  [states |-> r.states, shiftset |-> Append(a.shiftset, r.number)],
        [states |-> states, shiftset |-> <<>>], Sorted(DOMAIN kernels))

save_shifts(table, shiftset) == Append(table, shiftset)

\* One round of the loop of generate_states.
generate_state(g, first_derives, lr) ==
    LET this    == lr.states[Len(lr.shift) + 1]
        itemset == closure(g, first_derives, this.items)
        next    == append_states(lr.states, new_itemsets(g, itemset))
    IN  [states |-> next.states,
         shift |-> save_shifts(lr.shift, next.shiftset),
         reds |-> Append(lr.reds, save_reductions(g, itemset))]
=============================================================================
