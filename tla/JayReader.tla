------------------------------ MODULE JayReader ------------------------------
(***************************************************************************)
(* The first pass of jay, the parser generator that builds the parser of   *)
(* lc (jay/reader.c, jay/symtab.c): it reads the declarations and the      *)
(* rules of a grammar file into buckets and item arrays, and packs them    *)
(* into the numbered grammar that the later passes work on.                *)
(*                                                                         *)
(* The file is a sequence of lexemes: a declaration with its symbols, a    *)
(* name followed by ':' (k = "lhs"), a symbol, a semantic action with the  *)
(* $-reference it makes, '|', %prec, %start and %%.  Characters, comments, *)
(* tags (%type with them, whose names would be entered into the symbol     *)
(* table where it stands) and the text of actions are left out.  C arrays  *)
(* that start at 0 and grow by one element are sequences: pitem[i] is      *)
(* pitem[i+1] here, plhs, rprec and rassoc are the fields of rules[i+1].   *)
(* A bucket pointer is the bucket's place in the list that starts at       *)
(* first_symbol, and 0 is the null pointer.                                *)
(***************************************************************************)
EXTENDS Integers, FiniteSets, SequencesExt

CONSTANTS
    Files,      \* the grammar files: sequences of lexemes
    ItemChunk,  \* maxitems at the start and its increment (300)
    RuleChunk   \* maxrules at the start and its increment (100)

UNDEFINED == -1

\* What may stand in a file: the numbers of tokens and of literal characters are
\* not negative, and symbol_value, an array of short, holds them; the names that
\* insert_empty_rule makes up, all "$$" here, are reserved (is_reserved).
MAXSHORT == 32767
TokenNumbers == UNDEFINED..MAXSHORT
Lexemes == UNION {Range(f) : f \in Files}

ASSUME JayReaderAssumption ==
    /\ ItemChunk \in Nat /\ ItemChunk >= 4
    /\ RuleChunk \in Nat /\ RuleChunk >= 3
    /\ Files \subseteq Seq(Lexemes)
    /\ \A lx \in Lexemes :
          /\ lx.k \in {"symbol", "lhs", "prec"} => lx.code \in TokenNumbers
          /\ lx.k \in {"symbol", "lhs"} => lx.name # "$$"
          /\ lx.k = "declare" =>
                /\ lx.names \in Seq(Range(lx.names))
                /\ \A d \in Range(lx.names) : {d.code, d.number} \subseteq TokenNumbers

VARIABLES
    file,             \* the whole grammar file, never changed
    input,            \* the lexemes not read yet
    part,             \* which part of reader() is running
    symbols,          \* the buckets, in the order of first_symbol, next...
    goal, prec,       \* the start symbol's bucket, the last precedence level
    rules,            \* plhs, rprec and rassoc up to the rule being read
    pitem,            \* right-hand sides, each one ended by a null pointer
    maxitems, maxrules,
    last_was_action,
    actions,          \* the cases written to action_file
    g                 \* the packed grammar

decls == <<symbols, goal, prec>>
ruleVars == <<rules, pitem, maxitems, maxrules, last_was_action, actions>>
readerVars == <<file, input, part, decls, ruleVars, g>>

NoGrammar == [nrules |-> 0]

(* ------------------------------ symbols --------------------------------- *)

make_bucket(name) ==
    [name |-> name, value |-> UNDEFINED, prec |-> 0,
     class |-> "UNKNOWN", assoc |-> "TOKEN"]

lookup(syms, name) ==
    IF \E i \in DOMAIN syms : syms[i].name = name
    THEN syms ELSE Append(syms, make_bucket(name))

BucketOf(syms, name) == CHOOSE i \in DOMAIN syms : syms[i].name = name

\* get_name or get_literal: a literal is a token whose value is its character.
\* A literal of several characters is a token without a value; no file has one.
get_symbol(syms, lx) ==
    LET found == lookup(syms, lx.name)
        bp    == BucketOf(found, lx.name)
        b     == found[bp]
    IN  IF lx.code = UNDEFINED THEN found
        ELSE [found EXCEPT ![bp] =
                [b EXCEPT !.class = "TERM",
                          !.value = IF @ = UNDEFINED THEN lx.code ELSE @]]

create_symbol_table == << [make_bucket("error") EXCEPT !.class = "TERM"] >>

(* ------------------------------ messages -------------------------------- *)

Next1 == Head(input)
Reading(p, k) == part = p /\ input # <<>> /\ Next1.k = k
Consume == input' = Tail(input) /\ UNCHANGED <<file, g>>

\* An error message ends the program: done(1).
done == part' = "failed" /\ UNCHANGED <<file, input, decls, ruleVars, g>>

(* ---------------------------- declarations ------------------------------ *)

DeclaredToken(syms, d, assoc, pr) ==
    LET found == get_symbol(syms, d)
        bp    == BucketOf(found, d.name)
        b     == [found[bp] EXCEPT !.class = "TERM"]
        ranked == IF assoc = "TOKEN" THEN b
                  ELSE [b EXCEPT !.assoc = assoc, !.prec = pr]
    IN  [found EXCEPT ![bp] = IF d.number = UNDEFINED THEN ranked
                              ELSE [ranked EXCEPT !.value = d.number]]

\* The symbol table after a declaration, one name at a time.
DeclaredTokens(syms, names, assoc, pr) ==
    LET after[k \in 0..Len(names)] ==
            IF k = 0 THEN syms ELSE DeclaredToken(after[k - 1], names[k], assoc, pr)
    IN  after[Len(names)]

declare_tokens ==
    /\ Reading("declarations", "declare")
    /\ LET pr == IF Next1.assoc = "TOKEN" THEN prec ELSE prec + 1
       IN  IF \E d \in Range(Next1.names) :
                 goal # 0 /\ symbols[goal].name = d.name
           THEN done    \* tokenized_start
           ELSE /\ symbols' = DeclaredTokens(symbols, Next1.names, Next1.assoc, pr)
                /\ prec' = pr
                /\ Consume
                /\ UNCHANGED <<part, goal, ruleVars>>

declare_start ==
    /\ Reading("declarations", "start") \/ Reading("grammar", "start")
    /\ LET found == lookup(symbols, Next1.name)
           bp    == BucketOf(found, Next1.name)
       IN  IF found[bp].class = "TERM"
           THEN done    \* terminal_start
           ELSE /\ symbols' = found
                /\ goal' = bp
                /\ Consume
                /\ UNCHANGED <<part, prec, ruleVars>>

\* read_declarations returns at the mark and read_grammar begins.
initialize_grammar ==
    /\ Reading("declarations", "mark")
    /\ part' = "grammar"
    /\ pitem' = <<0, 0, 0, 0>>
    /\ rules' = [i \in 1..3 |-> [lhs |-> 0, prec |-> 0, assoc |-> "TOKEN"]]
    /\ maxitems' = ItemChunk /\ maxrules' = RuleChunk
    /\ Consume
    /\ UNCHANGED <<decls, last_was_action, actions>>

(* ------------------------------- rules ---------------------------------- *)

nrules == Len(rules) - 1    \* while a rule is open: its number
expand(max, needed, chunk) == IF needed THEN max + chunk ELSE max

\* The items of the rule being read: what follows the last null pointer.
OpenItems(items) ==
    LET last == CHOOSE k \in DOMAIN items :
                    items[k] = 0 /\ \A j \in (k+1)..Len(items) : items[j] # 0
    IN  SubSeq(items, last + 1, Len(items))

\* Mutant: the rule arrays grow one rule too late.
start_rule_Late(bp, n, syms) ==
    /\ symbols' = [syms EXCEPT ![bp].class = "NONTERM"]
    /\ rules' = Append(rules, [lhs |-> bp, prec |-> UNDEFINED, assoc |-> "TOKEN"])
    /\ maxrules' = expand(maxrules, n > maxrules, RuleChunk)

\* start_rule: n is the new rule's number.
start_rule(bp, n, syms) ==
    /\ symbols' = [syms EXCEPT ![bp].class = "NONTERM"]
    /\ rules' = Append(rules, [lhs |-> bp, prec |-> UNDEFINED, assoc |-> "TOKEN"])
    /\ maxrules' = expand(maxrules, n >= maxrules, RuleChunk)

end_rule ==
    /\ last_was_action' = FALSE
    /\ pitem' = Append(pitem, 0)
    /\ maxitems' = expand(maxitems, Len(pitem) >= maxitems, ItemChunk)

advance_to_start ==
    /\ Reading("grammar", "lhs")
    /\ LET found == lookup(symbols, Next1.name)
           bp    == BucketOf(found, Next1.name)
       IN  IF found[bp].class = "TERM"
           THEN done    \* terminal_start or terminal_lhs
           ELSE /\ goal' = IF goal = 0 THEN bp ELSE goal
                /\ start_rule(bp, Len(rules), found)
                /\ part' = "rules"
                /\ Consume
                /\ UNCHANGED <<prec, pitem, maxitems, last_was_action, actions>>

\* add_symbol, when a ':' follows the name.
add_rule ==
    /\ Reading("rules", "lhs")
    /\ LET found == get_symbol(symbols, Next1)
           bp    == BucketOf(found, Next1.name)
       IN  IF found[bp].class = "TERM"
           THEN done    \* terminal_lhs
           ELSE /\ end_rule
                /\ start_rule(bp, Len(rules), found)
                /\ Consume
                /\ UNCHANGED <<part, goal, prec, actions>>

\* '|': the next rule has the same left-hand side.
add_alternative ==
    /\ Reading("rules", "bar")
    /\ end_rule
    /\ start_rule(Last(rules).lhs, Len(rules), symbols)
    /\ Consume
    /\ UNCHANGED <<part, goal, prec, actions>>

\* Mutant: the items of the open rule are not moved past the empty rule.
insert_empty_rule_NoMove(syms) ==
    LET mark  == Len(syms) + 1
    IN  [syms  |-> Append(syms, [make_bucket("$$") EXCEPT !.class = "NONTERM"]),
         items |-> pitem \o <<0, mark>>,
         rules |-> Front(rules)
                     \o <<[lhs |-> mark, prec |-> 0, assoc |-> "TOKEN"], Last(rules)>>,
         maxitems |-> expand(maxitems, Len(pitem) + 2 > maxitems, ItemChunk),
         maxrules |-> expand(maxrules, nrules + 1 >= maxrules, RuleChunk)]

\* An action inside a rule becomes the action of an empty rule for a new
\* symbol, numbered just before the rule it stands in.
insert_empty_rule(syms) ==
    LET mark  == Len(syms) + 1
        open  == OpenItems(pitem)
        done0 == SubSeq(pitem, 1, Len(pitem) - Len(open))
    IN  [syms  |-> Append(syms, [make_bucket("$$") EXCEPT !.class = "NONTERM"]),
         items |-> done0 \o <<0>> \o open \o <<mark>>,
         rules |-> Front(rules)
                     \o <<[lhs |-> mark, prec |-> 0, assoc |-> "TOKEN"], Last(rules)>>,
         maxitems |-> expand(maxitems, Len(pitem) + 2 > maxitems, ItemChunk),
         maxrules |-> expand(maxrules, nrules + 1 >= maxrules, RuleChunk)]

\* What add_symbol and copy_action start from.
WithEmptyRule(syms) ==
    IF last_was_action THEN insert_empty_rule(syms)
    ELSE [syms |-> syms, items |-> pitem, rules |-> rules,
          maxitems |-> maxitems, maxrules |-> maxrules]

add_symbol ==
    /\ Reading("rules", "symbol")
    /\ LET found == get_symbol(symbols, Next1)
           r     == WithEmptyRule(found)
       IN  /\ symbols' = r.syms
           /\ rules' = r.rules
           /\ pitem' = Append(r.items, BucketOf(found, Next1.name))
           /\ maxrules' = r.maxrules
           /\ maxitems' = expand(r.maxitems, Len(r.items) + 1 > r.maxitems, ItemChunk)
    /\ last_was_action' = FALSE
    /\ Consume
    /\ UNCHANGED <<part, goal, prec, actions>>

\* Mutant: the symbols before an action are counted before the empty rule of
\* the action that precedes it is inserted.
copy_action_CountsFirst ==
    /\ Reading("rules", "action")
    /\ LET r == WithEmptyRule(symbols)
       IN  /\ symbols' = r.syms
           /\ rules' = r.rules
           /\ pitem' = r.items
           /\ maxitems' = r.maxitems /\ maxrules' = r.maxrules
           /\ actions' = Append(actions,
                  [case |-> Len(r.rules) - 1 - 2, ref |-> Next1.ref,
                   offset |-> Next1.ref - Len(OpenItems(pitem)),
                   seen |-> OpenItems(r.items)])
    /\ last_was_action' = TRUE
    /\ Consume
    /\ UNCHANGED <<part, goal, prec>>

\* Mutant: the case is labelled with nrules, without the offset of 2.
copy_action_RawNumber ==
    /\ Reading("rules", "action")
    /\ LET r == WithEmptyRule(symbols)
           left == OpenItems(r.items)
       IN  /\ symbols' = r.syms
           /\ rules' = r.rules
           /\ pitem' = r.items
           /\ maxitems' = r.maxitems /\ maxrules' = r.maxrules
           /\ actions' = Append(actions,
                  [case |-> Len(r.rules) - 1, ref |-> Next1.ref,
                   offset |-> Next1.ref - Len(left), seen |-> left])
    /\ last_was_action' = TRUE
    /\ Consume
    /\ UNCHANGED <<part, goal, prec>>

\* The case written for an action that refers to $i reads yyVals[i-n+yyTop],
\* n being the number of symbols before it.  The field seen is a history
\* variable: the symbols to the left of the action in the file.
copy_action ==
    /\ Reading("rules", "action")
    /\ LET r == WithEmptyRule(symbols)
           left == OpenItems(r.items)
       IN  /\ symbols' = r.syms
           /\ rules' = r.rules
           /\ pitem' = r.items
           /\ maxitems' = r.maxitems /\ maxrules' = r.maxrules
           /\ actions' = Append(actions,
                  [case |-> Len(r.rules) - 1 - 2, ref |-> Next1.ref,
                   offset |-> Next1.ref - Len(left), seen |-> left])
    /\ last_was_action' = TRUE
    /\ Consume
    /\ UNCHANGED <<part, goal, prec>>

mark_symbol ==
    /\ Reading("rules", "prec")
    /\ LET found == get_symbol(symbols, Next1)
           b     == found[BucketOf(found, Next1.name)]
       IN  /\ symbols' = found
           /\ rules' = [rules EXCEPT ![Len(rules)].prec = b.prec,
                                     ![Len(rules)].assoc = b.assoc]
    /\ Consume
    /\ UNCHANGED <<part, goal, prec, pitem, maxitems, maxrules,
                   last_was_action, actions>>

\* end of file or %% ends the rules.
end_grammar ==
    /\ part = "rules" /\ (IF input = <<>> THEN TRUE ELSE Next1.k = "mark")
    /\ end_rule
    /\ part' = "pack"
    /\ UNCHANGED <<file, input, decls, rules, maxrules, actions, g>>

\* unexpected_EOF, no_grammar and syntax_error.
syntax_error ==
    /\ \/ part \in {"declarations", "grammar"} /\ input = <<>>
       \/ /\ part = "declarations" /\ input # <<>>
          /\ Next1.k \notin {"declare", "start", "mark"}
       \/ part = "grammar" /\ input # <<>> /\ Next1.k \notin {"lhs", "start"}
       \/ part = "rules" /\ input # <<>> /\ Next1.k \in {"declare", "start"}
    /\ done

(* ------------------------------- packing -------------------------------- *)

\* check_symbols: a symbol that is only used is taken for a token.
check_symbols(syms) ==
    [i \in DOMAIN syms |->
        IF syms[i].class = "UNKNOWN" THEN [syms[i] EXCEPT !.class = "TERM"]
        ELSE syms[i]]

\* The members of a finite set of integers in ascending order.
Rank(S, x) == Cardinality({y \in S : y < x})
Places(S) == [k \in 1..Cardinality(S) |-> CHOOSE x \in S : Rank(S, x) = k - 1]

\* Mutant: the declared numbers are not sorted before the scan.
DeclaredValues_Unsorted(syms, terms) ==
    SelectSeq([k \in DOMAIN terms |-> syms[terms[k]].value], LAMBDA v : v > 256)

\* The numbers above 256 that the file declares, sorted.  One that is declared
\* twice occurs once here; in the code it occurs twice, and the scan passes both.
DeclaredValues(syms, terms) ==
    Places({syms[i].value : i \in Range(terms)} \ (UNDEFINED..256))

\* The first number from n on that is not declared: one scan over the declared
\* ones, in their order.  (The code goes on where the scan for the token before
\* stopped: what it has passed is below n.)
Passed(n, v) == IF n = v THEN n + 1 ELSE n
Free(declared, n) ==
    LET past[j \in 0..Len(declared)] ==
            IF j = 0 THEN n ELSE Passed(past[j - 1], declared[j])
    IN  past[Len(declared)]

\* A token without a number gets the next free one from 257 on; the first one,
\* error, gets 256.
Chosen(syms, terms, s) == syms[terms[s]].value = UNDEFINED /\ terms[s] # 1
AssignedValues(syms, terms) ==
    LET declared == DeclaredValues(syms, terms)
        n[s \in 0..Len(terms)] ==    \* after the first s tokens
            IF s = 0 THEN 257
            ELSE IF Chosen(syms, terms, s) THEN Free(declared, n[s - 1]) + 1
            ELSE n[s - 1]
    IN  [s \in DOMAIN terms |->
            IF Chosen(syms, terms, s) THEN Free(declared, n[s - 1])
            ELSE IF syms[terms[s]].value = UNDEFINED THEN 256
            ELSE syms[terms[s]].value]

pack_symbols(syms) ==
    LET terms   == Places({i \in DOMAIN syms : syms[i].class = "TERM"})
        others  == Places({i \in DOMAIN syms : syms[i].class # "TERM" /\ i # goal})
        vars    == <<goal>> \o others
        ntokens == Len(terms) + 1
        nsyms   == ntokens + 1 + Len(vars)
        value   == AssignedValues(syms, terms)
        field(dflt, F(_)) == [s \in 0..(nsyms - 1) |->
            IF s \in {0, ntokens} THEN dflt
            ELSE IF s < ntokens THEN F(terms[s]) ELSE F(vars[s - ntokens])]
    IN  [ntokens |-> ntokens, nsyms |-> nsyms,
         bucket |-> field(0, LAMBDA i : i),
         index |-> [i \in DOMAIN syms |->
             IF i \in Range(terms) THEN CHOOSE s \in DOMAIN terms : terms[s] = i
             ELSE ntokens + CHOOSE s \in DOMAIN vars : vars[s] = i],
         value |-> [s \in 0..(nsyms - 1) |->
             IF s = 0 THEN 0 ELSE IF s < ntokens THEN value[s] ELSE s - ntokens - 1],
         prec  |-> field(0, LAMBDA i : syms[i].prec),
         assoc |-> field("TOKEN", LAMBDA i : syms[i].assoc)]

pack_grammar(syms, sy) ==
    LET ends   == Places({k \in 4..Len(pitem) : pitem[k] = 0})
        last   == Len(rules) - 1
        rhs(i) == SubSeq(pitem, ends[i - 2] + 1, ends[i - 1] - 1)
        tokens(i) == SelectSeq(rhs(i), LAMBDA b : syms[b].class = "TERM")
        given(i) == rules[i + 1].prec # UNDEFINED
        ranked(i, own, none, F(_)) ==
            IF given(i) THEN own
            ELSE IF tokens(i) = <<>> THEN none ELSE F(syms[Last(tokens(i))])
    IN  [nrules |-> Len(rules), nitems |-> Len(pitem),
         ntokens |-> sy.ntokens, nsyms |-> sy.nsyms,
         bucket |-> sy.bucket, value |-> sy.value,
         prec |-> sy.prec, assoc |-> sy.assoc,
         ritem |-> [j \in 0..(Len(pitem) - 1) |->
             IF j = 0 THEN -1 ELSE IF j = 1 THEN sy.index[goal]
             ELSE IF j = 2 THEN 0 ELSE IF pitem[j + 1] # 0 THEN sy.index[pitem[j + 1]]
             ELSE -(1 + CHOOSE k \in DOMAIN ends : ends[k] = j + 1)],
         rlhs |-> [i \in 0..last |-> IF i < 2 THEN 0 ELSE IF i = 2 THEN sy.ntokens
                                     ELSE sy.index[rules[i + 1].lhs]],
         rrhs |-> [i \in 0..Len(rules) |-> IF i < 2 THEN 0 ELSE IF i = 2 THEN 1
                                           ELSE ends[i - 2]],
         rprec |-> [i \in 0..last |-> IF i < 3 THEN 0
             ELSE ranked(i, rules[i + 1].prec, 0, LAMBDA b : b.prec)],
         rassoc |-> [i \in 0..last |-> IF i < 3 THEN "TOKEN"
             ELSE ranked(i, rules[i + 1].assoc, "TOKEN", LAMBDA b : b.assoc)]]

pack ==
    /\ part = "pack"
    /\ IF symbols[goal].class = "UNKNOWN"
       THEN done    \* undefined_goal
       ELSE LET syms == check_symbols(symbols)
            IN  /\ symbols' = syms
                /\ g' = pack_grammar(syms, pack_symbols(syms))
                /\ part' = "lr0"
                /\ UNCHANGED <<file, input, goal, prec, ruleVars>>

ReaderInit ==
    /\ file \in Files /\ input = file
    /\ part = "declarations"
    /\ symbols = create_symbol_table /\ goal = 0 /\ prec = 0
    /\ rules = <<>> /\ pitem = <<>> /\ maxitems = 0 /\ maxrules = 0
    /\ last_was_action = FALSE /\ actions = <<>>
    /\ g = NoGrammar

reader ==
    \/ declare_tokens \/ declare_start \/ initialize_grammar
    \/ advance_to_start \/ add_rule \/ add_alternative \/ add_symbol
    \/ copy_action \/ mark_symbol \/ end_grammar \/ syntax_error \/ pack

\* The passes that follow leave what the reader has left alone.
ReaderPasses == {"declarations", "grammar", "rules", "pack", "failed"}
LaterPass(from, to) ==
    /\ part = from /\ part' = to
    /\ UNCHANGED <<file, input, decls, ruleVars, g>>

\* The reader, followed by anything but the reader.
ReaderSpec ==
    /\ ReaderInit
    /\ [][reader \/ \E from, to : {from, to} \cap ReaderPasses = {} /\ LaterPass(from, to)]_readerVars

(* ------------------------------ properties ------------------------------ *)

\* reader.c grows pitem and the rule arrays just in time: whatever mix of
\* symbols, rule ends, alternatives and mid-rule actions a file has, nothing
\* is written beyond maxitems or maxrules.
ArraysLargeEnough ==
    part # "failed" => Len(pitem) <= maxitems /\ Len(rules) <= maxrules

\* pack_symbols(): a token whose number jay chooses shares it with no other
\* token, whichever numbers the file declares and in whatever order.  (The
\* number of error, the first symbol, is not chosen: it is 256 unless declared.)
TokenValuesDistinct ==
    part = "lr0" =>
        \A s, t \in 1..(g.ntokens - 1) :
            s # t /\ g.bucket[s] # 1 /\ symbols[g.bucket[s]].value = UNDEFINED =>
                g.value[s] # g.value[t]

(* The rules that a file has, read off its lexemes alone: the last rule is the
   alternative being read, in which an action stands for itself as "$$".     *)

\* The places of the actions that are not the last thing of their alternative.
Inner(rhs) == {k \in 1..(Len(rhs) - 1) : rhs[k] = "$$"}
Plain(rhs) == IF rhs # <<>> /\ Last(rhs) = "$$" THEN Front(rhs) ELSE rhs

\* The rules when the last alternative ends: each of its inner actions is an
\* empty rule of its own, before the rule it stands in.
Settled(rs) ==
    LET alt   == Last(rs)
        inner == Cardinality(Inner(alt.rhs))
    IN  IF rs = <<>> THEN <<>>
        ELSE [i \in 1..(Len(rs) + inner) |->
                 IF i < Len(rs) THEN rs[i]
                 ELSE IF i < Len(rs) + inner THEN [lhs |-> "$$", rhs |-> <<>>]
                 ELSE [lhs |-> alt.lhs, rhs |-> Plain(alt.rhs)]]

ReadLexeme(rs, lx) ==
    LET more(name) == [rs EXCEPT ![Len(rs)].rhs = Append(@, name)]
    IN  CASE lx.k = "lhs" -> Append(Settled(rs), [lhs |-> lx.name, rhs |-> <<>>])
          [] lx.k = "bar" /\ rs # <<>> ->
                Append(Settled(rs), [lhs |-> Last(rs).lhs, rhs |-> <<>>])
          [] lx.k = "symbol" /\ rs # <<>> -> more(lx.name)
          [] lx.k = "action" /\ rs # <<>> -> more("$$")
          [] OTHER -> rs

RulesRead(f) ==
    LET after[k \in 0..Len(f)] ==
            IF k = 0 THEN <<>> ELSE ReadLexeme(after[k - 1], f[k])
    IN  after

\* The rules end at the second %%: what follows is copied to the output.
OneMark(f, k) == \A i, j \in 1..k : f[i].k = "mark" /\ f[j].k = "mark" => i = j
EndOfRules(f) == Max({k \in 0..Len(f) : OneMark(f, k)})

SourceRules(f) == Settled(RulesRead(f)[EndOfRules(f)])

\* The packed grammar, with the names of its symbols.
NameOf(s) == symbols[g.bucket[s]].name
Body(r) == [k \in 1..(g.rrhs[r + 1] - g.rrhs[r] - 1) |-> g.ritem[g.rrhs[r] + k - 1]]
Named(r) == [lhs |-> NameOf(g.rlhs[r]),
             rhs |-> [k \in DOMAIN Body(r) |-> NameOf(Body(r)[k])]]
Users(s) == {r \in 3..(g.nrules - 1) : s \in Range(Body(r))}

\* reader(): the packed grammar has the rules of the file in their order,
\* each action inside a rule being an empty rule of its own just before that
\* rule and used by that rule only, and each end marker in ritem carries the
\* number of its rule.
PackedAsWritten ==
    part = "lr0" =>
        LET source == SourceRules(file)
        IN  /\ g.nrules = 3 + Len(source)
            /\ \A r \in 3..(g.nrules - 1) :
                 /\ Named(r) = source[r - 2]
                 /\ g.ritem[g.rrhs[r + 1] - 1] = -r
                 /\ Named(r).lhs = "$$" =>
                      Users(g.rlhs[r]) = {Min({q \in r..(g.nrules - 1) :
                                                  Named(q).lhs # "$$"})}
=============================================================================
