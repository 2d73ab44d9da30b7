---------------------------------- MODULE Jay ----------------------------------
(***************************************************************************)
(* jay (jay/main.c) from the grammar file to the printed tables, and the   *)
(* parser it generates (skeleton-l) running on those tables: the parser of *)
(* lc is built this way from syntax-l.jay.  The passes run one after the   *)
(* other; the reader takes one step per lexeme, lr0 one per state, the     *)
(* generated parser one per token read, shift or reduction.                *)
(***************************************************************************)
EXTENDS JayReader, JayTables, JayReference

CONSTANTS
    yyMax,      \* the size of the parser's stacks (256)
    MaxTokens   \* bound: the longest input the generated parser is given

VARIABLES
    lr0,      \* derives, nullable and first_derives
    lr,       \* the LR(0) states, shift_table and reduction_table
    la,       \* what lalr() computes
    parser,   \* the actions of the states
    tables,   \* the printed tables
    lalr1,    \* history: the grammar is LALR(1)
    language, \* history: its sentences of up to MaxTokens tokens
    yyStates, yyVals, yyToken, yyErrorFlag,
    status,   \* "running", "accepted" or "thrown"
    read,     \* history: the tokens the scanner gave, 0 at end of file
    erred     \* history: the parser met a syntax error

tableVars == <<lr0, lr, la, parser, tables, lalr1, language>>
yyVars == <<yyStates, yyVals, yyToken, yyErrorFlag, status, read, erred>>
vars == <<readerVars, tableVars, yyVars>>

None == <<>>

(* ------------------------------- the passes ----------------------------- *)

Reader == reader /\ UNCHANGED <<tableVars, yyVars>>

Pass(from, to) == LaterPass(from, to) /\ UNCHANGED yyVars

\* set_derives, set_nullable and the start of generate_states.
BeginLR0 ==
    /\ Pass("lr0", "generate")
    /\ LET derives == set_derives(g)
       IN  /\ lr0' = [derives |-> derives, nullable |-> set_nullable(g),
                      first_derives |-> set_first_derives(g, derives)]
           /\ lr' = initialize_states(g, derives)
    /\ UNCHANGED <<la, parser, tables, lalr1, language>>

generate_states ==
    /\ Pass("generate", "generate")
    /\ Len(lr.shift) < Len(lr.states)
    /\ lr' = generate_state(g, lr0.first_derives, lr)
    /\ UNCHANGED <<lr0, la, parser, tables, lalr1, language>>

\* The transitions of the automaton as a function.
Transitions ==
    [n \in 0..(Len(lr.states) - 1) |->
        [s \in {accessing_symbol(lr, t) : t \in Range(shift_table(lr, n))} |->
            CHOOSE t \in Range(shift_table(lr, n)) : accessing_symbol(lr, t) = s]]

Lalr ==
    /\ Pass("generate", "make_parser")
    /\ Len(lr.shift) = Len(lr.states)
    /\ la' = lalr(g, lr, lr0.derives, lr0.nullable)
    /\ lalr1' = IsLALR1(g, Transitions, LookaheadFacts(g, Transitions))
    /\ UNCHANGED <<lr0, lr, parser, tables, language>>

MakeParser ==
    /\ Pass("make_parser", "output")
    /\ parser' = make_parser(g, lr, la)
    /\ UNCHANGED <<lr0, lr, la, tables, lalr1, language>>

Output ==
    /\ Pass("output", "printed")
    /\ tables' = output(g, la, parser)
    /\ UNCHANGED <<lr0, lr, la, parser, lalr1, language>>

\* jay ends, and the generated parser is run.
Done ==
    /\ part = "printed" /\ part' = "parse"
    /\ lr0' = None /\ lr' = None /\ la' = None /\ parser' = None
    /\ language' = Sentences(g, MaxTokens)
    /\ yyStates' = <<0>> /\ yyVals' = <<0>> /\ status' = "running"
    /\ UNCHANGED <<file, input, decls, ruleVars, g, tables, lalr1,
                   yyToken, yyErrorFlag, read, erred>>

(* ------------------------- the generated parser ------------------------- *)

Running == part = "parse" /\ status = "running"
Idle == UNCHANGED <<readerVars, tableVars>>

yyState == Last(yyStates)

\* The entry of a packed vector for key, if it has one.
Hit(base, key) ==
    base # 0 /\ base + key \in DOMAIN tables.yyTable /\ tables.yyCheck[base + key] = key
Entry(base, key) == tables.yyTable[base + key]

\* The head of yyLoop: the new state and its value are pushed.
Push(states, vals, state, val) ==
    IF Len(states) >= yyMax
    THEN status' = "thrown" /\ UNCHANGED <<yyStates, yyVals>>
    ELSE /\ yyStates' = Append(states, state) /\ yyVals' = Append(vals, val)
         /\ UNCHANGED status

\* The next symbol from the scanner; the input ends after MaxTokens symbols.
Scanned == IF Len(read) < MaxTokens THEN {0} \cup 2..(g.ntokens - 1) ELSE {0}

\* Mutant: yyToken is not set when the scanner has no token left.
NextToken_NoEnd ==
    /\ Running /\ tables.yyDefRed[yyState] = 0 /\ yyToken < 0
    /\ \E s \in Scanned :
          /\ yyToken' = IF s = 0 THEN yyToken ELSE g.value[s]
          /\ read' = IF s = 0 THEN read ELSE Append(read, s)
    /\ Idle /\ UNCHANGED <<yyStates, yyVals, yyErrorFlag, status, erred>>

NextToken ==
    /\ Running /\ tables.yyDefRed[yyState] = 0 /\ yyToken < 0
    /\ \E s \in Scanned : yyToken' = g.value[s] /\ read' = Append(read, s)
    /\ Idle /\ UNCHANGED <<yyStates, yyVals, yyErrorFlag, status, erred>>

\* A token has been read and the state has no default reduction.
Deciding == Running /\ tables.yyDefRed[yyState] = 0 /\ yyToken >= 0
CanShift == Hit(tables.yySindex[yyState], yyToken)
CanReduce == Hit(tables.yyRindex[yyState], yyToken)

Shift ==
    /\ Deciding /\ CanShift
    /\ Push(yyStates, yyVals, Entry(tables.yySindex[yyState], yyToken), Last(read))
    /\ yyToken' = -1
    /\ yyErrorFlag' = IF yyErrorFlag > 0 THEN yyErrorFlag - 1 ELSE 0
    /\ Idle /\ UNCHANGED <<read, erred>>

\* Mutant: the goal reduced in state 0 is accepted whatever follows.
ReduceBy_AcceptsEarly(n) ==
    IF n \notin DOMAIN tables.yyLen \/ Len(yyStates) <= tables.yyLen[n]
    THEN status' = "thrown" /\ UNCHANGED <<yyStates, yyVals, yyToken, read>>
    ELSE LET top    == Len(yyStates) - tables.yyLen[n]
             states == SubSeq(yyStates, 1, top)
             vals   == SubSeq(yyVals, 1, top)
             under  == Last(states)
             yyM    == tables.yyLhs[n]
         IN  /\ UNCHANGED <<yyToken, read>>
             /\ IF under = 0 /\ yyM = 0
                THEN status' = "accepted" /\ UNCHANGED <<yyStates, yyVals>>
                ELSE IF yyM \notin DOMAIN tables.yyGindex
                THEN status' = "thrown" /\ UNCHANGED <<yyStates, yyVals>>
                ELSE Push(states, vals,
                          IF Hit(tables.yyGindex[yyM], under)
                          THEN Entry(tables.yyGindex[yyM], under)
                          ELSE tables.yyDgoto[yyM], g.ntokens + 1 + yyM)

\* Reduce by rule n; an index outside of an array throws.
ReduceBy(n) ==
    IF n \notin DOMAIN tables.yyLen \/ Len(yyStates) <= tables.yyLen[n]
    THEN status' = "thrown" /\ UNCHANGED <<yyStates, yyVals, yyToken, read>>
    ELSE LET top    == Len(yyStates) - tables.yyLen[n]
             states == SubSeq(yyStates, 1, top)
             vals   == SubSeq(yyVals, 1, top)
             under  == Last(states)
             yyM    == tables.yyLhs[n]
             var    == g.ntokens + 1 + yyM
         IN  IF under = 0 /\ yyM = 0
             THEN \E s \in IF yyToken < 0 THEN Scanned ELSE {UNDEFINED} :
                    LET token == IF s = UNDEFINED THEN yyToken ELSE g.value[s]
                    IN  /\ yyToken' = token
                        /\ read' = IF s = UNDEFINED THEN read ELSE Append(read, s)
                        /\ IF token = 0
                           THEN status' = "accepted" /\ UNCHANGED <<yyStates, yyVals>>
                           ELSE Push(states, vals, tables.yyFinal, var)
             ELSE /\ UNCHANGED <<yyToken, read>>
                  /\ IF yyM \notin DOMAIN tables.yyGindex
                     THEN status' = "thrown" /\ UNCHANGED <<yyStates, yyVals>>
                     ELSE Push(states, vals,
                            IF Hit(tables.yyGindex[yyM], under)
                            THEN Entry(tables.yyGindex[yyM], under)
                            ELSE tables.yyDgoto[yyM], var)

\* The rule the parser is about to reduce by, 0 if it is not about to reduce.
Due == IF Running /\ tables.yyDefRed[yyState] # 0 THEN tables.yyDefRed[yyState]
       ELSE IF Deciding /\ ~CanShift /\ CanReduce
            THEN Entry(tables.yyRindex[yyState], yyToken) ELSE 0

Reduce ==
    /\ Due # 0
    /\ ReduceBy(Due)
    /\ Idle /\ UNCHANGED <<yyErrorFlag, erred>>

AtError == Deciding /\ ~CanShift /\ ~CanReduce

\* The states on the stack that can shift the error token.
ErrorShifts == {k \in DOMAIN yyStates :
                    Hit(tables.yySindex[yyStates[k]], tables.yyErrorCode)}

\* No action in the tables: yyN is the index that failed, and the driver
\* goes on to reduce by it unless an error is being recovered from.
SyntaxError ==
    /\ AtError
    /\ erred' = TRUE
    /\ LET yyN == IF tables.yyRindex[yyState] = 0 THEN 0
                  ELSE tables.yyRindex[yyState] + yyToken
       IN  IF tables.yyRindex[yyState] = 0 \/ yyErrorFlag = 0
           THEN ReduceBy(yyN) /\ UNCHANGED yyErrorFlag
           ELSE IF yyErrorFlag = 3
           THEN /\ UNCHANGED <<yyStates, yyVals, read, yyErrorFlag>>
                /\ IF yyToken = 0 THEN status' = "thrown" /\ UNCHANGED yyToken
                   ELSE yyToken' = -1 /\ UNCHANGED status
           ELSE /\ yyErrorFlag' = 3 /\ UNCHANGED <<yyToken, read>>
                /\ IF ErrorShifts = {}
                   THEN status' = "thrown" /\ UNCHANGED <<yyStates, yyVals>>
                   ELSE LET top == Max(ErrorShifts)
                        IN  Push(SubSeq(yyStates, 1, top), SubSeq(yyVals, 1, top),
                                 Entry(tables.yySindex[yyStates[top]], tables.yyErrorCode), 1)
    /\ Idle

(* ------------------------------ specification --------------------------- *)

Init ==
    /\ ReaderInit
    /\ lr0 = None /\ lr = None /\ la = None /\ parser = None /\ tables = None
    /\ lalr1 = FALSE /\ language = {}
    /\ yyStates = <<>> /\ yyVals = <<>> /\ yyToken = -1 /\ yyErrorFlag = 0
    /\ status = "idle" /\ read = <<>> /\ erred = FALSE

Stopped == part = "failed" \/ status \in {"accepted", "thrown"}

\* Nothing is left to do.
Terminated == Stopped /\ UNCHANGED vars

Next ==
    \/ Reader \/ BeginLR0 \/ generate_states \/ Lalr \/ MakeParser \/ Output \/ Done
    \/ NextToken \/ Shift \/ Reduce \/ SyntaxError
    \/ Terminated

Parse == NextToken \/ Shift \/ Reduce \/ SyntaxError

\* The generated parser is a loop that runs on its own.
Spec == Init /\ [][Next]_vars /\ WF_vars(Parse)

(* ------------------------------ properties ------------------------------ *)

Parts == {"declarations", "grammar", "rules", "pack", "failed", "lr0", "generate",
          "make_parser", "output", "printed", "parse"}

\* The types of the state: symbol, rule and state numbers are in range, an
\* action refers to a rule of the file, and the parser's stacks agree.
TypeOK ==
    /\ part \in Parts /\ status \in {"idle", "running", "accepted", "thrown"}
    /\ goal \in 0..Len(symbols)
    /\ \A k \in DOMAIN pitem : pitem[k] \in 0..Len(symbols)
    /\ \A k \in DOMAIN rules : rules[k].lhs \in 0..Len(symbols)
    /\ \A k \in DOMAIN actions : actions[k].case \in 1..(Len(rules) - 3)
    /\ part \notin {"generate", "make_parser", "output", "printed"} \/
       \A n \in DOMAIN lr.shift : \A t \in Range(lr.shift[n]) :
           t \in 1..(Len(lr.states) - 1)
    /\ Len(yyStates) = Len(yyVals) /\ Len(yyStates) <= yyMax
    /\ yyErrorFlag \in 0..3

Kernel(n) == Range(lr.states[n + 1].items)

\* lr0(): the states are the canonical collection of LR(0) item sets, none
\* twice, with all of its transitions and reductions.
StatesCanonical ==
    part = "generate" /\ Len(lr.shift) = Len(lr.states) =>
        LET States == 0..(Len(lr.states) - 1)
            ended(n) == {-g.ritem[k] : k \in {k \in ItemClosure(g, Kernel(n)) :
                                                  g.ritem[k] < 0}}
        IN  /\ {Kernel(n) : n \in States} = CanonicalCollection(g)
            /\ \A n, m \in States : Kernel(n) = Kernel(m) => n = m
            /\ \A n \in States :
                 /\ DOMAIN Transitions[n] = Shiftable(g, Kernel(n))
                 /\ \A s \in DOMAIN Transitions[n] :
                      Kernel(Transitions[n][s]) = GotoKernel(g, Kernel(n), s)
                 /\ Range(lr.reds[n + 1]) = ended(n)

\* lalr(): the tokens found through the reads and includes relations for a
\* reduction are its LALR(1) lookaheads, no more and no fewer.  (Where a
\* variable derives no sentence the two notions differ, harmlessly.)
LookaheadsExact ==
    part = "make_parser" /\ Productive(g) =>
        LET facts == LookaheadFacts(g, Transitions)
        IN  \A n \in 0..(Len(lr.states) - 1) :
              \A j \in la.lookaheads[n]..(la.lookaheads[n + 1] - 1) :
                LET r == la.LAruleno[j + 1]
                IN  la.LA[j] = {t \in 0..(g.ntokens - 1) : r \in Reductions(g, facts, n, t)}

\* remove_conflicts(): in a file without precedences every state in which
\* two actions compete for a token is reported, and no other.  Accepting is
\* no action of the final state, so a single reduction on $end is not counted
\* there.
ConflictsReported ==
    part = "output" /\ prec = 0 =>
        \A n \in DOMAIN parser.actions :
            LET Tokens == 0..(g.ntokens - 1)
                reducible(t) == {la.LAruleno[j + 1] : j \in
                    {j \in la.lookaheads[n]..(la.lookaheads[n + 1] - 1) : t \in la.LA[j]}}
                compete(t) == \/ Cardinality(reducible(t)) > 1
                              \/ reducible(t) # {} /\ t \in DOMAIN Transitions[n]
            IN  (parser.SRconflicts[n] + parser.RRconflicts[n] > 0)
                    <=> \E t \in Tokens : compete(t)

\* output.c: looking an action or a goto up in the packed tables, as the
\* generated parser does, finds the action that make_parser left for the state
\* and token, and finds none where it left none; overlaid rows, rows that share
\* a displacement and default gotos never answer for one another.
TablesEncodeParser ==
    part = "printed" =>
        \A n \in DOMAIN parser.actions :
            LET live == Range(Live(parser.actions[n]))
                found(index, v) == IF Hit(index, v) THEN {Entry(index, v)} ELSE {}
            IN  /\ \A s \in 0..(g.ntokens - 1) :
                     LET acts(code) == {a \in live : a.code = code /\ a.symbol = s}
                     IN  /\ found(tables.yySindex[n], g.value[s])
                              = {a.number : a \in acts("SHIFT")}
                         /\ \/ tables.yyDefRed[n] # 0
                               /\ \A a \in live : a.code = "REDUCE"
                                                  /\ a.number = tables.yyDefRed[n] + 2
                            \/ found(tables.yyRindex[n], g.value[s])
                                 = {a.number - 2 : a \in acts("REDUCE")}
                /\ \A s \in DOMAIN Transitions[n] : ISVAR(g, s) =>
                     LET v == g.value[s]
                     IN  Transitions[n][s] = IF Hit(tables.yyGindex[v], n)
                                             THEN Entry(tables.yyGindex[v], n)
                                             ELSE tables.yyDgoto[v]

Text == SelectSeq(read, LAMBDA s : s # 0)

\* The generated parser of an LALR(1) grammar accepts only sentences of the
\* grammar, and stops with a syntax error only where no sentence goes on.
AcceptsLanguage ==
    lalr1 /\ ~erred =>
        /\ status = "accepted" => Text \in language
        /\ AtError => IF Last(read) = 0 THEN Text \notin language
                      ELSE \A w \in language : 
                             Len(Text) <= Len(w) => SubSeq(w, 1, Len(Text)) # Text

\* copy_action(): when the generated parser runs the case of an action, the
\* symbols that stand to the left of the action in the file are on top of the
\* stack, and $i is the value of the i-th of them; also for an action inside a
\* rule, which runs before the rest of its rule is read.
ActionSeesItsSymbols ==
    ~erred /\ Due # 0 =>
        \A k \in DOMAIN actions : actions[k].case = Due =>
            LET a   == actions[k]
                n   == Len(a.seen)
                top == Len(yyVals)
            IN  /\ n < top
                /\ \A i \in 1..n : g.bucket[yyVals[top - n + i]] = a.seen[i]
                /\ a.ref \in 1..n => g.bucket[yyVals[top + a.offset]] = a.seen[a.ref]

\* The generated parser of an LALR(1) grammar never goes on for ever without
\* reading: it accepts, throws or meets a syntax error.
ParseEnds == (lalr1 /\ part = "parse") ~> (Stopped \/ erred)

\* synskel.l says that ParseException is "thrown for irrecoverable syntax
\* errors": where no rule of the grammar has the error token, a syntax error
\* ends the parse with an exception.
IrrecoverableErrorThrows ==
    erred /\ (\A j \in DOMAIN g.ritem : g.ritem[j] # 1) => status = "thrown"

=============================================================================
