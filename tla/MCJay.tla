------------------------------- MODULE MCJay -------------------------------
(***************************************************************************)
(* Grammar files for jay: all small grammars of a family, and files that   *)
(* bring out one thing each (precedences, conflicts, actions inside rules, *)
(* lookaheads that LALR(1) needs, declared token numbers, errors).         *)
(***************************************************************************)
EXTENDS Jay

(* ------------------------------ lexemes ---------------------------------- *)

mark == [k |-> "mark"]
bar  == [k |-> "bar"]
N(name) == [k |-> "symbol", name |-> name, code |-> UNDEFINED]
L(name, code) == [k |-> "symbol", name |-> name, code |-> code]
lhs(name) == [k |-> "lhs", name |-> name, code |-> UNDEFINED]
act(ref) == [k |-> "action", ref |-> ref]
precs(name) == [k |-> "prec", name |-> name, code |-> UNDEFINED]
start(name) == [k |-> "start", name |-> name]
tok(name) == [name |-> name, code |-> UNDEFINED, number |-> UNDEFINED]
num(name, n) == [name |-> name, code |-> UNDEFINED, number |-> n]
declare(assoc, names) == [k |-> "declare", assoc |-> assoc, names |-> names]
Seq2(names) == [k \in DOMAIN names |-> N(names[k])]

(* ------------------------------- files ----------------------------------- *)

\* S: alpha | beta;  A: gamma;
Bodies == {<<>>} \cup {<<x>> : x \in {"a", "S", "A"}}
            \cup {<<x, y>> : x \in {"a", "S", "A"}, y \in {"a", "S", "A"}}
Small(alpha, beta, gamma) ==
    <<mark, lhs("S")>> \o Seq2(alpha) \o <<bar>> \o Seq2(beta)
        \o <<lhs("A")>> \o Seq2(gamma)
Family == {Small(al, be, ga) : al \in Bodies, be \in Bodies,
                               ga \in {<<>>, <<"b">>, <<"S", "b">>, <<"A", "b">>}}

\* S: alpha;  A: beta | ;  B: gamma | ;
Three == {<<x, y, z>> : x \in {"A", "B", "a"}, y \in {"A", "B", "a"}, z \in {"A", "B", "a"}}
Nullable(alpha, beta, gamma) ==
    <<mark, lhs("S")>> \o Seq2(alpha) \o <<lhs("A")>> \o Seq2(beta) \o <<bar, lhs("B")>>
        \o Seq2(gamma) \o <<bar>>
Family2 == {Nullable(al, be, ga) : al \in Three, be \in {<<"a">>, <<"b", "B">>},
                                   ga \in {<<"b">>, <<"a", "A">>, <<"A">>}}

\* Operators with a precedence each, and a unary one by %prec.
Expressions(assoc) ==
    <<declare(assoc, <<[name |-> "-", code |-> 45, number |-> UNDEFINED]>>),
      declare("LEFT", <<tok("u")>>), mark,
      lhs("E"), N("E"), L("-", 45), N("E"), act(3), bar,
      L("-", 45), N("E"), precs("u"), act(2), bar, N("n")>>

\* LALR(1) and not SLR(1): S: L = R | R;  L: * R | n;  R: L.
Pointers ==
    <<mark, lhs("S"), N("L"), N("="), N("R"), bar, N("R"),
      lhs("L"), N("*"), N("R"), bar, N("n"), lhs("R"), N("L")>>

\* LR(1) and not LALR(1).
NotLALR ==
    <<mark, lhs("S"), N("a"), N("A"), N("d"), bar, N("b"), N("B"), N("d"), bar,
      N("a"), N("B"), N("e"), bar, N("b"), N("A"), N("e"),
      lhs("A"), N("c"), lhs("B"), N("c")>>

\* Nullable variables one after the other (reads), and cycles of includes.
Nullables3 ==
    <<mark, lhs("S"), N("A"), N("B"), N("C"), N("x"),
      lhs("A"), bar, N("a"), lhs("B"), bar, N("b"), lhs("C"), bar, N("c"), N("C")>>
Cycles ==
    <<mark, lhs("S"), N("a"), N("A"), bar, N("b"),
      lhs("A"), N("c"), N("B"), bar, N("d"), lhs("B"), N("e"), N("C"), bar, N("S"),
      lhs("C"), N("A"), bar, N("f"), N("S")>>

\* Actions inside rules, two in a row, and one that is the whole rule.
Actions ==
    <<declare("TOKEN", <<tok("x"), tok("y")>>), mark,
      lhs("S"), N("x"), act(1), N("A"), act(3), act(2), N("y"), act(5), bar, act(0),
      lhs("A"), N("y"), N("x"), act(2), bar, act(0), N("y"), act(2)>>

\* Token numbers: declared in any order, chosen ones in the gaps; what follows the
\* second mark is no rule.
Numbers ==
    <<declare("TOKEN", <<num("p", 258), tok("q"), num("r", 257), tok("s")>>),
      start("S"), mark, start("S"),
      lhs("A"), N("p"), lhs("S"), N("A"), N("q"), bar, N("r"), N("s"), mark,
      lhs("A"), N("q")>>

\* The error token, with and without something to resume at.
Recovery ==
    <<mark, lhs("S"), N("a"), N("S"), bar, N("error"), N("b"), bar, N("b")>>

\* Files that jay refuses.
Refused ==
    { <<>>, <<mark>>, <<N("a")>>, <<mark, N("a")>>,
      <<mark, lhs("S"), N("a"), start("S")>>,
      <<start("S"), declare("TOKEN", <<tok("S")>>)>>,
      <<declare("TOKEN", <<tok("S")>>), start("S")>>,
      <<declare("TOKEN", <<tok("a")>>), mark, lhs("a")>>,
      <<declare("TOKEN", <<tok("a")>>), mark, lhs("S"), N("a"), lhs("a")>>,
      <<start("T"), mark, lhs("S"), N("a")>> }

AllFiles ==
    Family \cup Family2 \cup Refused \cup {Expressions(x) : x \in {"LEFT", "RIGHT", "NONASSOC"}}
        \cup {Pointers, NotLALR, Nullables3, Cycles, Actions, Numbers, Recovery}
NullableFiles == {Nullables3}

============================================================================
