--------------------------- MODULE JayReaderProofs ---------------------------
(***************************************************************************)
(* jay's reader for any grammar file: its arrays, whatever sizes they      *)
(* start from, the numbers it gives to tokens, and the rules that the      *)
(* packed grammar has (from PlacesUnique on).                              *)
(***************************************************************************)
EXTENDS JayReader, FiniteSetTheorems, TLAPS

IsSeq(s) == \E S : s \in Seq(S)

LEMMA SeqLength == ASSUME NEW s, IsSeq(s) PROVE Len(s) \in Nat
<1>1. PICK S : s \in Seq(S)
  BY DEF IsSeq
<1>2. QED
  BY <1>1

LEMMA SeqAppend ==
    ASSUME NEW s, IsSeq(s), NEW x
    PROVE  /\ IsSeq(Append(s, x)) /\ Len(Append(s, x)) = Len(s) + 1
           /\ Len(s) >= 1 => Append(s, x)[1] = s[1]
<1>1. PICK S : s \in Seq(S)
  BY DEF IsSeq
<1>2. s \in Seq(S \cup {x})
  BY <1>1
<1>3. /\ Append(s, x) \in Seq(S \cup {x}) /\ Len(Append(s, x)) = Len(s) + 1
      /\ Len(s) >= 1 => Append(s, x)[1] = s[1]
  BY <1>2
<1>4. QED
  BY <1>3 DEF IsSeq

LEMMA SeqConcat ==
    ASSUME NEW s, NEW t, IsSeq(s), IsSeq(t)
    PROVE  /\ IsSeq(s \o t) /\ Len(s \o t) = Len(s) + Len(t)
           /\ Len(s) >= 1 => (s \o t)[1] = s[1]
<1>1. PICK S : s \in Seq(S)
  BY DEF IsSeq
<1>2. PICK T : t \in Seq(T)
  BY DEF IsSeq
<1>3. s \in Seq(S \cup T) /\ t \in Seq(S \cup T)
  BY <1>1, <1>2
<1>4. /\ s \o t \in Seq(S \cup T) /\ Len(s \o t) = Len(s) + Len(t)
      /\ Len(s) >= 1 => (s \o t)[1] = s[1]
  BY <1>3
<1>5. QED
  BY <1>4 DEF IsSeq

LEMMA SeqPart ==
    ASSUME NEW s, IsSeq(s), NEW m \in 1..(Len(s) + 1), NEW n \in 0..Len(s), m <= n + 1
    PROVE  /\ IsSeq(SubSeq(s, m, n)) /\ Len(SubSeq(s, m, n)) = n - m + 1
           /\ m = 1 /\ n >= 1 => SubSeq(s, m, n)[1] = s[1]
<1>1. PICK S : s \in Seq(S)
  BY DEF IsSeq
<1>2. Len(s) \in Nat /\ m \in Nat /\ n \in Nat
  BY <1>1
<1>3. /\ SubSeq(s, m, n) \in Seq(S) /\ Len(SubSeq(s, m, n)) = n - m + 1
      /\ m = 1 /\ n >= 1 => SubSeq(s, m, n)[1] = s[1]
  BY <1>1, <1>2
<1>4. QED
  BY <1>3 DEF IsSeq

LEMMA SeqOfOne == ASSUME NEW x PROVE IsSeq(<<x>>) /\ Len(<<x>>) = 1
<1>1. <<x>> \in Seq({x}) /\ Len(<<x>>) = 1
  OBVIOUS
<1>2. QED
  BY <1>1 DEF IsSeq

\* A set of places of a sequence that is not empty has a last member.
LEMMA LastPlace ==
    ASSUME NEW n \in Nat, NEW P \in SUBSET (1..n), P # {}
    PROVE  \E k \in P : \A j \in P : j <= k
<1> DEFINE less == OpToRel(<, Nat)
           Q == {n - k : k \in P}
<1>1. Q \subseteq Nat /\ Q # {}
  <2>1. \A k \in P : k \in Int /\ 1 <= k /\ k <= n
    OBVIOUS
  <2>2. \A k \in P : n - k \in Nat
    BY <2>1
  <2>3. QED
    BY <2>2
<1> HIDE DEF Q
<1>2. \E i \in Q : \A j \in Q : ~(<<j, i>> \in less)
  BY <1>1, WFMin, NatLessThanWellFounded
<1>3. PICK i \in Q : \A j \in Q : ~(<<j, i>> \in less)
  BY <1>2
<1>4. \A j \in Q : j < i => <<j, i>> \in less
  BY <1>1 DEF OpToRel
<1>5. \A j \in Q : ~(j < i)
  BY <1>3, <1>4, Zenon
<1> USE DEF Q
<1>6. PICK k \in P : i = n - k
  BY <1>3
<1>7. \A j \in P : ~(n - j < n - k)
  BY <1>5, <1>6
<1>8. \A j \in P : j \in Int /\ k \in Int
  OBVIOUS
<1>9. \A j \in P : j <= k
  BY <1>7, <1>8
<1>10. QED
  BY <1>9

(***************************************************************************)
(* The operations on the arrays.                                           *)
(***************************************************************************)

\* The rule being read has its items after a null pointer: there is one
\* before them, because the first item of all is null.
LEMMA OpenPart ==
    ASSUME NEW s, IsSeq(s), Len(s) >= 1, s[1] = 0
    PROVE  \E k \in 1..Len(s) : OpenItems(s) = SubSeq(s, k + 1, Len(s))
<1>0. Len(s) \in Nat /\ DOMAIN s = 1..Len(s)
  BY DEF IsSeq
<1> DEFINE P == {k \in 1..Len(s) : s[k] = 0}
           Ends(k) == s[k] = 0 /\ \A j \in (k+1)..Len(s) : s[j] # 0
<1>1. 1 \in P
  BY <1>0
<1>2. PICK k \in P : \A j \in P : j <= k
  BY <1>0, <1>1, LastPlace
<1>3. k \in DOMAIN s /\ Ends(k)
  <2>1. ASSUME NEW j \in (k+1)..Len(s) PROVE s[j] # 0
    <3>1. k \in Nat /\ k >= 1 /\ j \in Int /\ j > k /\ j <= Len(s)
      BY <1>0
    <3>2. j \in 1..Len(s)
      BY <3>1, <1>0
    <3>3. ~(j <= k)
      BY <3>1
    <3>4. QED
      BY <3>2, <3>3, <1>2
  <2>2. QED
    BY <2>1, <1>0
<1> DEFINE last == CHOOSE i \in DOMAIN s : Ends(i)
<1>4. last \in DOMAIN s
  <2> HIDE DEF Ends
  <2>1. QED
    BY <1>3
<1>5. OpenItems(s) = SubSeq(s, last + 1, Len(s))
  BY DEF OpenItems
<1>6. QED
  BY <1>0, <1>4, <1>5

\* A function on 1..n is a sequence.
LEMMA SeqFromFunction ==
    ASSUME NEW n \in Nat, NEW f, f = [i \in 1..n |-> f[i]]
    PROVE  IsSeq(f) /\ Len(f) = n
<1> DEFINE S == {f[i] : i \in 1..n}
<1>1. f \in [1..n -> S]
  OBVIOUS
<1>2. f \in Seq(S) /\ Len(f) = n
  <2> HIDE DEF S
  <2>1. QED
    BY <1>1
<1>3. QED
  BY <1>2 DEF IsSeq

\* What holds of pitem, the rule arrays and their sizes once initialize_grammar
\* has made them.
Arrays(items, rls, mi, mr) ==
    /\ IsSeq(items) /\ Len(items) >= 4 /\ items[1] = 0
    /\ IsSeq(rls) /\ Len(rls) >= 3
    /\ mi \in Nat /\ mr \in Nat
    /\ Len(items) <= mi /\ Len(rls) <= mr

\* The inductive invariant: the arrays exist from %% on, the first item is a
\* null pointer, and there is room for all of them.
ArraysInv ==
    \/ part = "failed"
    \/ part = "declarations" /\ pitem = <<>> /\ rules = <<>> /\ maxitems = 0 /\ maxrules = 0
    \/ part \notin {"failed", "declarations"} /\ Arrays(pitem, rules, maxitems, maxrules)

\* One more item, with expand_items or the test that precedes it.
LEMMA OneItem ==
    ASSUME NEW items, NEW rls, NEW mi, NEW mr, Arrays(items, rls, mi, mr), NEW x,
           NEW new, new = expand(mi, Len(items) + 1 > mi, ItemChunk)
    PROVE  Arrays(Append(items, x), rls, new, mr)
<1>1. Len(items) \in Nat
  BY SeqLength DEF Arrays
<1>2. new \in Nat /\ Len(items) + 1 <= new
  BY <1>1, JayReaderAssumption DEF Arrays, expand
<1>3. /\ IsSeq(Append(items, x)) /\ Len(Append(items, x)) = Len(items) + 1
      /\ Append(items, x)[1] = items[1]
  BY <1>1, SeqAppend DEF Arrays
<1>4. QED
  BY <1>1, <1>2, <1>3 DEF Arrays

\* One more rule.
LEMMA OneRule ==
    ASSUME NEW items, NEW rls, NEW mi, NEW mr, Arrays(items, rls, mi, mr),
           NEW more, IsSeq(more), Len(more) = Len(rls) + 1,
           NEW new, new = expand(mr, Len(rls) >= mr, RuleChunk)
    PROVE  Arrays(items, more, mi, new)
<1>1. Len(rls) \in Nat
  BY SeqLength DEF Arrays
<1>2. new \in Nat /\ Len(rls) + 1 <= new
  BY <1>1, JayReaderAssumption DEF Arrays, expand
<1>3. QED
  BY <1>1, <1>2 DEF Arrays

\* insert_empty_rule moves the open items by one place and adds one rule, one
\* rule end and one item: the sizes it asks for are enough.
LEMMA EmptyRuleFits ==
    ASSUME Arrays(pitem, rules, maxitems, maxrules), NEW syms
    PROVE  LET r == insert_empty_rule(syms)
           IN  Arrays(r.items, r.rules, r.maxitems, r.maxrules)
<1> DEFINE r    == insert_empty_rule(syms)
           mark == Len(syms) + 1
           head(k) == SubSeq(pitem, 1, k)
           open == OpenItems(pitem)
           empty == [lhs |-> mark, prec |-> 0, assoc |-> "TOKEN"]
<1>1. /\ r.items = SubSeq(pitem, 1, Len(pitem) - Len(open)) \o <<0>> \o open \o <<mark>>
      /\ r.rules = Front(rules) \o <<empty, Last(rules)>>
      /\ r.maxitems = expand(maxitems, Len(pitem) + 2 > maxitems, ItemChunk)
      /\ r.maxrules = expand(maxrules, nrules + 1 >= maxrules, RuleChunk)
  BY DEF insert_empty_rule
<1>2. Len(pitem) \in Nat /\ Len(rules) \in Nat
  BY SeqLength DEF Arrays
<1>3. PICK k \in 1..Len(pitem) : open = SubSeq(pitem, k + 1, Len(pitem))
  BY <1>2, OpenPart DEF Arrays
<1> HIDE DEF r, open, mark, empty
<1>4. /\ k \in Nat /\ k >= 1 /\ k <= Len(pitem)
      /\ k + 1 \in 1..(Len(pitem) + 1)
      /\ Len(pitem) \in 0..Len(pitem) /\ k \in 0..Len(pitem) /\ 1 \in 1..(Len(pitem) + 1)
  BY <1>2
<1>5. IsSeq(open) /\ Len(open) = Len(pitem) - k
  <2>1. /\ IsSeq(SubSeq(pitem, k + 1, Len(pitem)))
        /\ Len(SubSeq(pitem, k + 1, Len(pitem))) = Len(pitem) - (k + 1) + 1
    BY <1>4, SeqPart DEF Arrays
  <2>2. QED
    BY <2>1, <1>2, <1>3, <1>4
<1>6. Len(pitem) - Len(open) = k
  BY <1>2, <1>4, <1>5
<1>7. IsSeq(head(k)) /\ Len(head(k)) = k /\ head(k)[1] = 0
  <2>1. /\ IsSeq(head(k)) /\ Len(head(k)) = k - 1 + 1
        /\ k >= 1 => head(k)[1] = pitem[1]
    BY <1>4, SeqPart DEF Arrays
  <2>2. QED
    BY <2>1, <1>4 DEF Arrays
<1> HIDE DEF head
<1> DEFINE a == head(k) \o <<0>>
           b == a \o open
<1>8. IsSeq(a) /\ Len(a) = k + 1 /\ a[1] = 0
  BY <1>4, <1>7, SeqOfOne, SeqConcat
<1> HIDE DEF a
<1>9. IsSeq(b) /\ Len(b) = Len(pitem) + 1 /\ b[1] = 0
  <2>1. /\ IsSeq(b) /\ Len(b) = (k + 1) + (Len(pitem) - k)
        /\ Len(a) >= 1 => b[1] = a[1]
    BY <1>5, <1>8, SeqConcat
  <2>2. QED
    BY <2>1, <1>2, <1>4, <1>8
<1> HIDE DEF b
<1>10. r.items = b \o <<mark>>
  BY <1>1, <1>6 DEF a, b, head
<1>11. IsSeq(r.items) /\ Len(r.items) = Len(pitem) + 2 /\ r.items[1] = 0
  <2>1. /\ IsSeq(b \o <<mark>>) /\ Len(b \o <<mark>>) = Len(b) + 1
        /\ Len(b) >= 1 => (b \o <<mark>>)[1] = b[1]
    BY <1>9, SeqOfOne, SeqConcat
  <2>2. QED
    BY <2>1, <1>2, <1>9, <1>10
<1>12. r.maxitems \in Nat /\ Len(pitem) + 2 <= r.maxitems
  BY <1>1, <1>2, JayReaderAssumption DEF Arrays, expand
<1>13. Arrays(r.items, rules, r.maxitems, maxrules)
  BY <1>2, <1>11, <1>12 DEF Arrays
<1>14. IsSeq(r.rules) /\ Len(r.rules) = Len(rules) + 1
  <2> DEFINE two == <<empty, Last(rules)>>
  <2>1. IsSeq(two) /\ Len(two) = 2
    <3>1. two \in Seq({empty, Last(rules)}) /\ Len(two) = 2
      OBVIOUS
    <3>2. QED
      BY <3>1 DEF IsSeq
  <2>2. IsSeq(Front(rules)) /\ Len(Front(rules)) = Len(rules) - 1
    <3>1. Len(rules) - 1 \in 0..Len(rules) /\ 1 \in 1..(Len(rules) + 1) /\ 1 <= Len(rules) - 1 + 1
      BY <1>2 DEF Arrays
    <3>2. /\ IsSeq(SubSeq(rules, 1, Len(rules) - 1))
          /\ Len(SubSeq(rules, 1, Len(rules) - 1)) = Len(rules) - 1 - 1 + 1
      BY <3>1, SeqPart DEF Arrays
    <3>3. QED
      BY <3>2, <1>2 DEF Front
  <2> HIDE DEF two
  <2>3. IsSeq(Front(rules) \o two) /\ Len(Front(rules) \o two) = Len(Front(rules)) + Len(two)
    <3> DEFINE f == Front(rules)
    <3> HIDE DEF f
    <3>1. IsSeq(f \o two) /\ Len(f \o two) = Len(f) + Len(two)
      BY <2>1, <2>2, SeqConcat DEF f
    <3>2. QED
      BY <3>1 DEF f
  <2>4. r.rules = Front(rules) \o two
    BY <1>1 DEF two
  <2>5. Len(rules) - 1 + 2 = Len(rules) + 1
    BY <1>2
  <2>6. QED
    BY <2>1, <2>2, <2>3, <2>4, <2>5
<1>15. r.maxrules = expand(maxrules, Len(rules) >= maxrules, RuleChunk)
  BY <1>1, <1>2 DEF nrules
<1>16. Arrays(r.items, r.rules, r.maxitems, r.maxrules)
  BY <1>13, <1>14, <1>15, OneRule
<1>17. QED
  BY <1>16 DEF r

LEMMA WithEmptyRuleFits ==
    ASSUME Arrays(pitem, rules, maxitems, maxrules), NEW syms
    PROVE  LET r == WithEmptyRule(syms)
           IN  Arrays(r.items, r.rules, r.maxitems, r.maxrules)
<1>1. CASE last_was_action
  <2>1. WithEmptyRule(syms) = insert_empty_rule(syms)
    BY <1>1 DEF WithEmptyRule
  <2>2. QED
    BY <2>1, EmptyRuleFits
<1>2. CASE ~last_was_action
  BY <1>2 DEF WithEmptyRule
<1>3. QED
  BY <1>1, <1>2

LEMMA EndRuleFits ==
    ASSUME Arrays(pitem, rules, maxitems, maxrules), end_rule
    PROVE  Arrays(pitem', rules, maxitems', maxrules)
<1>1. Len(pitem) \in Nat /\ maxitems \in Nat
  BY SeqLength DEF Arrays
<1>2. pitem' = Append(pitem, 0) /\ maxitems' = expand(maxitems, Len(pitem) + 1 > maxitems, ItemChunk)
  BY <1>1 DEF end_rule, expand
<1>3. QED
  BY <1>2, OneItem

LEMMA StartRuleFits ==
    ASSUME NEW items, NEW mi, Arrays(items, rules, mi, maxrules),
           NEW bp, NEW syms, start_rule(bp, Len(rules), syms)
    PROVE  Arrays(items, rules', mi, maxrules')
<1>1. IsSeq(rules') /\ Len(rules') = Len(rules) + 1
  BY SeqAppend DEF Arrays, start_rule
<1>2. maxrules' = expand(maxrules, Len(rules) >= maxrules, RuleChunk)
  BY DEF start_rule
<1>3. QED
  BY <1>1, <1>2, OneRule

(***************************************************************************)
(* The actions.                                                            *)
(***************************************************************************)

LEMMA InitArrays == ReaderInit => ArraysInv
BY DEF ReaderInit, ArraysInv

LEMMA DoneArrays == ASSUME done PROVE ArraysInv'
BY DEF done, ArraysInv

LEMMA SameArrays ==
    ASSUME ArraysInv, UNCHANGED <<pitem, rules, maxitems, maxrules>>,
           part' = part \/ (part' \notin {"declarations"} /\ part # "declarations" /\ part # "failed")
    PROVE  ArraysInv'
BY DEF ArraysInv

LEMMA GrammarArrays == ASSUME initialize_grammar PROVE ArraysInv'
<1> DEFINE null == [lhs |-> 0, prec |-> 0, assoc |-> "TOKEN"]
<1>1. IsSeq(pitem') /\ Len(pitem') = 4 /\ pitem'[1] = 0
  <2>1. pitem' = <<0, 0, 0, 0>>
    BY DEF initialize_grammar
  <2>2. <<0, 0, 0, 0>> \in Seq({0}) /\ Len(<<0, 0, 0, 0>>) = 4 /\ <<0, 0, 0, 0>>[1] = 0
    OBVIOUS
  <2>3. QED
    BY <2>1, <2>2 DEF IsSeq
<1>2. IsSeq(rules') /\ Len(rules') = 3
  <2>1. rules' = [i \in 1..3 |-> null]
    BY DEF initialize_grammar
  <2> HIDE DEF null
  <2>2. rules' = [i \in 1..3 |-> rules'[i]]
    BY <2>1
  <2>3. QED
    BY <2>2, SeqFromFunction
<1>3. maxitems' = ItemChunk /\ maxrules' = RuleChunk /\ part' = "grammar"
  BY DEF initialize_grammar
<1>4. QED
  BY <1>1, <1>2, <1>3, JayReaderAssumption DEF ArraysInv, Arrays

LEMMA MarkArrays == ASSUME ArraysInv, mark_symbol PROVE ArraysInv'
<1>1. part = "rules" /\ part' = part /\ Arrays(pitem, rules, maxitems, maxrules)
  BY DEF ArraysInv, mark_symbol, Reading
<1>2. PICK p, a : rules' = [rules EXCEPT ![Len(rules)].prec = p, ![Len(rules)].assoc = a]
  BY DEF mark_symbol
<1>3. Len(rules) \in Nat /\ DOMAIN rules = 1..Len(rules)
  BY <1>1 DEF Arrays, IsSeq
<1>4. rules' = [i \in 1..Len(rules) |-> rules'[i]]
  BY <1>2, <1>3
<1>5. IsSeq(rules') /\ Len(rules') = Len(rules)
  BY <1>3, <1>4, SeqFromFunction
<1>6. UNCHANGED <<pitem, maxitems, maxrules>>
  BY DEF mark_symbol
<1>7. QED
  BY <1>1, <1>5, <1>6 DEF ArraysInv, Arrays

LEMMA SymbolArrays == ASSUME ArraysInv, add_symbol PROVE ArraysInv'
<1>1. part = "rules" /\ part' = part /\ Arrays(pitem, rules, maxitems, maxrules)
  BY DEF ArraysInv, add_symbol, Reading
<1> DEFINE found == get_symbol(symbols, Next1)
           r == WithEmptyRule(found)
           bp == BucketOf(found, Next1.name)
<1>2. /\ rules' = r.rules /\ pitem' = Append(r.items, bp) /\ maxrules' = r.maxrules
      /\ maxitems' = expand(r.maxitems, Len(r.items) + 1 > r.maxitems, ItemChunk)
  BY DEF add_symbol
<1>3. Arrays(r.items, r.rules, r.maxitems, r.maxrules)
  <2> HIDE DEF found
  <2>1. QED
    BY <1>1, WithEmptyRuleFits
<1> HIDE DEF found, r, bp
<1>4. Arrays(pitem', rules', maxitems', maxrules')
  BY <1>2, <1>3, OneItem
<1>5. QED
  BY <1>1, <1>4 DEF ArraysInv

LEMMA ActionArrays == ASSUME ArraysInv, copy_action PROVE ArraysInv'
<1>1. part = "rules" /\ part' = part /\ Arrays(pitem, rules, maxitems, maxrules)
  BY DEF ArraysInv, copy_action, Reading
<1> DEFINE r == WithEmptyRule(symbols)
<1>2. /\ rules' = r.rules /\ pitem' = r.items /\ maxrules' = r.maxrules
      /\ maxitems' = r.maxitems
  BY DEF copy_action
<1>3. Arrays(r.items, r.rules, r.maxitems, r.maxrules)
  BY <1>1, WithEmptyRuleFits
<1> HIDE DEF r
<1>4. QED
  BY <1>1, <1>2, <1>3 DEF ArraysInv

LEMMA EndArrays == ASSUME ArraysInv, end_grammar PROVE ArraysInv'
<1>1. part = "rules" /\ Arrays(pitem, rules, maxitems, maxrules)
  BY DEF ArraysInv, end_grammar
<1>2. end_rule /\ part' = "pack" /\ UNCHANGED <<rules, maxrules>>
  BY DEF end_grammar
<1>3. Arrays(pitem', rules, maxitems', maxrules)
  BY <1>1, <1>2, EndRuleFits
<1>4. QED
  BY <1>2, <1>3 DEF ArraysInv

\* add_rule and '|' end the open rule before they start the next.
LEMMA NextRuleArrays ==
    ASSUME ArraysInv, part = "rules", part' = part, end_rule,
           NEW bp, NEW syms, start_rule(bp, Len(rules), syms)
    PROVE  ArraysInv'
<1>1. Arrays(pitem, rules, maxitems, maxrules)
  BY DEF ArraysInv
<1>2. Arrays(pitem', rules, maxitems', maxrules)
  BY <1>1, EndRuleFits
<1>3. Arrays(pitem', rules', maxitems', maxrules')
  BY <1>2, StartRuleFits
<1>4. QED
  BY <1>3 DEF ArraysInv

LEMMA RuleArrays == ASSUME ArraysInv, advance_to_start \/ add_rule \/ add_alternative
                    PROVE  ArraysInv'
<1>1. CASE done
  BY <1>1, DoneArrays
<1>2. CASE advance_to_start /\ ~done
  <2>1. part = "grammar" /\ Arrays(pitem, rules, maxitems, maxrules)
    BY <1>2 DEF ArraysInv, advance_to_start, Reading
  <2>2. /\ \E bp, syms : start_rule(bp, Len(rules), syms)
        /\ part' = "rules" /\ UNCHANGED <<pitem, maxitems>>
    BY <1>2 DEF advance_to_start
  <2>3. Arrays(pitem, rules', maxitems, maxrules')
    BY <2>1, <2>2, StartRuleFits
  <2>4. QED
    BY <2>2, <2>3 DEF ArraysInv
<1>3. CASE add_rule /\ ~done
  <2>1. /\ \E bp, syms : start_rule(bp, Len(rules), syms)
        /\ part = "rules" /\ part' = part /\ end_rule
    BY <1>3 DEF add_rule, Reading
  <2>2. QED
    BY <2>1, NextRuleArrays
<1>4. CASE add_alternative
  <2>1. /\ start_rule(Last(rules).lhs, Len(rules), symbols)
        /\ part = "rules" /\ part' = part /\ end_rule
    BY <1>4 DEF add_alternative, Reading
  <2>2. QED
    BY <2>1, NextRuleArrays
<1>5. QED
  BY <1>1, <1>2, <1>3, <1>4

LEMMA OtherArrays ==
    ASSUME ArraysInv, declare_tokens \/ declare_start \/ syntax_error \/ pack
    PROVE  ArraysInv'
<1>1. CASE done
  BY <1>1, DoneArrays
<1>2. CASE declare_tokens /\ ~done
  BY <1>2, SameArrays DEF declare_tokens, ruleVars
<1>3. CASE declare_start /\ ~done
  BY <1>3, SameArrays DEF declare_start, ruleVars
<1>4. CASE syntax_error
  BY <1>4, <1>1 DEF syntax_error
<1>5. CASE pack /\ ~done
  BY <1>5, SameArrays DEF pack, ruleVars
<1>6. QED
  BY <1>1, <1>2, <1>3, <1>4, <1>5

LEMMA LaterArrays ==
    ASSUME ArraysInv, NEW from, NEW to, {from, to} \cap ReaderPasses = {}, LaterPass(from, to)
    PROVE  ArraysInv'
BY SameArrays DEF LaterPass, ReaderPasses, ruleVars

\* reader.c writes neither pitem nor the rule arrays beyond their ends, for
\* every grammar file and every size the arrays start from and grow by, as
\* long as the first four items and three rules fit.
THEOREM ArraysFit == ReaderSpec => []ArraysLargeEnough
<1>1. ArraysInv => ArraysLargeEnough
  <2>1. Len(<<>>) = 0
    OBVIOUS
  <2>2. QED
    BY <2>1 DEF ArraysInv, Arrays, ArraysLargeEnough
<1> DEFINE Next == reader \/ \E from, to : {from, to} \cap ReaderPasses = {} /\ LaterPass(from, to)
<1>2. ArraysInv /\ [Next]_readerVars => ArraysInv'
  <2> SUFFICES ASSUME ArraysInv, [Next]_readerVars PROVE ArraysInv'
    OBVIOUS
  <2>1. CASE reader
    BY <2>1, OtherArrays, RuleArrays, GrammarArrays, MarkArrays, SymbolArrays,
       ActionArrays, EndArrays DEF reader
  <2>2. CASE \E from, to : {from, to} \cap ReaderPasses = {} /\ LaterPass(from, to)
    BY <2>2, LaterArrays
  <2>3. CASE UNCHANGED readerVars
    BY <2>3, SameArrays DEF readerVars, ruleVars
  <2>4. QED
    BY <2>1, <2>2, <2>3
<1>3. QED
  BY <1>1, <1>2, InitArrays, PTL DEF ReaderSpec

-----------------------------------------------------------------------------
(* Numbers in order *)

LEMMA Least ==
    ASSUME NEW S \in SUBSET Nat, S # {}
    PROVE  \E n \in S : \A m \in S : n <= m
<1> DEFINE less == OpToRel(<, Nat)
<1>1. \E n \in S : \A m \in S : ~(<<m, n>> \in less)
  BY WFMin, NatLessThanWellFounded
<1>2. PICK n \in S : \A m \in S : ~(<<m, n>> \in less)
  BY <1>1
<1>3. \A m \in S : m < n => <<m, n>> \in less
  BY DEF OpToRel
<1>4. \A m \in S : ~(m < n)
  BY <1>2, <1>3, Zenon
<1>5. \A m \in S : n <= m
  BY <1>4
<1>6. QED
  BY <1>5

\* Induction over the set of the numbers that have a property.
LEMMA Upward ==
    ASSUME NEW S, 0 \in S, \A n \in Nat : n \in S => n + 1 \in S
    PROVE  \A n \in Nat : n \in S
<1> DEFINE T == Nat \ S
<1> SUFFICES ASSUME T # {} PROVE FALSE
  OBVIOUS
<1>1. PICK n \in T : \A m \in T : n <= m
  BY Least
<1>2. n \in Nat /\ n \notin S /\ n # 0
  BY <1>1
<1>3. n - 1 \in Nat /\ (n - 1) + 1 = n /\ ~(n <= n - 1)
  BY <1>2
<1>4. n - 1 \in S
  BY <1>1, <1>3
<1>5. QED
  BY <1>2, <1>3, <1>4

Below(S, x) == {y \in S : y < x}

LEMMA RankOf ==
    ASSUME NEW S \in SUBSET Nat, IsFiniteSet(S), NEW x \in S
    PROVE  /\ Rank(S, x) = Cardinality(Below(S, x)) /\ IsFiniteSet(Below(S, x))
           /\ Rank(S, x) \in Nat /\ Cardinality(S) \in Nat /\ Rank(S, x) < Cardinality(S)
<1>1. Below(S, x) \in SUBSET S /\ x \notin Below(S, x)
  BY DEF Below
<1>2. IsFiniteSet(Below(S, x)) /\ Cardinality(Below(S, x)) <= Cardinality(S)
      /\ (Cardinality(S) = Cardinality(Below(S, x)) => S = Below(S, x))
  BY <1>1, FS_Subset
<1>3. Cardinality(S) \in Nat /\ Cardinality(Below(S, x)) \in Nat
  BY <1>2, FS_CardinalityType
<1>4. Rank(S, x) = Cardinality(Below(S, x))
  BY DEF Rank, Below
<1>5. Cardinality(S) # Cardinality(Below(S, x))
  BY <1>1, <1>2
<1>6. QED
  BY <1>2, <1>3, <1>4, <1>5

LEMMA RankLess ==
    ASSUME NEW S \in SUBSET Nat, IsFiniteSet(S), NEW x \in S, NEW y \in S, x < y
    PROVE  Rank(S, x) < Rank(S, y)
<1>1. Below(S, x) \in SUBSET Below(S, y) /\ x \in Below(S, y) /\ x \notin Below(S, x)
  <2>1. x \in Nat /\ y \in Nat /\ ~(x < x)
    OBVIOUS
  <2>2. ASSUME NEW z \in Below(S, x) PROVE z \in Below(S, y)
    <3>1. z \in S /\ z \in Nat /\ z < x
      BY DEF Below
    <3>2. QED
      BY <2>1, <3>1 DEF Below
  <2>3. x \in Below(S, y) /\ x \notin Below(S, x)
    BY <2>1 DEF Below
  <2>4. QED
    BY <2>2, <2>3
<1>2. /\ Rank(S, x) = Cardinality(Below(S, x)) /\ Rank(S, x) \in Nat
      /\ Rank(S, y) = Cardinality(Below(S, y)) /\ Rank(S, y) \in Nat
      /\ IsFiniteSet(Below(S, y))
  BY RankOf
<1>3. /\ Cardinality(Below(S, x)) <= Cardinality(Below(S, y))
      /\ Cardinality(Below(S, y)) = Cardinality(Below(S, x)) => Below(S, y) = Below(S, x)
  BY <1>1, <1>2, FS_Subset
<1>4. QED
  BY <1>1, <1>2, <1>3

\* Each number below the cardinality is the rank of a member.
LEMMA RankEach ==
    ASSUME NEW S \in SUBSET Nat, IsFiniteSet(S)
    PROVE  \A k \in Nat : k < Cardinality(S) => \E x \in S : Rank(S, x) = k
<1> DEFINE K == {k \in Nat : k < Cardinality(S) => \E x \in S : Rank(S, x) = k}
<1>0. Cardinality(S) \in Nat
  BY FS_CardinalityType
<1>1. 0 \in K
  <2> SUFFICES ASSUME 0 < Cardinality(S) PROVE \E x \in S : Rank(S, x) = 0
    OBVIOUS
  <2>1. S # {}
    BY FS_EmptySet
  <2>2. PICK x \in S : \A y \in S : x <= y
    BY <2>1, Least
  <2>3. Below(S, x) = {}
    <3>1. \A y \in S : x \in Nat /\ y \in Nat /\ x <= y
      BY <2>2
    <3>2. \A y \in S : ~(y < x)
      BY <3>1
    <3>3. QED
      BY <3>2, Zenon DEF Below
  <2>4. QED
    BY <2>3, RankOf, FS_EmptySet
<1>2. \A k \in Nat : k \in K => k + 1 \in K
  <2> SUFFICES ASSUME NEW k \in Nat, k \in K, k + 1 < Cardinality(S)
               PROVE  \E x \in S : Rank(S, x) = k + 1
    OBVIOUS
  <2>1. PICK x \in S : Rank(S, x) = k
    BY <1>0
  <2> DEFINE B == Below(S, x) \cup {x}
             R == S \ B
  <2>2. Cardinality(Below(S, x)) = k /\ IsFiniteSet(Below(S, x)) /\ x \notin Below(S, x)
    BY <2>1, RankOf DEF Below
  <2>3. Cardinality(B) = k + 1
    BY <2>2, FS_AddElement
  <2>4. R # {} /\ R \in SUBSET Nat
    <3>1. S # B
      BY <1>0, <2>3
    <3>2. B \subseteq S
      BY DEF Below
    <3>3. QED
      BY <3>1, <3>2
  <2>5. PICK z \in R : \A y \in R : z <= y
    BY <2>4, Least
  <2>6. z \in S /\ z \in Nat /\ x \in Nat /\ x < z
    BY <2>5 DEF Below
  <2>7. Below(S, z) = B
    <3>1. ASSUME NEW y \in B PROVE y \in Below(S, z)
      BY <2>6 DEF Below
    <3>2. ASSUME NEW y \in Below(S, z) PROVE y \in B
      BY <2>5, <2>6 DEF Below
    <3>3. QED
      BY <3>1, <3>2
  <2>8. QED
    BY <2>3, <2>6, <2>7, RankOf
<1> HIDE DEF K
<1>3. \A k \in Nat : k \in K
  BY <1>1, <1>2, Upward
<1>4. QED
  BY <1>3 DEF K

\* Places lists the members of a set of numbers in ascending order.
LEMMA PlacesAre ==
    ASSUME NEW S \in SUBSET Nat, IsFiniteSet(S)
    PROVE  /\ Places(S) \in Seq(S) /\ Len(Places(S)) = Cardinality(S)
           /\ \A i, j \in 1..Len(Places(S)) : i < j => Places(S)[i] < Places(S)[j]
           /\ \A x \in S : \E k \in 1..Len(Places(S)) : Places(S)[k] = x
<1> DEFINE n == Cardinality(S)
           t == Places(S)
<1>0. n \in Nat
  BY FS_CardinalityType
<1>1. \A k \in 1..n : t[k] \in S /\ Rank(S, t[k]) = k - 1
  <2> SUFFICES ASSUME NEW k \in 1..n PROVE t[k] \in S /\ Rank(S, t[k]) = k - 1
    OBVIOUS
  <2>1. t[k] = CHOOSE x \in S : Rank(S, x) = k - 1
    BY DEF Places
  <2>2. \E x \in S : Rank(S, x) = k - 1
    <3>1. k - 1 \in Nat /\ k - 1 < n
      BY <1>0
    <3>2. QED
      BY <3>1, RankEach
  <2>3. QED
    BY <2>1, <2>2, Zenon
<1>2. t \in Seq(S) /\ Len(t) = n
  <2>1. t = [k \in 1..n |-> t[k]]
    BY DEF Places
  <2> HIDE DEF t, n
  <2>2. t \in [1..n -> S]
    BY <1>1, <2>1
  <2>3. QED
    BY <1>0, <2>2
<1> HIDE DEF t, n
<1>3. ASSUME NEW i \in 1..n, NEW j \in 1..n, i < j PROVE t[i] < t[j]
  <2>1. /\ t[i] \in S /\ t[j] \in S /\ Rank(S, t[i]) = i - 1 /\ Rank(S, t[j]) = j - 1
        /\ t[i] \in Nat /\ t[j] \in Nat
    BY <1>1
  <2>2. ~(t[i] = t[j])
    BY <1>3, <2>1
  <2>3. ~(t[j] < t[i])
    <3> SUFFICES ASSUME t[j] < t[i] PROVE FALSE
      OBVIOUS
    <3>1. Rank(S, t[j]) < Rank(S, t[i])
      BY <2>1, RankLess
    <3>2. QED
      BY <1>3, <2>1, <3>1
  <2>4. QED
    BY <2>1, <2>2, <2>3
<1>4. ASSUME NEW x \in S PROVE \E k \in 1..n : t[k] = x
  <2>1. Rank(S, x) \in Nat /\ Rank(S, x) < n
    BY RankOf DEF n
  <2> DEFINE k == Rank(S, x) + 1
  <2>2. k \in 1..n /\ k - 1 = Rank(S, x)
    BY <1>0, <2>1
  <2>3. t[k] \in S /\ Rank(S, t[k]) = Rank(S, x)
    BY <1>1, <2>2
  <2> HIDE DEF k
  <2>4. ~(t[k] < x) /\ ~(x < t[k])
    <3>1. t[k] < x => Rank(S, t[k]) < Rank(S, x)
      BY <2>3, RankLess
    <3>2. x < t[k] => Rank(S, x) < Rank(S, t[k])
      BY <2>3, RankLess
    <3>3. QED
      BY <2>1, <2>3, <3>1, <3>2
  <2>5. t[k] = x
    <3>1. t[k] \in Nat /\ x \in Nat
      BY <2>3
    <3>2. QED
      BY <2>4, <3>1
  <2>6. QED
    BY <2>2, <2>5
<1>5. QED
  BY <1>2, <1>3, <1>4 DEF t, n
-----------------------------------------------------------------------------
(* The numbers of the tokens *)

\* The recursive functions of the packing: one step per place, in order.
IsRun(a, st, n, f) == f[0] = a /\ \A k \in 1..n : f[k] = st[k][f[k - 1]]

LEMMA Recursion ==
    ASSUME NEW V, NEW a \in V, NEW st \in [Nat -> [V -> V]]
    PROVE  \A n \in Nat : \E f \in [0..n -> V] : IsRun(a, st, n, f)
<1> DEFINE S == {n \in Nat : \E f \in [0..n -> V] : IsRun(a, st, n, f)}
<1>1. 0 \in S
  <2> DEFINE f == [k \in 0..0 |-> a]
  <2>1. f \in [0..0 -> V] /\ IsRun(a, st, 0, f)
    BY DEF IsRun
  <2>2. QED
    BY <2>1
<1>2. \A n \in Nat : n \in S => n + 1 \in S
  <2> SUFFICES ASSUME NEW n \in Nat, \E f \in [0..n -> V] : IsRun(a, st, n, f)
               PROVE  \E h \in [0..(n + 1) -> V] : IsRun(a, st, n + 1, h)
    OBVIOUS
  <2> PICK f \in [0..n -> V] : IsRun(a, st, n, f)
    OBVIOUS
  <2>0. f[0] = a /\ 0 \in 0..n
    BY DEF IsRun
  <2> DEFINE h == [k \in 0..(n + 1) |-> IF k = n + 1 THEN st[n + 1][f[n]] ELSE f[k]]
  <2>1. f[n] \in V /\ st[n + 1] \in [V -> V]
    OBVIOUS
  <2>2. st[n + 1][f[n]] \in V
    BY <2>1
  <2>3. ASSUME NEW k \in 0..(n + 1) PROVE k # n + 1 => k \in 0..n
    OBVIOUS
  <2>4. h \in [0..(n + 1) -> V]
    BY <2>2, <2>3
  <2>5. h[0] = a
    <3>1. 0 \in 0..(n + 1) /\ 0 # n + 1
      OBVIOUS
    <3>2. QED
      BY <2>0, <3>1
  <2>6. ASSUME NEW k \in 1..(n + 1) PROVE h[k] = st[k][h[k - 1]]
    <3>1. k - 1 \in 0..(n + 1) /\ k - 1 # n + 1 /\ k \in 0..(n + 1)
      OBVIOUS
    <3>2. h[k - 1] = f[k - 1]
      BY <3>1
    <3>3. CASE k = n + 1
      <4>1. k - 1 = n /\ h[k] = st[k][f[n]]
        BY <3>1, <3>3
      <4>2. QED
        BY <3>2, <4>1
    <3>4. CASE k # n + 1
      <4>1. k \in 1..n /\ h[k] = f[k]
        BY <3>1, <3>4
      <4>2. QED
        BY <3>2, <4>1 DEF IsRun
    <3>5. QED
      BY <3>3, <3>4
  <2> HIDE DEF h
  <2>7. QED
    BY <2>4, <2>5, <2>6 DEF IsRun
<1> HIDE DEF S
<1>3. \A n \in Nat : n \in S
  BY <1>1, <1>2, Upward
<1>4. QED
  BY <1>3 DEF S

IsPast(declared, n, f) ==
    f = [j \in 0..Len(declared) |->
            IF j = 0 THEN n ELSE Passed(f[j - 1], declared[j])]

LEMMA FreeIs ==
    ASSUME NEW declared \in Seq(Nat), NEW n \in Nat
    PROVE  \E f \in [0..Len(declared) -> Nat] :
               /\ f[0] = n
               /\ \A j \in 1..Len(declared) : f[j] = Passed(f[j - 1], declared[j])
               /\ Free(declared, n) = f[Len(declared)]
<1> DEFINE m == Len(declared)
           st == [j \in Nat |-> [v \in Nat |-> Passed(v, declared[j])]]
           chosen == CHOOSE f : IsPast(declared, n, f)
<1>1. st \in [Nat -> [Nat -> Nat]] /\ m \in Nat
  BY DEF Passed
<1>2. PICK f \in [0..m -> Nat] : f[0] = n /\ \A k \in 1..m : f[k] = st[k][f[k - 1]]
  <2> HIDE DEF st, m
  <2>1. \E f \in [0..m -> Nat] : IsRun(n, st, m, f)
    BY <1>1, Recursion, Zenon
  <2>2. QED
    BY <2>1 DEF IsRun
<1>3. IsPast(declared, n, f)
  <2>1. ASSUME NEW j \in 0..m
        PROVE  f[j] = IF j = 0 THEN n ELSE Passed(f[j - 1], declared[j])
    <3>1. CASE j = 0
      BY <1>2, <3>1
    <3>2. CASE j # 0
      <4>1. j \in 1..m /\ j \in Nat /\ j - 1 \in 0..m
        BY <1>1, <3>2
      <4>2. f[j] = st[j][f[j - 1]] /\ f[j - 1] \in Nat
        BY <1>2, <4>1
      <4>3. QED
        BY <3>2, <4>1, <4>2
    <3>3. QED
      BY <3>1, <3>2
  <2>2. f = [j \in 0..m |-> f[j]]
    BY <1>2
  <2>3. QED
    BY <2>1, <2>2 DEF IsPast
<1>4. IsPast(declared, n, chosen)
  BY <1>3, Zenon
<1>5. Free(declared, n) = chosen[m]
  BY Zenon DEF Free, IsPast
<1> HIDE DEF chosen
<1>6. \A j \in 0..m : chosen[j] = IF j = 0 THEN n ELSE Passed(chosen[j - 1], declared[j])
  BY <1>4, Zenon DEF IsPast
<1>7. chosen[0] = n /\ \A j \in 1..m : chosen[j] = Passed(chosen[j - 1], declared[j])
  <2>1. 0 \in 0..m /\ \A j \in 1..m : j \in 0..m /\ j # 0
    BY <1>1
  <2> HIDE DEF m
  <2>2. QED
    BY <1>6, <2>1
<1>8. chosen = [j \in 0..m |-> chosen[j]]
  BY <1>4 DEF IsPast
<1>9. \A j \in 0..m : chosen[j] \in Nat
  <2> DEFINE K == {j \in Nat : j <= m => chosen[j] \in Nat}
  <2>1. 0 \in K
    BY <1>7
  <2>2. ASSUME NEW j \in Nat, j \in K PROVE j + 1 \in K
    <3> SUFFICES ASSUME j + 1 <= m PROVE chosen[j + 1] \in Nat
      OBVIOUS
    <3>1. j + 1 \in 1..m /\ (j + 1) - 1 = j /\ declared[j + 1] \in Nat /\ chosen[j] \in Nat
      <4>1. j + 1 \in 1..m /\ (j + 1) - 1 = j
        BY <1>1
      <4>2. declared[j + 1] \in Nat
        BY <4>1
      <4>3. chosen[j] \in Nat
        BY <1>1, <2>2
      <4>4. QED
        BY <4>1, <4>2, <4>3
    <3>2. chosen[j + 1] = Passed(chosen[j], declared[j + 1])
      BY <1>7, <3>1
    <3>3. QED
      BY <3>1, <3>2 DEF Passed
  <2> HIDE DEF K
  <2>3. \A j \in Nat : j \in K
    BY <2>1, <2>2, Upward
  <2>4. QED
    BY <1>1, <2>3 DEF K
<1>10. chosen \in [0..m -> Nat]
  BY <1>8, <1>9
<1>11. QED
  BY <1>5, <1>7, <1>10

IsAscending(s) == \A i, j \in 1..Len(s) : i < j => s[i] < s[j]

\* The scan ends at a number that is not declared when the declared ones are
\* sorted, which is what pack_symbols sorts them for.
LEMMA FreeIsFree ==
    ASSUME NEW declared \in Seq(Nat), IsAscending(declared), NEW n \in Nat
    PROVE  /\ Free(declared, n) \in Nat /\ Free(declared, n) >= n
           /\ \A i \in 1..Len(declared) : Free(declared, n) # declared[i]
<1> DEFINE m == Len(declared)
<1>0. m \in Nat /\ \A i \in 1..m : declared[i] \in Nat
  OBVIOUS
<1>1. PICK f \in [0..m -> Nat] :
          /\ f[0] = n
          /\ \A j \in 1..m : f[j] = Passed(f[j - 1], declared[j])
          /\ Free(declared, n) = f[m]
  BY FreeIs
<1>2. \A i, j \in 1..m : i < j => declared[i] < declared[j]
  BY DEF IsAscending
<1> DEFINE K == {j \in Nat : j <= m => f[j] >= n /\ \A i \in 1..j : f[j] # declared[i]}
<1>3. 0 \in K
  BY <1>1
<1>4. ASSUME NEW j \in Nat, j \in K PROVE j + 1 \in K
  <2> SUFFICES ASSUME j + 1 <= m
               PROVE  f[j + 1] >= n /\ \A i \in 1..(j + 1) : f[j + 1] # declared[i]
    OBVIOUS
  <2>1. j \in 0..m /\ j + 1 \in 1..m /\ (j + 1) - 1 = j /\ j <= m
    BY <1>0
  <2>2. f[j] \in Nat /\ declared[j + 1] \in Nat
    BY <1>0, <1>1, <2>1
  <2>3. f[j] >= n /\ \A i \in 1..j : f[j] # declared[i]
    BY <1>4, <2>1
  <2>4. f[j + 1] = IF f[j] = declared[j + 1] THEN f[j] + 1 ELSE f[j]
    BY <1>1, <2>1, Zenon DEF Passed
  <2>5. f[j + 1] >= n
    BY <2>2, <2>3, <2>4
  <2>6. ASSUME NEW i \in 1..(j + 1) PROVE f[j + 1] # declared[i]
    <3>1. i \in 1..m /\ declared[i] \in Nat
      BY <1>0, <2>1
    <3>2. CASE f[j] = declared[j + 1]
      <4>1. i = j + 1 \/ declared[i] < declared[j + 1]
        <5>1. i = j + 1 \/ i < j + 1
          OBVIOUS
        <5>2. QED
          BY <1>2, <2>1, <3>1, <5>1
      <4>2. QED
        BY <2>2, <2>4, <3>1, <3>2, <4>1
    <3>3. CASE f[j] # declared[j + 1]
      <4>1. i = j + 1 \/ i \in 1..j
        OBVIOUS
      <4>2. QED
        BY <2>3, <2>4, <3>3, <4>1
    <3>4. QED
      BY <3>2, <3>3
  <2>7. QED
    BY <2>5, <2>6
<1> HIDE DEF K
<1>5. \A j \in Nat : j \in K
  BY <1>3, <1>4, Upward
<1>6. f[m] >= n /\ \A i \in 1..m : f[m] # declared[i]
  BY <1>0, <1>5 DEF K
<1>7. f[m] \in Nat
  BY <1>0, <1>1
<1>8. QED
  BY <1>1, <1>6, <1>7

IsNumbers(syms, terms, f) ==
    f = [s \in 0..Len(terms) |->
            IF s = 0 THEN 257
            ELSE IF Chosen(syms, terms, s)
                 THEN Free(DeclaredValues(syms, terms), f[s - 1]) + 1
            ELSE f[s - 1]]

\* How AssignedValues goes on from the first number, 257.
AssignedFrom(syms, terms, f) ==
    LET declared == DeclaredValues(syms, terms)
    IN  /\ f[0] = 257
        /\ \A s \in 1..Len(terms) :
              f[s] = IF Chosen(syms, terms, s) THEN Free(declared, f[s - 1]) + 1
                     ELSE f[s - 1]
        /\ AssignedValues(syms, terms) =
              [s \in 1..Len(terms) |->
                  IF Chosen(syms, terms, s) THEN Free(declared, f[s - 1])
                  ELSE IF syms[terms[s]].value = UNDEFINED THEN 256
                  ELSE syms[terms[s]].value]

LEMMA AssignedAre ==
    ASSUME NEW syms, NEW terms, Len(terms) \in Nat, DOMAIN terms = 1..Len(terms),
           DeclaredValues(syms, terms) \in Seq(Nat),
           IsAscending(DeclaredValues(syms, terms))
    PROVE  \E f \in [0..Len(terms) -> Nat] : AssignedFrom(syms, terms, f)
<1> DEFINE m == Len(terms)
           declared == DeclaredValues(syms, terms)
           Step(s, v) == IF Chosen(syms, terms, s) THEN Free(declared, v) + 1 ELSE v
           st == [s \in Nat |-> [v \in Nat |-> Step(s, v)]]
           chosen == CHOOSE f : IsNumbers(syms, terms, f)
<1>1. m \in Nat /\ declared \in Seq(Nat) /\ IsAscending(declared)
  OBVIOUS
<1>2. \A s, v \in Nat : Step(s, v) \in Nat
  <2>1. \A v \in Nat : Free(declared, v) \in Nat
    BY FreeIsFree
  <2> HIDE DEF declared
  <2>2. ASSUME NEW s \in Nat, NEW v \in Nat PROVE Step(s, v) \in Nat
    <3>1. Free(declared, v) + 1 \in Nat
      <4>1. Free(declared, v) \in Nat
        BY <2>1, Zenon
      <4>2. QED
        BY <4>1
    <3>2. CASE Chosen(syms, terms, s)
      BY <3>1, <3>2, Zenon
    <3>3. CASE ~Chosen(syms, terms, s)
      BY <3>3, Zenon
    <3>4. QED
      BY <3>2, <3>3
  <2>3. QED
    BY <2>2, Zenon
<1>3. st \in [Nat -> [Nat -> Nat]]
  <2> HIDE DEF Step
  <2>1. QED
    BY <1>2
<1>4. PICK f \in [0..m -> Nat] : f[0] = 257 /\ \A k \in 1..m : f[k] = st[k][f[k - 1]]
  <2> DEFINE first == 257
  <2>1. first \in Nat
    OBVIOUS
  <2> HIDE DEF st, m, first
  <2>2. \E f \in [0..m -> Nat] : IsRun(first, st, m, f)
    BY <1>1, <1>3, <2>1, Recursion, Zenon
  <2>3. QED
    BY <2>2 DEF IsRun, first
<1>5. IsNumbers(syms, terms, f)
  <2>1. ASSUME NEW s \in 0..m PROVE f[s] = IF s = 0 THEN 257 ELSE Step(s, f[s - 1])
    <3> HIDE DEF Step
    <3>1. CASE s = 0
      BY <1>4, <3>1
    <3>2. CASE s # 0
      <4>1. s \in 1..m /\ s \in Nat /\ s - 1 \in 0..m
        BY <1>1, <3>2
      <4>2. f[s] = st[s][f[s - 1]] /\ f[s - 1] \in Nat
        BY <1>4, <4>1
      <4>3. QED
        BY <3>2, <4>1, <4>2
    <3>3. QED
      BY <3>1, <3>2
  <2>2. f = [s \in 0..m |-> f[s]]
    BY <1>4
  <2>3. f = [s \in 0..m |-> IF s = 0 THEN 257 ELSE Step(s, f[s - 1])]
    <3> HIDE DEF Step
    <3>1. QED
      BY <2>1, <2>2
  <2>4. QED
    BY <2>3, Zenon DEF IsNumbers
<1>6. IsNumbers(syms, terms, chosen)
  BY <1>5, Zenon
<1>7. AssignedValues(syms, terms) =
          [s \in 1..m |->
             IF Chosen(syms, terms, s) THEN Free(declared, chosen[s - 1])
             ELSE IF syms[terms[s]].value = UNDEFINED THEN 256
             ELSE syms[terms[s]].value]
  BY Zenon DEF AssignedValues, IsNumbers
<1> HIDE DEF chosen
<1>8. chosen = [s \in 0..m |-> IF s = 0 THEN 257 ELSE Step(s, chosen[s - 1])]
  BY <1>6, Zenon DEF IsNumbers
<1> HIDE DEF Step
<1>9. chosen[0] = 257 /\ \A s \in 1..m : chosen[s] = Step(s, chosen[s - 1])
  <2>1. 0 \in 0..m /\ \A s \in 1..m : s \in 0..m /\ s # 0
    BY <1>1
  <2> HIDE DEF m
  <2>2. QED
    BY <1>8, <2>1
<1>10. \A s \in 0..m : chosen[s] \in Nat
  <2> DEFINE K == {s \in Nat : s <= m => chosen[s] \in Nat}
  <2>1. 0 \in K
    BY <1>9
  <2>2. ASSUME NEW s \in Nat, s \in K PROVE s + 1 \in K
    <3> SUFFICES ASSUME s + 1 <= m PROVE chosen[s + 1] \in Nat
      OBVIOUS
    <3>1. s + 1 \in 1..m /\ (s + 1) - 1 = s /\ s + 1 \in Nat
      BY <1>1
    <3>2. chosen[s] \in Nat
      BY <1>1, <2>2
    <3>3. chosen[s + 1] = Step(s + 1, chosen[s])
      BY <1>9, <3>1
    <3>4. QED
      BY <1>2, <3>1, <3>2, <3>3
  <2> HIDE DEF K
  <2>3. \A s \in Nat : s \in K
    BY <2>1, <2>2, Upward
  <2>4. QED
    BY <1>1, <2>3 DEF K
<1>11. chosen \in [0..m -> Nat]
  <2> HIDE DEF m
  <2>1. chosen = [s \in 0..m |-> chosen[s]]
    BY <1>8
  <2>2. QED
    BY <1>10, <2>1
<1>12. QED
  BY <1>7, <1>9, <1>11, Zenon DEF Step, AssignedFrom

\* The numbers from which the tokens without one are given theirs never go down.
LEMMA NumbersGrow ==
    ASSUME NEW m \in Nat, NEW f \in [0..m -> Nat], \A s \in 1..m : f[s - 1] <= f[s]
    PROVE  \A s, t \in 0..m : s <= t => f[s] <= f[t]
<1> DEFINE K == {t \in Nat : t <= m => \A s \in 0..t : f[s] <= f[t]}
<1>1. 0 \in K
  <2>1. \A s \in 0..0 : s = 0
    OBVIOUS
  <2>2. f[0] \in Nat
    OBVIOUS
  <2>3. QED
    BY <2>1, <2>2
<1>2. ASSUME NEW t \in Nat, t \in K PROVE t + 1 \in K
  <2> SUFFICES ASSUME t + 1 <= m, NEW s \in 0..(t + 1) PROVE f[s] <= f[t + 1]
    OBVIOUS
  <2>1. t \in 0..m /\ t + 1 \in 0..m /\ t + 1 \in 1..m /\ (t + 1) - 1 = t /\ s \in 0..m
    OBVIOUS
  <2>2. f[t] \in Nat /\ f[t + 1] \in Nat /\ f[s] \in Nat /\ f[t] <= f[t + 1]
    BY <2>1
  <2>3. CASE s = t + 1
    BY <2>2, <2>3
  <2>4. CASE s # t + 1
    <3>1. s \in 0..t /\ t <= m
      BY <2>4
    <3>2. f[s] <= f[t]
      BY <1>2, <3>1
    <3>3. QED
      BY <2>2, <3>2
  <2>5. QED
    BY <2>3, <2>4
<1> HIDE DEF K
<1>3. \A t \in Nat : t \in K
  BY <1>1, <1>2, Upward
<1>4. ASSUME NEW s \in 0..m, NEW t \in 0..m, s <= t PROVE f[s] <= f[t]
  <2>1. t \in Nat /\ t <= m /\ s \in 0..t
    BY <1>4
  <2>2. QED
    BY <1>3, <2>1 DEF K
<1>5. QED
  BY <1>4

\* The symbol table: its buckets, with the names and associativities a file has.
Names == {"error", "$$"} \cup {lx.name : lx \in Lexemes}
           \cup UNION {{d.name : d \in Range(lx.names)} : lx \in Lexemes}
Assocs == {"TOKEN"} \cup {lx.assoc : lx \in Lexemes}
Buckets == [name : Names, value : TokenNumbers, prec : Nat,
            class : {"UNKNOWN", "TERM", "NONTERM"}, assoc : Assocs]

Tokens(syms) == {i \in DOMAIN syms : syms[i].class = "TERM"}

LEMMA SeqSubset == ASSUME NEW S, NEW T, S \subseteq T, NEW s \in Seq(S) PROVE s \in Seq(T)
<1>1. Len(s) \in Nat /\ s = [k \in 1..Len(s) |-> s[k]] /\ \A k \in 1..Len(s) : s[k] \in S
  OBVIOUS
<1>2. s \in [1..Len(s) -> T]
  BY <1>1
<1>3. QED
  BY <1>1, <1>2

\* The tokens are listed in the order of their buckets.
LEMMA TermsAre ==
    ASSUME NEW syms \in Seq(Buckets)
    PROVE  LET terms == Places(Tokens(syms))
           IN  /\ terms \in Seq(1..Len(syms)) /\ Len(terms) \in Nat
               /\ DOMAIN terms = 1..Len(terms) /\ IsAscending(terms)
<1> DEFINE S == Tokens(syms)
           terms == Places(S)
<1>1. S \subseteq 1..Len(syms) /\ Len(syms) \in Nat
  BY DEF Tokens
<1>2. 1..Len(syms) \subseteq Nat
  BY <1>1
<1>3. IsFiniteSet(S)
  <2>1. IsFiniteSet(1..Len(syms))
    BY <1>1, FS_Interval
  <2>2. QED
    BY <1>1, <2>1, FS_Subset
<1> HIDE DEF S
<1>4. /\ terms \in Seq(S)
      /\ \A i, j \in 1..Len(terms) : i < j => terms[i] < terms[j]
  BY <1>1, <1>2, <1>3, PlacesAre
<1> HIDE DEF terms
<1>5. terms \in Seq(1..Len(syms)) /\ Len(terms) \in Nat /\ DOMAIN terms = 1..Len(terms)
  <2>1. terms \in Seq(1..Len(syms))
    BY <1>1, <1>4, SeqSubset, Zenon
  <2>2. QED
    BY <2>1
<1>6. QED
  BY <1>4, <1>5 DEF IsAscending, terms, S

\* The declared numbers are sorted and complete.
LEMMA DeclaredAre ==
    ASSUME NEW syms \in Seq(Buckets), NEW terms \in Seq(1..Len(syms))
    PROVE  LET declared == DeclaredValues(syms, terms)
           IN  /\ declared \in Seq(Nat) /\ IsAscending(declared)
               /\ \A t \in 1..Len(terms) : syms[terms[t]].value > 256 =>
                     \E k \in 1..Len(declared) : declared[k] = syms[terms[t]].value
<1> DEFINE all == {syms[i].value : i \in Range(terms)}
           S == all \ (UNDEFINED..256)
<1>1. Range(terms) \subseteq 1..Len(syms) /\ \A t \in 1..Len(terms) : terms[t] \in Range(terms)
  BY DEF Range
<1>2. \A i \in 1..Len(syms) : syms[i].value \in TokenNumbers
  <2>1. \A i \in 1..Len(syms) : syms[i] \in Buckets
    OBVIOUS
  <2>2. \A b \in Buckets : b.value \in TokenNumbers
    BY DEF Buckets
  <2>3. QED
    BY <2>1, <2>2
<1>3. all \subseteq TokenNumbers
  BY <1>1, <1>2
<1>4. S \subseteq Nat
  <2>1. UNDEFINED \in UNDEFINED..256
    BY DEF UNDEFINED
  <2>2. \A v \in TokenNumbers : v # UNDEFINED => v \in Nat
    <3> SUFFICES ASSUME NEW v \in TokenNumbers, v # UNDEFINED PROVE v \in Nat
      OBVIOUS
    <3>1. v \in Int /\ -1 <= v /\ v # -1
      BY DEF TokenNumbers, UNDEFINED
    <3>2. QED
      BY <3>1
  <2> HIDE DEF all
  <2>3. QED
    BY <1>3, <2>1, <2>2
<1>5. IsFiniteSet(S)
  <2>1. IsFiniteSet(1..Len(syms))
    BY FS_Interval
  <2>2. IsFiniteSet(Range(terms))
    BY <1>1, <2>1, FS_Subset
  <2>3. IsFiniteSet(all)
    <3> DEFINE val == [i \in Range(terms) |-> syms[i].value]
    <3>1. val \in Surjection(Range(terms), all)
      <4>1. val \in [Range(terms) -> all]
        OBVIOUS
      <4>2. \A v \in all : \E i \in Range(terms) : val[i] = v
        OBVIOUS
      <4>3. QED
        BY <4>1, <4>2 DEF Surjection
    <3> HIDE DEF val, all
    <3>2. QED
      BY <2>2, <3>1, FS_Surjection
  <2> HIDE DEF all
  <2>4. S \subseteq all
    OBVIOUS
  <2> HIDE DEF S
  <2>5. QED
    BY <2>3, <2>4, FS_Subset
<1> DEFINE declared == DeclaredValues(syms, terms)
<1>6. declared = Places(S)
  BY DEF DeclaredValues
<1>7. ASSUME NEW t \in 1..Len(terms), syms[terms[t]].value > 256
      PROVE  syms[terms[t]].value \in S
  <2>1. syms[terms[t]].value \in all
    BY <1>1
  <2>2. syms[terms[t]].value \notin UNDEFINED..256
    BY <1>7
  <2> HIDE DEF all
  <2>3. QED
    BY <2>1, <2>2
<1> HIDE DEF S
<1>8. /\ declared \in Seq(S)
      /\ \A i, j \in 1..Len(declared) : i < j => declared[i] < declared[j]
      /\ \A x \in S : \E k \in 1..Len(declared) : declared[k] = x
  BY <1>4, <1>5, <1>6, PlacesAre
<1> HIDE DEF declared
<1>9. declared \in Seq(Nat)
  BY <1>4, <1>8, SeqSubset, Zenon
<1>10. QED
  BY <1>7, <1>8, <1>9 DEF IsAscending, declared

\* A number that pack_symbols chooses is chosen once and declared nowhere.
LEMMA AssignedDistinct ==
    ASSUME NEW syms \in Seq(Buckets), NEW terms \in Seq(1..Len(syms))
    PROVE  \A s, t \in 1..Len(terms) : s # t /\ Chosen(syms, terms, s) =>
               AssignedValues(syms, terms)[s] # AssignedValues(syms, terms)[t]
<1> DEFINE m == Len(terms)
           declared == DeclaredValues(syms, terms)
           value == AssignedValues(syms, terms)
<1>1. m \in Nat /\ DOMAIN terms = 1..m
  OBVIOUS
<1>2. /\ declared \in Seq(Nat) /\ IsAscending(declared)
      /\ \A t \in 1..m : syms[terms[t]].value > 256 =>
            \E k \in 1..Len(declared) : declared[k] = syms[terms[t]].value
  BY DeclaredAre
<1>3. PICK f \in [0..m -> Nat] : AssignedFrom(syms, terms, f)
  BY <1>1, <1>2, AssignedAre
<1>a. /\ f[0] = 257
      /\ \A s \in 1..m :
            f[s] = IF Chosen(syms, terms, s) THEN Free(declared, f[s - 1]) + 1
                   ELSE f[s - 1]
      /\ value = [s \in 1..m |->
            IF Chosen(syms, terms, s) THEN Free(declared, f[s - 1])
            ELSE IF syms[terms[s]].value = UNDEFINED THEN 256
            ELSE syms[terms[s]].value]
  BY <1>3 DEF AssignedFrom
<1> HIDE DEF declared, value, m
<1>4. ASSUME NEW s \in 1..m
      PROVE  /\ f[s - 1] \in Nat /\ f[s] \in Nat /\ Free(declared, f[s - 1]) \in Nat
             /\ Free(declared, f[s - 1]) >= f[s - 1]
             /\ \A k \in 1..Len(declared) : Free(declared, f[s - 1]) # declared[k]
  <2>1. s - 1 \in 0..m /\ s \in 0..m
    BY <1>1
  <2>2. f[s - 1] \in Nat /\ f[s] \in Nat
    BY <1>3, <2>1
  <2>3. QED
    BY <1>2, <2>2, FreeIsFree
<1>5. ASSUME NEW s \in 1..m
      PROVE  /\ Chosen(syms, terms, s) => f[s] = Free(declared, f[s - 1]) + 1
                                          /\ value[s] = Free(declared, f[s - 1])
             /\ ~Chosen(syms, terms, s) => f[s] = f[s - 1]
  BY <1>a, Zenon
<1>6. \A s \in 1..m : f[s - 1] <= f[s]
  <2> SUFFICES ASSUME NEW s \in 1..m PROVE f[s - 1] <= f[s]
    OBVIOUS
  <2>1. f[s] = Free(declared, f[s - 1]) + 1 \/ f[s] = f[s - 1]
    BY <1>5, Zenon
  <2>2. QED
    BY <1>4, <2>1
<1>7. \A s, t \in 0..m : s <= t => f[s] <= f[t]
  BY <1>1, <1>6, NumbersGrow
<1>8. ASSUME NEW s \in 1..m, NEW t \in 1..m, s < t,
             Chosen(syms, terms, s), Chosen(syms, terms, t)
      PROVE  value[s] < value[t]
  <2>1. s \in 0..m /\ t - 1 \in 0..m /\ s <= t - 1
    BY <1>1, <1>8
  <2>2. f[s] <= f[t - 1]
    BY <1>7, <2>1
  <2>3. f[s] = value[s] + 1 /\ value[s] \in Nat /\ value[t] \in Nat /\ f[t - 1] <= value[t]
    BY <1>4, <1>5, <1>8
  <2>4. f[s] \in Nat /\ f[t - 1] \in Nat
    BY <1>4
  <2>5. QED
    BY <2>2, <2>3, <2>4
<1>9. ASSUME NEW s \in 1..m, NEW t \in 1..m, Chosen(syms, terms, s),
             ~Chosen(syms, terms, t)
      PROVE  value[s] # value[t]
  <2>1. /\ value[s] = Free(declared, f[s - 1])
        /\ value[t] = IF syms[terms[t]].value = UNDEFINED THEN 256 ELSE syms[terms[t]].value
    BY <1>a, <1>9, Zenon
  <2>2. value[s] \in Nat /\ value[s] >= 257
    <3>1. 0 \in 0..m /\ s - 1 \in 0..m /\ 0 <= s - 1
      BY <1>1
    <3>2. 257 <= f[s - 1]
      <4>1. f[0] <= f[s - 1]
        BY <1>7, <3>1
      <4>2. f[0] = 257
        BY <1>a
      <4>3. QED
        BY <4>1, <4>2
    <3>3. /\ f[s - 1] \in Nat /\ Free(declared, f[s - 1]) \in Nat
          /\ Free(declared, f[s - 1]) >= f[s - 1]
      BY <1>4, Zenon
    <3>4. QED
      BY <2>1, <3>2, <3>3
  <2>3. CASE syms[terms[t]].value = UNDEFINED
    BY <2>1, <2>2, <2>3
  <2>4. CASE syms[terms[t]].value # UNDEFINED
    <3>1. value[t] = syms[terms[t]].value
      BY <2>1, <2>4, Zenon
    <3>2. CASE value[t] > 256
      <4>1. PICK k \in 1..Len(declared) : declared[k] = value[t]
        BY <1>2, <3>1, <3>2
      <4>2. QED
        BY <1>4, <2>1, <4>1
    <3>3. CASE ~(value[t] > 256)
      BY <2>2, <3>3
    <3>4. QED
      BY <3>2, <3>3
  <2>5. QED
    BY <2>3, <2>4
<1>10. ASSUME NEW s \in 1..m, NEW t \in 1..m, s # t, Chosen(syms, terms, s)
       PROVE  value[s] # value[t]
  <2>1. CASE ~Chosen(syms, terms, t)
    BY <1>9, <1>10, <2>1, Zenon
  <2>2. CASE Chosen(syms, terms, t) /\ s < t
    <3>1. value[s] < value[t] /\ value[s] \in Nat
      BY <1>4, <1>5, <1>8, <1>10, <2>2
    <3>2. QED
      BY <3>1
  <2>3. CASE Chosen(syms, terms, t) /\ t < s
    <3>1. value[t] < value[s] /\ value[t] \in Nat
      BY <1>4, <1>5, <1>8, <1>10, <2>3
    <3>2. QED
      BY <3>1
  <2>4. s < t \/ t < s
    BY <1>10
  <2>5. QED
    BY <2>1, <2>2, <2>3, <2>4
<1>11. QED
  BY <1>10, Zenon DEF m, value

\* What pack_symbols and pack_grammar leave of it in the packed grammar.
LEMMA PackedTokens ==
    ASSUME NEW syms
    PROVE  LET terms == Places(Tokens(syms))
               p == pack_grammar(syms, pack_symbols(syms))
           IN  /\ p.ntokens = Len(terms) + 1
               /\ p.bucket = pack_symbols(syms).bucket
               /\ p.value = pack_symbols(syms).value
BY Zenon DEF pack_grammar, pack_symbols, Tokens

-----------------------------------------------------------------------------
(* The symbol table *)

Tables == Seq(Buckets)

LEMMA BucketFields ==
    ASSUME NEW b \in Buckets
    PROVE  /\ b.value \in TokenNumbers
           /\ \A c \in {"UNKNOWN", "TERM", "NONTERM"} : [b EXCEPT !.class = c] \in Buckets
           /\ \A v \in TokenNumbers : [b EXCEPT !.value = v] \in Buckets
           /\ \A a \in Assocs, p \in Nat : [b EXCEPT !.assoc = a, !.prec = p] \in Buckets
BY DEF Buckets

LEMMA MadeBucket ==
    ASSUME NEW name \in Names, NEW c \in {"UNKNOWN", "TERM", "NONTERM"}
    PROVE  make_bucket(name) \in Buckets /\ [make_bucket(name) EXCEPT !.class = c] \in Buckets
<1>1. UNDEFINED \in TokenNumbers
  BY DEF TokenNumbers, UNDEFINED, MAXSHORT
<1>2. "TOKEN" \in Assocs
  BY DEF Assocs
<1>3. make_bucket(name) \in Buckets
  BY <1>1, <1>2 DEF make_bucket, Buckets
<1>4. QED
  BY <1>3, BucketFields

LEMMA TablePut ==
    ASSUME NEW syms \in Tables, NEW b, NEW bp, bp \in DOMAIN syms => b \in Buckets
    PROVE  [syms EXCEPT ![bp] = b] \in Tables
<1> DEFINE t == [syms EXCEPT ![bp] = b]
<1>1. Len(syms) \in Nat /\ \A i \in 1..Len(syms) : syms[i] \in Buckets
  BY DEF Tables
<1>2. t = [i \in 1..Len(syms) |-> IF i = bp THEN b ELSE syms[i]]
  BY DEF Tables
<1>3. t \in [1..Len(syms) -> Buckets]
  <2>1. DOMAIN syms = 1..Len(syms)
    BY DEF Tables
  <2>2. QED
    BY <1>1, <1>2, <2>1
<1> HIDE DEF t
<1>4. t \in Seq(Buckets)
  BY <1>1, <1>3
<1>5. QED
  BY <1>4 DEF t, Tables

LEMMA TableClass ==
    ASSUME NEW syms \in Tables, NEW bp
    PROVE  [syms EXCEPT ![bp].class = "NONTERM"] \in Tables
<1> DEFINE t == [syms EXCEPT ![bp].class = "NONTERM"]
<1>1. Len(syms) \in Nat /\ \A i \in 1..Len(syms) : syms[i] \in Buckets
  BY DEF Tables
<1>2. t = [i \in 1..Len(syms) |->
              IF i = bp THEN [syms[i] EXCEPT !.class = "NONTERM"] ELSE syms[i]]
  BY DEF Tables
<1>3. \A i \in 1..Len(syms) : [syms[i] EXCEPT !.class = "NONTERM"] \in Buckets
  BY <1>1, BucketFields
<1>4. t \in [1..Len(syms) -> Buckets]
  BY <1>1, <1>2, <1>3
<1> HIDE DEF t
<1>5. t \in Seq(Buckets)
  BY <1>1, <1>4
<1>6. QED
  BY <1>5 DEF t, Tables

LEMMA Lookup ==
    ASSUME NEW syms \in Tables, NEW name \in Names
    PROVE  LET found == lookup(syms, name)
           IN  /\ found \in Tables
               /\ BucketOf(found, name) \in DOMAIN found
               /\ found[BucketOf(found, name)] \in Buckets
<1> DEFINE found == lookup(syms, name)
           bp == BucketOf(found, name)
<1>1. found \in Tables /\ \E i \in DOMAIN found : found[i].name = name
  <2>1. CASE \E i \in DOMAIN syms : syms[i].name = name
    BY <2>1 DEF lookup
  <2>2. CASE ~\E i \in DOMAIN syms : syms[i].name = name
    <3>1. found = Append(syms, make_bucket(name))
      BY <2>2 DEF lookup
    <3>2. make_bucket(name) \in Buckets /\ make_bucket(name).name = name
      BY MadeBucket DEF make_bucket
    <3> HIDE DEF found
    <3>3. /\ found \in Seq(Buckets) /\ Len(syms) + 1 \in DOMAIN found
          /\ found[Len(syms) + 1] = make_bucket(name)
      BY <3>1, <3>2 DEF Tables
    <3>4. QED
      BY <3>2, <3>3 DEF Tables
  <2>3. QED
    BY <2>1, <2>2
<1> HIDE DEF found
<1>2. bp \in DOMAIN found
  BY <1>1, Zenon DEF BucketOf
<1> HIDE DEF bp
<1>3. found[bp] \in Buckets
  BY <1>1, <1>2 DEF Tables
<1>4. QED
  BY <1>1, <1>2, <1>3 DEF found, bp

LEMMA GetSymbol ==
    ASSUME NEW syms \in Tables, NEW lx, lx.name \in Names, lx.code \in TokenNumbers
    PROVE  get_symbol(syms, lx) \in Tables
<1> DEFINE found == lookup(syms, lx.name)
           bp == BucketOf(found, lx.name)
           b == found[bp]
           v == IF b.value = UNDEFINED THEN lx.code ELSE b.value
           nb == [b EXCEPT !.class = "TERM", !.value = v]
<1>1. found \in Tables /\ b \in Buckets
  BY Lookup
<1> HIDE DEF found, bp
<1>2. v \in TokenNumbers
  BY <1>1, BucketFields
<1> HIDE DEF v
<1>3. nb \in Buckets
  BY <1>1, <1>2 DEF Buckets
<1> HIDE DEF nb
<1>4. [found EXCEPT ![bp] = nb] \in Tables
  BY <1>1, <1>3, TablePut
<1>5. nb = [b EXCEPT !.class = "TERM", !.value = IF @ = UNDEFINED THEN lx.code ELSE @]
  BY <1>1 DEF nb, v, Buckets
<1>6. get_symbol(syms, lx) = IF lx.code = UNDEFINED THEN found ELSE [found EXCEPT ![bp] = nb]
  BY <1>5 DEF get_symbol, found, bp
<1>7. QED
  BY <1>1, <1>4, <1>6

LEMMA Declared ==
    ASSUME NEW syms \in Tables, NEW d, d.name \in Names, {d.code, d.number} \subseteq TokenNumbers,
           NEW assoc \in Assocs, NEW pr \in Nat
    PROVE  DeclaredToken(syms, d, assoc, pr) \in Tables
<1> DEFINE found == get_symbol(syms, d)
           bp == BucketOf(found, d.name)
           b == [found[bp] EXCEPT !.class = "TERM"]
           ranked == IF assoc = "TOKEN" THEN b ELSE [b EXCEPT !.assoc = assoc, !.prec = pr]
           nb == IF d.number = UNDEFINED THEN ranked ELSE [ranked EXCEPT !.value = d.number]
<1>1. found \in Tables
  BY GetSymbol
<1>2. DeclaredToken(syms, d, assoc, pr) = [found EXCEPT ![bp] = nb]
  BY DEF DeclaredToken
<1> HIDE DEF found, bp
<1>3. ASSUME bp \in DOMAIN found PROVE nb \in Buckets
  <2>1. found[bp] \in Buckets
    BY <1>1, <1>3 DEF Tables
  <2>2. b \in Buckets
    BY <2>1, BucketFields
  <2> HIDE DEF b
  <2>3. ranked \in Buckets
    BY <2>2, BucketFields
  <2> HIDE DEF ranked
  <2>4. [ranked EXCEPT !.value = d.number] \in Buckets
    BY <2>3, BucketFields
  <2>5. QED
    BY <2>3, <2>4
<1> HIDE DEF nb
<1>4. bp \in DOMAIN found => nb \in Buckets
  BY <1>3
<1>5. [found EXCEPT ![bp] = nb] \in Tables
  BY <1>1, <1>4, TablePut, Zenon
<1>6. QED
  BY <1>2, <1>5

IsAfter(syms, names, assoc, pr, f) ==
    f = [k \in 0..Len(names) |->
            IF k = 0 THEN syms ELSE DeclaredToken(f[k - 1], names[k], assoc, pr)]

LEMMA DeclaredAll ==
    ASSUME NEW syms \in Tables, NEW names, names \in Seq(Range(names)),
           \A d \in Range(names) : d.name \in Names /\ {d.code, d.number} \subseteq TokenNumbers,
           NEW assoc \in Assocs, NEW pr \in Nat
    PROVE  DeclaredTokens(syms, names, assoc, pr) \in Tables
<1> DEFINE m == Len(names)
           Step(k, v) == IF k \in 1..m THEN DeclaredToken(v, names[k], assoc, pr) ELSE v
           st == [k \in Nat |-> [v \in Tables |-> Step(k, v)]]
           chosen == CHOOSE f : IsAfter(syms, names, assoc, pr, f)
<1>1. m \in Nat /\ \A k \in 1..m : names[k] \in Range(names)
  OBVIOUS
<1>2. ASSUME NEW k \in 1..m, NEW v \in Tables PROVE DeclaredToken(v, names[k], assoc, pr) \in Tables
  <2>1. names[k].name \in Names /\ {names[k].code, names[k].number} \subseteq TokenNumbers
    BY <1>1
  <2>2. QED
    BY <2>1, Declared
<1>3. st \in [Nat -> [Tables -> Tables]]
  <2>1. ASSUME NEW k \in Nat, NEW v \in Tables PROVE Step(k, v) \in Tables
    BY <1>2
  <2> HIDE DEF Step
  <2>2. QED
    BY <2>1
<1>4. PICK f \in [0..m -> Tables] : IsRun(syms, st, m, f)
  <2> HIDE DEF st, m
  <2>1. QED
    BY <1>1, <1>3, Recursion
<1>5. IsAfter(syms, names, assoc, pr, f)
  <2>1. ASSUME NEW k \in 0..m
        PROVE  f[k] = IF k = 0 THEN syms ELSE DeclaredToken(f[k - 1], names[k], assoc, pr)
    <3>1. CASE k = 0
      BY <1>4, <3>1 DEF IsRun
    <3>2. CASE k # 0
      <4>1. k \in 1..m /\ k \in Nat /\ k - 1 \in 0..m
        BY <1>1, <3>2
      <4>2. f[k] = st[k][f[k - 1]] /\ f[k - 1] \in Tables
        BY <1>4, <4>1 DEF IsRun
      <4>3. QED
        BY <3>2, <4>1, <4>2
    <3>3. QED
      BY <3>1, <3>2
  <2>2. f = [k \in 0..m |-> f[k]]
    BY <1>4
  <2>3. QED
    BY <2>1, <2>2 DEF IsAfter
<1>6. IsAfter(syms, names, assoc, pr, chosen)
  BY <1>5, Zenon
<1>7. DeclaredTokens(syms, names, assoc, pr) = chosen[m]
  BY Zenon DEF DeclaredTokens, IsAfter
<1> HIDE DEF chosen
<1>8. \A k \in 0..m :
          chosen[k] = IF k = 0 THEN syms ELSE DeclaredToken(chosen[k - 1], names[k], assoc, pr)
  BY <1>6, Zenon DEF IsAfter
<1> DEFINE K == {k \in Nat : k <= m => chosen[k] \in Tables}
<1>9. 0 \in K
  <2>1. 0 \in 0..m
    BY <1>1
  <2>2. chosen[0] = syms
    BY <1>8, <2>1, Zenon
  <2>3. QED
    BY <2>2
<1>10. ASSUME NEW k \in Nat, k \in K PROVE k + 1 \in K
  <2> SUFFICES ASSUME k + 1 <= m PROVE chosen[k + 1] \in Tables
    OBVIOUS
  <2>1. k + 1 \in 1..m /\ k + 1 \in 0..m /\ k + 1 # 0 /\ (k + 1) - 1 = k /\ k <= m
    BY <1>1
  <2>2. chosen[k + 1] = DeclaredToken(chosen[k], names[k + 1], assoc, pr)
    BY <1>8, <2>1
  <2>3. chosen[k] \in Tables
    BY <1>10, <2>1
  <2>4. QED
    BY <1>2, <2>1, <2>2, <2>3
<1> HIDE DEF K
<1>11. \A k \in Nat : k \in K
  BY <1>9, <1>10, Upward
<1>12. QED
  BY <1>1, <1>7, <1>11 DEF K

LEMMA Checked == ASSUME NEW syms \in Tables PROVE check_symbols(syms) \in Tables
<1> DEFINE t == check_symbols(syms)
<1>1. Len(syms) \in Nat /\ DOMAIN syms = 1..Len(syms) /\ \A i \in 1..Len(syms) : syms[i] \in Buckets
  BY DEF Tables
<1>2. \A i \in 1..Len(syms) : [syms[i] EXCEPT !.class = "TERM"] \in Buckets
  BY <1>1, BucketFields
<1>3. t \in [1..Len(syms) -> Buckets]
  BY <1>1, <1>2 DEF check_symbols
<1> HIDE DEF t
<1>4. t \in Seq(Buckets)
  BY <1>1, <1>3
<1>5. QED
  BY <1>4 DEF t, Tables

LEMMA EmptyRuleTable ==
    ASSUME NEW syms \in Tables
    PROVE  WithEmptyRule(syms).syms \in Tables
<1>1. "$$" \in Names
  BY DEF Names
<1>2. [make_bucket("$$") EXCEPT !.class = "NONTERM"] \in Buckets
  BY <1>1, MadeBucket
<1>3. Append(syms, [make_bucket("$$") EXCEPT !.class = "NONTERM"]) \in Tables
  BY <1>2 DEF Tables
<1>4. insert_empty_rule(syms).syms = Append(syms, [make_bucket("$$") EXCEPT !.class = "NONTERM"])
  BY DEF insert_empty_rule
<1>5. QED
  BY <1>3, <1>4 DEF WithEmptyRule

\* The first symbols after $end are the tokens, with their buckets and numbers.
LEMMA PackedPlaces ==
    ASSUME NEW syms \in Tables, NEW s \in 1..Len(Places(Tokens(syms)))
    PROVE  /\ pack_symbols(syms).bucket[s] = Places(Tokens(syms))[s]
           /\ pack_symbols(syms).value[s] = AssignedValues(syms, Places(Tokens(syms)))[s]
<1> DEFINE terms == Places(Tokens(syms))
           rest == {i \in DOMAIN syms : syms[i].class # "TERM" /\ i # goal}
           vars == <<goal>> \o Places(rest)
           last == ((Len(terms) + 1) + 1 + Len(vars)) - 1
<1>1. Len(terms) \in Nat
  BY TermsAre DEF Tables
<1>2. Len(vars) \in Nat
  <2>1. rest \subseteq 1..Len(syms) /\ Len(syms) \in Nat /\ 1..Len(syms) \subseteq Nat
    BY DEF Tables
  <2> HIDE DEF rest
  <2>2. IsFiniteSet(rest)
    <3>1. IsFiniteSet(1..Len(syms))
      BY <2>1, FS_Interval
    <3>2. QED
      BY <2>1, <3>1, FS_Subset
  <2>3. Places(rest) \in Seq(rest)
    BY <2>1, <2>2, PlacesAre
  <2>4. IsSeq(Places(rest)) /\ IsSeq(<<goal>>)
    BY <2>3, SeqOfOne DEF IsSeq
  <2>5. IsSeq(vars)
    BY <2>4, SeqConcat
  <2>6. QED
    BY <2>5, SeqLength
<1>3. s \in 0..last /\ s # 0 /\ s # Len(terms) + 1 /\ s < Len(terms) + 1
  <2> HIDE DEF terms, vars
  <2>1. s \in 1..Len(terms)
    BY DEF terms
  <2>2. QED
    BY <1>1, <1>2, <2>1
<1>4. pack_symbols(syms).bucket = [k \in 0..last |->
          IF k \in {0, Len(terms) + 1} THEN 0
          ELSE IF k < Len(terms) + 1 THEN terms[k] ELSE vars[k - (Len(terms) + 1)]]
  BY Zenon DEF pack_symbols, Tokens
<1>5. pack_symbols(syms).value = [k \in 0..last |->
          IF k = 0 THEN 0
          ELSE IF k < Len(terms) + 1 THEN AssignedValues(syms, terms)[k]
          ELSE k - (Len(terms) + 1) - 1]
  BY Zenon DEF pack_symbols, Tokens
<1> HIDE DEF terms, vars, last
<1>6. /\ pack_symbols(syms).bucket[s] = terms[s]
      /\ pack_symbols(syms).value[s] = AssignedValues(syms, terms)[s]
  BY <1>3, <1>4, <1>5
<1>7. QED
  BY <1>6 DEF terms

DistinctNumbers ==
    \A s, t \in 1..(g.ntokens - 1) :
        s # t /\ g.bucket[s] # 1 /\ symbols[g.bucket[s]].value = UNDEFINED =>
            g.value[s] # g.value[t]

\* The inductive invariant: what the symbol table holds while the file is read,
\* and the numbers once it is packed.
TokensInv ==
    /\ input \in Seq(Lexemes) /\ symbols \in Tables /\ prec \in Nat
    /\ part \notin ReaderPasses => DistinctNumbers

LEMMA PackDistinct ==
    ASSUME symbols \in Tables, symbols' = check_symbols(symbols),
           g' = pack_grammar(check_symbols(symbols), pack_symbols(check_symbols(symbols)))
    PROVE  DistinctNumbers'
<1> DEFINE syms == check_symbols(symbols)
           terms == Places(Tokens(syms))
           p == pack_symbols(syms)
           value == AssignedValues(syms, terms)
<1>1. syms \in Tables
  BY Checked
<1>2. g'.ntokens = Len(terms) + 1 /\ g'.bucket = p.bucket /\ g'.value = p.value
  BY PackedTokens, Zenon
<1> HIDE DEF syms
<1>3. terms \in Seq(1..Len(syms)) /\ Len(terms) \in Nat
  BY <1>1, TermsAre DEF Tables
<1>4. \A s \in 1..Len(terms) : p.bucket[s] = terms[s] /\ p.value[s] = value[s]
  BY <1>1, PackedPlaces
<1> HIDE DEF p
<1>5. \A s, t \in 1..Len(terms) : s # t /\ Chosen(syms, terms, s) => value[s] # value[t]
  BY <1>1, <1>3, AssignedDistinct DEF Tables
<1> HIDE DEF terms, value
<1>6. ASSUME NEW s \in 1..Len(terms), NEW t \in 1..Len(terms), s # t,
             terms[s] # 1, syms[terms[s]].value = UNDEFINED
      PROVE  p.value[s] # p.value[t]
  <2>1. Chosen(syms, terms, s)
    BY <1>6 DEF Chosen
  <2>2. QED
    BY <1>4, <1>5, <1>6, <2>1
<1>7. g'.ntokens - 1 = Len(terms) /\ symbols' = syms
  BY <1>2, <1>3 DEF syms
<1>8. QED
  BY <1>2, <1>4, <1>6, <1>7 DEF DistinctNumbers

LEMMA NextLexeme ==
    ASSUME input \in Seq(Lexemes), input # <<>>
    PROVE  /\ Next1 \in Lexemes /\ Tail(input) \in Seq(Lexemes)
           /\ Next1.name \in Names /\ Next1.assoc \in Assocs
           /\ Next1.k \in {"symbol", "lhs", "prec"} => Next1.code \in TokenNumbers
           /\ Next1.k = "declare" =>
                 /\ Next1.names \in Seq(Range(Next1.names))
                 /\ \A d \in Range(Next1.names) :
                       d.name \in Names /\ {d.code, d.number} \subseteq TokenNumbers
<1>1. Next1 \in Lexemes /\ Tail(input) \in Seq(Lexemes)
  BY DEF Next1
<1> HIDE DEF Next1
<1>2. Next1.name \in Names /\ Next1.assoc \in Assocs
  BY <1>1 DEF Names, Assocs
<1>3. \A d \in Range(Next1.names) : d.name \in Names
  BY <1>1 DEF Names
<1>4. QED
  BY <1>1, <1>2, <1>3, JayReaderAssumption

LEMMA StillReading ==
    ASSUME TokensInv, input' \in Seq(Lexemes), symbols' \in Tables, prec' \in Nat,
           part' \in ReaderPasses
    PROVE  TokensInv'
BY DEF TokensInv

LEMMA DoneTokens == ASSUME TokensInv, done PROVE TokensInv'
BY StillReading DEF TokensInv, done, decls, ReaderPasses

LEMMA DeclareTokens == ASSUME TokensInv, declare_tokens, ~done PROVE TokensInv'
<1> DEFINE pr == IF Next1.assoc = "TOKEN" THEN prec ELSE prec + 1
<1>1. input # <<>> /\ Next1.k = "declare" /\ part = "declarations" /\ part' = part
  BY DEF declare_tokens, Reading
<1>2. /\ symbols' = DeclaredTokens(symbols, Next1.names, Next1.assoc, pr)
      /\ prec' = pr /\ input' = Tail(input)
  BY DEF declare_tokens, Consume
<1>3. input \in Seq(Lexemes) /\ symbols \in Tables /\ prec \in Nat
  BY DEF TokensInv
<1>4. /\ Tail(input) \in Seq(Lexemes) /\ Next1.assoc \in Assocs
      /\ Next1.names \in Seq(Range(Next1.names))
      /\ \A d \in Range(Next1.names) :
            d.name \in Names /\ {d.code, d.number} \subseteq TokenNumbers
  BY <1>1, <1>3, NextLexeme
<1>5. pr \in Nat
  BY <1>3
<1> HIDE DEF pr
<1>6. symbols' \in Tables
  BY <1>2, <1>3, <1>4, <1>5, DeclaredAll
<1>7. QED
  BY <1>1, <1>2, <1>4, <1>5, <1>6, StillReading DEF ReaderPasses

LEMMA StartTokens == ASSUME TokensInv, declare_start, ~done PROVE TokensInv'
<1>1. input # <<>> /\ part \in {"declarations", "grammar"} /\ part' = part
  BY DEF declare_start, Reading
<1>2. symbols' = lookup(symbols, Next1.name) /\ prec' = prec /\ input' = Tail(input)
  BY DEF declare_start, Consume
<1>3. input \in Seq(Lexemes) /\ symbols \in Tables /\ prec \in Nat
  BY DEF TokensInv
<1>4. Tail(input) \in Seq(Lexemes) /\ Next1.name \in Names
  BY <1>1, <1>3, NextLexeme
<1>5. symbols' \in Tables
  BY <1>2, <1>3, <1>4, Lookup
<1>6. QED
  BY <1>1, <1>2, <1>3, <1>4, <1>5, StillReading DEF ReaderPasses

\* The actions that begin a rule.
LEMMA RuleTokens ==
    ASSUME TokensInv, advance_to_start \/ add_rule \/ add_alternative, ~done
    PROVE  TokensInv'
<1>1. /\ input # <<>> /\ input' = Tail(input) /\ prec' = prec
      /\ Next1.k \in {"lhs", "bar"} /\ part' = "rules"
  BY DEF advance_to_start, add_rule, add_alternative, Reading, Consume
<1>2. input \in Seq(Lexemes) /\ symbols \in Tables /\ prec \in Nat
  BY DEF TokensInv
<1>3. /\ Tail(input) \in Seq(Lexemes) /\ Next1.name \in Names
      /\ Next1.k = "lhs" => Next1.code \in TokenNumbers
  BY <1>1, <1>2, NextLexeme
<1>4. CASE advance_to_start
  <2>1. symbols' = [lookup(symbols, Next1.name) EXCEPT
                       ![BucketOf(lookup(symbols, Next1.name), Next1.name)].class = "NONTERM"]
    BY <1>4 DEF advance_to_start, start_rule
  <2>2. lookup(symbols, Next1.name) \in Tables
    BY <1>2, <1>3, Lookup
  <2>3. symbols' \in Tables
    BY <2>1, <2>2, TableClass
  <2>4. QED
    BY <1>1, <1>2, <1>3, <2>3, StillReading DEF ReaderPasses
<1>5. CASE add_rule
  <2>1. symbols' = [get_symbol(symbols, Next1) EXCEPT
                       ![BucketOf(get_symbol(symbols, Next1), Next1.name)].class = "NONTERM"]
    BY <1>5 DEF add_rule, start_rule
  <2>2. Next1.k = "lhs"
    BY <1>5 DEF add_rule, Reading
  <2>3. get_symbol(symbols, Next1) \in Tables
    BY <1>2, <1>3, <2>2, GetSymbol
  <2>4. symbols' \in Tables
    BY <2>1, <2>3, TableClass
  <2>5. QED
    BY <1>1, <1>2, <1>3, <2>4, StillReading DEF ReaderPasses
<1>6. CASE add_alternative
  <2>1. symbols' = [symbols EXCEPT ![Last(rules).lhs].class = "NONTERM"]
    BY <1>6 DEF add_alternative, start_rule
  <2>2. symbols' \in Tables
    BY <1>2, <2>1, TableClass
  <2>3. QED
    BY <1>1, <1>2, <1>3, <2>2, StillReading DEF ReaderPasses
<1>7. QED
  BY <1>4, <1>5, <1>6

LEMMA SymbolTokens == ASSUME TokensInv, add_symbol PROVE TokensInv'
<1> DEFINE found == get_symbol(symbols, Next1)
<1>1. input # <<>> /\ part = "rules" /\ part' = part /\ Next1.k = "symbol"
  BY DEF add_symbol, Reading
<1>2. symbols' = WithEmptyRule(found).syms /\ prec' = prec /\ input' = Tail(input)
  BY DEF add_symbol, Consume
<1>3. input \in Seq(Lexemes) /\ symbols \in Tables /\ prec \in Nat
  BY DEF TokensInv
<1>4. Tail(input) \in Seq(Lexemes) /\ Next1.name \in Names /\ Next1.code \in TokenNumbers
  BY <1>1, <1>3, NextLexeme
<1>5. found \in Tables
  BY <1>3, <1>4, GetSymbol
<1> HIDE DEF found
<1>6. symbols' \in Tables
  BY <1>2, <1>5, EmptyRuleTable
<1>7. QED
  BY <1>1, <1>2, <1>3, <1>4, <1>6, StillReading DEF ReaderPasses

LEMMA ActionTokens == ASSUME TokensInv, copy_action PROVE TokensInv'
<1>1. input # <<>> /\ part = "rules" /\ part' = part
  BY DEF copy_action, Reading
<1>2. symbols' = WithEmptyRule(symbols).syms /\ prec' = prec /\ input' = Tail(input)
  BY DEF copy_action, Consume
<1>3. input \in Seq(Lexemes) /\ symbols \in Tables /\ prec \in Nat
  BY DEF TokensInv
<1>4. Tail(input) \in Seq(Lexemes)
  BY <1>1, <1>3, NextLexeme
<1>5. symbols' \in Tables
  BY <1>2, <1>3, EmptyRuleTable
<1>6. QED
  BY <1>1, <1>2, <1>3, <1>4, <1>5, StillReading DEF ReaderPasses

LEMMA MarkTokens == ASSUME TokensInv, mark_symbol PROVE TokensInv'
<1>1. input # <<>> /\ part = "rules" /\ part' = part /\ Next1.k = "prec"
  BY DEF mark_symbol, Reading
<1>2. symbols' = get_symbol(symbols, Next1) /\ prec' = prec /\ input' = Tail(input)
  BY DEF mark_symbol, Consume
<1>3. input \in Seq(Lexemes) /\ symbols \in Tables /\ prec \in Nat
  BY DEF TokensInv
<1>4. Tail(input) \in Seq(Lexemes) /\ Next1.name \in Names /\ Next1.code \in TokenNumbers
  BY <1>1, <1>3, NextLexeme
<1>5. symbols' \in Tables
  BY <1>2, <1>3, <1>4, GetSymbol
<1>6. QED
  BY <1>1, <1>2, <1>3, <1>4, <1>5, StillReading DEF ReaderPasses

LEMMA BeginEndTokens ==
    ASSUME TokensInv, initialize_grammar \/ end_grammar
    PROVE  TokensInv'
<1>1. input \in Seq(Lexemes) /\ symbols \in Tables /\ prec \in Nat
  BY DEF TokensInv
<1>2. CASE initialize_grammar
  <2>1. /\ input # <<>> /\ input' = Tail(input) /\ symbols' = symbols /\ prec' = prec
        /\ part' = "grammar"
    BY <1>2 DEF initialize_grammar, Reading, Consume, decls
  <2>2. Tail(input) \in Seq(Lexemes)
    BY <1>1, <2>1, NextLexeme
  <2>3. QED
    BY <1>1, <2>1, <2>2, StillReading DEF ReaderPasses
<1>3. CASE end_grammar
  <2>1. input' = input /\ symbols' = symbols /\ prec' = prec /\ part' = "pack"
    BY <1>3 DEF end_grammar, decls
  <2>2. QED
    BY <1>1, <2>1, StillReading DEF ReaderPasses
<1>4. QED
  BY <1>2, <1>3

LEMMA PackTokens == ASSUME TokensInv, pack, ~done PROVE TokensInv'
<1>1. input \in Seq(Lexemes) /\ symbols \in Tables /\ prec \in Nat
  BY DEF TokensInv
<1>2. /\ symbols' = check_symbols(symbols)
      /\ g' = pack_grammar(check_symbols(symbols), pack_symbols(check_symbols(symbols)))
      /\ input' = input /\ prec' = prec
  BY DEF pack
<1>3. symbols' \in Tables
  BY <1>1, <1>2, Checked
<1>4. DistinctNumbers'
  BY <1>1, <1>2, PackDistinct
<1>5. QED
  BY <1>1, <1>2, <1>3, <1>4 DEF TokensInv

LEMMA SameTokens ==
    ASSUME TokensInv, UNCHANGED <<input, symbols, prec, g>>,
           part \in ReaderPasses => part' \in ReaderPasses
    PROVE  TokensInv'
<1>1. part' \notin ReaderPasses' => DistinctNumbers'
  BY DEF TokensInv, DistinctNumbers, ReaderPasses
<1>2. QED
  BY <1>1 DEF TokensInv

LEMMA InitTokens == ReaderInit => TokensInv
<1> SUFFICES ASSUME ReaderInit PROVE TokensInv
  OBVIOUS
<1>1. input \in Seq(Lexemes)
  BY JayReaderAssumption DEF ReaderInit
<1>2. "error" \in Names
  BY DEF Names
<1>3. symbols \in Tables
  <2> DEFINE b == [make_bucket("error") EXCEPT !.class = "TERM"]
  <2>1. symbols = <<b>>
    BY DEF ReaderInit, create_symbol_table
  <2>2. b \in Buckets
    BY <1>2, MadeBucket
  <2> HIDE DEF b
  <2>3. QED
    BY <2>1, <2>2 DEF Tables
<1>4. QED
  BY <1>1, <1>3 DEF ReaderInit, TokensInv, ReaderPasses

LEMMA TokensHold == ReaderSpec => []TokensInv
<1> DEFINE Next == reader \/ \E from, to : {from, to} \cap ReaderPasses = {} /\ LaterPass(from, to)
<1>1. TokensInv /\ [Next]_readerVars => TokensInv'
  <2> SUFFICES ASSUME TokensInv, [Next]_readerVars PROVE TokensInv'
    OBVIOUS
  <2>1. CASE done
    BY <2>1, DoneTokens
  <2>2. CASE reader /\ ~done
    <3>1. CASE declare_tokens \/ declare_start
      BY <2>2, <3>1, DeclareTokens, StartTokens
    <3>2. CASE advance_to_start \/ add_rule \/ add_alternative
      BY <2>2, <3>2, RuleTokens
    <3>3. CASE add_symbol \/ copy_action \/ mark_symbol
      BY <3>3, SymbolTokens, ActionTokens, MarkTokens
    <3>4. CASE initialize_grammar \/ end_grammar
      BY <3>4, BeginEndTokens
    <3>5. CASE pack
      BY <2>2, <3>5, PackTokens
    <3>6. CASE syntax_error
      BY <2>2, <3>6 DEF syntax_error
    <3>7. QED
      BY <2>2, <3>1, <3>2, <3>3, <3>4, <3>5, <3>6 DEF reader
  <2>3. CASE \E from, to : {from, to} \cap ReaderPasses = {} /\ LaterPass(from, to)
    <3>1. PICK from, to : {from, to} \cap ReaderPasses = {} /\ LaterPass(from, to)
      BY <2>3
    <3>2. part \notin ReaderPasses /\ UNCHANGED <<input, symbols, prec, g>>
      BY <3>1 DEF LaterPass, decls
    <3>3. QED
      BY <3>2, SameTokens
  <2>4. CASE UNCHANGED readerVars
    BY <2>4, SameTokens DEF readerVars, decls
  <2>5. QED
    BY <2>1, <2>2, <2>3, <2>4
<1>2. QED
  BY <1>1, InitTokens, PTL DEF ReaderSpec

\* pack_symbols() gives no token a number that another one has, for every
\* grammar file: any number of tokens, declared in any order with any numbers.
THEOREM TokensDistinct == ReaderSpec => []TokenValuesDistinct
<1>1. TokensInv => TokenValuesDistinct
  BY DEF TokensInv, TokenValuesDistinct, DistinctNumbers, ReaderPasses
<1>2. QED
  BY <1>1, TokensHold, PTL

\* A list in ascending order is the only one of its members.
LEMMA PlacesUnique ==
    ASSUME NEW n \in Nat, NEW t \in [1..n -> Nat],
           \A i, j \in 1..n : i < j => t[i] < t[j],
           NEW S, S = {t[i] : i \in 1..n}
    PROVE  Places(S) = t
<1> DEFINE p == Places(S)
<1>1. \A i, j \in 1..n : t[i] = t[j] => i = j
  <2>1. \A i, j \in 1..n : i \in Int /\ j \in Int /\ t[i] \in Nat /\ t[j] \in Nat
    OBVIOUS
  <2>2. QED
    BY <2>1
<1>2. t \in Bijection(1..n, S)
  <2>1. t \in [1..n -> S]
    OBVIOUS
  <2>2. QED
    BY <1>1, <2>1 DEF Bijection, Injection, IsInjective, Surjection
<1>3. Cardinality(S) = n /\ IsFiniteSet(S) /\ S \in SUBSET Nat
  <2>1. ExistsBijection(1..n, S)
    BY <1>2, Zenon DEF ExistsBijection
  <2>2. QED
    BY <2>1, FS_CountingElements, FS_NatBijection
<1>4. /\ p \in Seq(S) /\ Len(p) = n
      /\ \A i, j \in 1..n : i < j => p[i] < p[j]
      /\ \A x \in S : \E k \in 1..n : p[k] = x
  <2>1. /\ p \in Seq(S) /\ Len(p) = Cardinality(S)
        /\ \A i, j \in 1..Len(p) : i < j => p[i] < p[j]
        /\ \A x \in S : \E k \in 1..Len(p) : p[k] = x
    BY <1>3, PlacesAre, Zenon
  <2>2. Len(p) = n
    BY <1>3, <2>1
  <2>3. QED
    BY <2>1, <2>2, Zenon
<1> HIDE DEF p
<1>5. p = [k \in 1..n |-> p[k]] /\ \A k \in 1..n : p[k] \in S /\ p[k] \in Nat
  <2>1. p \in [1..n -> S]
    BY <1>4
  <2>2. QED
    BY <1>3, <2>1
<1> DEFINE D == {k \in 1..n : p[k] # t[k]}
<1>6. D = {}
  <2> SUFFICES ASSUME D # {} PROVE FALSE
    OBVIOUS
  <2>1. D \in SUBSET Nat
    OBVIOUS
  <2>2. PICK k \in D : \A m \in D : k <= m
    BY <2>1, Least
  <2>3. k \in 1..n /\ p[k] # t[k] /\ \A i \in 1..n : i < k => p[i] = t[i]
    BY <2>2
  <2>4. PICK j \in 1..n : p[k] = t[j]
    BY <1>5, <2>3
  <2>5. PICK i \in 1..n : p[i] = t[k]
    BY <1>4, <2>3
  <2>6. i \in Int /\ j \in Int /\ k \in Int /\ p[k] \in Nat /\ t[k] \in Nat
        /\ p[j] \in Nat /\ p[i] \in Nat /\ t[i] \in Nat /\ t[j] \in Nat
    BY <1>5, <2>3
  <2>7. j > k
    <3>1. j < k => p[j] = t[j] /\ p[j] < p[k]
      BY <1>4, <2>3
    <3>2. QED
      BY <2>3, <2>4, <2>6, <3>1
  <2>8. i > k
    <3>1. i < k => p[i] = t[i] /\ t[i] < t[k]
      BY <2>3
    <3>2. QED
      BY <2>3, <2>5, <2>6, <3>1
  <2>9. t[k] < t[j] /\ p[k] < p[i]
    BY <1>4, <2>3, <2>6, <2>7, <2>8
  <2>10. QED
    BY <2>4, <2>5, <2>6, <2>9
<1>7. \A k \in 1..n : p[k] = t[k]
  BY <1>6
<1>8. p = t
  BY <1>5, <1>7
<1>9. QED
  BY <1>8 DEF p

-----------------------------------------------------------------------------
(* The rules of a file *)

RuleForms == [lhs : Names, rhs : Seq(Names)]
Empty == [lhs |-> "$$", rhs |-> <<>>]
Pending(rhs) == rhs # <<>> /\ Last(rhs) = "$$"

LEMMA InnerIs ==
    ASSUME NEW rhs \in Seq(Names)
    PROVE  IsFiniteSet(Inner(rhs)) /\ Cardinality(Inner(rhs)) \in Nat
<1>1. Inner(rhs) \subseteq 1..(Len(rhs) - 1) /\ Len(rhs) - 1 \in Int
  BY DEF Inner
<1>2. IsFiniteSet(1..(Len(rhs) - 1))
  BY <1>1, FS_Interval
<1>3. IsFiniteSet(Inner(rhs))
  BY <1>1, <1>2, FS_Subset
<1>4. QED
  BY <1>3, FS_CardinalityType

\* What one more symbol, or action, does to an alternative.
LEMMA InnerMore ==
    ASSUME NEW rhs \in Seq(Names), NEW name \in Names
    PROVE  /\ Cardinality(Inner(Append(rhs, name)))
                = Cardinality(Inner(rhs)) + (IF Pending(rhs) THEN 1 ELSE 0)
           /\ Plain(Append(rhs, name)) = IF name = "$$" THEN rhs ELSE Append(rhs, name)
           /\ Pending(Append(rhs, name)) <=> name = "$$"
<1> DEFINE more == Append(rhs, name)
<1>1. /\ more \in Seq(Names) /\ Len(more) = Len(rhs) + 1 /\ Len(rhs) \in Nat
      /\ \A k \in 1..Len(rhs) : more[k] = rhs[k]
      /\ more[Len(rhs) + 1] = name
  OBVIOUS
<1>2. Inner(more) = {k \in 1..Len(rhs) : rhs[k] = "$$"}
  BY <1>1 DEF Inner
<1>3. Pending(rhs) <=> (Len(rhs) >= 1 /\ rhs[Len(rhs)] = "$$")
  BY DEF Pending, Last
<1>4. Cardinality(Inner(more)) = Cardinality(Inner(rhs)) + (IF Pending(rhs) THEN 1 ELSE 0)
  <2>1. CASE Pending(rhs)
    <3>1. Inner(more) = Inner(rhs) \cup {Len(rhs)} /\ Len(rhs) \notin Inner(rhs)
      BY <1>1, <1>2, <1>3, <2>1 DEF Inner
    <3> HIDE DEF more
    <3>2. Cardinality(Inner(rhs) \cup {Len(rhs)}) = Cardinality(Inner(rhs)) + 1
      BY <3>1, InnerIs, FS_AddElement
    <3>3. QED
      BY <2>1, <3>1, <3>2
  <2>2. CASE ~Pending(rhs)
    <3>1. Inner(more) = Inner(rhs)
      <4>1. ASSUME NEW k \in 1..Len(rhs), rhs[k] = "$$" PROVE k \in 1..(Len(rhs) - 1)
        <5>1. k \in Int /\ k >= 1 /\ k <= Len(rhs) /\ Len(rhs) \in Nat
          BY <1>1
        <5>2. k # Len(rhs)
          BY <1>3, <2>2, <4>1, <5>1
        <5>3. QED
          BY <5>1, <5>2
      <4>2. ASSUME NEW k \in 1..(Len(rhs) - 1) PROVE k \in 1..Len(rhs)
        BY <1>1
      <4>3. QED
        BY <1>2, <4>1, <4>2 DEF Inner
    <3> HIDE DEF more
    <3>2. Cardinality(Inner(rhs)) + 0 = Cardinality(Inner(rhs))
      BY InnerIs
    <3>3. QED
      BY <2>2, <3>1, <3>2
  <2>3. QED
    BY <2>1, <2>2
<1>5. more # <<>> /\ Last(more) = name
  BY <1>1 DEF Last
<1>6. Front(more) = rhs
  BY <1>1 DEF Front
<1>7. Plain(more) = IF name = "$$" THEN rhs ELSE more
  BY <1>5, <1>6, Zenon DEF Plain
<1>8. Pending(more) <=> name = "$$"
  BY <1>5 DEF Pending
<1>9. QED
  BY <1>4, <1>7, <1>8

LEMMA PlainIs ==
    ASSUME NEW rhs \in Seq(Names)
    PROVE  /\ Plain(rhs) \in Seq(Names)
           /\ rhs = IF Pending(rhs) THEN Append(Plain(rhs), "$$") ELSE Plain(rhs)
<1>1. CASE Pending(rhs)
  <2>1. Len(rhs) \in Nat /\ Len(rhs) >= 1 /\ rhs[Len(rhs)] = "$$"
    BY <1>1 DEF Pending, Last
  <2>2. Plain(rhs) = SubSeq(rhs, 1, Len(rhs) - 1)
    BY <1>1 DEF Pending, Plain, Front
  <2> DEFINE p == SubSeq(rhs, 1, Len(rhs) - 1)
  <2>3. /\ p \in Seq(Names) /\ Len(p) = Len(rhs) - 1
        /\ \A k \in 1..(Len(rhs) - 1) : p[k] = rhs[k]
    <3> DEFINE m == Len(rhs) - 1
    <3>1. m \in Nat /\ \A k \in 1..m : k \in 1..Len(rhs)
      BY <2>1
    <3> HIDE DEF m
    <3>2. /\ SubSeq(rhs, 1, m) \in Seq(Names) /\ Len(SubSeq(rhs, 1, m)) = m
          /\ \A k \in 1..m : SubSeq(rhs, 1, m)[k] = rhs[k]
      BY <3>1
    <3>3. QED
      BY <3>2 DEF m
  <2> HIDE DEF p
  <2>4. /\ Append(p, "$$") \in Seq(Names \cup {"$$"}) /\ Len(Append(p, "$$")) = Len(rhs)
        /\ \A k \in 1..Len(rhs) : Append(p, "$$")[k] = rhs[k]
    <3>1. p \in Seq(Names \cup {"$$"})
      BY <2>3, SeqSubset, Zenon
    <3>2. /\ Append(p, "$$") \in Seq(Names \cup {"$$"}) /\ Len(Append(p, "$$")) = Len(p) + 1
          /\ \A k \in 1..Len(p) : Append(p, "$$")[k] = p[k]
          /\ Append(p, "$$")[Len(p) + 1] = "$$"
      BY <3>1
    <3> DEFINE q == Append(p, "$$")
    <3> HIDE DEF q
    <3>3. Len(q) = Len(rhs) /\ \A k \in 1..Len(rhs) : q[k] = rhs[k]
      BY <2>1, <2>3, <3>2 DEF q
    <3>4. QED
      BY <3>2, <3>3 DEF q
  <2>5. Append(p, "$$") = rhs
    <3> DEFINE q == Append(p, "$$")
    <3>1. q \in Seq(Names \cup {"$$"}) /\ Len(q) = Len(rhs) /\ \A k \in 1..Len(rhs) : q[k] = rhs[k]
      BY <2>4
    <3> HIDE DEF q
    <3>2. q = [k \in 1..Len(rhs) |-> q[k]] /\ rhs = [k \in 1..Len(rhs) |-> rhs[k]]
      BY <3>1
    <3>3. q = rhs
      BY <3>1, <3>2
    <3>4. QED
      BY <3>3 DEF q
  <2>6. QED
    BY <1>1, <2>2, <2>3, <2>5 DEF p
<1>2. CASE ~Pending(rhs)
  BY <1>2 DEF Pending, Plain
<1>3. QED
  BY <1>1, <1>2

LEMMA SettledIs ==
    ASSUME NEW rs \in Seq(RuleForms), rs # <<>>
    PROVE  LET alt == rs[Len(rs)]
               c == Cardinality(Inner(alt.rhs))
               s == Settled(rs)
           IN  /\ c \in Nat /\ Len(rs) \in Nat /\ Len(rs) >= 1 /\ alt \in RuleForms
               /\ s \in Seq(RuleForms) /\ Len(s) = Len(rs) + c
               /\ \A i \in 1..(Len(rs) - 1) : s[i] = rs[i]
               /\ \A i \in Len(rs)..(Len(rs) + c - 1) : s[i] = Empty
               /\ s[Len(rs) + c] = [lhs |-> alt.lhs, rhs |-> Plain(alt.rhs)]
<1> DEFINE alt == rs[Len(rs)]
           c == Cardinality(Inner(alt.rhs))
           s == Settled(rs)
           n == Len(rs)
           main == [lhs |-> alt.lhs, rhs |-> Plain(alt.rhs)]
<1>1. n \in Nat /\ n >= 1 /\ alt \in RuleForms /\ \A i \in 1..n : rs[i] \in RuleForms
  OBVIOUS
<1>2. alt.rhs \in Seq(Names) /\ alt.lhs \in Names
  BY <1>1 DEF RuleForms
<1>3. c \in Nat
  BY <1>2, InnerIs
<1>4. main \in RuleForms
  BY <1>2, PlainIs DEF RuleForms
<1>5. s = [i \in 1..(n + c) |-> IF i < n THEN rs[i] ELSE IF i < n + c THEN Empty ELSE main]
  BY Zenon DEF Settled, Last, Empty
<1>6. Empty \in RuleForms
  BY DEF Empty, RuleForms, Names
<1> HIDE DEF c, s, main, n
<1>7. s \in [1..(n + c) -> RuleForms]
  <2>1. ASSUME NEW i \in 1..(n + c), i < n PROVE rs[i] \in RuleForms
    BY <1>1, <1>3, <2>1
  <2>2. QED
    BY <1>4, <1>5, <1>6, <2>1
<1>8. s \in Seq(RuleForms) /\ Len(s) = n + c
  BY <1>1, <1>3, <1>7
<1>9. \A i \in 1..(n - 1) : s[i] = rs[i]
  BY <1>1, <1>3, <1>5
<1>10. \A i \in n..(n + c - 1) : s[i] = Empty
  <2>1. ASSUME NEW i \in n..(n + c - 1) PROVE i \in 1..(n + c) /\ ~(i < n) /\ i < n + c
    BY <1>1, <1>3
  <2>2. QED
    BY <1>5, <2>1
<1>11. s[n + c] = main
  <2>1. n + c \in 1..(n + c) /\ ~(n + c < n) /\ ~(n + c < n + c)
    BY <1>1, <1>3
  <2>2. QED
    BY <1>5, <2>1
<1>12. QED
  BY <1>1, <1>3, <1>8, <1>9, <1>10, <1>11 DEF c, s, main, n

More(rs, name) == [rs EXCEPT ![Len(rs)].rhs = Append(@, name)]

\* One more name at the end of the last rule; an empty rule before the last one,
\* in which its symbol is the last.
Grown(s, t, name) ==
    /\ t \in Seq(RuleForms) /\ Len(t) = Len(s)
    /\ \A i \in 1..(Len(s) - 1) : t[i] = s[i]
    /\ t[Len(s)] = [lhs |-> s[Len(s)].lhs, rhs |-> Append(s[Len(s)].rhs, name)]
EmptyBefore(s, t) ==
    /\ t \in Seq(RuleForms) /\ Len(t) = Len(s) + 1
    /\ \A i \in 1..(Len(s) - 1) : t[i] = s[i]
    /\ t[Len(s)] = Empty
    /\ t[Len(s) + 1] = [lhs |-> s[Len(s)].lhs, rhs |-> Append(s[Len(s)].rhs, "$$")]

LEMMA MoreIs ==
    ASSUME NEW rs \in Seq(RuleForms), rs # <<>>, NEW name \in Names
    PROVE  LET t == More(rs, name)
               n == Len(rs)
           IN  /\ t \in Seq(RuleForms) /\ t # <<>> /\ Len(t) = n /\ n \in Nat /\ n >= 1
               /\ \A i \in 1..(n - 1) : t[i] = rs[i]
               /\ t[n].lhs = rs[n].lhs /\ t[n].rhs = Append(rs[n].rhs, name)
               /\ Pending(t[n].rhs) <=> name = "$$"
<1> DEFINE n == Len(rs)
           t == More(rs, name)
           alt == [rs[n] EXCEPT !.rhs = Append(@, name)]
<1>1. n \in Nat /\ n >= 1 /\ \A i \in 1..n : rs[i] \in RuleForms
  OBVIOUS
<1>2. rs[n].rhs \in Seq(Names) /\ rs[n].lhs \in Names /\ rs[n] \in RuleForms
  BY <1>1 DEF RuleForms
<1>3. alt \in RuleForms /\ alt.lhs = rs[n].lhs /\ alt.rhs = Append(rs[n].rhs, name)
  <2>1. Append(rs[n].rhs, name) \in Seq(Names)
    BY <1>2
  <2> HIDE DEF n
  <2>2. ASSUME NEW r \in RuleForms, NEW x
        PROVE  [r EXCEPT !.rhs = x] = [lhs |-> r.lhs, rhs |-> x]
    BY DEF RuleForms
  <2>3. alt = [lhs |-> rs[n].lhs, rhs |-> Append(rs[n].rhs, name)]
    BY <1>2, <2>2
  <2>4. QED
    BY <1>2, <2>1, <2>3 DEF RuleForms
<1>4. t = [i \in 1..n |-> IF i = n THEN alt ELSE rs[i]]
  <2>1. DOMAIN rs = 1..n
    OBVIOUS
  <2>2. QED
    BY <2>1 DEF More
<1> HIDE DEF t, alt, n
<1>5. t \in [1..n -> RuleForms]
  BY <1>1, <1>3, <1>4
<1>6. t \in Seq(RuleForms) /\ Len(t) = n
  BY <1>1, <1>5
<1>7. t # <<>>
  BY <1>1, <1>6
<1>8. t[n] = alt /\ \A i \in 1..(n - 1) : t[i] = rs[i]
  BY <1>1, <1>4
<1>9. Pending(Append(rs[n].rhs, name)) <=> name = "$$"
  BY <1>2, InnerMore
<1>10. QED
  BY <1>1, <1>3, <1>6, <1>7, <1>8, <1>9 DEF t, n

\* The rules as they stand after one more symbol or action.
LEMMA SettledMore ==
    ASSUME NEW rs \in Seq(RuleForms), rs # <<>>, NEW name \in Names
    PROVE  LET p == Pending(rs[Len(rs)].rhs)
               s == Settled(rs)
               t == Settled(More(rs, name))
               n == Len(s)
               d == IF p THEN 1 ELSE 0
               old == IF p THEN Append(s[n].rhs, "$$") ELSE s[n].rhs
           IN  /\ s \in Seq(RuleForms) /\ t \in Seq(RuleForms) /\ n \in Nat /\ n >= 1
               /\ Len(t) = n + d
               /\ \A i \in 1..(n - 1) : t[i] = s[i]
               /\ p => t[n] = Empty
               /\ t[n + d] = [lhs |-> s[n].lhs,
                              rhs |-> IF name = "$$" THEN old ELSE Append(old, name)]
<1> DEFINE p == Pending(rs[Len(rs)].rhs)
           s == Settled(rs)
           q == More(rs, name)
           t == Settled(q)
           l == Len(rs)
           c == Cardinality(Inner(rs[l].rhs))
           d == IF p THEN 1 ELSE 0
           rhs == rs[l].rhs
           plain == Plain(rhs)
<1>1. /\ q \in Seq(RuleForms) /\ q # <<>> /\ Len(q) = l /\ l \in Nat /\ l >= 1
      /\ \A i \in 1..(l - 1) : q[i] = rs[i]
      /\ q[l].lhs = rs[l].lhs /\ q[l].rhs = Append(rhs, name)
  BY MoreIs
<1>2. /\ c \in Nat /\ rs[l] \in RuleForms
      /\ s \in Seq(RuleForms) /\ Len(s) = l + c
      /\ \A i \in 1..(l - 1) : s[i] = rs[i]
      /\ \A i \in l..(l + c - 1) : s[i] = Empty
      /\ s[l + c] = [lhs |-> rs[l].lhs, rhs |-> plain]
  BY SettledIs, Zenon
<1>3. rhs \in Seq(Names)
  BY <1>2 DEF RuleForms
<1> HIDE DEF rhs
<1>4. /\ Cardinality(Inner(Append(rhs, name))) = c + d
      /\ Plain(Append(rhs, name)) = IF name = "$$" THEN rhs ELSE Append(rhs, name)
  BY <1>3, InnerMore DEF rhs
<1>5. rhs = IF p THEN Append(plain, "$$") ELSE plain
  BY <1>3, PlainIs DEF rhs
<1> HIDE DEF p, q, plain, s, c
<1>6. /\ t \in Seq(RuleForms) /\ Len(t) = l + (c + d)
      /\ \A i \in 1..(l - 1) : t[i] = q[i]
      /\ \A i \in l..(l + (c + d) - 1) : t[i] = Empty
      /\ t[l + (c + d)] = [lhs |-> q[l].lhs, rhs |-> Plain(q[l].rhs)]
  <2> DEFINE e == Cardinality(Inner(q[Len(q)].rhs))
  <2>1. /\ t \in Seq(RuleForms) /\ Len(t) = Len(q) + e
        /\ \A i \in 1..(Len(q) - 1) : t[i] = q[i]
        /\ \A i \in Len(q)..(Len(q) + e - 1) : t[i] = Empty
        /\ t[Len(q) + e] = [lhs |-> q[Len(q)].lhs, rhs |-> Plain(q[Len(q)].rhs)]
    BY <1>1, SettledIs, Zenon
  <2>2. e = c + d /\ Len(q) = l
    BY <1>1, <1>4
  <2> HIDE DEF e, d
  <2>3. QED
    BY <2>1, <2>2, Zenon
<1> HIDE DEF t, l
<1>7. d \in Nat /\ (l + c) + d = l + (c + d)
  BY <1>1, <1>2
<1>8. ASSUME NEW i \in 1..((l + c) - 1) PROVE t[i] = s[i]
  <2>1. CASE i < l
    BY <1>1, <1>2, <1>6, <2>1
  <2>2. CASE ~(i < l)
    <3>1. i \in l..(l + c - 1) /\ i \in l..(l + (c + d) - 1)
      BY <1>1, <1>2, <1>7, <2>2
    <3>2. QED
      BY <1>2, <1>6, <3>1
  <2>3. QED
    BY <2>1, <2>2
<1>9. ASSUME p PROVE t[l + c] = Empty
  <2>1. l + c \in l..(l + (c + d) - 1)
    BY <1>1, <1>2, <1>9
  <2>2. QED
    BY <1>6, <2>1
<1>10. s[l + c].lhs = rs[l].lhs /\ s[l + c].rhs = plain
  BY <1>2
<1>11. t[(l + c) + d] = [lhs |-> rs[l].lhs, rhs |-> IF name = "$$" THEN rhs ELSE Append(rhs, name)]
  BY <1>1, <1>4, <1>6, <1>7
<1>12. QED
  BY <1>1, <1>2, <1>5, <1>6, <1>7, <1>8, <1>9, <1>10, <1>11 DEF p, s, q, t

LEMMA SettledFresh ==
    ASSUME NEW q \in Seq(RuleForms), NEW l \in Names
    PROVE  LET rs == Append(q, [lhs |-> l, rhs |-> <<>>])
           IN  /\ rs \in Seq(RuleForms) /\ rs # <<>> /\ Settled(rs) = rs
               /\ Len(rs) = Len(q) + 1 /\ Len(q) \in Nat
               /\ \A i \in 1..Len(q) : rs[i] = q[i]
               /\ rs[Len(rs)] = [lhs |-> l, rhs |-> <<>>]
               /\ ~Pending(rs[Len(rs)].rhs)
<1> DEFINE new == [lhs |-> l, rhs |-> <<>>]
           rs == Append(q, new)
           n == Len(rs)
           s == Settled(rs)
<1>1. new \in RuleForms /\ new.rhs = <<>> /\ new.lhs = l
  <2>1. <<>> \in Seq(Names)
    OBVIOUS
  <2>2. QED
    BY <2>1 DEF RuleForms
<1> HIDE DEF new
<1>2. /\ rs \in Seq(RuleForms) /\ rs # <<>> /\ n = Len(q) + 1 /\ Len(q) \in Nat
      /\ rs[n] = new /\ \A i \in 1..Len(q) : rs[i] = q[i]
  BY <1>1
<1> HIDE DEF rs
<1>3. Cardinality(Inner(rs[n].rhs)) = 0
  <2>1. Inner(<<>>) = {}
    BY DEF Inner
  <2>2. QED
    BY <1>1, <1>2, <2>1, FS_EmptySet
<1>4. Plain(rs[n].rhs) = <<>> /\ ~Pending(rs[n].rhs)
  BY <1>1, <1>2, Zenon DEF Plain, Pending
<1> DEFINE c == Cardinality(Inner(rs[n].rhs))
<1>5. /\ s \in Seq(RuleForms) /\ Len(s) = n + c
      /\ \A i \in 1..(n - 1) : s[i] = rs[i]
      /\ s[n + c] = [lhs |-> rs[n].lhs, rhs |-> Plain(rs[n].rhs)]
  BY <1>2, SettledIs, Zenon
<1>6. n + c = n
  BY <1>2, <1>3
<1> HIDE DEF c, n, s
<1>7. /\ Len(s) = n /\ s[n] = [lhs |-> l, rhs |-> <<>>]
  BY <1>1, <1>2, <1>4, <1>5, <1>6
<1>8. \A i \in 1..n : s[i] = rs[i]
  <2> SUFFICES ASSUME NEW i \in 1..n PROVE s[i] = rs[i]
    OBVIOUS
  <2>1. CASE i = n
    BY <1>2, <1>7, <2>1 DEF new
  <2>2. CASE i # n
    <3>1. n \in Nat
      BY <1>2
    <3>2. i \in 1..(n - 1)
      BY <2>2, <3>1
    <3>3. QED
      BY <1>5, <3>2, Zenon
  <2>3. QED
    BY <2>1, <2>2
<1>9. s = rs
  <2>1. s = [i \in 1..n |-> s[i]]
    BY <1>5, <1>7
  <2>2. rs = [i \in 1..n |-> rs[i]]
    BY <1>2 DEF n
  <2>3. QED
    BY <1>8, <2>1, <2>2
<1>10. QED
  BY <1>2, <1>4, <1>9 DEF n, s, rs, new

LEMMA SettledType ==
    ASSUME NEW rs \in Seq(RuleForms)
    PROVE  Settled(rs) \in Seq(RuleForms) /\ (rs = <<>> => Settled(rs) = <<>>)
<1>1. CASE rs = <<>>
  <2>1. Settled(rs) = <<>>
    BY <1>1, Zenon DEF Settled
  <2>2. QED
    BY <1>1, <2>1
<1>2. CASE rs # <<>>
  BY <1>2, SettledIs
<1>3. QED
  BY <1>1, <1>2

\* What the lexemes do to the rules read so far.
LEMMA ReadLexemeIs ==
    ASSUME NEW rs, NEW lx
    PROVE  /\ lx.k = "lhs" =>
                ReadLexeme(rs, lx) = Append(Settled(rs), [lhs |-> lx.name, rhs |-> <<>>])
           /\ lx.k = "bar" /\ rs # <<>> =>
                ReadLexeme(rs, lx) = Append(Settled(rs), [lhs |-> Last(rs).lhs, rhs |-> <<>>])
           /\ lx.k = "symbol" /\ rs # <<>> => ReadLexeme(rs, lx) = More(rs, lx.name)
           /\ lx.k = "action" /\ rs # <<>> => ReadLexeme(rs, lx) = More(rs, "$$")
           /\ lx.k \notin {"lhs", "bar", "symbol", "action"} => ReadLexeme(rs, lx) = rs
           /\ lx.k # "lhs" /\ rs = <<>> => ReadLexeme(rs, lx) = rs
<1>1. CASE lx.k = "lhs"
  BY <1>1 DEF ReadLexeme
<1>2. CASE lx.k = "bar" /\ rs # <<>>
  BY <1>2 DEF ReadLexeme
<1>3. CASE lx.k = "symbol" /\ rs # <<>>
  BY <1>3 DEF ReadLexeme, More
<1>4. CASE lx.k = "action" /\ rs # <<>>
  BY <1>4 DEF ReadLexeme, More
<1>5. CASE lx.k \notin {"lhs", "bar", "symbol", "action"}
  BY <1>5 DEF ReadLexeme
<1>6. CASE lx.k # "lhs" /\ rs = <<>>
  BY <1>6 DEF ReadLexeme
<1>7. QED
  BY <1>1, <1>2, <1>3, <1>4, <1>5, <1>6, Zenon

LEMMA ReadLexemeType ==
    ASSUME NEW rs \in Seq(RuleForms), NEW lx, lx.name \in Names
    PROVE  ReadLexeme(rs, lx) \in Seq(RuleForms)
<1>1. Settled(rs) \in Seq(RuleForms)
  BY SettledType
<1>2. CASE lx.k = "lhs"
  <2>1. ReadLexeme(rs, lx) = Append(Settled(rs), [lhs |-> lx.name, rhs |-> <<>>])
    BY <1>2, ReadLexemeIs, Zenon
  <2>2. QED
    BY <1>1, <2>1, SettledFresh, Zenon
<1>3. CASE lx.k = "bar" /\ rs # <<>>
  <2>1. Last(rs) \in RuleForms
    BY <1>3 DEF Last
  <2>2. Last(rs).lhs \in Names
    BY <2>1 DEF RuleForms
  <2>3. ReadLexeme(rs, lx) = Append(Settled(rs), [lhs |-> Last(rs).lhs, rhs |-> <<>>])
    BY <1>3, ReadLexemeIs, Zenon
  <2>4. QED
    BY <1>1, <2>2, <2>3, SettledFresh, Zenon
<1>4. CASE lx.k \in {"symbol", "action"} /\ rs # <<>>
  <2>1. "$$" \in Names
    BY DEF Names
  <2>2. ReadLexeme(rs, lx) = More(rs, lx.name) \/ ReadLexeme(rs, lx) = More(rs, "$$")
    BY <1>4, ReadLexemeIs, Zenon
  <2>3. \A name \in Names : More(rs, name) \in Seq(RuleForms)
    BY <1>4, MoreIs, Zenon
  <2>4. QED
    BY <2>1, <2>2, <2>3, Zenon
<1>5. CASE lx.k \notin {"lhs", "bar", "symbol", "action"} \/ (lx.k # "lhs" /\ rs = <<>>)
  BY <1>5, ReadLexemeIs, Zenon
<1>6. \/ lx.k = "lhs" \/ (lx.k = "bar" /\ rs # <<>>)
      \/ (lx.k \in {"symbol", "action"} /\ rs # <<>>)
      \/ lx.k \notin {"lhs", "bar", "symbol", "action"} \/ (lx.k # "lhs" /\ rs = <<>>)
  OBVIOUS
<1>7. QED
  BY <1>2, <1>3, <1>4, <1>5, <1>6, Zenon

IsReading(f, h) ==
    h = [k \in 0..Len(f) |-> IF k = 0 THEN <<>> ELSE ReadLexeme(h[k - 1], f[k])]

\* The rules after each lexeme of a file.
LEMMA RulesReadAre ==
    ASSUME NEW f \in Seq(Lexemes)
    PROVE  /\ RulesRead(f)[0] = <<>>
           /\ \A k \in 1..Len(f) : RulesRead(f)[k] = ReadLexeme(RulesRead(f)[k - 1], f[k])
           /\ \A k \in 0..Len(f) : RulesRead(f)[k] \in Seq(RuleForms)
<1> DEFINE m == Len(f)
           V == Seq(RuleForms)
           Step(k, v) == IF k \in 1..m THEN ReadLexeme(v, f[k]) ELSE v
           st == [k \in Nat |-> [v \in V |-> Step(k, v)]]
           chosen == CHOOSE h : IsReading(f, h)
<1>1. m \in Nat /\ \A k \in 1..m : f[k] \in Lexemes
  OBVIOUS
<1>2. ASSUME NEW k \in 1..m, NEW v \in V PROVE ReadLexeme(v, f[k]) \in V
  <2>1. f[k].name \in Names
    BY <1>1 DEF Names
  <2>2. QED
    BY <2>1, ReadLexemeType
<1>3. st \in [Nat -> [V -> V]]
  <2>1. ASSUME NEW k \in Nat, NEW v \in V PROVE Step(k, v) \in V
    BY <1>2
  <2> HIDE DEF Step, V
  <2>2. QED
    BY <2>1
<1>0. <<>> \in V
  OBVIOUS
<1>4. PICK h \in [0..m -> V] : IsRun(<<>>, st, m, h)
  <2> HIDE DEF st, m, V
  <2>1. QED
    BY <1>0, <1>1, <1>3, Recursion
<1> HIDE DEF V
<1>5. IsReading(f, h)
  <2>1. ASSUME NEW k \in 0..m
        PROVE  h[k] = IF k = 0 THEN <<>> ELSE ReadLexeme(h[k - 1], f[k])
    <3>1. CASE k = 0
      BY <1>4, <3>1 DEF IsRun
    <3>2. CASE k # 0
      <4>1. k \in 1..m /\ k \in Nat /\ k - 1 \in 0..m
        BY <1>1, <3>2
      <4>2. h[k] = st[k][h[k - 1]] /\ h[k - 1] \in V
        BY <1>4, <4>1 DEF IsRun
      <4>3. QED
        BY <3>2, <4>1, <4>2
    <3>3. QED
      BY <3>1, <3>2
  <2>2. h = [k \in 0..m |-> h[k]]
    BY <1>4
  <2>3. QED
    BY <2>1, <2>2 DEF IsReading
<1>6. IsReading(f, chosen)
  BY <1>5, Zenon
<1>7. RulesRead(f) = chosen
  BY Zenon DEF RulesRead, IsReading
<1> HIDE DEF chosen
<1>8. \A k \in 0..m : chosen[k] = IF k = 0 THEN <<>> ELSE ReadLexeme(chosen[k - 1], f[k])
  BY <1>6, Zenon DEF IsReading
<1>9. chosen[0] = <<>>
  <2>1. 0 \in 0..m
    BY <1>1
  <2>2. QED
    BY <1>8, <2>1, Zenon
<1>10. \A k \in 1..m : chosen[k] = ReadLexeme(chosen[k - 1], f[k])
  <2>1. \A k \in 1..m : k \in 0..m /\ k # 0
    BY <1>1
  <2>2. QED
    BY <1>8, <2>1, Zenon
<1> DEFINE K == {k \in Nat : k <= m => chosen[k] \in V}
<1>11. 0 \in K
  BY <1>0, <1>9
<1>12. ASSUME NEW k \in Nat, k \in K PROVE k + 1 \in K
  <2> SUFFICES ASSUME k + 1 <= m PROVE chosen[k + 1] \in V
    OBVIOUS
  <2>1. k + 1 \in 1..m /\ (k + 1) - 1 = k /\ k <= m
    BY <1>1
  <2>2. chosen[k + 1] = ReadLexeme(chosen[k], f[k + 1])
    BY <1>10, <2>1
  <2>3. chosen[k] \in V
    BY <1>12, <2>1
  <2>4. QED
    BY <1>2, <2>1, <2>2, <2>3
<1> HIDE DEF K
<1>13. \A k \in Nat : k \in K
  BY <1>11, <1>12, Upward
<1>14. \A k \in 0..m : chosen[k] \in V
  BY <1>1, <1>13 DEF K
<1>15. QED
  BY <1>7, <1>9, <1>10, <1>14 DEF V

-----------------------------------------------------------------------------
(* The items and the rules they spell *)

\* at[i] is the place of the null pointer before the items of the i-th rule of
\* the file, and at[n + 1] the place of the one that will end the last rule.
Laid(items, n, at) ==
    /\ items \in Seq(Nat) /\ n \in Nat /\ n >= 1
    /\ at \in [1..(n + 1) -> Nat] /\ at[1] = 4 /\ at[n + 1] = Len(items) + 1
    /\ \A i, j \in 1..(n + 1) : i < j => at[i] < at[j]
    /\ \A i \in 1..n : items[at[i]] = 0
    /\ \A k \in 4..Len(items) : items[k] = 0 => \E i \in 1..n : at[i] = k

LEMMA LaidSizes ==
    ASSUME NEW items, NEW n, NEW at, Laid(items, n, at)
    PROVE  n \in Nat /\ n >= 1 /\ Len(items) \in Nat /\ \A i \in 1..(n + 1) : at[i] \in Nat
BY DEF Laid

LEMMA LaidPlaces ==
    ASSUME NEW items, NEW n, NEW at, Laid(items, n, at)
    PROVE  /\ \A i \in 1..n : i \in 1..(n + 1) /\ i + 1 \in 1..(n + 1)
                              /\ at[i] \in 4..Len(items) /\ at[i] < at[i + 1]
           /\ \A i \in 1..(n + 1) : at[i] \in Nat /\ at[i] >= 4 /\ at[i] <= Len(items) + 1
           /\ \A i \in 1..n : \A k \in (at[i] + 1)..(at[i + 1] - 1) :
                 k \in 4..Len(items) /\ items[k] # 0
<1>0. n \in Nat /\ n >= 1 /\ Len(items) \in Nat /\ \A i \in 1..(n + 1) : at[i] \in Nat
  BY LaidSizes
<1>1. \A i \in 1..n : i \in 1..(n + 1) /\ i + 1 \in 1..(n + 1) /\ i < i + 1 /\ i < n + 1
  BY <1>0
<1>2. \A i \in 1..n : at[i] < at[i + 1] /\ at[i] < at[n + 1]
  <2>1. n + 1 \in 1..(n + 1)
    BY <1>0
  <2>2. QED
    BY <1>1, <2>1 DEF Laid
<1>3. \A i \in 1..(n + 1) : at[i] >= 4
  <2> SUFFICES ASSUME NEW i \in 1..(n + 1) PROVE at[i] >= 4
    OBVIOUS
  <2>1. 1 \in 1..(n + 1) /\ at[1] = 4 /\ at[i] \in Nat
    BY <1>0 DEF Laid
  <2>2. i = 1 \/ at[1] < at[i]
    BY <1>0, <2>1 DEF Laid
  <2>3. QED
    BY <2>1, <2>2
<1>4. \A i \in 1..(n + 1) : at[i] <= Len(items) + 1
  <2> SUFFICES ASSUME NEW i \in 1..(n + 1) PROVE at[i] <= Len(items) + 1
    OBVIOUS
  <2>1. at[n + 1] = Len(items) + 1
    BY DEF Laid
  <2>2. i = n + 1 \/ i \in 1..n
    BY <1>0
  <2>3. QED
    BY <1>0, <1>2, <2>1, <2>2
<1>5. \A i \in 1..n : at[i] \in 4..Len(items)
  <2> SUFFICES ASSUME NEW i \in 1..n PROVE at[i] \in 4..Len(items)
    OBVIOUS
  <2>1. at[n + 1] = Len(items) + 1 /\ at[i] \in Nat /\ at[i] >= 4 /\ at[i] < at[n + 1]
    BY <1>0, <1>1, <1>2, <1>3 DEF Laid
  <2>2. QED
    BY <1>0, <2>1
<1>6. ASSUME NEW i \in 1..n, NEW k \in (at[i] + 1)..(at[i + 1] - 1)
      PROVE  k \in 4..Len(items) /\ items[k] # 0
  <2>1. /\ at[i] \in Nat /\ at[i + 1] \in Nat /\ at[i] >= 4 /\ at[i + 1] <= Len(items) + 1
        /\ k \in Int /\ at[i] < k /\ k < at[i + 1]
    BY <1>0, <1>1, <1>3, <1>4
  <2>2. k \in 4..Len(items)
    BY <1>0, <2>1
  <2>3. ASSUME items[k] = 0 PROVE FALSE
    <3>1. PICK j \in 1..n : at[j] = k
      BY <2>2, <2>3 DEF Laid
    <3>2. i \in Int /\ j \in Int /\ i + 1 \in 1..(n + 1) /\ i \in 1..(n + 1) /\ j \in 1..(n + 1)
      BY <1>1
    <3>3. j < i => at[j] < at[i]
      BY <3>2 DEF Laid
    <3>4. i + 1 < j => at[i + 1] < at[j]
      BY <3>2 DEF Laid
    <3>5. QED
      BY <2>1, <3>1, <3>2, <3>3, <3>4
  <2>4. QED
    BY <2>2, <2>3
<1>7. QED
  BY <1>0, <1>1, <1>2, <1>3, <1>4, <1>5, <1>6

\* The three ways in which the items change: one more item of the last rule, ...
ItemAdded(items, new, b) ==
    /\ new \in Seq(Nat) /\ Len(new) = Len(items) + 1 /\ new[Len(items) + 1] = b
    /\ \A k \in 1..Len(items) : new[k] = items[k]
Longer(n, at) == [i \in 1..(n + 1) |-> IF i = n + 1 THEN at[i] + 1 ELSE at[i]]

LEMMA LaidItem ==
    ASSUME NEW items, NEW n, NEW at, Laid(items, n, at),
           NEW new, NEW b \in Nat, b # 0, ItemAdded(items, new, b)
    PROVE  Laid(new, n, Longer(n, at))
<1> DEFINE to == Longer(n, at)
<1>0. n \in Nat /\ n >= 1 /\ Len(items) \in Nat /\ \A i \in 1..(n + 1) : at[i] \in Nat
  BY LaidSizes
<1>1. /\ \A i \in 1..n : i \in 1..(n + 1) /\ at[i] \in 4..Len(items)
      /\ \A i \in 1..(n + 1) : at[i] <= Len(items) + 1
  BY LaidPlaces
<1>2. to \in [1..(n + 1) -> Nat] /\ to[n + 1] = at[n + 1] + 1 /\ \A i \in 1..n : to[i] = at[i]
  BY <1>0 DEF Longer
<1> HIDE DEF to
<1>3. to[1] = 4 /\ to[n + 1] = Len(new) + 1
  <2>1. 1 \in 1..n /\ at[1] = 4 /\ at[n + 1] = Len(items) + 1
    BY <1>0 DEF Laid
  <2>2. QED
    BY <1>0, <1>2, <2>1 DEF ItemAdded
<1>4. ASSUME NEW i \in 1..(n + 1), NEW j \in 1..(n + 1), i < j PROVE to[i] < to[j]
  <2>1. i \in 1..n /\ at[i] < at[j] /\ at[i] \in Nat /\ at[j] \in Nat
    BY <1>0, <1>4 DEF Laid
  <2>2. to[i] = at[i] /\ (to[j] = at[j] \/ to[j] = at[j] + 1)
    BY <1>0, <1>2, <2>1
  <2>3. QED
    BY <2>1, <2>2
<1>5. ASSUME NEW i \in 1..n PROVE new[to[i]] = 0
  <2>1. to[i] = at[i] /\ at[i] \in 1..Len(items) /\ items[at[i]] = 0
    BY <1>0, <1>1, <1>2 DEF Laid
  <2>2. QED
    BY <2>1 DEF ItemAdded
<1>6. ASSUME NEW k \in 4..Len(new), new[k] = 0 PROVE \E i \in 1..n : to[i] = k
  <2>1. k \in 4..Len(items) /\ k \in 1..Len(items)
    BY <1>0, <1>6 DEF ItemAdded
  <2>2. items[k] = 0
    BY <1>6, <2>1 DEF ItemAdded
  <2>3. PICK i \in 1..n : at[i] = k
    BY <2>1, <2>2 DEF Laid
  <2>4. QED
    BY <1>2, <2>3
<1>7. QED
  BY <1>0, <1>2, <1>3, <1>4, <1>5, <1>6 DEF Laid, ItemAdded, to

\* ... the end of the last rule and the beginning of another one, ...
NextAt(n, at) == [i \in 1..(n + 2) |-> IF i = n + 2 THEN at[n + 1] + 1 ELSE at[i]]

LEMMA LaidRule ==
    ASSUME NEW items, NEW n, NEW at, Laid(items, n, at), NEW new, ItemAdded(items, new, 0)
    PROVE  Laid(new, n + 1, NextAt(n, at))
<1> DEFINE to == NextAt(n, at)
<1>0. n \in Nat /\ n >= 1 /\ Len(items) \in Nat /\ \A i \in 1..(n + 1) : at[i] \in Nat
  BY LaidSizes
<1>1. /\ \A i \in 1..n : i \in 1..(n + 1) /\ at[i] \in 4..Len(items)
      /\ \A i \in 1..(n + 1) : at[i] <= Len(items) + 1
  BY LaidPlaces
<1>2. /\ to \in [1..((n + 1) + 1) -> Nat] /\ to[(n + 1) + 1] = at[n + 1] + 1
      /\ \A i \in 1..(n + 1) : to[i] = at[i]
  <2>1. (n + 1) + 1 = n + 2 /\ n + 1 \in 1..(n + 1) /\ n + 2 \in 1..(n + 2)
    BY <1>0
  <2>2. \A i \in 1..(n + 1) : i \in 1..(n + 2) /\ i # n + 2
    BY <1>0
  <2>3. \A i \in 1..(n + 2) : i # n + 2 => i \in 1..(n + 1)
    BY <1>0
  <2>4. to \in [1..(n + 2) -> Nat]
    BY <1>0, <2>1, <2>3 DEF NextAt
  <2>5. QED
    BY <2>1, <2>2, <2>4 DEF NextAt
<1> HIDE DEF to
<1>3. to[1] = 4 /\ to[(n + 1) + 1] = Len(new) + 1 /\ at[n + 1] = Len(items) + 1
      /\ Len(new) = Len(items) + 1
  <2>1. 1 \in 1..(n + 1) /\ at[1] = 4 /\ at[n + 1] = Len(items) + 1
    BY <1>0 DEF Laid
  <2>2. QED
    BY <1>0, <1>2, <2>1 DEF ItemAdded
<1>4. ASSUME NEW i \in 1..((n + 1) + 1), NEW j \in 1..((n + 1) + 1), i < j PROVE to[i] < to[j]
  <2>1. i \in 1..(n + 1) /\ to[i] = at[i] /\ at[i] \in Nat
    BY <1>0, <1>2, <1>4
  <2>2. CASE j = (n + 1) + 1
    <3>1. to[j] = at[n + 1] + 1 /\ at[i] <= at[n + 1] /\ at[n + 1] \in Nat
      BY <1>0, <1>1, <1>2, <1>3, <2>1, <2>2
    <3>2. QED
      BY <2>1, <3>1
  <2>3. CASE j # (n + 1) + 1
    <3>1. j \in 1..(n + 1)
      BY <1>0, <2>3
    <3>2. to[j] = at[j] /\ at[i] < at[j]
      BY <1>2, <1>4, <2>1, <3>1 DEF Laid
    <3>3. QED
      BY <2>1, <3>2
  <2>4. QED
    BY <2>2, <2>3
<1>5. ASSUME NEW i \in 1..(n + 1) PROVE new[to[i]] = 0
  <2>1. CASE i = n + 1
    BY <1>0, <1>2, <1>3, <2>1 DEF ItemAdded
  <2>2. CASE i # n + 1
    <3>1. i \in 1..n
      BY <1>0, <2>2
    <3>2. to[i] = at[i] /\ at[i] \in 1..Len(items) /\ items[at[i]] = 0
      BY <1>0, <1>1, <1>2, <3>1 DEF Laid
    <3>3. QED
      BY <3>2 DEF ItemAdded
  <2>3. QED
    BY <2>1, <2>2
<1>6. ASSUME NEW k \in 4..Len(new), new[k] = 0 PROVE \E i \in 1..(n + 1) : to[i] = k
  <2>1. CASE k = Len(new)
    <3>1. n + 1 \in 1..(n + 1)
      BY <1>0
    <3>2. to[n + 1] = k
      BY <1>2, <1>3, <2>1, <3>1
    <3>3. QED
      BY <3>1, <3>2
  <2>2. CASE k # Len(new)
    <3>1. k \in 4..Len(items) /\ k \in 1..Len(items)
      BY <1>0, <1>3, <2>2
    <3>2. items[k] = 0
      BY <1>6, <3>1 DEF ItemAdded
    <3>3. PICK i \in 1..n : at[i] = k
      BY <3>1, <3>2 DEF Laid
    <3>4. QED
      BY <1>1, <1>2, <3>3
  <2>3. QED
    BY <2>1, <2>2
<1>7. new \in Seq(Nat) /\ n + 1 \in Nat /\ n + 1 >= 1
  BY <1>0 DEF ItemAdded
<1>8. QED
  BY <1>2, <1>3, <1>4, <1>5, <1>6, <1>7 DEF Laid, to

\* ... and an empty rule before the last one, whose items move.
ItemsMoved(items, new, p) ==
    /\ new \in Seq(Nat) /\ Len(new) = Len(items) + 1
    /\ \A k \in 1..p : new[k] = items[k]
    /\ new[p + 1] = 0
    /\ \A k \in (p + 1)..Len(items) : new[k + 1] = items[k]
MovedAt(n, at) == [i \in 1..(n + 2) |-> IF i <= n THEN at[i] ELSE at[i - 1] + 1]

LEMMA MovedAtIs ==
    ASSUME NEW items, NEW n, NEW at, Laid(items, n, at)
    PROVE  LET to == MovedAt(n, at)
           IN  /\ to \in [1..((n + 1) + 1) -> Nat]
               /\ \A i \in 1..n : to[i] = at[i]
               /\ to[n + 1] = at[n] + 1 /\ to[(n + 1) + 1] = at[n + 1] + 1
<1> DEFINE to == MovedAt(n, at)
<1>0. n \in Nat /\ n >= 1 /\ \A i \in 1..(n + 1) : at[i] \in Nat
  BY LaidSizes
<1>1. (n + 1) + 1 = n + 2 /\ n + 2 \in 1..(n + 2) /\ n + 1 \in 1..(n + 2)
      /\ (n + 2) - 1 = n + 1 /\ (n + 1) - 1 = n /\ ~(n + 1 <= n) /\ ~(n + 2 <= n)
  BY <1>0
<1>2. \A i \in 1..n : i \in 1..(n + 2) /\ i <= n
  BY <1>0
<1>3. \A i \in 1..(n + 2) : (IF i <= n THEN at[i] ELSE at[i - 1] + 1) \in Nat
  <2> SUFFICES ASSUME NEW i \in 1..(n + 2) PROVE (IF i <= n THEN at[i] ELSE at[i - 1] + 1) \in Nat
    OBVIOUS
  <2>1. i <= n => i \in 1..(n + 1)
    BY <1>0
  <2>2. ~(i <= n) => i - 1 \in 1..(n + 1)
    BY <1>0
  <2>3. QED
    BY <1>0, <2>1, <2>2
<1>4. to \in [1..(n + 2) -> Nat]
  BY <1>3 DEF MovedAt
<1>5. QED
  BY <1>1, <1>2, <1>4 DEF MovedAt

LEMMA LaidEmpty ==
    ASSUME NEW items, NEW n, NEW at, Laid(items, n, at), NEW new, ItemsMoved(items, new, at[n])
    PROVE  Laid(new, n + 1, MovedAt(n, at))
<1> DEFINE to == MovedAt(n, at)
<1>0. n \in Nat /\ n >= 1 /\ Len(items) \in Nat /\ \A i \in 1..(n + 1) : at[i] \in Nat
  BY LaidSizes
<1>1. /\ \A i \in 1..n : i \in 1..(n + 1) /\ at[i] \in 4..Len(items)
      /\ \A i \in 1..(n + 1) : at[i] <= Len(items) + 1 /\ at[i] >= 4
      /\ n \in 1..n /\ n + 1 \in 1..(n + 1) /\ at[n] \in Nat /\ at[n + 1] \in Nat
  BY <1>0, LaidPlaces
<1>2. /\ to \in [1..((n + 1) + 1) -> Nat]
      /\ \A i \in 1..n : to[i] = at[i]
      /\ to[n + 1] = at[n] + 1 /\ to[(n + 1) + 1] = at[n + 1] + 1
  BY MovedAtIs
<1> HIDE DEF to
<1>3. to[1] = 4 /\ to[(n + 1) + 1] = Len(new) + 1 /\ at[n + 1] = Len(items) + 1
      /\ Len(new) = Len(items) + 1
  <2>1. 1 \in 1..n /\ at[1] = 4 /\ at[n + 1] = Len(items) + 1
    BY <1>0 DEF Laid
  <2>2. QED
    BY <1>0, <1>2, <2>1 DEF ItemsMoved
<1>4. \A i \in 1..n : at[i] <= at[n] /\ at[n] < at[n + 1]
  <2> SUFFICES ASSUME NEW i \in 1..n PROVE at[i] <= at[n] /\ at[n] < at[n + 1]
    OBVIOUS
  <2>1. i = n \/ at[i] < at[n]
    BY <1>0, <1>1 DEF Laid
  <2>2. at[n] < at[n + 1]
    BY <1>0, <1>1 DEF Laid
  <2>3. QED
    BY <1>0, <1>1, <2>1, <2>2
<1>5. ASSUME NEW i \in 1..((n + 1) + 1), NEW j \in 1..((n + 1) + 1), i < j PROVE to[i] < to[j]
  <2>1. i \in 1..n \/ i = n + 1
    BY <1>0, <1>5
  <2>2. j \in 1..n \/ j = n + 1 \/ j = (n + 1) + 1
    BY <1>0
  <2>3. CASE i \in 1..n /\ j \in 1..n
    <3>1. at[i] < at[j]
      BY <1>1, <1>5, <2>3 DEF Laid
    <3>2. QED
      BY <1>2, <2>3, <3>1
  <2>4. CASE i \in 1..n /\ j \notin 1..n
    <3>1. to[j] = at[n] + 1 \/ to[j] = at[n + 1] + 1
      BY <1>2, <2>2, <2>4
    <3>2. to[i] = at[i] /\ at[i] <= at[n] /\ at[n] < at[n + 1] /\ at[i] \in 4..Len(items)
      BY <1>1, <1>2, <1>4, <2>4, Zenon
    <3>3. at[i] \in Nat /\ at[n] \in Nat /\ at[n + 1] \in Nat
      BY <1>1, <3>2
    <3>4. at[i] < at[n] + 1 /\ at[i] < at[n + 1] + 1
      <4> DEFINE a == at[i]
                 b == at[n]
                 c == at[n + 1]
      <4>1. a \in Nat /\ b \in Nat /\ c \in Nat /\ a <= b /\ b < c
        BY <3>2, <3>3
      <4> HIDE DEF a, b, c
      <4>2. a < b + 1 /\ a < c + 1
        BY <4>1
      <4>3. QED
        BY <4>2 DEF a, b, c
    <3>5. QED
      BY <3>1, <3>2, <3>4
  <2>5. CASE i = n + 1
    <3>1. j = (n + 1) + 1
      BY <1>0, <1>5, <2>2, <2>5
    <3>2. QED
      BY <1>1, <1>2, <1>4, <2>5, <3>1
  <2>6. QED
    BY <2>1, <2>3, <2>4, <2>5
<1>6. ASSUME NEW i \in 1..(n + 1) PROVE new[to[i]] = 0
  <2>1. CASE i = n + 1
    BY <1>2, <2>1 DEF ItemsMoved
  <2>2. CASE i # n + 1
    <3>1. i \in 1..n
      BY <1>0, <2>2
    <3>2. /\ to[i] = at[i] /\ at[i] <= at[n] /\ at[i] \in 4..Len(items) /\ at[n] \in Nat
          /\ items[at[i]] = 0
      <4>1. items[at[i]] = 0
        BY <3>1, Zenon DEF Laid
      <4>2. QED
        BY <1>1, <1>2, <1>4, <3>1, <4>1, Zenon
    <3>3. at[i] \in 1..at[n]
      <4> DEFINE a == at[i]
                 b == at[n]
      <4>1. a \in 4..Len(items) /\ b \in Nat /\ a <= b
        BY <3>2
      <4> HIDE DEF a, b
      <4>2. a \in 1..b
        BY <4>1
      <4>3. QED
        BY <4>2 DEF a, b
    <3>4. QED
      BY <3>2, <3>3 DEF ItemsMoved
  <2>3. QED
    BY <2>1, <2>2
<1>7. ASSUME NEW k \in 4..Len(new), new[k] = 0 PROVE \E i \in 1..(n + 1) : to[i] = k
  <2>1. CASE k <= at[n]
    <3>1. k \in 4..Len(items) /\ k \in 1..at[n]
      BY <1>0, <1>1, <2>1
    <3>2. items[k] = 0
      BY <1>7, <3>1 DEF ItemsMoved
    <3>3. PICK i \in 1..n : at[i] = k
      BY <3>1, <3>2 DEF Laid
    <3>4. QED
      BY <1>1, <1>2, <3>3
  <2>2. CASE k = at[n] + 1
    BY <1>1, <1>2, <2>2
  <2>3. CASE k > at[n] + 1
    <3>1. /\ k - 1 \in (at[n] + 1)..Len(items) /\ (k - 1) + 1 = k
          /\ k - 1 \in (at[n] + 1)..(at[n + 1] - 1)
      BY <1>0, <1>1, <1>3, <2>3
    <3>2. items[k - 1] = 0
      BY <1>7, <3>1 DEF ItemsMoved
    <3>3. items[k - 1] # 0
      BY <1>1, <3>1, LaidPlaces
    <3>4. QED
      BY <3>2, <3>3
  <2>4. QED
    BY <1>1, <2>1, <2>2, <2>3
<1>8. new \in Seq(Nat) /\ n + 1 \in Nat /\ n + 1 >= 1
  BY <1>0 DEF ItemsMoved
<1>9. QED
  BY <1>2, <1>3, <1>5, <1>6, <1>7, <1>8 DEF Laid, to

\* The rules src are the ones whose left-hand sides are L and whose right-hand
\* sides stand in items: bucket by bucket they have the same names.
Spelled(items, L, syms, at, src) ==
    /\ src \in Seq(RuleForms)
    /\ L \in [1..Len(src) -> 1..Len(syms)]
    /\ \A i \in 1..Len(src) : syms[L[i]].name = src[i].lhs
    /\ \A k \in 4..Len(items) : items[k] \in 0..Len(syms)
    /\ \A i \in 1..Len(src) : Len(src[i].rhs) = at[i + 1] - at[i] - 1
    /\ \A i \in 1..Len(src) : \A k \in 1..Len(src[i].rhs) :
          syms[items[at[i] + k]].name = src[i].rhs[k]

LEMMA RuleFormIs ==
    ASSUME NEW src \in Seq(RuleForms), NEW i \in 1..Len(src)
    PROVE  /\ src[i] \in RuleForms /\ src[i].lhs \in Names /\ src[i].rhs \in Seq(Names)
           /\ Len(src[i].rhs) \in Nat
<1>1. src[i] \in RuleForms
  OBVIOUS
<1>2. src[i].lhs \in Names /\ src[i].rhs \in Seq(Names)
  BY <1>1 DEF RuleForms
<1>3. QED
  BY <1>1, <1>2

\* The place of the k-th item of a rule.
LEMMA ItemPlace ==
    ASSUME NEW items, NEW L, NEW syms, NEW at, NEW src,
           Laid(items, Len(src), at), Spelled(items, L, syms, at, src),
           NEW i \in 1..Len(src), NEW k \in 1..Len(src[i].rhs)
    PROVE  /\ at[i] + k \in (at[i] + 1)..(at[i + 1] - 1)
           /\ at[i] + k \in 4..Len(items) /\ items[at[i] + k] # 0
<1>1. /\ i \in 1..(Len(src) + 1) /\ i + 1 \in 1..(Len(src) + 1)
      /\ \A j \in 1..(Len(src) + 1) : at[j] \in Nat
  BY LaidPlaces
<1>2. at[i] \in Nat /\ at[i + 1] \in Nat /\ Len(src[i].rhs) = at[i + 1] - at[i] - 1
  BY <1>1 DEF Spelled
<1>3. at[i] + k \in (at[i] + 1)..(at[i + 1] - 1)
  BY <1>2
<1>4. QED
  BY <1>3, LaidPlaces

\* Buckets keep their names and places.
SameNames(syms, new) ==
    /\ Len(syms) \in Nat /\ Len(new) \in Nat /\ Len(syms) <= Len(new)
    /\ \A i \in 1..Len(syms) : new[i].name = syms[i].name

LEMMA SpelledNames ==
    ASSUME NEW items, NEW L, NEW syms, NEW at, NEW src,
           Laid(items, Len(src), at), Spelled(items, L, syms, at, src),
           NEW new, SameNames(syms, new)
    PROVE  Spelled(items, L, new, at, src)
<1>0. Len(syms) \in Nat /\ Len(new) \in Nat /\ Len(syms) <= Len(new)
  BY DEF SameNames
<1>1. L \in [1..Len(src) -> 1..Len(new)]
  <2>1. \A j \in 1..Len(syms) : j \in 1..Len(new)
    BY <1>0
  <2>2. QED
    BY <2>1 DEF Spelled
<1>2. ASSUME NEW i \in 1..Len(src) PROVE new[L[i]].name = src[i].lhs
  <2>1. L[i] \in 1..Len(syms) /\ syms[L[i]].name = src[i].lhs
    BY DEF Spelled
  <2>2. QED
    BY <2>1 DEF SameNames
<1>3. ASSUME NEW k \in 4..Len(items) PROVE items[k] \in 0..Len(new)
  <2>1. items[k] \in 0..Len(syms)
    BY DEF Spelled
  <2>2. QED
    BY <1>0, <2>1
<1>4. ASSUME NEW i \in 1..Len(src), NEW k \in 1..Len(src[i].rhs)
      PROVE  new[items[at[i] + k]].name = src[i].rhs[k]
  <2>1. at[i] + k \in 4..Len(items) /\ items[at[i] + k] # 0
    BY ItemPlace
  <2>2. items[at[i] + k] \in 0..Len(syms)
    BY <2>1 DEF Spelled
  <2>3. items[at[i] + k] \in 1..Len(syms)
    BY <1>0, <2>1, <2>2
  <2>4. syms[items[at[i] + k]].name = src[i].rhs[k]
    BY DEF Spelled
  <2>5. QED
    BY <2>3, <2>4 DEF SameNames
<1>5. QED
  BY <1>1, <1>2, <1>3, <1>4 DEF Spelled

LEMMA SpelledItem ==
    ASSUME NEW items, NEW L, NEW syms, NEW at, NEW src,
           Laid(items, Len(src), at), Spelled(items, L, syms, at, src),
           NEW new, NEW b \in 1..Len(syms), ItemAdded(items, new, b), Len(syms) \in Nat,
           NEW t, Grown(src, t, syms[b].name)
    PROVE  Spelled(new, L, syms, Longer(Len(src), at), t)
<1> DEFINE n == Len(src)
           to == Longer(n, at)
<1>0. /\ n \in Nat /\ n >= 1 /\ Len(items) \in Nat /\ \A i \in 1..(n + 1) : at[i] \in Nat
      /\ src \in Seq(RuleForms) /\ t \in Seq(RuleForms) /\ Len(t) = n
  <2>1. src \in Seq(RuleForms) /\ t \in Seq(RuleForms) /\ Len(t) = n
    BY DEF Spelled, Grown
  <2>2. QED
    BY <2>1, LaidSizes
<1>1. to[n + 1] = at[n + 1] + 1 /\ \A i \in 1..n : to[i] = at[i]
  BY <1>0 DEF Longer
<1>2. at[n + 1] = Len(items) + 1
  BY DEF Laid
<1>3. \A i \in 1..(n - 1) : t[i] = src[i]
  BY DEF Grown
<1>4. t[n].lhs = src[n].lhs /\ t[n].rhs = Append(src[n].rhs, syms[b].name)
  BY DEF Grown
<1>5. src[n].rhs \in Seq(Names) /\ Len(src[n].rhs) \in Nat
  BY <1>0, RuleFormIs
<1>6. /\ Len(t[n].rhs) = Len(src[n].rhs) + 1
      /\ t[n].rhs[Len(src[n].rhs) + 1] = syms[b].name
      /\ \A k \in 1..Len(src[n].rhs) : t[n].rhs[k] = src[n].rhs[k]
  BY <1>4, <1>5
<1> HIDE DEF to, n
<1>7. ASSUME NEW i \in 1..n PROVE t[i].lhs = src[i].lhs
  <2>1. i = n \/ i \in 1..(n - 1)
    BY <1>0
  <2>2. QED
    BY <1>3, <1>4, <2>1
<1>8. \A i \in 1..n : i \in 1..(n + 1) /\ i + 1 \in 1..(n + 1)
                      /\ Len(src[i].rhs) = at[i + 1] - at[i] - 1
  BY <1>0 DEF Spelled, n
<1>9. /\ at[n] \in Nat /\ at[n + 1] \in Nat /\ to[n] = at[n] /\ n \in 1..n
       /\ Len(src[n].rhs) = at[n + 1] - at[n] - 1
  <2>1. n \in 1..n /\ n \in 1..(n + 1) /\ n + 1 \in 1..(n + 1)
    BY <1>0
  <2>2. QED
    BY <1>0, <1>1, <1>8, <2>1
<1>10. ASSUME NEW i \in 1..n PROVE Len(t[i].rhs) = to[i + 1] - to[i] - 1
  <2>1. CASE i = n
    <3>1. Len(t[n].rhs) = (at[n + 1] - at[n] - 1) + 1 /\ to[n + 1] = at[n + 1] + 1
      BY <1>1, <1>6, <1>9, Zenon
    <3>2. (at[n + 1] - at[n] - 1) + 1 = (at[n + 1] + 1) - at[n] - 1
      <4>1. ASSUME NEW a \in Nat, NEW c \in Nat PROVE (a - c - 1) + 1 = (a + 1) - c - 1
        OBVIOUS
      <4>2. QED
        BY <1>9, <4>1, Zenon
    <3>3. QED
      BY <1>9, <2>1, <3>1, <3>2
  <2>2. CASE i # n
    <3>1. i \in 1..(n - 1) /\ i + 1 \in 1..n
      BY <1>0, <2>2
    <3>2. QED
      BY <1>1, <1>3, <1>8, <3>1
  <2>3. QED
    BY <2>1, <2>2
<1>11. ASSUME NEW i \in 1..n, NEW k \in 1..Len(src[i].rhs)
       PROVE  syms[new[to[i] + k]].name = src[i].rhs[k]
  <2>1. at[i] + k \in 4..Len(items)
    BY ItemPlace DEF n
  <2>2. at[i] + k \in 1..Len(items)
    BY <1>0, <2>1
  <2>3. new[to[i] + k] = items[at[i] + k]
    BY <1>1, <2>2 DEF ItemAdded
  <2>4. QED
    BY <2>3 DEF Spelled, n
<1>12. ASSUME NEW i \in 1..n, NEW k \in 1..Len(t[i].rhs)
       PROVE  syms[new[to[i] + k]].name = t[i].rhs[k]
  <2>1. CASE i = n /\ k = Len(src[n].rhs) + 1
    <3>1. to[n] + (Len(src[n].rhs) + 1) = Len(items) + 1
      BY <1>0, <1>2, <1>9
    <3>2. QED
      BY <1>6, <2>1, <3>1 DEF ItemAdded
  <2>2. CASE i = n /\ k # Len(src[n].rhs) + 1
    <3>1. k \in 1..Len(src[n].rhs)
      <4> DEFINE m == Len(src[n].rhs)
      <4>1. m \in Nat /\ k \in 1..(m + 1) /\ k # m + 1
        BY <1>5, <1>6, <2>2
      <4> HIDE DEF m
      <4>2. k \in 1..m
        BY <4>1
      <4>3. QED
        BY <4>2 DEF m
    <3>2. syms[new[to[n] + k]].name = src[n].rhs[k] /\ t[n].rhs[k] = src[n].rhs[k]
      BY <1>6, <1>9, <1>11, <3>1, Zenon
    <3>3. QED
      BY <2>2, <3>2
  <2>3. CASE i # n
    <3>1. t[i] = src[i]
      <4>1. i \in 1..(n - 1)
        BY <1>0, <2>3
      <4>2. QED
        BY <1>3, <4>1
    <3>2. k \in 1..Len(src[i].rhs)
      BY <3>1
    <3>3. QED
      BY <1>11, <3>1, <3>2, Zenon
  <2>4. QED
    BY <2>1, <2>2, <2>3
<1>13. ASSUME NEW k \in 4..Len(new) PROVE new[k] \in 0..Len(syms)
  <2>1. CASE k = Len(items) + 1
    BY <2>1 DEF ItemAdded
  <2>2. CASE k # Len(items) + 1
    <3>1. k \in 4..Len(items) /\ k \in 1..Len(items)
      BY <1>0, <2>2 DEF ItemAdded
    <3>2. new[k] = items[k]
      BY <3>1 DEF ItemAdded
    <3>3. QED
      BY <3>1, <3>2 DEF Spelled
  <2>3. QED
    BY <2>1, <2>2
<1>14. /\ L \in [1..n -> 1..Len(syms)]
       /\ \A i \in 1..n : syms[L[i]].name = src[i].lhs
  BY DEF Spelled, n
<1>15. \A i \in 1..n : syms[L[i]].name = t[i].lhs
  BY <1>7, <1>14
<1>16. QED
  BY <1>0, <1>10, <1>12, <1>13, <1>14, <1>15 DEF Spelled, to, n

NextLhs(n, L, b) == [i \in 1..(n + 1) |-> IF i = n + 1 THEN b ELSE L[i]]

LEMMA SpelledRule ==
    ASSUME NEW items, NEW L, NEW syms, NEW at, NEW src,
           Laid(items, Len(src), at), Spelled(items, L, syms, at, src),
           NEW new, NEW b \in 1..Len(syms), ItemAdded(items, new, 0), Len(syms) \in Nat,
           syms[b].name \in Names
    PROVE  Spelled(new, NextLhs(Len(src), L, b), syms, NextAt(Len(src), at),
                   Append(src, [lhs |-> syms[b].name, rhs |-> <<>>]))
<1> DEFINE n == Len(src)
           to == NextAt(n, at)
           M == NextLhs(n, L, b)
           rule == [lhs |-> syms[b].name, rhs |-> <<>>]
           t == Append(src, rule)
<1>0. /\ n \in Nat /\ n >= 1 /\ Len(items) \in Nat /\ \A i \in 1..(n + 1) : at[i] \in Nat
      /\ src \in Seq(RuleForms)
  <2>1. src \in Seq(RuleForms)
    BY DEF Spelled
  <2>2. QED
    BY <2>1, LaidSizes
<1>1. to[n + 2] = at[n + 1] + 1 /\ \A i \in 1..(n + 1) : to[i] = at[i]
  <2>1. n + 2 \in 1..(n + 2) /\ \A i \in 1..(n + 1) : i \in 1..(n + 2) /\ i # n + 2
    BY <1>0
  <2>2. QED
    BY <2>1 DEF NextAt
<1>2. /\ t \in Seq(RuleForms) /\ Len(t) = n + 1
      /\ \A i \in 1..n : t[i] = src[i]
      /\ t[n + 1] = rule
  BY <1>0, SettledFresh
<1>3. rule.lhs = syms[b].name /\ rule.rhs = <<>> /\ Len(rule.rhs) = 0
  OBVIOUS
<1>4. /\ L \in [1..n -> 1..Len(syms)]
      /\ \A i \in 1..n : syms[L[i]].name = src[i].lhs
  BY DEF Spelled
<1>5. M \in [1..(n + 1) -> 1..Len(syms)] /\ M[n + 1] = b /\ \A i \in 1..n : M[i] = L[i]
  <2>1. \A i \in 1..(n + 1) : i = n + 1 \/ i \in 1..n
    BY <1>0
  <2>2. n + 1 \in 1..(n + 1) /\ \A i \in 1..n : i \in 1..(n + 1) /\ i # n + 1
    BY <1>0
  <2>3. QED
    BY <1>4, <2>1, <2>2 DEF NextLhs
<1> HIDE DEF to, n, t, M, rule
<1>6. \A i \in 1..(n + 1) : i = n + 1 \/ i \in 1..n
  BY <1>0
<1>7. ASSUME NEW i \in 1..(n + 1) PROVE syms[M[i]].name = t[i].lhs
  BY <1>2, <1>3, <1>4, <1>5, <1>6
<1>8. ASSUME NEW k \in 4..Len(new) PROVE new[k] \in 0..Len(syms)
  <2>1. CASE k = Len(items) + 1
    BY <2>1 DEF ItemAdded
  <2>2. CASE k # Len(items) + 1
    <3>1. k \in 4..Len(items) /\ k \in 1..Len(items)
      BY <1>0, <2>2 DEF ItemAdded
    <3>2. new[k] = items[k]
      BY <3>1 DEF ItemAdded
    <3>3. QED
      BY <3>1, <3>2 DEF Spelled
  <2>3. QED
    BY <2>1, <2>2
<1>9. ASSUME NEW i \in 1..(n + 1) PROVE Len(t[i].rhs) = to[i + 1] - to[i] - 1
  <2>1. CASE i = n + 1
    <3>1. i + 1 = n + 2 /\ n + 1 \in 1..(n + 1)
      BY <1>0, <2>1
    <3>2. to[i + 1] = at[n + 1] + 1 /\ to[i] = at[n + 1] /\ at[n + 1] \in Nat
      BY <1>0, <1>1, <2>1, <3>1
    <3>3. QED
      BY <1>2, <1>3, <2>1, <3>2
  <2>2. CASE i # n + 1
    <3>1. i \in 1..n /\ i + 1 \in 1..(n + 1)
      BY <1>0, <2>2
    <3>2. Len(src[i].rhs) = at[i + 1] - at[i] - 1
      BY <3>1 DEF Spelled, n
    <3>3. QED
      BY <1>1, <1>2, <3>1, <3>2
  <2>3. QED
    BY <2>1, <2>2
<1>10. ASSUME NEW i \in 1..(n + 1), NEW k \in 1..Len(t[i].rhs)
       PROVE  syms[new[to[i] + k]].name = t[i].rhs[k]
  <2>1. i \in 1..n
    BY <1>2, <1>3, <1>6
  <2>2. k \in 1..Len(src[i].rhs) /\ t[i].rhs[k] = src[i].rhs[k]
    BY <1>2, <2>1
  <2>3. at[i] + k \in 4..Len(items)
    BY <2>1, <2>2, ItemPlace DEF n
  <2>4. at[i] + k \in 1..Len(items)
    BY <1>0, <2>3
  <2>5. new[to[i] + k] = items[at[i] + k]
    BY <1>1, <2>4 DEF ItemAdded
  <2>6. syms[items[at[i] + k]].name = src[i].rhs[k]
    BY <2>1, <2>2 DEF Spelled, n
  <2>7. QED
    BY <2>2, <2>5, <2>6
<1>11. Spelled(new, M, syms, to, t)
  BY <1>2, <1>5, <1>7, <1>8, <1>9, <1>10 DEF Spelled
<1>12. QED
  BY <1>11 DEF to, n, t, M, rule

\* An empty rule for the symbol m.
Inserted(src, t) ==
    /\ t \in Seq(RuleForms) /\ Len(t) = Len(src) + 1
    /\ \A i \in 1..(Len(src) - 1) : t[i] = src[i]
    /\ t[Len(src)] = Empty /\ t[Len(src) + 1] = src[Len(src)]
MovedLhs(n, L, m) == [i \in 1..(n + 1) |-> IF i < n THEN L[i] ELSE IF i = n THEN m ELSE L[n]]

LEMMA MovedLhsIs ==
    ASSUME NEW n \in Nat, n >= 1, NEW L, NEW m
    PROVE  LET M == MovedLhs(n, L, m)
           IN  /\ \A i \in 1..(n - 1) : M[i] = L[i]
               /\ M[n] = m /\ M[n + 1] = L[n]
<1>1. /\ \A i \in 1..(n - 1) : i \in 1..(n + 1) /\ i < n
      /\ n \in 1..(n + 1) /\ ~(n < n) /\ n + 1 \in 1..(n + 1) /\ ~(n + 1 < n) /\ n + 1 # n
  OBVIOUS
<1>2. QED
  BY <1>1 DEF MovedLhs

LEMMA SpelledEmpty ==
    ASSUME NEW items, NEW L, NEW syms, NEW at, NEW src,
           Laid(items, Len(src), at), Spelled(items, L, syms, at, src),
           NEW new, ItemsMoved(items, new, at[Len(src)]),
           NEW m \in 1..Len(syms), Len(syms) \in Nat, syms[m].name = "$$",
           NEW t, Inserted(src, t)
    PROVE  Spelled(new, MovedLhs(Len(src), L, m), syms, MovedAt(Len(src), at), t)
<1> DEFINE n == Len(src)
           to == MovedAt(n, at)
           M == MovedLhs(n, L, m)
<1>0. /\ n \in Nat /\ n >= 1 /\ Len(items) \in Nat /\ \A i \in 1..(n + 1) : at[i] \in Nat
      /\ src \in Seq(RuleForms)
  <2>1. src \in Seq(RuleForms)
    BY DEF Spelled
  <2>2. QED
    BY <2>1, LaidSizes
<1>1. /\ \A i \in 1..n : to[i] = at[i]
      /\ to[n + 1] = at[n] + 1 /\ to[(n + 1) + 1] = at[n + 1] + 1
  BY MovedAtIs
<1>2. /\ t \in Seq(RuleForms) /\ Len(t) = n + 1
      /\ \A i \in 1..(n - 1) : t[i] = src[i]
      /\ t[n] = Empty /\ t[n + 1] = src[n]
  BY DEF Inserted
<1>3. /\ L \in [1..n -> 1..Len(syms)]
      /\ \A i \in 1..n : syms[L[i]].name = src[i].lhs
  BY DEF Spelled
<1>4. /\ M \in [1..(n + 1) -> 1..Len(syms)]
      /\ \A i \in 1..(n - 1) : M[i] = L[i]
      /\ M[n] = m /\ M[n + 1] = L[n]
  <2> DEFINE S == 1..Len(syms)
  <2>1. L \in [1..n -> S] /\ m \in S
    BY <1>3
  <2> HIDE DEF n, S
  <2>2. \A i \in 1..(n + 1) : (i < n => i \in 1..n) /\ n \in 1..n
    BY <1>0
  <2>3. M \in [1..(n + 1) -> S]
    <3>1. ASSUME NEW i \in 1..(n + 1)
          PROVE  (IF i < n THEN L[i] ELSE IF i = n THEN m ELSE L[n]) \in S
      BY <2>1, <2>2
    <3>2. QED
      BY <3>1, Zenon DEF MovedLhs
  <2> HIDE DEF M
  <2>4. /\ \A i \in 1..(n - 1) : M[i] = L[i]
        /\ M[n] = m /\ M[n + 1] = L[n]
    BY <1>0, MovedLhsIs DEF M
  <2>5. QED
    BY <2>3, <2>4 DEF S
<1>5. Empty.lhs = "$$" /\ Empty.rhs = <<>> /\ Len(Empty.rhs) = 0
  BY DEF Empty
<1> HIDE DEF to, n, M
<1>6. /\ \A i \in 1..(n + 1) : i \in 1..(n - 1) \/ i = n \/ i = n + 1
      /\ \A i \in 1..(n - 1) : i \in 1..n /\ i + 1 \in 1..n
      /\ n \in 1..n /\ n \in 1..(n + 1) /\ n + 1 \in 1..(n + 1)
  BY <1>0
<1>7. ASSUME NEW i \in 1..(n + 1) PROVE syms[M[i]].name = t[i].lhs
  <2>1. CASE i \in 1..(n - 1)
    BY <1>2, <1>3, <1>4, <1>6, <2>1
  <2>2. CASE i = n
    BY <1>2, <1>4, <1>5, <2>2
  <2>3. CASE i = n + 1
    BY <1>2, <1>3, <1>4, <1>6, <2>3
  <2>4. QED
    BY <1>6, <2>1, <2>2, <2>3
<1>8. at[n] \in Nat /\ at[n + 1] \in Nat /\ at[n] \in 4..Len(items)
  <2>1. at[n] \in 4..Len(items)
    BY <1>6, LaidPlaces DEF n
  <2>2. QED
    BY <1>0, <1>6, <2>1
<1>9. ASSUME NEW k \in 4..Len(new) PROVE new[k] \in 0..Len(syms)
  <2>0. \A j \in 4..Len(items) : items[j] \in 0..Len(syms)
    BY DEF Spelled
  <2>1. CASE k <= at[n]
    <3>1. k \in 4..Len(items) /\ k \in 1..at[n]
      BY <1>0, <1>8, <2>1
    <3>2. new[k] = items[k]
      BY <3>1 DEF ItemsMoved, n
    <3>3. QED
      BY <2>0, <3>1, <3>2
  <2>2. CASE k = at[n] + 1
    <3>1. new[k] = 0
      BY <2>2 DEF ItemsMoved, n
    <3>2. QED
      BY <3>1
  <2>3. CASE k > at[n] + 1
    <3>1. /\ k - 1 \in (at[n] + 1)..Len(items) /\ (k - 1) + 1 = k /\ k - 1 \in 4..Len(items)
      <4>1. Len(new) = Len(items) + 1
        BY DEF ItemsMoved
      <4>2. k \in Int /\ k <= Len(items) + 1 /\ at[n] \in Nat /\ at[n] >= 4
        BY <1>8, <4>1
      <4>3. QED
        BY <1>0, <2>3, <4>2
    <3>2. new[k] = items[k - 1]
      BY <3>1 DEF ItemsMoved, n
    <3>3. QED
      BY <2>0, <3>1, <3>2
  <2>4. QED
    BY <1>8, <2>1, <2>2, <2>3
<1>10. ASSUME NEW i \in 1..n PROVE Len(src[i].rhs) = at[i + 1] - at[i] - 1
  BY DEF Spelled, n
<1>11. ASSUME NEW i \in 1..(n + 1) PROVE Len(t[i].rhs) = to[i + 1] - to[i] - 1
  <2>1. CASE i \in 1..(n - 1)
    BY <1>1, <1>2, <1>6, <1>10, <2>1
  <2>2. CASE i = n
    <3>1. to[n + 1] = at[n] + 1 /\ to[n] = at[n]
      BY <1>1, <1>6
    <3>2. to[n + 1] - to[n] - 1 = 0
      BY <1>8, <3>1
    <3>3. QED
      BY <1>2, <1>5, <2>2, <3>2
  <2>3. CASE i = n + 1
    <3>1. (at[n + 1] + 1) - (at[n] + 1) - 1 = at[n + 1] - at[n] - 1
      <4>1. ASSUME NEW a \in Nat, NEW c \in Nat PROVE (a + 1) - (c + 1) - 1 = a - c - 1
        OBVIOUS
      <4>2. QED
        BY <1>8, <4>1, Zenon
    <3>2. Len(t[n + 1].rhs) = at[n + 1] - at[n] - 1
      BY <1>2, <1>6, <1>10
    <3>3. QED
      BY <1>1, <2>3, <3>1, <3>2
  <2>4. QED
    BY <1>6, <2>1, <2>2, <2>3
<1>12. ASSUME NEW i \in 1..(n + 1), NEW k \in 1..Len(t[i].rhs)
       PROVE  syms[new[to[i] + k]].name = t[i].rhs[k]
  <2>0. \A j \in 1..n : \A l \in 1..Len(src[j].rhs) :
            /\ at[j] + l \in (at[j] + 1)..(at[j + 1] - 1)
            /\ at[j] + l \in 4..Len(items)
            /\ syms[items[at[j] + l]].name = src[j].rhs[l]
    <3>1. ASSUME NEW j \in 1..n, NEW l \in 1..Len(src[j].rhs)
          PROVE  /\ at[j] + l \in (at[j] + 1)..(at[j + 1] - 1)
                 /\ at[j] + l \in 4..Len(items)
      BY ItemPlace DEF n
    <3>2. ASSUME NEW j \in 1..n, NEW l \in 1..Len(src[j].rhs)
          PROVE  syms[items[at[j] + l]].name = src[j].rhs[l]
      BY DEF n, Spelled
    <3>3. QED
      BY <3>1, <3>2
  <2>1. CASE i \in 1..(n - 1)
    <3>1. k \in 1..Len(src[i].rhs) /\ t[i].rhs[k] = src[i].rhs[k] /\ i \in 1..n /\ to[i] = at[i]
      BY <1>1, <1>2, <1>6, <2>1
    <3>2. /\ at[i] + k \in (at[i] + 1)..(at[i + 1] - 1) /\ at[i] + k \in 4..Len(items)
          /\ syms[items[at[i] + k]].name = src[i].rhs[k]
      BY <2>0, <3>1
    <3>3. at[i + 1] <= at[n] /\ at[i + 1] \in Nat
      <4>1. i + 1 \in 1..(n + 1) /\ n \in 1..(n + 1) /\ (i + 1 = n \/ i + 1 < n)
        BY <1>0, <2>1
      <4>2. i + 1 < n => at[i + 1] < at[n]
        BY <4>1 DEF Laid, n
      <4>3. QED
        BY <1>0, <1>8, <4>1, <4>2
    <3>4. at[i] + k \in 1..at[n]
      <4> DEFINE p == at[i] + k
                 a == at[i]
                 c == at[i + 1]
                 b == at[n]
      <4>1. p \in (a + 1)..(c - 1) /\ p \in 4..Len(items) /\ c <= b /\ c \in Nat /\ b \in Nat
        BY <1>8, <3>2, <3>3
      <4> HIDE DEF p, a, b, c
      <4>2. p \in 1..b
        BY <4>1
      <4>3. QED
        BY <4>2 DEF p, b
    <3>5. new[at[i] + k] = items[at[i] + k]
      BY <3>4 DEF ItemsMoved, n
    <3>6. QED
      BY <3>1, <3>2, <3>5
  <2>2. CASE i = n
    BY <1>2, <1>5, <2>2
  <2>3. CASE i = n + 1
    <3>1. k \in 1..Len(src[n].rhs) /\ t[i].rhs[k] = src[n].rhs[k] /\ to[i] = at[n] + 1
      BY <1>1, <1>2, <2>3
    <3>2. /\ at[n] + k \in (at[n] + 1)..(at[n + 1] - 1) /\ at[n] + k \in 4..Len(items)
          /\ syms[items[at[n] + k]].name = src[n].rhs[k]
      BY <1>6, <2>0, <3>1
    <3>3. /\ at[n] + k \in (at[n] + 1)..Len(items) /\ k \in Int
          /\ (at[n] + k) + 1 = (at[n] + 1) + k
      BY <1>8, <3>2
    <3>4. new[(at[n] + k) + 1] = items[at[n] + k]
      BY <3>3 DEF ItemsMoved, n
    <3>5. new[to[i] + k] = items[at[n] + k]
      BY <3>1, <3>3, <3>4
    <3>6. QED
      BY <3>1, <3>2, <3>5
  <2>4. QED
    BY <1>6, <2>1, <2>2, <2>3
<1>13. Spelled(new, M, syms, to, t)
  BY <1>2, <1>4, <1>7, <1>9, <1>11, <1>12 DEF Spelled
<1>14. QED
  BY <1>13 DEF to, n, M

\* The rule u is the one that the action of the empty rule i stands in: the next
\* rule that is not for an action, and the only one that has the symbol of i.
UsedIn(items, L, at, src, i, u) ==
    /\ u \in (i + 1)..Len(src) /\ src[u].lhs # "$$"
    /\ \A q \in i..(u - 1) : src[q].lhs = "$$"
    /\ \E k \in (at[u] + 1)..(at[u + 1] - 1) : items[k] = L[i]
    /\ \A k \in 4..Len(items) : items[k] = L[i] => k \in (at[u] + 1)..(at[u + 1] - 1)
Used(items, L, at, src, except) ==
    \A i \in (1..Len(src)) \ except :
        src[i].lhs = "$$" => \E u \in 1..Len(src) : UsedIn(items, L, at, src, i, u)

LEMMA UsedItem ==
    ASSUME NEW items, NEW L, NEW at, NEW src, Laid(items, Len(src), at),
           NEW except, Used(items, L, at, src, except),
           NEW new, NEW b, ItemAdded(items, new, b),
           \A i \in (1..Len(src)) \ except : src[i].lhs = "$$" => L[i] # b,
           NEW t, Len(t) = Len(src), \A i \in 1..Len(src) : t[i].lhs = src[i].lhs
    PROVE  Used(new, L, Longer(Len(src), at), t, except)
<1> DEFINE n == Len(src)
           to == Longer(n, at)
<1>0. n \in Nat /\ n >= 1 /\ Len(items) \in Nat /\ \A i \in 1..(n + 1) : at[i] \in Nat
  BY LaidSizes
<1>1. to[n + 1] = at[n + 1] + 1 /\ \A i \in 1..n : to[i] = at[i]
  BY <1>0 DEF Longer
<1> SUFFICES ASSUME NEW i \in (1..n) \ except, t[i].lhs = "$$"
             PROVE  \E u \in 1..n : UsedIn(new, L, to, t, i, u)
  BY DEF Used
<1>2. src[i].lhs = "$$" /\ L[i] # b /\ i \in 1..n
  OBVIOUS
<1>3. PICK u \in 1..n : UsedIn(items, L, at, src, i, u)
  BY <1>2 DEF Used
<1> HIDE DEF to
<1>4. /\ at[u] \in Nat /\ at[u + 1] \in Nat /\ to[u] = at[u]
      /\ to[u + 1] = at[u + 1] \/ to[u + 1] = at[u + 1] + 1
      /\ at[u] \in 4..Len(items) /\ at[u + 1] <= Len(items) + 1
  <2>1. /\ u \in 1..(n + 1) /\ u + 1 \in 1..(n + 1) /\ at[u] \in 4..Len(items)
        /\ \A j \in 1..(n + 1) : at[j] <= Len(items) + 1
    BY LaidPlaces
  <2>2. u + 1 = n + 1 \/ u + 1 \in 1..n
    BY <1>0
  <2>3. QED
    BY <1>0, <1>1, <2>1, <2>2
<1>5. u \in (i + 1)..n /\ t[u].lhs # "$$"
  BY <1>3 DEF UsedIn
<1>6. \A q \in i..(u - 1) : t[q].lhs = "$$"
  <2>1. \A q \in i..(u - 1) : q \in 1..n
    BY <1>0, <1>2
  <2>2. QED
    BY <1>3, <2>1 DEF UsedIn
<1>7. \A k \in (at[u] + 1)..(at[u + 1] - 1) : k \in (to[u] + 1)..(to[u + 1] - 1) /\ k \in 1..Len(items)
  <2> SUFFICES ASSUME NEW k \in (at[u] + 1)..(at[u + 1] - 1)
               PROVE  k \in (to[u] + 1)..(to[u + 1] - 1) /\ k \in 1..Len(items)
    OBVIOUS
  <2>1. k \in Int /\ at[u] < k /\ k < at[u + 1] /\ at[u] >= 4
    BY <1>4
  <2>2. k \in 1..Len(items)
    BY <1>0, <1>4, <2>1
  <2>3. QED
    BY <1>4, <2>1, <2>2
<1>8. \E k \in (to[u] + 1)..(to[u + 1] - 1) : new[k] = L[i]
  <2>1. PICK k \in (at[u] + 1)..(at[u + 1] - 1) : items[k] = L[i]
    BY <1>3 DEF UsedIn
  <2>2. QED
    BY <1>7, <2>1 DEF ItemAdded
<1>9. ASSUME NEW k \in 4..Len(new), new[k] = L[i] PROVE k \in (to[u] + 1)..(to[u + 1] - 1)
  <2>1. k # Len(items) + 1
    BY <1>2, <1>9 DEF ItemAdded
  <2>2. k \in 4..Len(items) /\ k \in 1..Len(items)
    BY <1>0, <2>1 DEF ItemAdded
  <2>3. items[k] = L[i]
    BY <1>9, <2>2 DEF ItemAdded
  <2>4. QED
    BY <1>3, <1>7, <2>2, <2>3 DEF UsedIn
<1>10. UsedIn(new, L, to, t, i, u)
  BY <1>5, <1>6, <1>8, <1>9 DEF UsedIn
<1>11. QED
  BY <1>10

\* The symbol of the empty rule before the last one is put into the last one.
LEMMA UsedMark ==
    ASSUME NEW items, NEW L, NEW at, NEW src, Laid(items, Len(src), at), Len(src) >= 2,
           Used(items, L, at, src, {Len(src) - 1}),
           src[Len(src) - 1].lhs = "$$", src[Len(src)].lhs # "$$",
           NEW new, ItemAdded(items, new, L[Len(src) - 1]),
           \A i \in 1..Len(src) : i # Len(src) - 1 => L[i] # L[Len(src) - 1],
           \A k \in 4..Len(items) : items[k] # L[Len(src) - 1],
           NEW t, Len(t) = Len(src), \A i \in 1..Len(src) : t[i].lhs = src[i].lhs
    PROVE  Used(new, L, Longer(Len(src), at), t, {})
<1> DEFINE n == Len(src)
           to == Longer(n, at)
           m == n - 1
<1>0. n \in Nat /\ n >= 1 /\ Len(items) \in Nat /\ \A i \in 1..(n + 1) : at[i] \in Nat
  BY LaidSizes
<1>1. Used(new, L, to, t, {m})
  <2>1. \A i \in (1..n) \ {m} : src[i].lhs = "$$" => L[i] # L[m]
    OBVIOUS
  <2> HIDE DEF n, m, to
  <2>2. QED
    BY <2>1, UsedItem DEF n, m, to
<1>2. to[n + 1] = at[n + 1] + 1 /\ to[n] = at[n] /\ n \in 1..n /\ at[n] \in Nat
  BY <1>0 DEF Longer
<1>3. at[n + 1] = Len(items) + 1 /\ at[n] \in 4..Len(items)
  <2>1. n \in 1..n
    BY <1>0
  <2>2. QED
    BY <2>1, LaidPlaces DEF Laid
<1> HIDE DEF to
<1>4. Len(items) + 1 \in (to[n] + 1)..(to[n + 1] - 1)
  BY <1>0, <1>2, <1>3
<1>5. new[Len(items) + 1] = L[m]
  BY DEF ItemAdded
<1>6. ASSUME NEW k \in 4..Len(new), new[k] = L[m] PROVE k = Len(items) + 1
  <2> SUFFICES ASSUME k # Len(items) + 1 PROVE FALSE
    OBVIOUS
  <2>1. k \in 4..Len(items) /\ k \in 1..Len(items)
    BY <1>0 DEF ItemAdded
  <2>2. items[k] = L[m]
    BY <1>6, <2>1 DEF ItemAdded
  <2>3. QED
    BY <2>1, <2>2
<1>7. n \in (m + 1)..n /\ \A q \in m..(n - 1) : q = m
  BY <1>0
<1>8. n \in 1..n /\ m \in 1..n
  BY <1>0
<1> HIDE DEF m
<1>9. t[n].lhs # "$$" /\ t[m].lhs = "$$"
  BY <1>8 DEF m
<1>10. UsedIn(new, L, to, t, m, n)
  BY <1>4, <1>5, <1>6, <1>7, <1>9 DEF UsedIn
<1>11. ASSUME NEW i \in 1..n, t[i].lhs = "$$" PROVE \E u \in 1..n : UsedIn(new, L, to, t, i, u)
  <2>1. CASE i = m
    BY <1>8, <1>10, <2>1
  <2>2. CASE i # m
    BY <1>1, <1>11, <2>2 DEF Used
  <2>3. QED
    BY <2>1, <2>2
<1>12. QED
  BY <1>11 DEF Used, to
LEMMA UsedRule ==
    ASSUME NEW items, NEW L, NEW at, NEW src, Laid(items, Len(src), at),
           Used(items, L, at, src, {}), \A i \in 1..Len(src) : L[i] # 0,
           NEW new, ItemAdded(items, new, 0), NEW b,
           NEW t, Len(t) = Len(src) + 1, \A i \in 1..Len(src) : t[i] = src[i],
           t[Len(src) + 1].lhs # "$$"
    PROVE  Used(new, NextLhs(Len(src), L, b), NextAt(Len(src), at), t, {})
<1> DEFINE n == Len(src)
           to == NextAt(n, at)
           M == NextLhs(n, L, b)
<1>0. n \in Nat /\ n >= 1 /\ Len(items) \in Nat /\ \A i \in 1..(n + 1) : at[i] \in Nat
  BY LaidSizes
<1>1. \A i \in 1..(n + 1) : to[i] = at[i]
  <2>1. \A i \in 1..(n + 1) : i \in 1..(n + 2) /\ i # n + 2
    BY <1>0
  <2>2. QED
    BY <2>1 DEF NextAt
<1>2. \A i \in 1..n : M[i] = L[i]
  BY <1>0 DEF NextLhs
<1> HIDE DEF to, M
<1> SUFFICES ASSUME NEW i \in 1..(n + 1), t[i].lhs = "$$"
             PROVE  \E u \in 1..(n + 1) : UsedIn(new, M, to, t, i, u)
  BY DEF Used, to, M
<1>3. i \in 1..n /\ src[i].lhs = "$$" /\ M[i] = L[i] /\ L[i] # 0
  <2>1. i = n + 1 \/ i \in 1..n
    BY <1>0
  <2>2. QED
    BY <1>2, <2>1
<1>4. PICK u \in 1..n : UsedIn(items, L, at, src, i, u)
  BY <1>3 DEF Used
<1>5. /\ u \in 1..(n + 1) /\ u + 1 \in 1..(n + 1) /\ to[u] = at[u] /\ to[u + 1] = at[u + 1]
  BY <1>0, <1>1
<1>6. u \in (i + 1)..(n + 1) /\ t[u].lhs # "$$"
  BY <1>0, <1>3, <1>4 DEF UsedIn
<1>7. \A q \in i..(u - 1) : t[q].lhs = "$$"
  <2>1. \A q \in i..(u - 1) : q \in 1..n
    BY <1>0, <1>3
  <2>2. QED
    BY <1>4, <2>1 DEF UsedIn
<1>8. \E k \in (to[u] + 1)..(to[u + 1] - 1) : new[k] = M[i]
  <2>1. PICK k \in (at[u] + 1)..(at[u + 1] - 1) : items[k] = L[i]
    BY <1>4 DEF UsedIn
  <2>2. k \in 4..Len(items)
    BY LaidPlaces
  <2>3. k \in 1..Len(items)
    BY <1>0, <2>2
  <2>4. QED
    BY <1>3, <1>5, <2>1, <2>3 DEF ItemAdded
<1>9. ASSUME NEW k \in 4..Len(new), new[k] = M[i] PROVE k \in (to[u] + 1)..(to[u + 1] - 1)
  <2>1. k # Len(items) + 1
    BY <1>3, <1>9 DEF ItemAdded
  <2>2. k \in 4..Len(items) /\ k \in 1..Len(items)
    BY <1>0, <2>1 DEF ItemAdded
  <2>3. items[k] = L[i]
    BY <1>3, <1>9, <2>2 DEF ItemAdded
  <2>4. QED
    BY <1>4, <1>5, <2>2, <2>3 DEF UsedIn
<1>10. UsedIn(new, M, to, t, i, u)
  BY <1>6, <1>7, <1>8, <1>9 DEF UsedIn
<1>11. QED
  BY <1>5, <1>10

LEMMA UsedEmpty ==
    ASSUME NEW items, NEW L, NEW at, NEW src, Laid(items, Len(src), at),
           Used(items, L, at, src, {}), \A i \in 1..Len(src) : L[i] # 0,
           src[Len(src)].lhs # "$$",
           NEW new, ItemsMoved(items, new, at[Len(src)]), NEW m,
           NEW t, Inserted(src, t)
    PROVE  Used(new, MovedLhs(Len(src), L, m), MovedAt(Len(src), at), t, {Len(src)})
<1> DEFINE n == Len(src)
           to == MovedAt(n, at)
           M == MovedLhs(n, L, m)
<1>0. n \in Nat /\ n >= 1 /\ Len(items) \in Nat /\ \A i \in 1..(n + 1) : at[i] \in Nat
  BY LaidSizes
<1>1. /\ \A i \in 1..n : to[i] = at[i]
      /\ to[n + 1] = at[n] + 1 /\ to[(n + 1) + 1] = at[n + 1] + 1
  BY MovedAtIs
<1>2. \A i \in 1..(n - 1) : M[i] = L[i]
  BY <1>0, MovedLhsIs
<1>3. /\ Len(t) = n + 1
      /\ \A i \in 1..(n - 1) : t[i] = src[i]
      /\ t[n].lhs = "$$" /\ t[n + 1] = src[n]
  BY DEF Inserted, Empty
<1> HIDE DEF to, M, n
<1> SUFFICES ASSUME NEW i \in (1..(n + 1)) \ {n}, t[i].lhs = "$$"
             PROVE  \E u \in 1..(n + 1) : UsedIn(new, M, to, t, i, u)
  BY <1>3 DEF Used, to, M, n
<1>4. i \in 1..(n - 1) /\ i \in 1..n /\ src[i].lhs = "$$" /\ M[i] = L[i] /\ L[i] # 0
  <2>1. i = n + 1 \/ i \in 1..(n - 1)
    BY <1>0
  <2>2. i \in 1..(n - 1)
    BY <1>3, <2>1 DEF n
  <2>3. i \in 1..n
    BY <1>0, <2>2
  <2>4. QED
    BY <1>2, <1>3, <2>2, <2>3 DEF n
<1>5. PICK u \in 1..n : UsedIn(items, L, at, src, i, u)
  BY <1>4 DEF Used, n
<1>6. /\ u \in 1..(n + 1) /\ u + 1 \in 1..(n + 1) /\ at[u] \in Nat /\ at[u + 1] \in Nat
      /\ at[u] \in 4..Len(items) /\ at[u + 1] <= Len(items) + 1
      /\ n \in 1..n /\ at[n] \in Nat /\ at[n] \in 4..Len(items)
  <2>1. n \in 1..n /\ n \in 1..(n + 1)
    BY <1>0
  <2>2. QED
    BY <1>0, <2>1, LaidPlaces DEF n
<1>6a. at[u] \in Int /\ at[u + 1] \in Int /\ at[n] \in Int /\ Len(items) \in Int /\ u \in Int /\ n \in Int
  BY <1>0, <1>6
<1>6b. at[n] >= 4 /\ at[n] <= Len(items) /\ at[u] >= 4 /\ at[u + 1] <= Len(items) + 1
  BY <1>6, <1>6a
<1>7. /\ u \in (i + 1)..n /\ src[u].lhs # "$$" /\ \A q \in i..(u - 1) : src[q].lhs = "$$"
  BY <1>5 DEF UsedIn, n
<1>8. ASSUME NEW k \in 4..Len(new), new[k] = L[i]
      PROVE  \/ k <= at[n] /\ k \in (at[u] + 1)..(at[u + 1] - 1)
             \/ k > at[n] + 1 /\ k - 1 \in (at[u] + 1)..(at[u + 1] - 1)
  <2>1. CASE k <= at[n]
    <3>1. k \in 4..Len(items) /\ k \in 1..at[n]
      <4> DEFINE a == at[n]
                 e == Len(items)
      <4>1. a \in Int /\ e \in Int /\ a <= e /\ k <= a
        BY <1>6a, <1>6b, <2>1
      <4> HIDE DEF a, e
      <4>2. k \in 4..e /\ k \in 1..a
        BY <4>1
      <4>3. QED
        BY <4>2 DEF a, e
    <3>2. items[k] = L[i]
      BY <1>8, <3>1 DEF ItemsMoved, n
    <3>3. QED
      BY <1>5, <2>1, <3>1, <3>2 DEF UsedIn
  <2>2. CASE k = at[n] + 1
    BY <1>4, <1>8, <2>2 DEF ItemsMoved, n
  <2>3. CASE k > at[n] + 1
    <3>0. Len(new) = Len(items) + 1
      BY DEF ItemsMoved
    <3>1. k - 1 \in (at[n] + 1)..Len(items) /\ (k - 1) + 1 = k /\ k - 1 \in 4..Len(items)
      <4>1. k \in Int /\ k <= Len(items) + 1
        BY <1>6a, <3>0
      <4> DEFINE a == at[n]
                 e == Len(items)
      <4>2. a \in Int /\ e \in Int /\ a >= 4 /\ k > a + 1 /\ k <= e + 1
        BY <1>6a, <1>6b, <2>3, <4>1
      <4> HIDE DEF a, e
      <4>3. k - 1 \in (a + 1)..e /\ (k - 1) + 1 = k /\ k - 1 \in 4..e
        BY <4>1, <4>2
      <4>4. QED
        BY <4>3 DEF a, e
    <3>2. items[k - 1] = L[i]
      BY <1>8, <3>1 DEF ItemsMoved, n
    <3>3. QED
      BY <1>5, <2>3, <3>1, <3>2 DEF UsedIn
  <2>4. k <= at[n] \/ k = at[n] + 1 \/ k > at[n] + 1
    <3> DEFINE a == at[n]
    <3>1. a \in Int /\ k \in Int
      BY <1>6a
    <3> HIDE DEF a
    <3>2. k <= a \/ k = a + 1 \/ k > a + 1
      BY <3>1
    <3>3. QED
      BY <3>2 DEF a
  <2>5. QED
    BY <2>1, <2>2, <2>3, <2>4, Zenon
<1>9. PICK p \in (at[u] + 1)..(at[u + 1] - 1) : items[p] = L[i]
  BY <1>5 DEF UsedIn
<1>9a. p \in Int /\ at[u] < p /\ p < at[u + 1]
  <2> DEFINE a == at[u]
             c == at[u + 1]
  <2>1. a \in Int /\ c \in Int
    BY <1>6a
  <2>1a. p \in (a + 1)..(c - 1)
    BY <1>9, Zenon
  <2> HIDE DEF a, c
  <2>2. p \in Int /\ a < p /\ p < c
    BY <2>1, <2>1a
  <2>3. QED
    BY <2>2 DEF a, c
<1>10. CASE u = n
  <2>1. n + 1 \in (i + 1)..(n + 1) /\ t[n + 1].lhs # "$$" /\ n + 1 \in 1..(n + 1)
    BY <1>0, <1>3, <1>4, <1>7, <1>10
  <2>2. ASSUME NEW q \in i..((n + 1) - 1) PROVE t[q].lhs = "$$"
    <3>1. q = n \/ (q \in 1..(n - 1) /\ q \in i..(u - 1))
      BY <1>0, <1>4, <1>10
    <3>2. QED
      BY <1>3, <1>7, <3>1
  <2>3. \E k \in (to[n + 1] + 1)..(to[(n + 1) + 1] - 1) : new[k] = M[i]
    <3>1. /\ p \in (at[n] + 1)..Len(items)
          /\ p + 1 \in ((at[n] + 1) + 1)..((at[n + 1] + 1) - 1)
      <4> DEFINE a == at[n]
                 c == at[n + 1]
                 e == Len(items)
      <4>1. a \in Int /\ c \in Int /\ e \in Int /\ p \in Int /\ a < p /\ p < c /\ c <= e + 1
        BY <1>6a, <1>6b, <1>9a, <1>10
      <4> HIDE DEF a, c, e
      <4>2. p \in (a + 1)..e /\ p + 1 \in ((a + 1) + 1)..((c + 1) - 1)
        BY <4>1
      <4>3. QED
        BY <4>2 DEF a, c, e
    <3>2. new[p + 1] = items[p]
      BY <3>1 DEF ItemsMoved, n
    <3>3. QED
      BY <1>1, <1>4, <1>9, <3>1, <3>2
  <2>4. ASSUME NEW k \in 4..Len(new), new[k] = M[i]
        PROVE  k \in (to[n + 1] + 1)..(to[(n + 1) + 1] - 1)
    <3>1. ~(k <= at[n] /\ k \in (at[u] + 1)..(at[u + 1] - 1))
      BY <1>6, <1>10
    <3>2. k - 1 \in (at[n] + 1)..(at[n + 1] - 1)
      BY <1>4, <1>8, <1>10, <2>4, <3>1
    <3>3. k \in ((at[n] + 1) + 1)..((at[n + 1] + 1) - 1)
      <4> DEFINE a == at[n]
                 e == at[n + 1]
      <4>1. a \in Int /\ e \in Int /\ k \in Int
        BY <1>6a, <1>10
      <4>2. k - 1 \in (a + 1)..(e - 1)
        BY <3>2
      <4> HIDE DEF a, e
      <4>3. k \in ((a + 1) + 1)..((e + 1) - 1)
        BY <4>1, <4>2
      <4>4. QED
        BY <4>3 DEF a, e
    <3>4. QED
      BY <1>1, <3>3
  <2>5. UsedIn(new, M, to, t, i, n + 1)
    BY <1>3, <2>1, <2>2, <2>3, <2>4 DEF UsedIn
  <2>6. QED
    BY <2>1, <2>5
<1>11. CASE u # n
  <2>1. u \in 1..(n - 1) /\ u + 1 \in 1..n /\ u \in (i + 1)..(n + 1)
    BY <1>0, <1>4, <1>7, <1>11
  <2>2. t[u].lhs # "$$" /\ to[u] = at[u] /\ to[u + 1] = at[u + 1]
    BY <1>1, <1>3, <1>7, <2>1
  <2>3. ASSUME NEW q \in i..(u - 1) PROVE t[q].lhs = "$$"
    <3>1. q \in 1..(n - 1)
      BY <1>0, <1>4, <2>1
    <3>2. QED
      BY <1>3, <1>7, <3>1
  <2>4. at[u + 1] <= at[n]
    <3>1. u + 1 = n \/ (u + 1 < n /\ n \in 1..(n + 1) /\ u + 1 \in 1..(n + 1))
      BY <1>0, <2>1
    <3>2. u + 1 = n \/ at[u + 1] < at[n]
      BY <3>1 DEF Laid, n
    <3>3. QED
      BY <1>6, <3>2
  <2>5. \E k \in (to[u] + 1)..(to[u + 1] - 1) : new[k] = M[i]
    <3>1. p \in 1..at[n]
      <4> DEFINE a == at[u]
                 b == at[n]
                 c == at[u + 1]
      <4>1. /\ a \in Int /\ b \in Int /\ c \in Int /\ p \in Int
            /\ a >= 4 /\ a < p /\ p < c /\ c <= b
        BY <1>6a, <1>6b, <1>9a, <2>4
      <4> HIDE DEF a, b, c
      <4>2. p \in 1..b
        BY <4>1
      <4>3. QED
        BY <4>2 DEF b
    <3>2. QED
      BY <1>4, <1>9, <2>2, <3>1 DEF ItemsMoved, n
  <2>6. ASSUME NEW k \in 4..Len(new), new[k] = M[i] PROVE k \in (to[u] + 1)..(to[u + 1] - 1)
    <3>1. ~(k > at[n] + 1 /\ k - 1 \in (at[u] + 1)..(at[u + 1] - 1))
      <4> DEFINE a == at[u]
                 b == at[n]
                 c == at[u + 1]
      <4>1. a \in Int /\ b \in Int /\ c \in Int /\ k \in Int /\ c <= b
        BY <1>6a, <2>4
      <4> HIDE DEF a, b, c
      <4>2. ~(k > b + 1 /\ k - 1 \in (a + 1)..(c - 1))
        BY <4>1
      <4>3. QED
        BY <4>2 DEF a, b, c
    <3>2. QED
      BY <1>4, <1>8, <2>2, <2>6, <3>1
  <2>7. UsedIn(new, M, to, t, i, u)
    BY <1>3, <2>1, <2>2, <2>3, <2>5, <2>6 DEF UsedIn
  <2>8. QED
    BY <1>6, <2>7
<1>12. QED
  BY <1>10, <1>11

\* The rule arrays have the left-hand sides L, after the three first rules.
Heads(rls, L, n) ==
    /\ IsSeq(rls) /\ Len(rls) = n + 3 /\ \A i \in 1..n : rls[i + 3].lhs = L[i]

\* The state of the reader while it reads the last of the rules src.
Fits(items, L, at, rls, syms, src) ==
    /\ Laid(items, Len(src), at) /\ Spelled(items, L, syms, at, src)
    /\ Used(items, L, at, src, {}) /\ src[Len(src)].lhs # "$$"
    /\ Heads(rls, L, Len(src))

LEMMA AppendAdds ==
    ASSUME NEW items \in Seq(Nat), NEW b \in Nat
    PROVE  ItemAdded(items, Append(items, b), b)
  BY DEF ItemAdded

LEMMA FitsNames ==
    ASSUME NEW items, NEW L, NEW at, NEW rls, NEW syms, NEW src,
           Fits(items, L, at, rls, syms, src), NEW new, SameNames(syms, new)
    PROVE  Fits(items, L, at, rls, new, src)
  BY SpelledNames DEF Fits

LEMMA FitsHeads ==
    ASSUME NEW items, NEW L, NEW at, NEW rls, NEW syms, NEW src,
           Fits(items, L, at, rls, syms, src),
           NEW new, IsSeq(new), Len(new) = Len(rls),
           \A i \in 1..Len(rls) : new[i].lhs = rls[i].lhs
    PROVE  Fits(items, L, at, new, syms, src)
<1>1. Len(src) \in Nat
  BY LaidSizes DEF Fits
<1>2. ASSUME NEW i \in 1..Len(src) PROVE new[i + 3].lhs = L[i]
  <2>1. Len(rls) = Len(src) + 3 /\ rls[i + 3].lhs = L[i]
    BY DEF Fits, Heads
  <2>2. i + 3 \in 1..Len(rls)
    BY <1>1, <2>1
  <2>3. QED
    BY <2>1, <2>2
<1>3. Heads(new, L, Len(src))
  BY <1>2 DEF Fits, Heads
<1>4. QED
  BY <1>3 DEF Fits

LEMMA FitsItem ==
    ASSUME NEW items, NEW L, NEW at, NEW rls, NEW syms, NEW src,
           Fits(items, L, at, rls, syms, src), Len(syms) \in Nat,
           NEW b \in 1..Len(syms), syms[b].name # "$$",
           NEW t, Grown(src, t, syms[b].name)
    PROVE  Fits(Append(items, b), L, Longer(Len(src), at), rls, syms, t)
<1> DEFINE n == Len(src)
           new == Append(items, b)
<1>1. /\ Laid(items, n, at) /\ Spelled(items, L, syms, at, src)
      /\ Used(items, L, at, src, {}) /\ src[n].lhs # "$$" /\ Heads(rls, L, n)
  BY DEF Fits
<1>2. n \in Nat /\ n >= 1 /\ b \in Nat /\ b # 0 /\ items \in Seq(Nat)
  BY <1>1 DEF Laid
<1>3. ItemAdded(items, new, b)
  BY <1>2, AppendAdds
<1>4. Len(t) = n /\ \A i \in 1..n : t[i].lhs = src[i].lhs
  <2>1. \A i \in 1..n : i = n \/ i \in 1..(n - 1)
    BY <1>2
  <2>2. QED
    BY <2>1 DEF Grown
<1>5. \A i \in (1..n) \ {} : src[i].lhs = "$$" => L[i] # b
  BY <1>1 DEF Spelled
<1> HIDE DEF new
<1>6. Laid(new, n, Longer(n, at))
  BY <1>1, <1>2, <1>3, LaidItem
<1>7. Spelled(new, L, syms, Longer(n, at), t)
  BY <1>1, <1>3, SpelledItem
<1>8. Used(new, L, Longer(n, at), t, {})
  BY <1>1, <1>3, <1>4, <1>5, UsedItem
<1>9. t[n].lhs # "$$"
  BY <1>1, <1>2, <1>4
<1>10. QED
  BY <1>1, <1>4, <1>6, <1>7, <1>8, <1>9 DEF Fits, new

LEMMA FitsRule ==
    ASSUME NEW items, NEW L, NEW at, NEW rls, NEW syms, NEW src,
           Fits(items, L, at, rls, syms, src), Len(syms) \in Nat,
           NEW b \in 1..Len(syms), syms[b].name \in Names, syms[b].name # "$$",
           NEW r, r.lhs = b
    PROVE  Fits(Append(items, 0), NextLhs(Len(src), L, b), NextAt(Len(src), at),
                Append(rls, r), syms, Append(src, [lhs |-> syms[b].name, rhs |-> <<>>]))
<1> DEFINE n == Len(src)
           new == Append(items, 0)
           t == Append(src, [lhs |-> syms[b].name, rhs |-> <<>>])
           M == NextLhs(n, L, b)
<1>1. /\ Laid(items, n, at) /\ Spelled(items, L, syms, at, src)
      /\ Used(items, L, at, src, {}) /\ Heads(rls, L, n)
  BY DEF Fits
<1>2. n \in Nat /\ n >= 1 /\ items \in Seq(Nat) /\ src \in Seq(RuleForms)
  BY <1>1 DEF Laid, Spelled
<1>3. ItemAdded(items, new, 0)
  BY <1>2, AppendAdds
<1>4. /\ Len(t) = n + 1 /\ \A i \in 1..n : t[i] = src[i]
      /\ t[n + 1] = [lhs |-> syms[b].name, rhs |-> <<>>]
  BY <1>2
<1>5. \A i \in 1..n : L[i] # 0
  BY <1>1 DEF Spelled
<1>6. Spelled(new, M, syms, NextAt(n, at), t)
  BY <1>1, <1>3, SpelledRule
<1> HIDE DEF new, t
<1>7. Laid(new, n + 1, NextAt(n, at))
  BY <1>1, <1>3, LaidRule
<1>8. Used(new, M, NextAt(n, at), t, {})
  BY <1>1, <1>3, <1>4, <1>5, UsedRule
<1>9. Heads(Append(rls, r), M, n + 1)
  <2>1. /\ IsSeq(rls) /\ Len(rls) = n + 3 /\ \A i \in 1..n : rls[i + 3].lhs = L[i]
    BY <1>1 DEF Heads
  <2>2. IsSeq(Append(rls, r)) /\ Len(Append(rls, r)) = (n + 1) + 3
    BY <1>2, <2>1, SeqAppend
  <2>3. ASSUME NEW i \in 1..(n + 1) PROVE Append(rls, r)[i + 3].lhs = M[i]
    <3>0. PICK S : rls \in Seq(S)
      BY <2>1 DEF IsSeq
    <3>1. CASE i = n + 1
      BY <1>2, <2>1, <3>0, <3>1 DEF NextLhs
    <3>2. CASE i # n + 1
      <4>1. i \in 1..n /\ i + 3 \in 1..Len(rls)
        BY <1>2, <2>1, <3>2
      <4>2. Append(rls, r)[i + 3] = rls[i + 3]
        BY <3>0, <4>1
      <4>3. QED
        BY <2>1, <3>2, <4>1, <4>2 DEF NextLhs
    <3>3. QED
      BY <3>1, <3>2
  <2>4. QED
    BY <2>2, <2>3 DEF Heads
<1>10. QED
  BY <1>4, <1>6, <1>7, <1>8, <1>9 DEF Fits, new, t

\* The first rule: no items but the null pointers of initialize_grammar.
LEMMA FitsFirst ==
    ASSUME NEW syms, Len(syms) \in Nat, NEW b \in 1..Len(syms),
           syms[b].name \in Names, syms[b].name # "$$",
           NEW rls, IsSeq(rls), Len(rls) = 4, rls[4].lhs = b
    PROVE  \E at, L : Fits(<<0, 0, 0, 0>>, L, at, rls, syms,
                           <<[lhs |-> syms[b].name, rhs |-> <<>>]>>)
<1> DEFINE items == <<0, 0, 0, 0>>
           src == <<[lhs |-> syms[b].name, rhs |-> <<>>]>>
           at == [i \in 1..2 |-> 3 + i]
           L == [i \in 1..1 |-> b]
<1>1. src \in Seq(RuleForms) /\ Len(src) = 1 /\ src[1].lhs = syms[b].name /\ src[1].rhs = <<>>
  BY DEF RuleForms
<1>2. items \in Seq(Nat) /\ Len(items) = 4 /\ items[4] = 0
  OBVIOUS
<1>3. at \in [1..2 -> Nat] /\ at[1] = 4 /\ at[2] = 5
  OBVIOUS
<1>4. L \in [1..1 -> 1..Len(syms)] /\ L[1] = b
  OBVIOUS
<1> HIDE DEF items, src, at, L
<1>5. /\ 1..1 = {1} /\ 1..2 = {1, 2} /\ 1 + 1 = 2 /\ 4 + 1 = 5 /\ 1 + 3 = 4 /\ 4..4 = {4} /\ 1..0 = {}
      /\ 5 - 4 - 1 = 0
  OBVIOUS
<1>6. Laid(items, 1, at)
  <2>1. \A i, j \in 1..(1 + 1) : i < j => at[i] < at[j]
    BY <1>3, <1>5
  <2>2. QED
    BY <1>2, <1>3, <1>5, <2>1 DEF Laid
<1>7. Len(src[1].rhs) = 0
  BY <1>1
<1>8. Spelled(items, L, syms, at, src)
  <2>1. \A k \in 4..Len(items) : items[k] \in 0..Len(syms)
    BY <1>2, <1>5
  <2>2. \A i \in 1..Len(src) : i = 1 /\ i + 1 = 2
    BY <1>1, <1>5
  <2>3. \A i \in 1..Len(src) : Len(src[i].rhs) = at[i + 1] - at[i] - 1
    BY <1>3, <1>5, <1>7, <2>2
  <2>4. \A i \in 1..Len(src) : 1..Len(src[i].rhs) = {}
    BY <1>5, <1>7, <2>2
  <2>5. \A i \in 1..Len(src) : syms[L[i]].name = src[i].lhs
    BY <1>1, <1>4, <2>2
  <2>6. QED
    BY <1>1, <1>4, <2>1, <2>3, <2>4, <2>5 DEF Spelled
<1>9. Used(items, L, at, src, {})
  BY <1>1, <1>5 DEF Used
<1>10. Heads(rls, L, 1)
  BY <1>4, <1>5 DEF Heads
<1>11. Fits(items, L, at, rls, syms, src)
  BY <1>1, <1>6, <1>8, <1>9, <1>10 DEF Fits
<1>12. QED
  BY <1>11 DEF items, src

\* insert_empty_rule: the items of the open rule move, the empty rule is before
\* it, and the symbol of the empty rule m, a new one, is its last item.
RulesMoved(rls, new, m) ==
    /\ IsSeq(new) /\ Len(new) = Len(rls) + 1
    /\ \A i \in 1..(Len(rls) - 1) : new[i] = rls[i]
    /\ new[Len(rls)].lhs = m /\ new[Len(rls) + 1] = rls[Len(rls)]

LEMMA HeadsMoved ==
    ASSUME NEW n \in Nat, n >= 1, NEW rls, NEW L, Heads(rls, L, n),
           NEW new, NEW m, RulesMoved(rls, new, m)
    PROVE  Heads(new, MovedLhs(n, L, m), n + 1)
<1>1. Len(rls) = n + 3 /\ \A i \in 1..n : rls[i + 3].lhs = L[i]
  BY DEF Heads
<1>2. LET M == MovedLhs(n, L, m)
      IN  (\A i \in 1..(n - 1) : M[i] = L[i]) /\ M[n] = m /\ M[n + 1] = L[n]
  BY MovedLhsIs
<1>3. ASSUME NEW i \in 1..(n + 1) PROVE new[i + 3].lhs = MovedLhs(n, L, m)[i]
  <2>1. CASE i = n + 1
    <3>1. i + 3 = Len(rls) + 1 /\ n \in 1..n /\ n + 3 = Len(rls)
      BY <1>1, <2>1
    <3>2. QED
      BY <1>1, <1>2, <2>1, <3>1 DEF RulesMoved
  <2>2. CASE i = n
    BY <1>1, <1>2, <2>2 DEF RulesMoved
  <2>3. CASE i # n /\ i # n + 1
    <3>1. i \in 1..(n - 1) /\ i \in 1..n /\ i + 3 \in 1..(Len(rls) - 1)
      BY <1>1, <2>3
    <3>2. QED
      BY <1>1, <1>2, <3>1 DEF RulesMoved
  <2>4. QED
    BY <2>1, <2>2, <2>3
<1>4. Len(new) = (n + 1) + 3 /\ IsSeq(new)
  BY <1>1 DEF RulesMoved
<1>5. QED
  BY <1>3, <1>4 DEF Heads

\* The rules in between: the empty rule is there, but not yet its symbol.
Between(src) == [i \in 1..(Len(src) + 1) |->
                    IF i < Len(src) THEN src[i] ELSE IF i = Len(src) THEN Empty ELSE src[Len(src)]]

LEMMA BetweenIs ==
    ASSUME NEW src \in Seq(RuleForms), Len(src) >= 1, NEW t, EmptyBefore(src, t)
    PROVE  Inserted(src, Between(src)) /\ Grown(Between(src), t, "$$")
<1> DEFINE n == Len(src)
           u == Between(src)
<1>1. n \in Nat /\ n >= 1
  OBVIOUS
<1>2. ASSUME NEW i \in 1..(n + 1)
      PROVE  u[i] = (IF i < n THEN src[i] ELSE IF i = n THEN Empty ELSE src[n]) /\ u[i] \in RuleForms
  <2>1. Empty \in RuleForms /\ src[n] \in RuleForms
    <3>1. "$$" \in Names /\ <<>> \in Seq(Names)
      BY DEF Names
    <3>2. Empty \in RuleForms
      BY <3>1 DEF Empty, RuleForms
    <3>3. QED
      BY <1>1, <3>2
  <2>2. i < n => src[i] \in RuleForms
    BY <1>1
  <2>3. QED
    BY <2>1, <2>2 DEF Between
<1>3. u = [i \in 1..(n + 1) |-> u[i]]
  BY DEF Between
<1> HIDE DEF u
<1>4. u \in Seq(RuleForms) /\ Len(u) = n + 1
  <2>1. n + 1 \in Nat /\ u \in [1..(n + 1) -> RuleForms]
    BY <1>1, <1>2, <1>3
  <2>2. QED
    BY <2>1
<1>5. \A i \in 1..(n - 1) : u[i] = src[i]
  BY <1>1, <1>2
<1>6. u[n] = Empty /\ u[n + 1] = src[n]
  BY <1>1, <1>2
<1>7. Inserted(src, u)
  BY <1>4, <1>5, <1>6 DEF Inserted
<1>8. ASSUME NEW i \in 1..(Len(u) - 1) PROVE t[i] = u[i]
  <2>1. i = n \/ i \in 1..(n - 1)
    BY <1>1, <1>4
  <2>2. QED
    BY <1>5, <1>6, <2>1 DEF EmptyBefore
<1>9. Grown(u, t, "$$")
  BY <1>4, <1>6, <1>8 DEF EmptyBefore, Grown
<1>10. QED
  BY <1>7, <1>9 DEF u

LEMMA FitsEmpty ==
    ASSUME NEW items, NEW L, NEW at, NEW rls, NEW syms, NEW src,
           Fits(items, L, at, rls, syms, src), Len(syms) \in Nat,
           NEW more, SameNames(syms, more), Len(more) = Len(syms) + 1,
           more[Len(syms) + 1].name = "$$",
           NEW mid, ItemsMoved(items, mid, at[Len(src)]),
           NEW new, RulesMoved(rls, new, Len(syms) + 1),
           NEW t, EmptyBefore(src, t)
    PROVE  Fits(Append(mid, Len(syms) + 1), MovedLhs(Len(src), L, Len(syms) + 1),
                Longer(Len(src) + 1, MovedAt(Len(src), at)), new, more, t)
<1> DEFINE n == Len(src)
           m == Len(syms) + 1
           u == Between(src)
           to == MovedAt(n, at)
           M == MovedLhs(n, L, m)
           last == Append(mid, m)
<1>1. /\ Laid(items, n, at) /\ Spelled(items, L, syms, at, src)
      /\ Used(items, L, at, src, {}) /\ src[n].lhs # "$$" /\ Heads(rls, L, n)
  BY DEF Fits
<1>2. n \in Nat /\ n >= 1 /\ src \in Seq(RuleForms) /\ m \in Nat /\ m # 0
      /\ m \in 1..Len(more) /\ Len(more) \in Nat
  BY <1>1 DEF Laid, Spelled
<1>3. Inserted(src, u) /\ Grown(u, t, "$$")
  BY <1>2, BetweenIs
<1>4. Len(u) = n + 1 /\ u[n] = Empty /\ u[n + 1] = src[n] /\ Len(t) = n + 1
  BY <1>3 DEF Inserted, Grown
<1> HIDE DEF u
<1>5. Laid(mid, n + 1, to)
  BY <1>1, LaidEmpty
<1>6. Spelled(mid, M, more, to, u)
  <2>1. Spelled(items, L, more, at, src)
    BY <1>1, SpelledNames
  <2>2. QED
    BY <1>1, <1>2, <1>3, <2>1, SpelledEmpty
<1>7. Used(mid, M, to, u, {n})
  <2>1. \A i \in 1..n : L[i] # 0
    BY <1>1 DEF Spelled
  <2>2. QED
    BY <1>1, <1>3, <2>1, UsedEmpty
<1>8. /\ \A i \in 1..(n - 1) : M[i] = L[i]
      /\ M[n] = m /\ M[n + 1] = L[n]
  BY <1>2, MovedLhsIs
<1>9. \A i \in 1..(n + 1) : i # n => M[i] # m
  <2>1. \A i \in 1..n : L[i] # m
    <3>1. \A i \in 1..n : L[i] \in 1..Len(syms)
      BY <1>1 DEF Spelled
    <3>2. QED
      BY <3>1
  <2>2. \A i \in 1..(n + 1) : i # n => (i = n + 1 \/ (i \in 1..(n - 1) /\ i \in 1..n))
    BY <1>2
  <2>3. n \in 1..n
    BY <1>2
  <2>4. QED
    BY <1>8, <2>1, <2>2, <2>3
<1>10. ASSUME NEW k \in 4..Len(mid) PROVE mid[k] # m
  <2> DEFINE p == at[n]
  <2>1. n \in 1..n /\ p \in 4..Len(items) /\ Len(items) \in Nat
    BY <1>1, <1>2, LaidPlaces, LaidSizes
  <2>2. \A j \in 4..Len(items) : items[j] \in 0..Len(syms)
    BY <1>1 DEF Spelled
  <2>3. ItemsMoved(items, mid, p)
    OBVIOUS
  <2> HIDE DEF p
  <2>4. k \in Int /\ k >= 4 /\ k <= Len(items) + 1
    BY <2>1, <2>3 DEF ItemsMoved
  <2>5. CASE k <= p
    <3>1. k \in 1..p /\ k \in 4..Len(items)
      BY <2>1, <2>4, <2>5
    <3>2. mid[k] \in 0..Len(syms)
      BY <2>2, <2>3, <3>1 DEF ItemsMoved
    <3>3. QED
      BY <3>2
  <2>6. CASE k = p + 1
    BY <1>2, <2>3, <2>6 DEF ItemsMoved
  <2>7. CASE k > p + 1
    <3>1. k - 1 \in (p + 1)..Len(items) /\ (k - 1) + 1 = k /\ k - 1 \in 4..Len(items)
      BY <2>1, <2>4, <2>7
    <3>2. mid[k] \in 0..Len(syms)
      BY <2>2, <2>3, <3>1 DEF ItemsMoved
    <3>3. QED
      BY <3>2
  <2>8. QED
    BY <2>1, <2>4, <2>5, <2>6, <2>7
<1>11. ItemAdded(mid, last, m)
  BY <1>2, AppendAdds DEF ItemsMoved
<1> HIDE DEF m, to, M, last
<1>12. Laid(last, n + 1, Longer(n + 1, to))
  BY <1>2, <1>5, <1>11, LaidItem
<1>13. Spelled(last, M, more, Longer(n + 1, to), t)
  <2>1. Grown(u, t, more[m].name)
    BY <1>3 DEF m
  <2>2. Laid(mid, Len(u), to)
    BY <1>4, <1>5
  <2>3. Spelled(last, M, more, Longer(Len(u), to), t)
    BY <1>2, <1>6, <1>11, <2>1, <2>2, SpelledItem
  <2>4. QED
    BY <1>4, <2>3
<1>14. Used(last, M, Longer(n + 1, to), t, {})
  <2> DEFINE e == Len(u)
  <2>1. e >= 2 /\ e - 1 = n /\ Laid(mid, e, to)
    BY <1>2, <1>4, <1>5
  <2>2. u[e - 1].lhs = "$$" /\ u[e].lhs # "$$"
    BY <1>1, <1>4, <2>1 DEF Empty
  <2>3. Used(mid, M, to, u, {e - 1})
    BY <1>7, <2>1
  <2>4. /\ M[e - 1] = m
        /\ \A i \in 1..e : i # e - 1 => M[i] # M[e - 1]
        /\ \A k \in 4..Len(mid) : mid[k] # M[e - 1]
    BY <1>4, <1>8, <1>9, <1>10, <2>1
  <2>5. Len(t) = e /\ \A i \in 1..e : t[i].lhs = u[i].lhs
    <3>1. \A i \in 1..e : i = e \/ i \in 1..(e - 1)
      BY <1>2, <2>1, <1>4
    <3>2. QED
      BY <1>3, <3>1 DEF Grown
  <2>6. ItemAdded(mid, last, M[e - 1])
    BY <1>11, <2>4
  <2>7. Used(last, M, Longer(e, to), t, {})
    BY <2>1, <2>2, <2>3, <2>4, <2>5, <2>6, UsedMark
  <2>8. QED
    BY <1>4, <2>7
<1>15. Heads(new, M, n + 1)
  BY <1>1, <1>2, HeadsMoved DEF M, m
<1>16. t[n + 1].lhs # "$$"
  BY <1>1, <1>3, <1>4 DEF Grown
<1>17. QED
  BY <1>4, <1>12, <1>13, <1>14, <1>15, <1>16 DEF Fits, last, M, to, m

(* Buckets keep their names. *)

LEMMA NamesTrans ==
    ASSUME NEW a, NEW b, NEW c, SameNames(a, b), SameNames(b, c)
    PROVE  SameNames(a, c)
<1>1. \A i \in 1..Len(a) : i \in 1..Len(b)
  BY DEF SameNames
<1>2. Len(a) \in Nat /\ Len(c) \in Nat /\ Len(a) <= Len(c)
  BY DEF SameNames
<1>3. QED
  BY <1>1, <1>2 DEF SameNames

LEMMA NamesAppend ==
    ASSUME NEW syms \in Tables, NEW b
    PROVE  SameNames(syms, Append(syms, b))
  BY DEF SameNames, Tables

LEMMA NamesPut ==
    ASSUME NEW syms \in Tables, NEW bp, NEW b, b.name = syms[bp].name
    PROVE  SameNames(syms, [syms EXCEPT ![bp] = b])
<1> DEFINE new == [syms EXCEPT ![bp] = b]
<1>1. Len(new) = Len(syms) /\ Len(syms) \in Nat
  BY DEF Tables
<1>2. \A i \in 1..Len(syms) : new[i].name = syms[i].name
  BY DEF Tables
<1>3. QED
  BY <1>1, <1>2 DEF SameNames

LEMMA NamesClass ==
    ASSUME NEW syms \in Tables, NEW bp
    PROVE  SameNames(syms, [syms EXCEPT ![bp].class = "NONTERM"])
<1> DEFINE new == [syms EXCEPT ![bp].class = "NONTERM"]
<1>1. Len(new) = Len(syms) /\ Len(syms) \in Nat
  BY DEF Tables
<1>2. ASSUME NEW i \in 1..Len(syms) PROVE new[i].name = syms[i].name
  <2>1. syms[i] \in Buckets
    BY DEF Tables
  <2>2. CASE i = bp
    <3>1. new[i] = [syms[i] EXCEPT !.class = "NONTERM"]
      BY <2>2 DEF Tables
    <3>2. QED
      BY <2>1, <3>1 DEF Buckets
  <2>3. CASE i # bp
    <3>1. new[i] = syms[i]
      BY <2>3 DEF Tables
    <3>2. QED
      BY <3>1
  <2>4. QED
    BY <2>2, <2>3
<1>3. QED
  BY <1>1, <1>2 DEF SameNames

LEMMA NamesChecked ==
    ASSUME NEW syms \in Tables
    PROVE  SameNames(syms, check_symbols(syms)) /\ Len(check_symbols(syms)) = Len(syms)
<1>0. check_symbols(syms) \in Tables
  BY Checked
<1>1. Len(check_symbols(syms)) = Len(syms) /\ Len(syms) \in Nat
  <2>1. DOMAIN check_symbols(syms) = DOMAIN syms
    BY DEF check_symbols
  <2>2. QED
    BY <1>0, <2>1 DEF Tables
<1>2. ASSUME NEW i \in 1..Len(syms) PROVE check_symbols(syms)[i].name = syms[i].name
  <2>1. syms[i] \in Buckets /\ i \in DOMAIN syms
    BY DEF Tables
  <2>2. [syms[i] EXCEPT !.class = "TERM"].name = syms[i].name
    BY <2>1 DEF Buckets
  <2>3. QED
    BY <2>1, <2>2 DEF check_symbols
<1>3. QED
  BY <1>1, <1>2 DEF SameNames

LEMMA BucketNamed ==
    ASSUME NEW syms \in Tables, NEW name, \E i \in 1..Len(syms) : syms[i].name = name
    PROVE  /\ BucketOf(syms, name) \in 1..Len(syms) /\ Len(syms) \in Nat
           /\ syms[BucketOf(syms, name)].name = name
<1>1. DOMAIN syms = 1..Len(syms) /\ Len(syms) \in Nat
  BY DEF Tables
<1>2. \E i \in DOMAIN syms : syms[i].name = name
  BY <1>1
<1>3. QED
  BY <1>1, <1>2, Zenon DEF BucketOf

LEMMA LookupNames ==
    ASSUME NEW syms \in Tables, NEW name \in Names
    PROVE  LET found == lookup(syms, name)
           IN  /\ found \in Tables /\ SameNames(syms, found)
               /\ \E i \in 1..Len(found) : found[i].name = name
<1>1. lookup(syms, name) \in Tables
  BY Lookup
<1>2. CASE \E i \in DOMAIN syms : syms[i].name = name
  <2>1. lookup(syms, name) = syms
    BY <1>2 DEF lookup
  <2>2. SameNames(syms, syms)
    BY DEF SameNames, Tables
  <2>3. DOMAIN syms = 1..Len(syms)
    BY DEF Tables
  <2>4. QED
    BY <1>1, <1>2, <2>1, <2>2, <2>3
<1>3. CASE ~ \E i \in DOMAIN syms : syms[i].name = name
  <2> DEFINE new == Append(syms, make_bucket(name))
  <2>1. lookup(syms, name) = new
    BY <1>3 DEF lookup
  <2>2. SameNames(syms, new)
    BY NamesAppend
  <2>3. Len(syms) + 1 \in 1..Len(new) /\ new[Len(syms) + 1] = make_bucket(name)
    BY DEF Tables
  <2>4. make_bucket(name).name = name
    BY DEF make_bucket
  <2>5. QED
    BY <1>1, <2>1, <2>2, <2>3, <2>4
<1>4. QED
  BY <1>2, <1>3

LEMMA StillNamed ==
    ASSUME NEW a, NEW b, SameNames(a, b), NEW name, \E i \in 1..Len(a) : a[i].name = name
    PROVE  \E i \in 1..Len(b) : b[i].name = name
<1>1. PICK i \in 1..Len(a) : a[i].name = name
  OBVIOUS
<1>2. i \in 1..Len(b)
  BY DEF SameNames
<1>3. QED
  BY <1>1, <1>2 DEF SameNames

LEMMA SymbolNames ==
    ASSUME NEW syms \in Tables, NEW lx, lx.name \in Names, lx.code \in TokenNumbers
    PROVE  LET found == get_symbol(syms, lx)
           IN  /\ found \in Tables /\ SameNames(syms, found) /\ Len(found) \in Nat
               /\ BucketOf(found, lx.name) \in 1..Len(found)
               /\ found[BucketOf(found, lx.name)].name = lx.name
<1> DEFINE first == lookup(syms, lx.name)
           bp == BucketOf(first, lx.name)
           b == first[bp]
           c == [b EXCEPT !.class = "TERM", !.value = IF @ = UNDEFINED THEN lx.code ELSE @]
           found == get_symbol(syms, lx)
<1>1. /\ first \in Tables /\ SameNames(syms, first)
      /\ \E i \in 1..Len(first) : first[i].name = lx.name
  BY LookupNames
<1>2. found \in Tables
  BY GetSymbol
<1>3. SameNames(first, found)
  <2>1. found = IF lx.code = UNDEFINED THEN first ELSE [first EXCEPT ![bp] = c]
    BY DEF get_symbol
  <2>2. SameNames(first, first)
    BY <1>1 DEF SameNames, Tables
  <2>3. c.name = b.name
    <3>1. b \in Buckets
      BY Lookup
    <3>2. QED
      BY <3>1 DEF Buckets
  <2> HIDE DEF c, found
  <2>4. SameNames(first, [first EXCEPT ![bp] = c])
    BY <1>1, <2>3, NamesPut
  <2>5. QED
    BY <2>1, <2>2, <2>4
<1> HIDE DEF first, found
<1>4. SameNames(syms, found)
  BY <1>1, <1>3, NamesTrans
<1>5. \E i \in 1..Len(found) : found[i].name = lx.name
  BY <1>1, <1>3, StillNamed
<1>6. QED
  BY <1>2, <1>4, <1>5, BucketNamed DEF found

\* The open items are those after the last null pointer.
LEMMA OpenAre ==
    ASSUME NEW items, NEW n, NEW at, Laid(items, n, at)
    PROVE  OpenItems(items) = SubSeq(items, at[n] + 1, Len(items))
<1> DEFINE Is(k) == items[k] = 0 /\ \A j \in (k + 1)..Len(items) : items[j] # 0
           p == at[n]
<1>1. n \in 1..n /\ Len(items) \in Nat /\ DOMAIN items = 1..Len(items)
  BY DEF Laid
<1>2. p \in 4..Len(items) /\ items[p] = 0
  BY <1>1, LaidPlaces DEF Laid
<1>3. at[n + 1] - 1 = Len(items)
  BY <1>1 DEF Laid
<1>4. Is(p) /\ p \in DOMAIN items
  <2>1. \A k \in (p + 1)..Len(items) : items[k] # 0
    BY <1>1, <1>3, LaidPlaces
  <2>2. p \in 1..Len(items)
    BY <1>1, <1>2
  <2>3. QED
    BY <1>1, <1>2, <2>1, <2>2
<1>5. ASSUME NEW k \in DOMAIN items, Is(k) PROVE k = p
  <2> HIDE DEF p
  <2>1. k \in Int /\ p \in Int /\ k <= Len(items) /\ p <= Len(items)
    BY <1>1, <1>2
  <2>2. k < p => p \in (k + 1)..Len(items)
    BY <1>1, <2>1
  <2>3. p < k => k \in (p + 1)..Len(items)
    BY <1>1, <2>1
  <2>4. ~(k < p) /\ ~(p < k)
    BY <1>4, <1>5, <2>2, <2>3
  <2>5. QED
    BY <2>1, <2>4
<1>6. (CHOOSE k \in DOMAIN items : Is(k)) = p
  <2> HIDE DEF Is, p
  <2>1. QED
    BY <1>4, <1>5, Zenon
<1>7. QED
  BY <1>6 DEF OpenItems

LEMMA Joined ==
    ASSUME NEW S, NEW s \in Seq(S), NEW t \in Seq(S)
    PROVE  /\ s \o t \in Seq(S) /\ Len(s \o t) = Len(s) + Len(t)
           /\ Len(s) \in Nat /\ Len(t) \in Nat
           /\ \A i \in 1..Len(s) : (s \o t)[i] = s[i]
           /\ \A i \in 1..Len(t) : (s \o t)[Len(s) + i] = t[i]
<1>1. s \o t \in Seq(S) /\ Len(s \o t) = Len(s) + Len(t) /\ Len(s) \in Nat /\ Len(t) \in Nat
  OBVIOUS
<1>2. ASSUME NEW i \in 1..Len(s) PROVE (s \o t)[i] = s[i]
  <2>1. i \in 1..(Len(s) + Len(t)) /\ i <= Len(s)
    BY <1>1
  <2>2. QED
    BY <1>1, <2>1
<1>3. ASSUME NEW i \in 1..Len(t) PROVE (s \o t)[Len(s) + i] = t[i]
  <2>1. Len(s) + i \in 1..(Len(s) + Len(t)) /\ ~(Len(s) + i <= Len(s)) /\ (Len(s) + i) - Len(s) = i
    BY <1>1
  <2>2. QED
    BY <1>1, <2>1
<1>4. QED
  BY <1>1, <1>2, <1>3

LEMMA FrontIs ==
    ASSUME NEW s, IsSeq(s), Len(s) >= 1
    PROVE  /\ IsSeq(Front(s)) /\ Len(Front(s)) = Len(s) - 1 /\ Len(s) \in Nat
           /\ \A i \in 1..(Len(s) - 1) : Front(s)[i] = s[i]
<1>1. PICK S : s \in Seq(S)
  BY DEF IsSeq
<1>2. Front(s) = SubSeq(s, 1, Len(s) - 1)
  BY DEF Front
<1> DEFINE m == Len(s) - 1
<1>3. m \in Nat /\ m <= Len(s) /\ Len(s) \in Nat
  BY <1>1
<1> HIDE DEF m
<1>4. SubSeq(s, 1, m) \in Seq(S) /\ Len(SubSeq(s, 1, m)) = m
  BY <1>1, <1>3
<1>5. ASSUME NEW i \in 1..m PROVE SubSeq(s, 1, m)[i] = s[i]
  BY <1>1, <1>3
<1>6. QED
  BY <1>2, <1>3, <1>4, <1>5 DEF IsSeq, m

LEMMA MovedRules ==
    ASSUME NEW rls, IsSeq(rls), Len(rls) >= 1, NEW x
    PROVE  RulesMoved(rls, Front(rls) \o <<x, Last(rls)>>, x.lhs)
<1> DEFINE f == Front(rls)
           two == <<x, Last(rls)>>
           new == f \o two
<1>1. /\ IsSeq(f) /\ Len(f) = Len(rls) - 1 /\ Len(rls) \in Nat
      /\ \A i \in 1..(Len(rls) - 1) : f[i] = rls[i]
  BY FrontIs
<1>2. two \in Seq({x, Last(rls)}) /\ Len(two) = 2 /\ two[1] = x /\ two[2] = Last(rls)
  OBVIOUS
<1>3. Last(rls) = rls[Len(rls)]
  BY DEF Last
<1> HIDE DEF f, two
<1>4. PICK S : f \in Seq(S)
  BY <1>1 DEF IsSeq
<1> DEFINE T == S \cup {x, Last(rls)}
<1>5. f \in Seq(T) /\ two \in Seq(T)
  <2>1. S \subseteq T /\ {x, Last(rls)} \subseteq T
    OBVIOUS
  <2> HIDE DEF T
  <2>2. QED
    BY <1>2, <1>4, <2>1, SeqSubset
<1> HIDE DEF T
<1>6. new \in Seq(T) /\ Len(new) = Len(rls) + 1
  <2>1. new \in Seq(T) /\ Len(new) = Len(f) + Len(two)
    BY <1>5, Joined
  <2>2. (Len(rls) - 1) + 2 = Len(rls) + 1
    BY <1>1
  <2>3. QED
    BY <1>1, <1>2, <2>1, <2>2
<1>7. \A i \in 1..Len(f) : new[i] = f[i]
  BY <1>5, Joined
<1>8. new[Len(f) + 1] = two[1] /\ new[Len(f) + 2] = two[2]
  <2>1. 1 \in 1..Len(two) /\ 2 \in 1..Len(two)
    BY <1>2
  <2>2. QED
    BY <1>5, <2>1, Joined
<1>9. Len(f) + 1 = Len(rls) /\ Len(f) + 2 = Len(rls) + 1
  BY <1>1
<1>10. QED
  BY <1>1, <1>2, <1>3, <1>6, <1>7, <1>8, <1>9 DEF RulesMoved, IsSeq, f, two

LEMMA MovedItems ==
    ASSUME NEW items \in Seq(Nat), NEW p \in 1..Len(items)
    PROVE  LET open == SubSeq(items, p + 1, Len(items))
               mid == SubSeq(items, 1, Len(items) - Len(open)) \o <<0>> \o open
           IN  ItemsMoved(items, mid, p)
<1> DEFINE open == SubSeq(items, p + 1, Len(items))
           before == SubSeq(items, 1, Len(items) - Len(open))
           a == before \o <<0>>
           mid == a \o open
           e == Len(items)
<1>1. e \in Nat /\ p \in Nat /\ p <= e /\ p >= 1
  OBVIOUS
<1>2. /\ open \in Seq(Nat) /\ Len(open) = e - p
      /\ \A k \in 1..(e - p) : open[k] = items[p + k]
  BY <1>1
<1>3. e - Len(open) = p
  BY <1>1, <1>2
<1>4. before \in Seq(Nat) /\ Len(before) = p /\ \A k \in 1..p : before[k] = items[k]
  BY <1>1, <1>3
<1> HIDE DEF open, before
<1>5. /\ a \in Seq(Nat) /\ Len(a) = p + 1 /\ a[p + 1] = 0 /\ \A k \in 1..p : a[k] = before[k]
  BY <1>1, <1>4
<1>5a. a \in Seq(Nat) /\ open \in Seq(Nat)
  BY <1>2, <1>5
<1> HIDE DEF a
<1>6. /\ mid \in Seq(Nat) /\ Len(mid) = e + 1
      /\ \A k \in 1..(p + 1) : mid[k] = a[k]
  <2>1. /\ mid \in Seq(Nat) /\ Len(mid) = Len(a) + Len(open)
        /\ \A k \in 1..Len(a) : mid[k] = a[k]
    BY <1>5a, Joined
  <2>2. QED
    BY <1>1, <1>2, <1>5, <2>1
<1>7. ASSUME NEW k \in (p + 1)..e PROVE mid[k + 1] = items[k]
  <2>1. k - p \in 1..(e - p) /\ p + (k - p) = k /\ (p + 1) + (k - p) = k + 1
    BY <1>1
  <2>2. mid[(p + 1) + (k - p)] = open[k - p]
    <3>1. \A i \in 1..Len(open) : mid[Len(a) + i] = open[i]
      BY <1>5a, Joined
    <3>2. QED
      BY <1>2, <1>5, <2>1, <3>1
  <2>3. QED
    BY <1>2, <2>1, <2>2
<1>8. \A k \in 1..p : k \in 1..(p + 1)
  BY <1>1
<1>9. mid[p + 1] = 0
  BY <1>1, <1>5, <1>6
<1>10. \A k \in 1..p : mid[k] = items[k]
  BY <1>4, <1>5, <1>6, <1>8
<1> HIDE DEF mid
<1>11. ItemsMoved(items, mid, p)
  BY <1>6, <1>7, <1>9, <1>10 DEF ItemsMoved
<1>12. QED
  BY <1>11 DEF mid, a, before, open

\* insert_empty_rule, item by item and rule by rule.
LEMMA InsertIs ==
    ASSUME NEW n, NEW at, Laid(pitem, n, at), IsSeq(rules), Len(rules) >= 1,
           NEW syms \in Tables
    PROVE  LET r == insert_empty_rule(syms)
           IN  /\ \E mid : ItemsMoved(pitem, mid, at[n]) /\ r.items = Append(mid, Len(syms) + 1)
               /\ RulesMoved(rules, r.rules, Len(syms) + 1)
               /\ SameNames(syms, r.syms) /\ Len(r.syms) = Len(syms) + 1
               /\ r.syms[Len(syms) + 1].name = "$$" /\ r.syms \in Tables
<1> DEFINE mark == Len(syms) + 1
           x == [lhs |-> mark, prec |-> 0, assoc |-> "TOKEN"]
           open == OpenItems(pitem)
           before == SubSeq(pitem, 1, Len(pitem) - Len(open))
           mid == before \o <<0>> \o open
           b == [make_bucket("$$") EXCEPT !.class = "NONTERM"]
           r == insert_empty_rule(syms)
<1>1. /\ r.syms = Append(syms, b) /\ r.items = mid \o <<mark>>
      /\ r.rules = Front(rules) \o <<x, Last(rules)>>
  BY DEF insert_empty_rule
<1>2. open = SubSeq(pitem, at[n] + 1, Len(pitem))
  BY OpenAre
<1>3. pitem \in Seq(Nat) /\ at[n] \in 1..Len(pitem)
  <2>1. n \in 1..n /\ pitem \in Seq(Nat) /\ Len(pitem) \in Nat
    BY DEF Laid
  <2>2. at[n] \in 4..Len(pitem)
    BY <2>1, LaidPlaces
  <2>3. QED
    BY <2>1, <2>2
<1>4. ItemsMoved(pitem, mid, at[n])
  BY <1>2, <1>3, MovedItems
<1>5. mark \in Nat /\ Len(syms) \in Nat
  BY DEF Tables
<1> HIDE DEF r
<1>6. r.items = Append(mid, mark)
  <2>1. mid \in Seq(Nat)
    BY <1>4 DEF ItemsMoved
  <2> HIDE DEF mid, mark
  <2>2. mid \o <<mark>> = Append(mid, mark)
    BY <1>5, <2>1
  <2>3. QED
    BY <1>1, <2>2
<1>7. RulesMoved(rules, r.rules, mark)
  <2>1. x.lhs = mark
    OBVIOUS
  <2> HIDE DEF x
  <2>2. QED
    BY <1>1, <2>1, MovedRules
<1>8. b \in Buckets /\ b.name = "$$"
  <2>1. "$$" \in Names
    BY DEF Names
  <2>2. QED
    BY <2>1, MadeBucket DEF make_bucket
<1> HIDE DEF b
<1>9. /\ SameNames(syms, r.syms) /\ Len(r.syms) = mark /\ r.syms[mark].name = "$$"
      /\ r.syms \in Tables
  <2>1. Append(syms, b) \in Tables /\ Append(syms, b)[mark] = b /\ Len(Append(syms, b)) = mark
    BY <1>8 DEF Tables
  <2>2. QED
    BY <1>1, <1>8, <2>1, NamesAppend
<1>10. QED
  BY <1>4, <1>6, <1>7, <1>9 DEF r

(* What a symbol and an action do to the rules. *)

LEMMA SettledGrown ==
    ASSUME NEW rs \in Seq(RuleForms), rs # <<>>, NEW name \in Names, name # "$$",
           ~Pending(rs[Len(rs)].rhs)
    PROVE  Grown(Settled(rs), Settled(More(rs, name)), name)
<1> DEFINE s == Settled(rs)
           t == Settled(More(rs, name))
           n == Len(s)
<1>1. /\ t \in Seq(RuleForms) /\ n \in Nat /\ n >= 1 /\ Len(t) = n + 0
      /\ \A i \in 1..(n - 1) : t[i] = s[i]
      /\ t[n + 0] = [lhs |-> s[n].lhs, rhs |-> Append(s[n].rhs, name)]
  BY SettledMore
<1> HIDE DEF s, t
<1>2. n + 0 = n
  BY <1>1
<1>3. Grown(s, t, name)
  BY <1>1, <1>2 DEF Grown
<1>4. QED
  BY <1>3 DEF s, t

LEMMA SettledEmpty ==
    ASSUME NEW rs \in Seq(RuleForms), rs # <<>>, Pending(rs[Len(rs)].rhs)
    PROVE  EmptyBefore(Settled(rs), Settled(More(rs, "$$")))
<1> DEFINE s == Settled(rs)
           t == Settled(More(rs, "$$"))
           n == Len(s)
<1>0. "$$" \in Names
  BY DEF Names
<1>1. /\ t \in Seq(RuleForms) /\ n \in Nat /\ n >= 1 /\ Len(t) = n + 1
      /\ \A i \in 1..(n - 1) : t[i] = s[i]
      /\ t[n] = Empty
      /\ t[n + 1] = [lhs |-> s[n].lhs, rhs |-> Append(s[n].rhs, "$$")]
  BY <1>0, SettledMore
<1> HIDE DEF s, t
<1>2. EmptyBefore(s, t)
  BY <1>1 DEF EmptyBefore
<1>3. QED
  BY <1>2 DEF s, t

LEMMA SettledAgain ==
    ASSUME NEW rs \in Seq(RuleForms), rs # <<>>, NEW name \in Names, name # "$$",
           Pending(rs[Len(rs)].rhs)
    PROVE  Grown(Settled(More(rs, "$$")), Settled(More(rs, name)), name)
<1> DEFINE s == Settled(rs)
           v == Settled(More(rs, "$$"))
           t == Settled(More(rs, name))
           n == Len(s)
<1>1. EmptyBefore(s, v)
  BY SettledEmpty
<1>2. /\ t \in Seq(RuleForms) /\ n \in Nat /\ n >= 1 /\ Len(t) = n + 1
      /\ \A i \in 1..(n - 1) : t[i] = s[i]
      /\ t[n] = Empty
      /\ t[n + 1] = [lhs |-> s[n].lhs, rhs |-> Append(Append(s[n].rhs, "$$"), name)]
  BY SettledMore
<1> HIDE DEF s, t, v
<1>3. /\ Len(v) = n + 1 /\ v[n] = Empty /\ \A i \in 1..(n - 1) : v[i] = s[i]
      /\ v[n + 1] = [lhs |-> s[n].lhs, rhs |-> Append(s[n].rhs, "$$")]
  BY <1>1 DEF EmptyBefore
<1>4. ASSUME NEW i \in 1..(Len(v) - 1) PROVE t[i] = v[i]
  <2>1. i = n \/ i \in 1..(n - 1)
    BY <1>2, <1>3
  <2>2. QED
    BY <1>2, <1>3, <2>1
<1>5. t[n + 1] = [lhs |-> v[n + 1].lhs, rhs |-> Append(v[n + 1].rhs, name)]
  BY <1>2, <1>3
<1>6. Grown(v, t, name)
  BY <1>2, <1>3, <1>4, <1>5 DEF Grown
<1>7. QED
  BY <1>6 DEF v, t

LEMMA SettledSame ==
    ASSUME NEW rs \in Seq(RuleForms), rs # <<>>, ~Pending(rs[Len(rs)].rhs)
    PROVE  Settled(More(rs, "$$")) = Settled(rs)
<1> DEFINE s == Settled(rs)
           t == Settled(More(rs, "$$"))
           n == Len(s)
<1>0. "$$" \in Names
  BY DEF Names
<1>1. /\ s \in Seq(RuleForms) /\ t \in Seq(RuleForms) /\ n \in Nat /\ n >= 1 /\ Len(t) = n + 0
      /\ \A i \in 1..(n - 1) : t[i] = s[i]
      /\ t[n + 0] = [lhs |-> s[n].lhs, rhs |-> s[n].rhs]
  BY <1>0, SettledMore
<1> HIDE DEF s, t
<1>2. n + 0 = n /\ n \in 1..n
  BY <1>1
<1>3. s[n] = [lhs |-> s[n].lhs, rhs |-> s[n].rhs]
  <2>1. s[n] \in RuleForms
    BY <1>1, <1>2
  <2>2. QED
    BY <2>1 DEF RuleForms
<1>4. ASSUME NEW i \in 1..n PROVE t[i] = s[i]
  <2>1. i = n \/ i \in 1..(n - 1)
    BY <1>1
  <2>2. QED
    BY <1>1, <1>2, <1>3, <2>1
<1>5. s = t
  <2>1. s = [i \in 1..n |-> s[i]] /\ t = [i \in 1..n |-> t[i]]
    BY <1>1, <1>2
  <2>2. QED
    BY <1>4, <2>1
<1>6. QED
  BY <1>5 DEF s, t

\* The state in which the reader has read the rules rs.
RulesFit(rs, items, rls, syms, pending) ==
    /\ rs # <<>> /\ (pending <=> Pending(rs[Len(rs)].rhs))
    /\ \E at, L : Fits(items, L, at, rls, syms, Settled(rs))

\* An action that is not the last thing of its rule has become an empty rule.
LEMMA WithEmptyFits ==
    ASSUME NEW rs \in Seq(RuleForms), RulesFit(rs, pitem, rules, symbols, last_was_action),
           NEW syms \in Tables, SameNames(symbols, syms)
    PROVE  LET r == WithEmptyRule(syms)
           IN  /\ r.syms \in Tables /\ SameNames(syms, r.syms)
               /\ \E at, L : Fits(r.items, L, at, r.rules, r.syms, Settled(More(rs, "$$")))
<1> DEFINE r == WithEmptyRule(syms)
           s == Settled(rs)
           t == Settled(More(rs, "$$"))
<1>1. rs # <<>> /\ (last_was_action <=> Pending(rs[Len(rs)].rhs))
  BY DEF RulesFit
<1>2. PICK at, L : Fits(pitem, L, at, rules, symbols, s)
  BY DEF RulesFit
<1>3. Fits(pitem, L, at, rules, syms, s)
  BY <1>2, FitsNames
<1>4. CASE ~last_was_action
  <2>1. t = s
    BY <1>1, <1>4, SettledSame
  <2>2. r.syms = syms /\ r.items = pitem /\ r.rules = rules
    BY <1>4 DEF WithEmptyRule
  <2>3. SameNames(syms, syms)
    BY DEF SameNames, Tables
  <2> HIDE DEF r, s, t
  <2>4. Fits(r.items, L, at, r.rules, r.syms, t)
    BY <1>3, <2>1, <2>2
  <2>5. QED
    BY <2>2, <2>3, <2>4 DEF r, t
<1>5. CASE last_was_action
  <2>1. EmptyBefore(s, t)
    BY <1>1, <1>5, SettledEmpty
  <2>2. r = insert_empty_rule(syms)
    BY <1>5 DEF WithEmptyRule
  <2>3. Laid(pitem, Len(s), at) /\ IsSeq(rules) /\ Len(rules) >= 1 /\ Len(syms) \in Nat
    <3>1. Laid(pitem, Len(s), at) /\ IsSeq(rules) /\ Len(rules) = Len(s) + 3
      BY <1>3 DEF Fits, Heads
    <3>2. Len(s) \in Nat
      BY <3>1 DEF Laid
    <3>3. QED
      BY <3>1, <3>2 DEF Tables
  <2> HIDE DEF s, t
  <2>4. /\ \E mid : ItemsMoved(pitem, mid, at[Len(s)]) /\ r.items = Append(mid, Len(syms) + 1)
        /\ RulesMoved(rules, r.rules, Len(syms) + 1)
        /\ SameNames(syms, r.syms) /\ Len(r.syms) = Len(syms) + 1
        /\ r.syms[Len(syms) + 1].name = "$$" /\ r.syms \in Tables
    BY <2>2, <2>3, InsertIs
  <2> HIDE DEF r
  <2>5. PICK mid : ItemsMoved(pitem, mid, at[Len(s)]) /\ r.items = Append(mid, Len(syms) + 1)
    BY <2>4
  <2> DEFINE to == Longer(Len(s) + 1, MovedAt(Len(s), at))
             M == MovedLhs(Len(s), L, Len(syms) + 1)
  <2>6. Fits(r.items, M, to, r.rules, r.syms, t)
    BY <1>3, <2>1, <2>3, <2>4, <2>5, FitsEmpty
  <2> HIDE DEF to, M
  <2>7. QED
    BY <2>4, <2>6 DEF r, t
<1>6. QED
  BY <1>4, <1>5

LEMMA ActionFits ==
    ASSUME NEW rs \in Seq(RuleForms), RulesFit(rs, pitem, rules, symbols, last_was_action),
           symbols \in Tables
    PROVE  LET r == WithEmptyRule(symbols)
           IN  RulesFit(More(rs, "$$"), r.items, r.rules, r.syms, TRUE)
<1> DEFINE r == WithEmptyRule(symbols)
           new == More(rs, "$$")
<1>1. SameNames(symbols, symbols)
  BY DEF SameNames, Tables
<1>2. \E at, L : Fits(r.items, L, at, r.rules, r.syms, Settled(new))
  BY <1>1, WithEmptyFits
<1>3. new # <<>> /\ Pending(new[Len(new)].rhs)
  <2>1. "$$" \in Names /\ rs # <<>>
    BY DEF Names, RulesFit
  <2>2. QED
    BY <2>1, MoreIs
<1> HIDE DEF r, new
<1>4. RulesFit(new, r.items, r.rules, r.syms, TRUE)
  BY <1>2, <1>3 DEF RulesFit
<1>5. QED
  BY <1>4 DEF r, new

LEMMA SymbolFits ==
    ASSUME NEW rs \in Seq(RuleForms), RulesFit(rs, pitem, rules, symbols, last_was_action),
           NEW syms \in Tables, SameNames(symbols, syms),
           NEW name \in Names, name # "$$", NEW b \in 1..Len(syms), syms[b].name = name
    PROVE  LET r == WithEmptyRule(syms)
           IN  RulesFit(More(rs, name), Append(r.items, b), r.rules, r.syms, FALSE)
<1> DEFINE r == WithEmptyRule(syms)
           s == Settled(More(rs, "$$"))
           t == Settled(More(rs, name))
<1>1. /\ r.syms \in Tables /\ SameNames(syms, r.syms)
      /\ \E at, L : Fits(r.items, L, at, r.rules, r.syms, s)
  BY WithEmptyFits
<1>2. rs # <<>>
  BY DEF RulesFit
<1>3. Grown(s, t, name)
  <2>1. CASE Pending(rs[Len(rs)].rhs)
    BY <1>2, <2>1, SettledAgain
  <2>2. CASE ~Pending(rs[Len(rs)].rhs)
    <3>1. s = Settled(rs)
      BY <1>2, <2>2, SettledSame
    <3>2. Grown(Settled(rs), t, name)
      BY <1>2, <2>2, SettledGrown
    <3>3. QED
      BY <3>1, <3>2
  <2>3. QED
    BY <2>1, <2>2
<1>4. LET new == More(rs, name) IN new # <<>> /\ ~Pending(new[Len(new)].rhs)
  BY <1>2, MoreIs
<1> HIDE DEF r, s, t
<1>5. Len(r.syms) \in Nat /\ b \in 1..Len(r.syms) /\ r.syms[b].name = name
  BY <1>1 DEF SameNames
<1>6. PICK at, L : Fits(r.items, L, at, r.rules, r.syms, s)
  BY <1>1
<1>7. Fits(Append(r.items, b), L, Longer(Len(s), at), r.rules, r.syms, t)
  BY <1>3, <1>5, <1>6, FitsItem
<1> DEFINE to == Longer(Len(s), at)
<1> HIDE DEF to
<1>8. \E a, l : Fits(Append(r.items, b), l, a, r.rules, r.syms, t)
  BY <1>7
<1>9. QED
  BY <1>4, <1>8 DEF RulesFit, r, t

LEMMA RuleFits ==
    ASSUME NEW rs \in Seq(RuleForms), NEW items, NEW rls, NEW syms \in Tables, NEW pending,
           RulesFit(rs, items, rls, syms, pending),
           NEW b \in 1..Len(syms), syms[b].name \in Names, syms[b].name # "$$",
           NEW r, r.lhs = b
    PROVE  RulesFit(Append(Settled(rs), [lhs |-> syms[b].name, rhs |-> <<>>]),
                    Append(items, 0), Append(rls, r), syms, FALSE)
<1> DEFINE s == Settled(rs)
           t == Append(s, [lhs |-> syms[b].name, rhs |-> <<>>])
<1>1. PICK at, L : Fits(items, L, at, rls, syms, s)
  BY DEF RulesFit
<1>2. Len(syms) \in Nat
  BY DEF Tables
<1>3. s \in Seq(RuleForms)
  BY SettledType
<1>4. t # <<>> /\ Settled(t) = t /\ ~Pending(t[Len(t)].rhs)
  BY <1>3, SettledFresh
<1> HIDE DEF s
<1>5. Fits(Append(items, 0), NextLhs(Len(s), L, b), NextAt(Len(s), at), Append(rls, r), syms, t)
  BY <1>1, <1>2, FitsRule
<1> HIDE DEF t
<1>6. \E a, l : Fits(Append(items, 0), l, a, Append(rls, r), syms, Settled(t))
  BY <1>4, <1>5
<1>7. RulesFit(t, Append(items, 0), Append(rls, r), syms, FALSE)
  BY <1>4, <1>6 DEF RulesFit
<1>8. QED
  BY <1>7 DEF s, t

LEMMA FirstFits ==
    ASSUME NEW syms \in Tables, NEW b \in 1..Len(syms),
           syms[b].name \in Names, syms[b].name # "$$",
           NEW rls, IsSeq(rls), Len(rls) = 4, rls[4].lhs = b
    PROVE  RulesFit(Append(<<>>, [lhs |-> syms[b].name, rhs |-> <<>>]),
                    <<0, 0, 0, 0>>, rls, syms, FALSE)
<1> DEFINE x == [lhs |-> syms[b].name, rhs |-> <<>>]
           t == Append(<<>>, x)
<1>0. <<>> \in Seq(RuleForms)
  OBVIOUS
<1>1. t # <<>> /\ Settled(t) = t /\ ~Pending(t[Len(t)].rhs)
  BY <1>0, SettledFresh
<1>2. t = <<x>> /\ Len(syms) \in Nat
  BY DEF Tables
<1>3. \E at, L : Fits(<<0, 0, 0, 0>>, L, at, rls, syms, <<x>>)
  BY <1>2, FitsFirst
<1> HIDE DEF x, t
<1>4. RulesFit(t, <<0, 0, 0, 0>>, rls, syms, FALSE)
  BY <1>1, <1>2, <1>3 DEF RulesFit
<1>5. QED
  BY <1>4 DEF x, t

LEMMA NamesFit ==
    ASSUME NEW rs, NEW items, NEW rls, NEW syms, NEW pending,
           RulesFit(rs, items, rls, syms, pending), NEW new, SameNames(syms, new)
    PROVE  RulesFit(rs, items, rls, new, pending)
<1>1. PICK at, L : Fits(items, L, at, rls, syms, Settled(rs))
  BY DEF RulesFit
<1>2. Fits(items, L, at, rls, new, Settled(rs))
  BY <1>1, FitsNames
<1>3. QED
  BY <1>2 DEF RulesFit

(* The place of the reader in the file. *)

\* The first k lexemes of f are read, and in is the rest.
Rest(f, in, k) ==
    /\ f \in Seq(Lexemes) /\ in \in Seq(Lexemes) /\ k \in Nat
    /\ Len(f) = k + Len(in) /\ \A i \in 1..Len(in) : in[i] = f[k + i]

\* No mark, and one mark, among the first k lexemes.
NoMark(f, k) == \A i \in 1..k : f[i].k # "mark"
Marked(f, k) == OneMark(f, k) /\ \E i \in 1..k : f[i].k = "mark"

OneRead(f, in, k) ==
    /\ Head(in) = f[k + 1] /\ Rest(f, Tail(in), k + 1)
    /\ RulesRead(f)[k + 1] = ReadLexeme(RulesRead(f)[k], Head(in))
    /\ RulesRead(f)[k] \in Seq(RuleForms) /\ k \in Nat

LEMMA ReadOn ==
    ASSUME NEW f, NEW in, NEW k, Rest(f, in, k), in # <<>>
    PROVE  OneRead(f, in, k)
<1>1. /\ f \in Seq(Lexemes) /\ in \in Seq(Lexemes) /\ k \in Nat
      /\ Len(f) = k + Len(in) /\ \A i \in 1..Len(in) : in[i] = f[k + i]
  BY DEF Rest
<1>2. Len(in) \in Nat /\ Len(in) >= 1 /\ Len(f) \in Nat
  BY <1>1
<1>3. k + 1 \in 1..Len(f) /\ 1 \in 1..Len(in) /\ (k + 1) - 1 = k /\ k \in 0..Len(f)
  BY <1>1, <1>2
<1>4. Head(in) = in[1]
  BY <1>1, <1>2
<1>5. Head(in) = f[k + 1]
  BY <1>1, <1>3, <1>4
<1> DEFINE t == Tail(in)
<1>6. t \in Seq(Lexemes) /\ Len(t) = Len(in) - 1 /\ \A i \in 1..Len(t) : t[i] = in[i + 1]
  BY <1>1, <1>2
<1> HIDE DEF t
<1>7. ASSUME NEW i \in 1..Len(t) PROVE t[i] = f[(k + 1) + i]
  <2>1. i + 1 \in 1..Len(in) /\ k + (i + 1) = (k + 1) + i
    BY <1>1, <1>2, <1>6
  <2>2. QED
    BY <1>1, <1>6, <2>1
<1>8. Rest(f, t, k + 1)
  <2>1. Len(f) = (k + 1) + Len(t) /\ k + 1 \in Nat
    BY <1>1, <1>2, <1>6
  <2>2. QED
    BY <1>1, <1>6, <1>7, <2>1 DEF Rest
<1>9. /\ RulesRead(f)[k + 1] = ReadLexeme(RulesRead(f)[(k + 1) - 1], f[k + 1])
      /\ RulesRead(f)[k] \in Seq(RuleForms)
  BY <1>1, <1>3, RulesReadAre
<1>10. RulesRead(f)[k + 1] = ReadLexeme(RulesRead(f)[k], Head(in))
  BY <1>3, <1>5, <1>9
<1>11. QED
  BY <1>1, <1>5, <1>8, <1>9, <1>10, Zenon DEF t, OneRead

LEMMA MarksOn ==
    ASSUME NEW f, NEW k \in Nat
    PROVE  /\ NoMark(f, k) /\ f[k + 1].k # "mark" => NoMark(f, k + 1)
           /\ NoMark(f, k) /\ f[k + 1].k = "mark" => Marked(f, k + 1)
           /\ Marked(f, k) /\ f[k + 1].k # "mark" => Marked(f, k + 1)
<1>1. /\ \A i \in 1..(k + 1) : i = k + 1 \/ i \in 1..k
      /\ \A i \in 1..k : i \in 1..(k + 1)
      /\ k + 1 \in 1..(k + 1)
  OBVIOUS
<1>2. NoMark(f, k) /\ f[k + 1].k # "mark" => NoMark(f, k + 1)
  BY <1>1, Zenon DEF NoMark
<1>3. NoMark(f, k) /\ f[k + 1].k = "mark" => Marked(f, k + 1)
  BY <1>1, Zenon DEF NoMark, Marked, OneMark
<1>4. ASSUME Marked(f, k), f[k + 1].k # "mark" PROVE Marked(f, k + 1)
  <2>1. PICK m \in 1..k : f[m].k = "mark"
    BY <1>4 DEF Marked
  <2>2. OneMark(f, k + 1)
    BY <1>1, <1>4, Zenon DEF Marked, OneMark
  <2>3. m \in 1..(k + 1)
    BY <1>1
  <2>4. QED
    BY <2>1, <2>2, <2>3, Zenon DEF Marked
<1>5. QED
  BY <1>2, <1>3, <1>4

\* The rules end where the reader stops.
LEMMA StopsAtEnd ==
    ASSUME NEW f, NEW k, Len(f) \in Nat, k \in 0..Len(f), Marked(f, k),
           k = Len(f) \/ f[k + 1].k = "mark"
    PROVE  EndOfRules(f) = k
<1> DEFINE S == {j \in 0..Len(f) : OneMark(f, j)}
<1>1. k \in S /\ k \in Nat
  BY DEF Marked
<1>2. PICK m \in 1..k : f[m].k = "mark"
  BY DEF Marked
<1>3. ASSUME NEW j \in S PROVE j <= k
  <2> SUFFICES ASSUME j > k PROVE FALSE
    BY <1>1
  <2>1. j \in Nat /\ j <= Len(f) /\ OneMark(f, j)
    OBVIOUS
  <2>2. k # Len(f) /\ f[k + 1].k = "mark"
    BY <1>1, <2>1
  <2>3. k + 1 \in 1..j /\ m \in 1..j /\ m # k + 1
    BY <1>1, <2>1
  <2>4. QED
    BY <1>2, <2>1, <2>2, <2>3 DEF OneMark
<1>4. \A j \in S : j \in Int
  OBVIOUS
<1> HIDE DEF S
<1>5. ASSUME NEW x \in S, \A y \in S : x >= y PROVE x = k
  <2>1. x \in Int /\ k \in Int
    BY <1>1, <1>4
  <2>2. x >= k
    BY <1>1, <1>5
  <2>3. x <= k
    BY <1>3
  <2>4. QED
    BY <2>1, <2>2, <2>3
<1>6. \A y \in S : k >= y
  BY <1>1, <1>3, <1>4
<1>7. Max(S) = k
  <2>1. Max(S) = CHOOSE x \in S : \A y \in S : x >= y
    BY DEF Max
  <2>2. QED
    BY <1>1, <1>5, <1>6, <2>1, Zenon
<1>8. QED
  BY <1>7 DEF EndOfRules, S

(* The inductive invariant: where the reader is in the file, and that its arrays
   hold the rules of what it has read.                                        *)
Declares(f, in, pending) ==
    \E k : Rest(f, in, k) /\ NoMark(f, k) /\ RulesRead(f)[k] = <<>> /\ ~pending
Begins(f, in, items, rls, pending) ==
    /\ \E k : Rest(f, in, k) /\ Marked(f, k) /\ RulesRead(f)[k] = <<>>
    /\ ~pending /\ items = <<0, 0, 0, 0>> /\ IsSeq(rls) /\ Len(rls) = 3
Reads(f, in, items, rls, syms, pending) ==
    \E k : Rest(f, in, k) /\ Marked(f, k) /\ RulesFit(RulesRead(f)[k], items, rls, syms, pending)
Stops(f, in, items, rls, syms) ==
    \E k, open, pending :
        /\ Rest(f, in, k) /\ Marked(f, k) /\ (k = Len(f) \/ f[k + 1].k = "mark")
        /\ items = Append(open, 0) /\ RulesFit(RulesRead(f)[k], open, rls, syms, pending)

PackedRules ==
    LET source == SourceRules(file)
    IN  /\ g.nrules = 3 + Len(source)
        /\ \A r \in 3..(g.nrules - 1) :
             /\ Named(r) = source[r - 2]
             /\ g.ritem[g.rrhs[r + 1] - 1] = -r
             /\ Named(r).lhs = "$$" =>
                  Users(g.rlhs[r]) = {Min({q \in r..(g.nrules - 1) : Named(q).lhs # "$$"})}

RulesInv ==
    \/ part = "failed"
    \/ part = "declarations" /\ Declares(file, input, last_was_action)
    \/ part = "grammar" /\ Begins(file, input, pitem, rules, last_was_action)
    \/ part = "rules" /\ Reads(file, input, pitem, rules, symbols, last_was_action)
    \/ part = "pack" /\ Stops(file, input, pitem, rules, symbols)
    \/ part \notin ReaderPasses /\ PackedRules

LEMMA InitRules == ASSUME ReaderInit PROVE RulesInv
<1>1. /\ file \in Seq(Lexemes) /\ input = file /\ part = "declarations" /\ ~last_was_action
  BY JayReaderAssumption DEF ReaderInit
<1>2. Rest(file, input, 0)
  <2>1. Len(file) \in Nat /\ Len(file) = 0 + Len(input)
    BY <1>1
  <2>2. ASSUME NEW i \in 1..Len(input) PROVE input[i] = file[0 + i]
    <3>1. 0 + i = i
      BY <1>1
    <3>2. QED
      BY <1>1, <3>1
  <2>3. QED
    BY <1>1, <2>1, <2>2 DEF Rest
<1>3. NoMark(file, 0)
  BY DEF NoMark
<1>4. RulesRead(file)[0] = <<>>
  BY <1>1, RulesReadAre
<1>5. QED
  BY <1>1, <1>2, <1>3, <1>4 DEF RulesInv, Declares

LEMMA DoneRules == ASSUME done PROVE RulesInv'
  BY DEF done, RulesInv

\* A lexeme that is no part of a rule.
LEMMA Skipped ==
    ASSUME NEW rs, NEW lx, lx.k \in {"declare", "start", "mark", "prec"}
    PROVE  ReadLexeme(rs, lx) = rs
<1>1. lx.k \notin {"lhs", "bar", "symbol", "action"}
  OBVIOUS
<1>2. QED
  BY <1>1, ReadLexemeIs

LEMMA NextRead ==
    ASSUME NEW k, Rest(file, input, k), input # <<>>
    PROVE  /\ Rest(file, Tail(input), k + 1) /\ Next1 = file[k + 1] /\ k \in Nat
           /\ RulesRead(file)[k + 1] = ReadLexeme(RulesRead(file)[k], Next1)
           /\ RulesRead(file)[k] \in Seq(RuleForms)
<1>1. OneRead(file, input, k)
  BY ReadOn, Zenon
<1>2. QED
  BY <1>1, Zenon DEF OneRead, Next1

\* The declarations, and what stands between the mark and the first rule.
LEMMA DeclareRules ==
    ASSUME RulesInv, declare_tokens \/ declare_start \/ initialize_grammar, ~done
    PROVE  RulesInv'
<1>1. /\ input # <<>> /\ input' = Tail(input) /\ file' = file
      /\ last_was_action' = last_was_action
  BY DEF declare_tokens, declare_start, initialize_grammar, Reading, Consume, ruleVars
<1>2. CASE part = "declarations"
  <2>1. Declares(file, input, last_was_action)
    BY <1>2 DEF RulesInv, ReaderPasses
  <2>2. PICK k : Rest(file, input, k) /\ NoMark(file, k) /\ RulesRead(file)[k] = <<>>
    BY <2>1 DEF Declares
  <2>3. ~last_was_action
    BY <2>1 DEF Declares
  <2>4. /\ Rest(file, Tail(input), k + 1) /\ Next1 = file[k + 1] /\ k \in Nat
        /\ RulesRead(file)[k + 1] = ReadLexeme(RulesRead(file)[k], Next1)
    BY <1>1, <2>2, NextRead
  <2>5. CASE declare_tokens \/ declare_start
    <3>1. Next1.k \in {"declare", "start"} /\ part' = "declarations"
      BY <1>2, <2>5 DEF declare_tokens, declare_start, Reading
    <3>2. RulesRead(file)[k + 1] = <<>>
      BY <2>2, <2>4, <3>1, Skipped
    <3>3. NoMark(file, k + 1)
      BY <2>2, <2>4, <3>1, MarksOn
    <3>4. Declares(file', input', last_was_action')
      BY <1>1, <2>3, <2>4, <3>2, <3>3 DEF Declares
    <3>5. QED
      BY <3>1, <3>4 DEF RulesInv
  <2>6. CASE initialize_grammar
    <3>1. /\ Next1.k = "mark" /\ part' = "grammar" /\ pitem' = <<0, 0, 0, 0>>
          /\ rules' = [i \in 1..3 |-> [lhs |-> 0, prec |-> 0, assoc |-> "TOKEN"]]
      BY <2>6 DEF initialize_grammar, Reading
    <3>2. RulesRead(file)[k + 1] = <<>>
      BY <2>2, <2>4, <3>1, Skipped
    <3>3. Marked(file, k + 1)
      BY <2>2, <2>4, <3>1, MarksOn
    <3>4. IsSeq(rules') /\ Len(rules') = 3
      <4>1. rules' = [i \in 1..3 |-> rules'[i]] /\ 3 \in Nat
        BY <3>1
      <4>2. QED
        BY <4>1, SeqFromFunction
    <3>5. Begins(file', input', pitem', rules', last_was_action')
      BY <1>1, <2>3, <2>4, <3>1, <3>2, <3>3, <3>4 DEF Begins
    <3>6. QED
      BY <3>1, <3>5 DEF RulesInv
  <2>7. QED
    BY <2>5, <2>6
<1>3. CASE part # "declarations"
  <2>1. part = "grammar" /\ part' = part /\ Next1.k = "start" /\ UNCHANGED <<pitem, rules>>
    BY <1>3 DEF declare_tokens, declare_start, initialize_grammar, Reading, ruleVars
  <2>2. Begins(file, input, pitem, rules, last_was_action)
    BY <2>1 DEF RulesInv, ReaderPasses
  <2>3. PICK k : Rest(file, input, k) /\ Marked(file, k) /\ RulesRead(file)[k] = <<>>
    BY <2>2 DEF Begins
  <2>4. /\ Rest(file, Tail(input), k + 1) /\ Next1 = file[k + 1] /\ k \in Nat
        /\ RulesRead(file)[k + 1] = ReadLexeme(RulesRead(file)[k], Next1)
    BY <1>1, <2>3, NextRead
  <2>5. RulesRead(file)[k + 1] = <<>>
    BY <2>1, <2>3, <2>4, Skipped
  <2>6. Marked(file, k + 1)
    BY <2>1, <2>3, <2>4, MarksOn
  <2>7. Begins(file', input', pitem', rules', last_was_action')
    BY <1>1, <2>1, <2>2, <2>4, <2>5, <2>6 DEF Begins
  <2>8. QED
    BY <2>1, <2>7 DEF RulesInv
<1>4. QED
  BY <1>2, <1>3

\* The file up to the lexeme that one of the actions in the rules reads.
LEMMA InRules ==
    ASSUME RulesInv, part = "rules", input # <<>>, Next1.k # "mark"
    PROVE  \E k : /\ RulesRead(file)[k] \in Seq(RuleForms)
                  /\ RulesFit(RulesRead(file)[k], pitem, rules, symbols, last_was_action)
                  /\ \A items, rls, syms, pending :
                       RulesFit(ReadLexeme(RulesRead(file)[k], Next1), items, rls, syms, pending)
                         => Reads(file, Tail(input), items, rls, syms, pending)
<1>1. Reads(file, input, pitem, rules, symbols, last_was_action)
  BY DEF RulesInv, ReaderPasses
<1>2. PICK k : /\ Rest(file, input, k) /\ Marked(file, k)
               /\ RulesFit(RulesRead(file)[k], pitem, rules, symbols, last_was_action)
  BY <1>1 DEF Reads
<1>3. /\ Rest(file, Tail(input), k + 1) /\ Next1 = file[k + 1] /\ k \in Nat
      /\ RulesRead(file)[k + 1] = ReadLexeme(RulesRead(file)[k], Next1)
      /\ RulesRead(file)[k] \in Seq(RuleForms)
  BY <1>2, NextRead
<1>4. Marked(file, k + 1)
  BY <1>2, <1>3, MarksOn
<1>5. ASSUME NEW items, NEW rls, NEW syms, NEW pending,
             RulesFit(ReadLexeme(RulesRead(file)[k], Next1), items, rls, syms, pending)
      PROVE  Reads(file, Tail(input), items, rls, syms, pending)
  <2>1. RulesFit(RulesRead(file)[k + 1], items, rls, syms, pending)
    BY <1>3, <1>5
  <2>2. QED
    BY <1>3, <1>4, <2>1 DEF Reads
<1>6. QED
  BY <1>2, <1>3, <1>5

LEMMA SymbolRules == ASSUME TokensInv, RulesInv, add_symbol PROVE RulesInv'
<1> DEFINE found == get_symbol(symbols, Next1)
           b == BucketOf(found, Next1.name)
           r == WithEmptyRule(found)
<1>1. /\ part = "rules" /\ input # <<>> /\ Next1.k = "symbol" /\ part' = part
      /\ file' = file /\ input' = Tail(input)
      /\ symbols' = r.syms /\ rules' = r.rules /\ pitem' = Append(r.items, b)
      /\ last_was_action' = FALSE
  BY DEF add_symbol, Reading, Consume
<1>2. symbols \in Tables /\ input \in Seq(Lexemes)
  BY DEF TokensInv
<1>3. Next1.name \in Names /\ Next1.code \in TokenNumbers /\ Next1 \in Lexemes
  BY <1>1, <1>2, NextLexeme
<1>4. Next1.name # "$$"
  BY <1>1, <1>3, JayReaderAssumption
<1>5. /\ found \in Tables /\ SameNames(symbols, found) /\ b \in 1..Len(found)
      /\ found[b].name = Next1.name
  BY <1>2, <1>3, SymbolNames
<1>6. PICK k : /\ RulesRead(file)[k] \in Seq(RuleForms)
               /\ RulesFit(RulesRead(file)[k], pitem, rules, symbols, last_was_action)
               /\ \A items, rls, syms, pending :
                    RulesFit(ReadLexeme(RulesRead(file)[k], Next1), items, rls, syms, pending)
                      => Reads(file, Tail(input), items, rls, syms, pending)
  BY <1>1, InRules
<1> DEFINE rs == RulesRead(file)[k]
<1> HIDE DEF found, b, rs, Next1
<1>7. rs \in Seq(RuleForms) /\ RulesFit(rs, pitem, rules, symbols, last_was_action)
  BY <1>6 DEF rs
<1>8. RulesFit(More(rs, Next1.name), Append(r.items, b), r.rules, r.syms, FALSE)
  BY <1>3, <1>4, <1>5, <1>7, SymbolFits
<1> HIDE DEF r
<1>9. ReadLexeme(rs, Next1) = More(rs, Next1.name)
  <2>1. rs # <<>>
    BY <1>7 DEF RulesFit
  <2>2. QED
    BY <1>1, <2>1, ReadLexemeIs
<1>10. Reads(file, Tail(input), Append(r.items, b), r.rules, r.syms, FALSE)
  BY <1>6, <1>8, <1>9 DEF rs
<1>11. Reads(file', input', pitem', rules', symbols', last_was_action')
  BY <1>1, <1>10
<1>12. QED
  BY <1>1, <1>11 DEF RulesInv

LEMMA ActionRules == ASSUME TokensInv, RulesInv, copy_action PROVE RulesInv'
<1> DEFINE r == WithEmptyRule(symbols)
<1>1. /\ part = "rules" /\ input # <<>> /\ Next1.k = "action" /\ part' = part
      /\ file' = file /\ input' = Tail(input)
      /\ symbols' = r.syms /\ rules' = r.rules /\ pitem' = r.items
      /\ last_was_action' = TRUE
  BY DEF copy_action, Reading, Consume
<1>2. symbols \in Tables
  BY DEF TokensInv
<1>3. PICK k : /\ RulesRead(file)[k] \in Seq(RuleForms)
               /\ RulesFit(RulesRead(file)[k], pitem, rules, symbols, last_was_action)
               /\ \A items, rls, syms, pending :
                    RulesFit(ReadLexeme(RulesRead(file)[k], Next1), items, rls, syms, pending)
                      => Reads(file, Tail(input), items, rls, syms, pending)
  BY <1>1, InRules
<1> DEFINE rs == RulesRead(file)[k]
<1> HIDE DEF rs, Next1
<1>4. rs \in Seq(RuleForms) /\ RulesFit(rs, pitem, rules, symbols, last_was_action)
  BY <1>3 DEF rs
<1>5. RulesFit(More(rs, "$$"), r.items, r.rules, r.syms, TRUE)
  BY <1>2, <1>4, ActionFits
<1> HIDE DEF r
<1>6. ReadLexeme(rs, Next1) = More(rs, "$$")
  <2>1. rs # <<>>
    BY <1>4 DEF RulesFit
  <2>2. QED
    BY <1>1, <2>1, ReadLexemeIs
<1>7. Reads(file, Tail(input), r.items, r.rules, r.syms, TRUE)
  BY <1>3, <1>5, <1>6 DEF rs
<1>8. Reads(file', input', pitem', rules', symbols', last_was_action')
  BY <1>1, <1>7
<1>9. QED
  BY <1>1, <1>8 DEF RulesInv

LEMMA HeadsFit ==
    ASSUME NEW rs, NEW items, NEW rls, NEW syms, NEW pending,
           RulesFit(rs, items, rls, syms, pending), NEW new, IsSeq(new), Len(new) = Len(rls),
           \A i \in 1..Len(rls) : new[i].lhs = rls[i].lhs
    PROVE  RulesFit(rs, items, new, syms, pending)
<1>1. PICK at, L : Fits(items, L, at, rls, syms, Settled(rs))
  BY DEF RulesFit
<1>2. Fits(items, L, at, new, syms, Settled(rs))
  BY <1>1, FitsHeads
<1>3. QED
  BY <1>2 DEF RulesFit

LEMMA PrecRules == ASSUME TokensInv, RulesInv, mark_symbol PROVE RulesInv'
<1> DEFINE found == get_symbol(symbols, Next1)
           b == found[BucketOf(found, Next1.name)]
           new == [rules EXCEPT ![Len(rules)].prec = b.prec, ![Len(rules)].assoc = b.assoc]
<1>1. /\ part = "rules" /\ input # <<>> /\ Next1.k = "prec" /\ part' = part
      /\ file' = file /\ input' = Tail(input)
      /\ symbols' = found /\ rules' = new /\ pitem' = pitem
      /\ last_was_action' = last_was_action
  BY DEF mark_symbol, Reading, Consume
<1>2. symbols \in Tables /\ input \in Seq(Lexemes)
  BY DEF TokensInv
<1>3. Next1.name \in Names /\ Next1.code \in TokenNumbers
  BY <1>1, <1>2, NextLexeme
<1>4. SameNames(symbols, found)
  BY <1>2, <1>3, SymbolNames
<1>5. PICK k : /\ RulesRead(file)[k] \in Seq(RuleForms)
               /\ RulesFit(RulesRead(file)[k], pitem, rules, symbols, last_was_action)
               /\ \A items, rls, syms, pending :
                    RulesFit(ReadLexeme(RulesRead(file)[k], Next1), items, rls, syms, pending)
                      => Reads(file, Tail(input), items, rls, syms, pending)
  BY <1>1, InRules
<1> DEFINE rs == RulesRead(file)[k]
<1> HIDE DEF found, b, rs, Next1
<1>6. rs \in Seq(RuleForms) /\ RulesFit(rs, pitem, rules, found, last_was_action)
  BY <1>4, <1>5, NamesFit DEF rs
<1>7. IsSeq(rules)
  BY <1>6 DEF RulesFit, Fits, Heads
<1>8. IsSeq(new) /\ Len(new) = Len(rules) /\ \A i \in 1..Len(rules) : new[i].lhs = rules[i].lhs
  <2>1. PICK S : rules \in Seq(S)
    BY <1>7 DEF IsSeq
  <2> DEFINE n == Len(rules)
  <2>2. n \in Nat /\ rules \in [1..n -> S]
    BY <2>1
  <2>3. new = [i \in 1..n |-> new[i]]
    BY <2>2
  <2>4. IsSeq(new) /\ Len(new) = n
    BY <2>2, <2>3, SeqFromFunction
  <2>5. ASSUME NEW i \in 1..n PROVE new[i].lhs = rules[i].lhs
    BY <2>2
  <2>6. QED
    BY <2>4, <2>5
<1> HIDE DEF new
<1>9. RulesFit(rs, pitem, new, found, last_was_action)
  BY <1>6, <1>8, HeadsFit
<1>10. ReadLexeme(rs, Next1) = rs
  BY <1>1, Skipped
<1>11. Reads(file, Tail(input), pitem, new, found, last_was_action)
  BY <1>5, <1>9, <1>10 DEF rs
<1>12. Reads(file', input', pitem', rules', symbols', last_was_action')
  BY <1>1, <1>11
<1>13. QED
  BY <1>1, <1>12 DEF RulesInv

\* end_rule and start_rule, for the left-hand side bp.
LEMMA RuleStarted ==
    ASSUME RulesInv, part = "rules", input # <<>>, part' = part, Next1.k \in {"lhs", "bar"},
           file' = file, input' = Tail(input),
           NEW syms \in Tables, SameNames(symbols, syms), NEW bp \in 1..Len(syms),
           syms[bp].name \in Names, syms[bp].name # "$$",
           end_rule, start_rule(bp, Len(rules), syms),
           \A rs \in Seq(RuleForms) :
               RulesFit(rs, pitem, rules, symbols, last_was_action) =>
                   ReadLexeme(rs, Next1) = Append(Settled(rs), [lhs |-> syms[bp].name, rhs |-> <<>>])
    PROVE  RulesInv'
<1> DEFINE new == [syms EXCEPT ![bp].class = "NONTERM"]
           x == [lhs |-> bp, prec |-> UNDEFINED, assoc |-> "TOKEN"]
<1>1. /\ symbols' = new /\ rules' = Append(rules, x) /\ pitem' = Append(pitem, 0)
      /\ last_was_action' = FALSE
  BY DEF end_rule, start_rule
<1>2. new \in Tables /\ SameNames(syms, new)
  BY TableClass, NamesClass
<1>3. x.lhs = bp
  OBVIOUS
<1>4. PICK k : /\ RulesRead(file)[k] \in Seq(RuleForms)
               /\ RulesFit(RulesRead(file)[k], pitem, rules, symbols, last_was_action)
               /\ \A items, rls, sy, pending :
                    RulesFit(ReadLexeme(RulesRead(file)[k], Next1), items, rls, sy, pending)
                      => Reads(file, Tail(input), items, rls, sy, pending)
  BY InRules
<1> DEFINE rs == RulesRead(file)[k]
<1> HIDE DEF new, x, rs, Next1
<1>5. rs \in Seq(RuleForms) /\ RulesFit(rs, pitem, rules, symbols, last_was_action)
  BY <1>4 DEF rs
<1>6. SameNames(symbols, new)
  BY <1>2, NamesTrans
<1>7. RulesFit(rs, pitem, rules, new, last_was_action)
  BY <1>5, <1>6, NamesFit
<1>8. bp \in 1..Len(new) /\ new[bp].name = syms[bp].name
  BY <1>2 DEF SameNames
<1>9. RulesFit(Append(Settled(rs), [lhs |-> new[bp].name, rhs |-> <<>>]),
               Append(pitem, 0), Append(rules, x), new, FALSE)
  BY <1>2, <1>3, <1>5, <1>7, <1>8, RuleFits
<1>10. ReadLexeme(rs, Next1) = Append(Settled(rs), [lhs |-> new[bp].name, rhs |-> <<>>])
  BY <1>5, <1>8
<1>11. Reads(file, Tail(input), Append(pitem, 0), Append(rules, x), new, FALSE)
  BY <1>4, <1>9, <1>10 DEF rs
<1>12. Reads(file', input', pitem', rules', symbols', last_was_action')
  BY <1>1, <1>11
<1>13. QED
  BY <1>12 DEF RulesInv

LEMMA RuleRules == ASSUME TokensInv, RulesInv, add_rule, ~done PROVE RulesInv'
<1> DEFINE found == get_symbol(symbols, Next1)
           bp == BucketOf(found, Next1.name)
<1>1. /\ part = "rules" /\ input # <<>> /\ Next1.k = "lhs" /\ part' = part
      /\ file' = file /\ input' = Tail(input) /\ end_rule /\ start_rule(bp, Len(rules), found)
  BY DEF add_rule, Reading, Consume
<1>2. symbols \in Tables /\ input \in Seq(Lexemes)
  BY DEF TokensInv
<1>3. Next1.name \in Names /\ Next1.code \in TokenNumbers /\ Next1 \in Lexemes
  BY <1>1, <1>2, NextLexeme
<1>4. Next1.name # "$$"
  BY <1>1, <1>3, JayReaderAssumption
<1>5. /\ found \in Tables /\ SameNames(symbols, found) /\ bp \in 1..Len(found)
      /\ found[bp].name = Next1.name
  BY <1>2, <1>3, SymbolNames
<1> HIDE DEF found, bp
<1>6. \A rs \in Seq(RuleForms) :
          ReadLexeme(rs, Next1) = Append(Settled(rs), [lhs |-> found[bp].name, rhs |-> <<>>])
  <2> SUFFICES ASSUME NEW rs \in Seq(RuleForms)
               PROVE  ReadLexeme(rs, Next1) = Append(Settled(rs), [lhs |-> found[bp].name, rhs |-> <<>>])
    OBVIOUS
  <2>1. Next1.k = "lhs" =>
            ReadLexeme(rs, Next1) = Append(Settled(rs), [lhs |-> Next1.name, rhs |-> <<>>])
    BY ReadLexemeIs, Zenon
  <2>2. ReadLexeme(rs, Next1) = Append(Settled(rs), [lhs |-> Next1.name, rhs |-> <<>>])
    BY <1>1, <2>1, Zenon
  <2>3. QED
    BY <1>5, <2>2, Zenon
<1>7. QED
  BY <1>1, <1>3, <1>4, <1>5, <1>6, RuleStarted

\* The bucket of the rule being read has the name that the file gives it.
LEMMA OpenRule ==
    ASSUME NEW rs \in Seq(RuleForms), NEW items, NEW rls, NEW syms, NEW pending,
           RulesFit(rs, items, rls, syms, pending)
    PROVE  /\ rs # <<>> /\ Last(rls).lhs \in 1..Len(syms)
           /\ syms[Last(rls).lhs].name = Last(rs).lhs
           /\ Last(rs).lhs \in Names /\ Last(rs).lhs # "$$"
<1> DEFINE s == Settled(rs)
           n == Len(s)
           c == Cardinality(Inner(rs[Len(rs)].rhs))
<1>1. rs # <<>>
  BY DEF RulesFit
<1>2. /\ c \in Nat /\ Len(rs) \in Nat /\ Len(rs) >= 1 /\ rs[Len(rs)] \in RuleForms
      /\ n = Len(rs) + c /\ s[Len(rs) + c].lhs = rs[Len(rs)].lhs
  <2>1. /\ c \in Nat /\ Len(rs) \in Nat /\ Len(rs) >= 1 /\ rs[Len(rs)] \in RuleForms
        /\ n = Len(rs) + c
        /\ s[Len(rs) + c] = [lhs |-> rs[Len(rs)].lhs, rhs |-> Plain(rs[Len(rs)].rhs)]
    BY <1>1, SettledIs
  <2> HIDE DEF s, c
  <2>2. QED
    BY <2>1
<1>3. n \in Nat /\ n >= 1 /\ s[n].lhs = rs[Len(rs)].lhs
  BY <1>2
<1> HIDE DEF s, c
<1>4. PICK at, L : Fits(items, L, at, rls, syms, s)
  BY DEF RulesFit, s
<1>5. /\ Len(rls) = n + 3 /\ \A i \in 1..n : rls[i + 3].lhs = L[i]
      /\ L \in [1..n -> 1..Len(syms)] /\ \A i \in 1..n : syms[L[i]].name = s[i].lhs
      /\ s[n].lhs # "$$"
  BY <1>4 DEF Fits, Heads, Spelled
<1>6. n \in 1..n
  BY <1>3
<1>7. Last(rls) = rls[n + 3] /\ Last(rs) = rs[Len(rs)]
  BY <1>5 DEF Last
<1>8. L[n] \in 1..Len(syms) /\ rls[n + 3].lhs = L[n] /\ syms[L[n]].name = s[n].lhs
  BY <1>5, <1>6
<1>9. rs[Len(rs)].lhs \in Names
  BY <1>2 DEF RuleForms
<1>10. QED
  BY <1>1, <1>3, <1>5, <1>7, <1>8, <1>9

LEMMA AlternativeRules == ASSUME TokensInv, RulesInv, add_alternative PROVE RulesInv'
<1> DEFINE bp == Last(rules).lhs
<1>1. /\ part = "rules" /\ input # <<>> /\ Next1.k = "bar" /\ part' = part
      /\ file' = file /\ input' = Tail(input) /\ end_rule /\ start_rule(bp, Len(rules), symbols)
  BY DEF add_alternative, Reading, Consume
<1>2. symbols \in Tables /\ SameNames(symbols, symbols)
  BY DEF TokensInv, SameNames, Tables
<1>3. PICK k : /\ RulesRead(file)[k] \in Seq(RuleForms)
               /\ RulesFit(RulesRead(file)[k], pitem, rules, symbols, last_was_action)
  BY <1>1, InRules
<1> HIDE DEF bp, Next1
<1>4. bp \in 1..Len(symbols) /\ symbols[bp].name \in Names /\ symbols[bp].name # "$$"
  BY <1>3, OpenRule DEF bp
<1>5. ASSUME NEW rs \in Seq(RuleForms), RulesFit(rs, pitem, rules, symbols, last_was_action)
      PROVE  ReadLexeme(rs, Next1) = Append(Settled(rs), [lhs |-> symbols[bp].name, rhs |-> <<>>])
  <2>1. rs # <<>> /\ symbols[bp].name = Last(rs).lhs
    BY <1>5, OpenRule DEF bp
  <2>2. QED
    BY <1>1, <2>1, ReadLexemeIs
<1>6. QED
  BY <1>1, <1>2, <1>4, <1>5, RuleStarted

LEMMA FirstRules == ASSUME TokensInv, RulesInv, advance_to_start, ~done PROVE RulesInv'
<1> DEFINE found == lookup(symbols, Next1.name)
           bp == BucketOf(found, Next1.name)
           new == [found EXCEPT ![bp].class = "NONTERM"]
           x == [lhs |-> bp, prec |-> UNDEFINED, assoc |-> "TOKEN"]
<1>1. /\ part = "grammar" /\ input # <<>> /\ Next1.k = "lhs" /\ part' = "rules"
      /\ file' = file /\ input' = Tail(input) /\ symbols' = new /\ rules' = Append(rules, x)
      /\ pitem' = pitem /\ last_was_action' = last_was_action
  BY DEF advance_to_start, start_rule, Reading, Consume
<1>2. symbols \in Tables /\ input \in Seq(Lexemes)
  BY DEF TokensInv
<1>3. Next1.name \in Names /\ Next1 \in Lexemes
  BY <1>1, <1>2, NextLexeme
<1>4. Next1.name # "$$"
  BY <1>1, <1>3, JayReaderAssumption
<1>5. found \in Tables /\ \E i \in 1..Len(found) : found[i].name = Next1.name
  BY <1>2, <1>3, LookupNames
<1> HIDE DEF found
<1>6. bp \in 1..Len(found) /\ found[bp].name = Next1.name
  BY <1>5, BucketNamed
<1>7. x.lhs = bp
  OBVIOUS
<1> HIDE DEF bp, x
<1>8. new \in Tables /\ SameNames(found, new)
  BY <1>5, TableClass, NamesClass
<1> HIDE DEF new
<1>9. bp \in 1..Len(new) /\ new[bp].name = Next1.name
  BY <1>6, <1>8 DEF SameNames
<1>10. Begins(file, input, pitem, rules, last_was_action)
  BY <1>1 DEF RulesInv, ReaderPasses
<1>11. PICK k : Rest(file, input, k) /\ Marked(file, k) /\ RulesRead(file)[k] = <<>>
  BY <1>10 DEF Begins
<1>12. /\ ~last_was_action /\ pitem = <<0, 0, 0, 0>> /\ IsSeq(rules) /\ Len(rules) = 3
  BY <1>10 DEF Begins
<1>13. /\ Rest(file, Tail(input), k + 1) /\ Next1 = file[k + 1] /\ k \in Nat
       /\ RulesRead(file)[k + 1] = ReadLexeme(RulesRead(file)[k], Next1)
  BY <1>1, <1>11, NextRead
<1> HIDE DEF Next1
<1>14. Marked(file, k + 1)
  BY <1>1, <1>11, <1>13, MarksOn
<1>15. RulesRead(file)[k + 1] = Append(<<>>, [lhs |-> new[bp].name, rhs |-> <<>>])
  <2>0. <<>> \in Seq(RuleForms)
    OBVIOUS
  <2>1. Settled(<<>>) = <<>>
    BY <2>0, SettledType
  <2>2. ReadLexeme(<<>>, Next1) = Append(Settled(<<>>), [lhs |-> Next1.name, rhs |-> <<>>])
    BY <1>1, ReadLexemeIs
  <2>3. QED
    BY <1>9, <1>11, <1>13, <2>1, <2>2
<1>16. IsSeq(Append(rules, x)) /\ Len(Append(rules, x)) = 4 /\ Append(rules, x)[4].lhs = bp
  <2>1. PICK S : rules \in Seq(S)
    BY <1>12 DEF IsSeq
  <2>1a. IsSeq(rules) /\ Len(rules) = 3
    BY <1>12
  <2>2. IsSeq(Append(rules, x)) /\ Len(Append(rules, x)) = 4
    <3>1. IsSeq(Append(rules, x)) /\ Len(Append(rules, x)) = Len(rules) + 1
      BY <2>1a, SeqAppend, Zenon
    <3>2. QED
      BY <2>1a, <3>1
  <2>3. Append(rules, x)[Len(rules) + 1] = x
    BY <2>1
  <2>3a. Len(rules) + 1 = 4
    BY <2>1a
  <2>4. QED
    BY <1>7, <2>2, <2>3, <2>3a
<1>17. RulesFit(RulesRead(file)[k + 1], <<0, 0, 0, 0>>, Append(rules, x), new, FALSE)
  BY <1>3, <1>4, <1>8, <1>9, <1>15, <1>16, FirstFits
<1>18. RulesFit(RulesRead(file)[k + 1], pitem, Append(rules, x), new, last_was_action)
  BY <1>12, <1>17 DEF RulesFit
<1>19. Reads(file', input', pitem', rules', symbols', last_was_action')
  BY <1>1, <1>13, <1>14, <1>18 DEF Reads
<1>20. QED
  BY <1>1, <1>19 DEF RulesInv

LEMMA EndRules == ASSUME RulesInv, end_grammar PROVE RulesInv'
<1>1. /\ part = "rules" /\ (input = <<>> \/ (input # <<>> /\ Next1.k = "mark"))
      /\ part' = "pack" /\ pitem' = Append(pitem, 0)
      /\ file' = file /\ input' = input /\ rules' = rules /\ symbols' = symbols
  BY DEF end_grammar, end_rule, decls
<1>2. Reads(file, input, pitem, rules, symbols, last_was_action)
  BY <1>1 DEF RulesInv, ReaderPasses
<1>3. PICK k : /\ Rest(file, input, k) /\ Marked(file, k)
               /\ RulesFit(RulesRead(file)[k], pitem, rules, symbols, last_was_action)
  BY <1>2 DEF Reads
<1>4. k = Len(file) \/ file[k + 1].k = "mark"
  <2>1. CASE input = <<>>
    <3>1. Len(input) = 0 /\ k \in Nat /\ Len(file) = k + Len(input)
      BY <1>3, <2>1 DEF Rest
    <3>2. QED
      BY <3>1
  <2>2. CASE input # <<>> /\ Next1.k = "mark"
    <3>1. Next1 = file[k + 1]
      BY <1>3, <2>2, NextRead
    <3>2. QED
      BY <2>2, <3>1
  <2>3. QED
    BY <1>1, <2>1, <2>2
<1>5. Stops(file, input, Append(pitem, 0), rules, symbols)
  BY <1>3, <1>4 DEF Stops
<1>6. QED
  BY <1>1, <1>5 DEF RulesInv

(* The packed grammar *)

\* A list of places of the symbol table.
LEMMA PlacesOfTable ==
    ASSUME NEW syms \in Tables, NEW S, S \subseteq DOMAIN syms
    PROVE  /\ Places(S) \in Seq(S) /\ IsSeq(Places(S)) /\ Len(Places(S)) \in Nat
           /\ \A x \in S : \E k \in 1..Len(Places(S)) : Places(S)[k] = x
           /\ \A k \in 1..Len(Places(S)) : Places(S)[k] \in S
<1>1. S \subseteq 1..Len(syms) /\ Len(syms) \in Nat /\ 1..Len(syms) \subseteq Nat
  BY DEF Tables
<1>2. IsFiniteSet(S) /\ S \in SUBSET Nat
  <2>1. IsFiniteSet(1..Len(syms))
    BY <1>1, FS_Interval
  <2>2. QED
    BY <1>1, <2>1, FS_Subset
<1>3. /\ Places(S) \in Seq(S)
      /\ \A x \in S : \E k \in 1..Len(Places(S)) : Places(S)[k] = x
  BY <1>2, PlacesAre
<1>4. IsSeq(Places(S)) /\ Len(Places(S)) \in Nat /\ \A k \in 1..Len(Places(S)) : Places(S)[k] \in S
  BY <1>3 DEF IsSeq
<1>5. QED
  BY <1>3, <1>4

\* The variables: the goal first.
Variables(syms) == {i \in DOMAIN syms : syms[i].class # "TERM" /\ i # goal}
LEMMA VariablesAre ==
    ASSUME NEW syms \in Tables
    PROVE  LET vs == <<goal>> \o Places(Variables(syms))
           IN  /\ Len(vs) \in Nat /\ DOMAIN vs = 1..Len(vs)
               /\ \A b \in DOMAIN syms :
                     syms[b].class # "TERM" => \E s \in 1..Len(vs) : vs[s] = b
<1> DEFINE S == Variables(syms)
           o == Places(S)
           one == <<goal>>
           vs == one \o o
<1>1. S \subseteq DOMAIN syms
  BY DEF Variables
<1>2. /\ o \in Seq(S) /\ Len(o) \in Nat
      /\ \A x \in S : \E k \in 1..Len(o) : o[k] = x
  BY <1>1, PlacesOfTable
<1> DEFINE T == S \cup {goal}
<1>3. o \in Seq(T) /\ one \in Seq(T) /\ Len(one) = 1 /\ one[1] = goal
  <2>1. S \subseteq T
    OBVIOUS
  <2>2. goal \in T
    OBVIOUS
  <2> HIDE DEF S, o, T
  <2>3. o \in Seq(T)
    BY <1>2, <2>1, SeqSubset
  <2>4. QED
    BY <2>2, <2>3
<1> HIDE DEF S, o, T, one
<1>3a. one \in Seq(T) /\ o \in Seq(T)
  BY <1>3
<1>4. /\ vs \in Seq(T) /\ Len(vs) = Len(one) + Len(o)
      /\ \A i \in 1..Len(one) : vs[i] = one[i]
      /\ \A i \in 1..Len(o) : vs[Len(one) + i] = o[i]
  BY <1>3a, Joined
<1> HIDE DEF vs
<1>5. Len(vs) = 1 + Len(o) /\ Len(vs) \in Nat /\ DOMAIN vs = 1..Len(vs)
  <2>1. vs \in Seq(T)
    BY <1>4
  <2>2. Len(vs) \in Nat /\ DOMAIN vs = 1..Len(vs)
    BY <2>1
  <2>3. QED
    BY <1>3, <1>4, <2>2
<1>6. ASSUME NEW b \in DOMAIN syms, syms[b].class # "TERM" PROVE \E s \in 1..Len(vs) : vs[s] = b
  <2>1. CASE b = goal
    <3>1. 1 \in 1..Len(one) /\ 1 \in 1..Len(vs)
      BY <1>2, <1>3, <1>5
    <3>2. QED
      BY <1>3, <1>4, <2>1, <3>1
  <2>2. CASE b # goal
    <3>1. b \in S
      BY <1>6, <2>2 DEF S, Variables
    <3>2. PICK k \in 1..Len(o) : o[k] = b
      BY <1>2, <3>1
    <3>3. 1 + k \in 1..Len(vs) /\ Len(one) = 1
      BY <1>2, <1>3, <1>5
    <3>4. vs[1 + k] = b
      BY <1>4, <3>2, <3>3
    <3>5. QED
      BY <3>3, <3>4
  <2>3. QED
    BY <2>1, <2>2
<1>7. QED
  BY <1>5, <1>6 DEF vs, one, o, S

\* index and bucket are inverse to each other.
LEMMA IndexBack ==
    ASSUME NEW syms \in Tables, NEW b \in 1..Len(syms)
    PROVE  pack_symbols(syms).bucket[pack_symbols(syms).index[b]] = b
<1> DEFINE terms == Places(Tokens(syms))
           vs == <<goal>> \o Places(Variables(syms))
           nt == Len(terms) + 1
           last == (nt + 1 + Len(vs)) - 1
           bucket == pack_symbols(syms).bucket
           index == pack_symbols(syms).index
<1>0. b \in DOMAIN syms
  BY DEF Tables
<1>1. Tokens(syms) \subseteq DOMAIN syms
  BY DEF Tokens
<1>2. /\ Len(terms) \in Nat /\ terms \in Seq(Tokens(syms))
      /\ \A x \in Tokens(syms) : \E k \in 1..Len(terms) : terms[k] = x
      /\ \A k \in 1..Len(terms) : terms[k] \in Tokens(syms)
  BY <1>1, PlacesOfTable
<1>3. DOMAIN terms = 1..Len(terms)
  BY <1>2
<1>4. /\ Len(vs) \in Nat /\ DOMAIN vs = 1..Len(vs)
      /\ \A x \in DOMAIN syms : syms[x].class # "TERM" => \E s \in 1..Len(vs) : vs[s] = x
  BY VariablesAre
<1>5. bucket = [k \in 0..last |->
          IF k \in {0, nt} THEN 0 ELSE IF k < nt THEN terms[k] ELSE vs[k - nt]]
  BY Zenon DEF pack_symbols, Tokens, Variables
<1>6. index = [i \in DOMAIN syms |->
          IF i \in Range(terms) THEN CHOOSE s \in DOMAIN terms : terms[s] = i
          ELSE nt + CHOOSE s \in DOMAIN vs : vs[s] = i]
  BY Zenon DEF pack_symbols, Tokens, Variables
<1> HIDE DEF terms, vs, bucket, index
<1>7. CASE syms[b].class = "TERM"
  <2> DEFINE s == CHOOSE s \in DOMAIN terms : terms[s] = b
  <2>1. \E k \in DOMAIN terms : terms[k] = b
    BY <1>0, <1>2, <1>3, <1>7 DEF Tokens
  <2>2. b \in Range(terms)
    BY <2>1 DEF Range
  <2>3. s \in DOMAIN terms /\ terms[s] = b
    BY <2>1, Zenon
  <2>4. index[b] = s
    BY <1>0, <1>6, <2>2
  <2> HIDE DEF s
  <2>5. s \in 0..last /\ s \notin {0, nt} /\ s < nt
    <3>1. s \in 1..Len(terms)
      BY <1>3, <2>3
    <3> DEFINE x == Len(terms)
               y == Len(vs)
    <3>2. x \in Nat /\ y \in Nat /\ s \in 1..x
      BY <1>2, <1>4, <3>1
    <3> HIDE DEF x, y
    <3>3. s \in 0..((((x + 1) + 1) + y) - 1) /\ s \notin {0, x + 1} /\ s < x + 1
      BY <3>2
    <3>4. QED
      BY <3>3 DEF x, y
  <2>6. bucket[s] = terms[s]
    BY <1>5, <2>5
  <2>7. QED
    BY <2>3, <2>4, <2>6 DEF bucket, index
<1>8. CASE syms[b].class # "TERM"
  <2> DEFINE s == CHOOSE s \in DOMAIN vs : vs[s] = b
  <2>1. \E k \in DOMAIN vs : vs[k] = b
    BY <1>0, <1>4, <1>8
  <2>2. b \notin Range(terms)
    <3>1. b \notin Tokens(syms)
      BY <1>8 DEF Tokens
    <3>2. QED
      BY <1>2, <1>3, <3>1 DEF Range
  <2>3. s \in DOMAIN vs /\ vs[s] = b
    BY <2>1, Zenon
  <2>4. index[b] = nt + s
    BY <1>0, <1>6, <2>2
  <2> HIDE DEF s
  <2>5. nt + s \in 0..last /\ nt + s \notin {0, nt} /\ ~(nt + s < nt) /\ (nt + s) - nt = s
    <3>1. s \in 1..Len(vs)
      BY <1>4, <2>3
    <3>2. QED
      BY <1>2, <1>4, <3>1
  <2>6. bucket[nt + s] = vs[s]
    BY <1>5, <2>5
  <2>7. QED
    BY <2>3, <2>4, <2>6 DEF bucket, index
<1>9. QED
  BY <1>7, <1>8

\* The null pointers from the fourth item on end the rules.
Nulls == Places({k \in 4..Len(pitem) : pitem[k] = 0})

LEMMA RuleEnds ==
    ASSUME NEW items, NEW n, NEW at, Laid(items, n, at), pitem = Append(items, 0)
    PROVE  Nulls = at
<1> DEFINE S == {k \in 4..Len(pitem) : pitem[k] = 0}
           m == n + 1
<1>1. /\ n \in Nat /\ n >= 1 /\ Len(items) \in Nat /\ items \in Seq(Nat)
      /\ at \in [1..m -> Nat] /\ at[m] = Len(items) + 1
      /\ \A i, j \in 1..m : i < j => at[i] < at[j]
  BY DEF Laid
<1>2. /\ Len(pitem) = Len(items) + 1 /\ pitem[Len(items) + 1] = 0
      /\ \A k \in 1..Len(items) : pitem[k] = items[k]
  BY <1>1
<1>3. m \in Nat /\ m \in 1..m /\ \A i \in 1..m : i = m \/ i \in 1..n
  BY <1>1
<1>4. ASSUME NEW k \in S PROVE k \in {at[i] : i \in 1..m}
  <2>0. k \in 4..Len(pitem) /\ pitem[k] = 0
    OBVIOUS
  <2>1. k = Len(items) + 1 \/ (k \in 4..Len(items) /\ k \in 1..Len(items))
    BY <1>1, <1>2, <2>0
  <2>2. CASE k = Len(items) + 1
    BY <1>1, <1>3, <2>2
  <2>3. CASE k \in 4..Len(items) /\ k \in 1..Len(items)
    <3>1. items[k] = 0
      BY <1>2, <2>0, <2>3
    <3>2. PICK i \in 1..n : at[i] = k
      BY <2>3, <3>1 DEF Laid
    <3>3. i \in 1..m
      BY <1>1
    <3>4. QED
      BY <3>2, <3>3
  <2>4. QED
    BY <2>1, <2>2, <2>3
<1>5. ASSUME NEW i \in 1..m PROVE at[i] \in S
  <2>1. CASE i = m
    <3>1. at[m] >= 4
      BY <1>3, LaidPlaces
    <3>2. Len(items) + 1 \in 4..Len(pitem)
      BY <1>1, <1>2, <3>1
    <3>3. QED
      BY <1>1, <1>2, <2>1, <3>2
  <2>2. CASE i \in 1..n
    <3>1. at[i] \in 4..Len(items) /\ items[at[i]] = 0
      BY <2>2, LaidPlaces DEF Laid
    <3> DEFINE p == at[i]
    <3>2. p \in 4..Len(items) /\ items[p] = 0
      BY <3>1
    <3> HIDE DEF p
    <3>3. p \in 1..Len(items) /\ p \in 4..Len(pitem)
      BY <1>1, <1>2, <3>2
    <3>4. pitem[p] = 0
      BY <1>2, <3>2, <3>3
    <3>5. QED
      BY <3>3, <3>4 DEF p
  <2>3. QED
    BY <1>3, <2>1, <2>2
<1> HIDE DEF S, m
<1>6. S = {at[i] : i \in 1..m}
  BY <1>4, <1>5, Zenon
<1>7. Places(S) = at
  BY <1>1, <1>3, <1>6, PlacesUnique
<1>8. QED
  BY <1>7 DEF S, Nulls

\* The arrays of the packed grammar.
EndedAt(k) == CHOOSE j \in DOMAIN Nulls : Nulls[j] = k
ArraysOf(p, sy) ==
    /\ p.nrules = Len(rules) /\ p.bucket = sy.bucket
    /\ p.ritem = [j \in 0..(Len(pitem) - 1) |->
          IF j = 0 THEN -1 ELSE IF j = 1 THEN sy.index[goal]
          ELSE IF j = 2 THEN 0 ELSE IF pitem[j + 1] # 0 THEN sy.index[pitem[j + 1]]
          ELSE -(1 + EndedAt(j + 1))]
    /\ p.rlhs = [i \in 0..(Len(rules) - 1) |->
          IF i < 2 THEN 0 ELSE IF i = 2 THEN sy.ntokens ELSE sy.index[rules[i + 1].lhs]]
    /\ p.rrhs = [i \in 0..Len(rules) |->
          IF i < 2 THEN 0 ELSE IF i = 2 THEN 1 ELSE Nulls[i - 2]]

LEMMA PackedArrays ==
    ASSUME NEW syms, NEW sy
    PROVE  ArraysOf(pack_grammar(syms, sy), sy)
  BY Zenon DEF ArraysOf, pack_grammar, Nulls, EndedAt

\* What the arrays of a packed grammar p are for the rules of items, L and at,
\* when the bucket b has the number ix[b].
PackedOf(p, items, L, at, n, ix) ==
    /\ p.nrules = n + 3
    /\ \A i \in 1..(n + 1) : p.rrhs[i + 2] = at[i]
    /\ \A i \in 1..n : p.rlhs[i + 2] = ix[L[i]]
    /\ \A k \in 4..Len(items) : items[k] # 0 => p.ritem[k - 1] = ix[items[k]]
    /\ \A i \in 1..n : p.ritem[at[i + 1] - 1] = -(i + 2)

LEMMA PackedHas ==
    ASSUME NEW syms \in Tables, NEW items, NEW L, NEW at, NEW src,
           Fits(items, L, at, rules, syms, src), pitem = Append(items, 0)
    PROVE  PackedOf(pack_grammar(syms, pack_symbols(syms)), items, L, at, Len(src),
                    pack_symbols(syms).index)
<1> DEFINE sy == pack_symbols(syms)
           ix == sy.index
           p == pack_grammar(syms, sy)
           n == Len(src)
<1>1. Laid(items, n, at) /\ Len(rules) = n + 3 /\ \A i \in 1..n : rules[i + 3].lhs = L[i]
  BY DEF Fits, Heads
<1>2. /\ n \in Nat /\ n >= 1 /\ Len(items) \in Nat /\ items \in Seq(Nat)
      /\ at \in [1..(n + 1) -> Nat]
      /\ \A i, j \in 1..(n + 1) : i < j => at[i] < at[j]
  BY <1>1 DEF Laid
<1>3. Nulls = at
  BY <1>1, RuleEnds
<1>4. /\ Len(pitem) = Len(items) + 1 /\ pitem[Len(items) + 1] = 0
      /\ \A k \in 1..Len(items) : pitem[k] = items[k]
  BY <1>2
<1> HIDE DEF sy
<1>5. ArraysOf(p, sy)
  BY PackedArrays
<1> HIDE DEF p, n, ix
<1>6. ASSUME NEW i \in 1..(n + 1) PROVE p.rrhs[i + 2] = at[i]
  <2>1. i + 2 \in 0..Len(rules) /\ ~(i + 2 < 2) /\ i + 2 # 2 /\ (i + 2) - 2 = i
    BY <1>1, <1>2
  <2>2. QED
    BY <1>3, <1>5, <2>1 DEF ArraysOf
<1>7. ASSUME NEW i \in 1..n PROVE p.rlhs[i + 2] = ix[L[i]]
  <2>1. i + 2 \in 0..(Len(rules) - 1) /\ ~(i + 2 < 2) /\ i + 2 # 2 /\ (i + 2) + 1 = i + 3
    BY <1>1, <1>2
  <2>2. p.rlhs[i + 2] = sy.index[rules[i + 3].lhs]
    BY <1>5, <2>1 DEF ArraysOf
  <2>3. QED
    BY <1>1, <2>2 DEF ix
<1>8. ASSUME NEW k \in 4..Len(items), items[k] # 0 PROVE p.ritem[k - 1] = ix[items[k]]
  <2>1. /\ k - 1 \in 0..(Len(pitem) - 1) /\ k - 1 # 0 /\ k - 1 # 1 /\ k - 1 # 2
        /\ (k - 1) + 1 = k /\ k \in 1..Len(items)
    BY <1>2, <1>4
  <2>2. pitem[k] # 0 /\ pitem[k] = items[k]
    BY <1>4, <1>8, <2>1
  <2>3. p.ritem[k - 1] = sy.index[pitem[k]]
    BY <1>5, <2>1, <2>2 DEF ArraysOf
  <2>4. QED
    BY <2>2, <2>3 DEF ix
<1>9. ASSUME NEW i \in 1..n PROVE p.ritem[at[i + 1] - 1] = -(i + 2)
  <2> DEFINE m == i + 1
             k == at[m]
  <2>1. m \in 1..(n + 1) /\ k \in Nat /\ k >= 4 /\ k <= Len(items) + 1
    <3>1. m \in 1..(n + 1)
      BY <1>2
    <3>2. QED
      BY <1>1, <3>1, LaidPlaces
  <2>2. pitem[k] = 0
    <3>1. CASE i = n
      <4>1. k = Len(items) + 1
        BY <1>1, <3>1 DEF Laid
      <4>2. QED
        BY <1>4, <4>1
    <3>2. CASE i # n
      <4>1. m \in 1..n
        BY <1>2, <3>2
      <4>2. k \in 4..Len(items) /\ items[k] = 0
        BY <1>1, <4>1, LaidPlaces DEF Laid
      <4>3. k \in 1..Len(items)
        BY <1>2, <4>2
      <4>4. QED
        BY <1>4, <4>2, <4>3
    <3>3. QED
      BY <3>1, <3>2
  <2>3. (CHOOSE j \in DOMAIN at : at[j] = k) = m
    <3>1. DOMAIN at = 1..(n + 1)
      BY <1>2
    <3>2. ASSUME NEW j \in 1..(n + 1), at[j] = k PROVE j = m
      <4>1. j \in Int /\ m \in Int /\ at[j] \in Int /\ at[m] \in Int
        BY <1>2, <2>1
      <4>2. (j < m => at[j] < at[m]) /\ (m < j => at[m] < at[j])
        BY <1>2, <2>1
      <4>3. ~(at[j] < at[m]) /\ ~(at[m] < at[j])
        BY <3>2, <4>1
      <4>4. QED
        BY <4>1, <4>2, <4>3
    <3>3. at[m] = k
      OBVIOUS
    <3> HIDE DEF m, k
    <3>4. QED
      BY <2>1, <3>1, <3>2, <3>3, Zenon
  <2> HIDE DEF k
  <2>4. k - 1 \in 0..(Len(pitem) - 1) /\ k - 1 # 0 /\ k - 1 # 1 /\ k - 1 # 2 /\ (k - 1) + 1 = k
    BY <1>2, <1>4, <2>1
  <2>5. p.ritem[k - 1] = -(1 + EndedAt(k))
    BY <1>5, <2>2, <2>4 DEF ArraysOf
  <2>6. EndedAt(k) = m
    BY <1>3, <2>3 DEF EndedAt
  <2>7. -(1 + m) = -(i + 2)
    BY <1>2
  <2>8. QED
    BY <2>5, <2>6, <2>7 DEF k
<1>10. p.nrules = n + 3
  BY <1>1, <1>5 DEF ArraysOf, n
<1>11. PackedOf(p, items, L, at, n, ix)
  BY <1>6, <1>7, <1>8, <1>9, <1>10 DEF PackedOf
<1>12. QED
  BY <1>11 DEF p, n, ix, sy

\* The rules of a packed grammar p, with the names of the buckets in syms.
BodyIn(p, r) == [k \in 1..(p.rrhs[r + 1] - p.rrhs[r] - 1) |-> p.ritem[p.rrhs[r] + k - 1]]
NamedIn(p, syms, r) ==
    [lhs |-> syms[p.bucket[p.rlhs[r]]].name,
     rhs |-> [k \in DOMAIN BodyIn(p, r) |-> syms[p.bucket[BodyIn(p, r)[k]]].name]]
UsersIn(p, s) == {r \in 3..(p.nrules - 1) : s \in Range(BodyIn(p, r))}

LEMMA BodyAre ==
    ASSUME NEW items, NEW L, NEW at, NEW syms, NEW src,
           Laid(items, Len(src), at), Spelled(items, L, syms, at, src),
           NEW p, NEW ix, PackedOf(p, items, L, at, Len(src), ix), NEW i \in 1..Len(src)
    PROVE  BodyIn(p, i + 2) = [k \in 1..Len(src[i].rhs) |-> ix[items[at[i] + k]]]
<1> DEFINE n == Len(src)
           m == Len(src[i].rhs)
<1>1. n \in Nat /\ at[i] \in Nat /\ at[i + 1] \in Nat
  <2>1. n \in Nat
    BY LaidSizes
  <2>2. i \in 1..(n + 1) /\ i + 1 \in 1..(n + 1)
    BY <2>1
  <2>3. QED
    BY <2>1, <2>2, LaidSizes
<1>2. p.rrhs[i + 2] = at[i] /\ p.rrhs[(i + 2) + 1] = at[i + 1]
  <2>1. i \in 1..(n + 1) /\ i + 1 \in 1..(n + 1) /\ (i + 2) + 1 = (i + 1) + 2
    BY <1>1
  <2>2. \A j \in 1..(n + 1) : p.rrhs[j + 2] = at[j]
    BY DEF PackedOf
  <2>3. p.rrhs[(i + 1) + 2] = at[i + 1]
    BY <2>1, <2>2
  <2>4. QED
    BY <2>1, <2>2, <2>3
<1>3. at[i + 1] - at[i] - 1 = m
  BY DEF Spelled
<1>4. ASSUME NEW k \in 1..m PROVE p.ritem[at[i] + k - 1] = ix[items[at[i] + k]]
  <2> DEFINE q == at[i] + k
  <2>1. q \in 4..Len(items) /\ items[q] # 0
    BY ItemPlace
  <2> HIDE DEF q
  <2>2. p.ritem[q - 1] = ix[items[q]]
    BY <2>1 DEF PackedOf
  <2>3. q - 1 = at[i] + k - 1
    BY <1>1 DEF q
  <2>4. QED
    BY <2>2, <2>3, Zenon DEF q
<1> HIDE DEF m
<1>5. BodyIn(p, i + 2) = [k \in 1..m |-> p.ritem[at[i] + k - 1]]
  <2> DEFINE x == p.rrhs[i + 2]
             y == p.rrhs[(i + 2) + 1]
  <2>1. BodyIn(p, i + 2) = [k \in 1..(y - x - 1) |-> p.ritem[x + k - 1]]
    BY DEF BodyIn
  <2>2. x = at[i] /\ y = at[i + 1]
    BY <1>2
  <2> HIDE DEF x, y
  <2>3. y - x - 1 = m
    BY <1>3, <2>2
  <2>4. QED
    BY <2>1, <2>2, <2>3, Zenon
<1>6. QED
  BY <1>4, <1>5 DEF m

\* index and bucket are inverse to each other in p.
Backs(p, ix, m) == \A b \in 1..m : p.bucket[ix[b]] = b

LEMMA NamedAre ==
    ASSUME NEW items, NEW L, NEW at, NEW syms, NEW src,
           Laid(items, Len(src), at), Spelled(items, L, syms, at, src),
           NEW p, NEW ix, PackedOf(p, items, L, at, Len(src), ix),
           Len(syms) \in Nat, Backs(p, ix, Len(syms)),
           NEW i \in 1..Len(src)
    PROVE  NamedIn(p, syms, i + 2) = src[i]
<1> DEFINE m == Len(src[i].rhs)
           body == BodyIn(p, i + 2)
<1>1. body = [k \in 1..m |-> ix[items[at[i] + k]]]
  BY BodyAre
<1>2. /\ L[i] \in 1..Len(syms) /\ syms[L[i]].name = src[i].lhs
  BY DEF Spelled
<1>3. src[i] \in RuleForms /\ src[i].rhs \in Seq(Names) /\ m \in Nat
  BY RuleFormIs DEF Spelled
<1>4. syms[p.bucket[p.rlhs[i + 2]]].name = src[i].lhs
  BY <1>2 DEF PackedOf, Backs
<1> HIDE DEF body
<1>5. ASSUME NEW k \in 1..m PROVE syms[p.bucket[body[k]]].name = src[i].rhs[k]
  <2> DEFINE b == items[at[i] + k]
  <2>1. at[i] + k \in 4..Len(items) /\ b # 0
    BY ItemPlace
  <2>2. b \in 0..Len(syms) /\ syms[b].name = src[i].rhs[k]
    BY <2>1 DEF Spelled
  <2>3. body[k] = ix[b]
    BY <1>1
  <2> HIDE DEF b
  <2>4. b \in 1..Len(syms)
    BY <2>1, <2>2
  <2>5. QED
    BY <2>2, <2>3, <2>4 DEF Backs
<1>6. DOMAIN body = 1..m
  BY <1>1
<1> DEFINE spelling == [k \in DOMAIN body |-> syms[p.bucket[body[k]]].name]
<1>7. spelling = src[i].rhs
  <2>1. spelling = [k \in 1..m |-> src[i].rhs[k]]
    BY <1>5, <1>6
  <2> HIDE DEF spelling
  <2>2. src[i].rhs = [k \in 1..m |-> src[i].rhs[k]]
    BY <1>3
  <2>3. QED
    BY <2>1, <2>2
<1>8. NamedIn(p, syms, i + 2) = [lhs |-> src[i].lhs, rhs |-> spelling]
  BY <1>4 DEF NamedIn, body
<1> HIDE DEF spelling
<1>9. src[i] = [lhs |-> src[i].lhs, rhs |-> src[i].rhs]
  BY <1>3 DEF RuleForms
<1>10. QED
  BY <1>7, <1>8, <1>9

OnlyUser(p, s, u) == UsersIn(p, s) = {u + 2}
Packing(items, L, at, syms, src, p, ix) ==
    /\ Laid(items, Len(src), at) /\ Spelled(items, L, syms, at, src)
    /\ PackedOf(p, items, L, at, Len(src), ix) /\ Len(syms) \in Nat /\ Backs(p, ix, Len(syms))

\* The empty rule of an action is used in the rule that the action stands in.
LEMMA UsersAre ==
    ASSUME NEW items, NEW L, NEW at, NEW syms, NEW src, NEW p, NEW ix,
           Packing(items, L, at, syms, src, p, ix),
           NEW i \in 1..Len(src), NEW u, UsedIn(items, L, at, src, i, u)
    PROVE  OnlyUser(p, ix[L[i]], u)
<1> DEFINE n == Len(src)
           s == ix[L[i]]
<1>0. /\ Laid(items, n, at) /\ Spelled(items, L, syms, at, src)
      /\ PackedOf(p, items, L, at, n, ix) /\ Len(syms) \in Nat /\ Backs(p, ix, Len(syms))
  BY DEF Packing
<1>1. n \in Nat /\ n >= 1 /\ Len(items) \in Nat
  BY <1>0, LaidSizes
<1>2. u \in 1..n /\ u \in Int
  <2>1. u \in (i + 1)..n
    BY DEF UsedIn
  <2>2. QED
    BY <1>1, <2>1
<1>3. L[i] \in 1..Len(syms) /\ \A k \in 4..Len(items) : items[k] \in 0..Len(syms)
  BY <1>0 DEF Spelled
<1>4. \A j \in 1..n : BodyIn(p, j + 2) = [k \in 1..Len(src[j].rhs) |-> ix[items[at[j] + k]]]
  BY <1>0, BodyAre
<1>5. \A j \in 1..n : /\ j \in 1..(n + 1) /\ j + 1 \in 1..(n + 1) /\ at[j] \in Nat /\ at[j + 1] \in Nat
                      /\ Len(src[j].rhs) = at[j + 1] - at[j] - 1
  <2>1. \A j \in 1..n : j \in 1..(n + 1) /\ j + 1 \in 1..(n + 1)
    BY <1>1
  <2>2. QED
    BY <1>0, <2>1, LaidSizes DEF Spelled
<1>6. s \in Range(BodyIn(p, u + 2))
  <2>1. PICK k \in (at[u] + 1)..(at[u + 1] - 1) : items[k] = L[i]
    BY DEF UsedIn
  <2> DEFINE m == Len(src[u].rhs)
             a == at[u]
             e == at[u + 1]
             q == k - a
  <2>2. a \in Nat /\ e \in Nat /\ m = e - a - 1 /\ k \in (a + 1)..(e - 1)
    BY <1>2, <1>5
  <2> HIDE DEF m, a, e
  <2>3. q \in 1..m /\ a + q = k
    BY <2>2
  <2> HIDE DEF q
  <2>4. BodyIn(p, u + 2) = [j \in 1..m |-> ix[items[a + j]]]
    BY <1>2, <1>4 DEF m, a
  <2>5. q \in DOMAIN BodyIn(p, u + 2) /\ BodyIn(p, u + 2)[q] = s
    BY <2>1, <2>3, <2>4
  <2>6. QED
    BY <2>5, Zenon DEF Range
<1>7. ASSUME NEW j \in 1..n, s \in Range(BodyIn(p, j + 2)) PROVE j = u
  <2> DEFINE m == Len(src[j].rhs)
  <2>1. BodyIn(p, j + 2) = [k \in 1..m |-> ix[items[at[j] + k]]]
    BY <1>4
  <2>2. PICK k \in 1..m : ix[items[at[j] + k]] = s
    BY <1>7, <2>1 DEF Range
  <2> DEFINE b == items[at[j] + k]
             q == at[j] + k
  <2>3. q \in 4..Len(items) /\ b # 0 /\ q \in (at[j] + 1)..(at[j + 1] - 1)
    BY <1>0, ItemPlace
  <2>4. b \in 0..Len(syms)
    BY <1>3, <2>3
  <2>5. ix[b] = s
    BY <2>2
  <2>6. items[q] = b
    OBVIOUS
  <2> HIDE DEF b, q
  <2>7. b \in 1..Len(syms)
    BY <2>3, <2>4
  <2>8. b = L[i]
    <3>1. p.bucket[ix[b]] = b /\ p.bucket[ix[L[i]]] = L[i]
      BY <1>0, <1>3, <2>7 DEF Backs
    <3>2. QED
      BY <2>5, <3>1
  <2>9. q \in (at[u] + 1)..(at[u + 1] - 1)
    BY <2>3, <2>6, <2>8 DEF UsedIn
  <2>10. ASSUME NEW x \in 1..n, NEW y \in 1..n, x < y PROVE at[x + 1] <= at[y]
    <3>0. x + 1 = y \/ x + 1 < y
      BY <2>10
    <3>1. x + 1 \in 1..(n + 1) /\ y \in 1..(n + 1) /\ at[x + 1] \in Int /\ at[y] \in Int
      BY <1>5
    <3>2. x + 1 = y \/ at[x + 1] < at[y]
      BY <1>0, <3>0, <3>1 DEF Laid
    <3>3. QED
      BY <3>1, <3>2
  <2>11. /\ at[u] \in Int /\ at[u + 1] \in Int /\ at[j] \in Int /\ at[j + 1] \in Int
         /\ q \in Int /\ at[u] < q /\ q < at[u + 1] /\ at[j] < q /\ q < at[j + 1]
    <3> DEFINE a == at[u]
               b1 == at[u + 1]
               c == at[j]
               d == at[j + 1]
    <3>1. a \in Nat /\ b1 \in Nat /\ c \in Nat /\ d \in Nat
      BY <1>2, <1>5
    <3>2. q \in (a + 1)..(b1 - 1) /\ q \in (c + 1)..(d - 1)
      BY <2>3, <2>9
    <3> HIDE DEF a, b1, c, d
    <3>3. /\ a \in Int /\ b1 \in Int /\ c \in Int /\ d \in Int
          /\ q \in Int /\ a < q /\ q < b1 /\ c < q /\ q < d
      BY <3>1, <3>2
    <3>4. QED
      BY <3>3 DEF a, b1, c, d
  <2>12. ~(at[u + 1] <= at[j]) /\ ~(at[j + 1] <= at[u])
    BY <2>11
  <2>13. ~(u < j) /\ ~(j < u)
    BY <1>2, <2>10, <2>12
  <2>14. QED
    BY <1>2, <2>13
<1> HIDE DEF s
<1>8. UsersIn(p, s) = {r \in 3..(n + 2) : s \in Range(BodyIn(p, r))}
  <2>1. p.nrules - 1 = n + 2
    BY <1>0, <1>1 DEF PackedOf
  <2>2. QED
    BY <2>1 DEF UsersIn
<1>9. u + 2 \in UsersIn(p, s)
  <2>1. u + 2 \in 3..(n + 2)
    BY <1>1, <1>2
  <2>2. QED
    BY <1>6, <1>8, <2>1
<1>10. ASSUME NEW r \in UsersIn(p, s) PROVE r = u + 2
  <2>1. r \in 3..(n + 2) /\ s \in Range(BodyIn(p, r))
    BY <1>8
  <2>2. r - 2 \in 1..n /\ (r - 2) + 2 = r
    BY <1>1, <2>1
  <2>3. r - 2 = u
    BY <1>7, <2>1, <2>2
  <2>4. QED
    BY <2>2, <2>3
<1>11. QED
  BY <1>9, <1>10 DEF s, OnlyUser

PackedFrom(p, syms, src) ==
    /\ p.nrules = 3 + Len(src)
    /\ \A r \in 3..(p.nrules - 1) :
         /\ NamedIn(p, syms, r) = src[r - 2]
         /\ p.ritem[p.rrhs[r + 1] - 1] = -r
         /\ NamedIn(p, syms, r).lhs = "$$" =>
              UsersIn(p, p.rlhs[r])
                = {Min({q \in r..(p.nrules - 1) : NamedIn(p, syms, q).lhs # "$$"})}

\* The first rule from i on that is not for an action.
Candidates(src, i) == {q \in (i + 2)..(Len(src) + 2) : src[q - 2].lhs # "$$"}
LEMMA NextUser ==
    ASSUME NEW items, NEW L, NEW at, NEW src, Len(src) \in Nat, NEW i \in 1..Len(src), NEW u,
           UsedIn(items, L, at, src, i, u)
    PROVE  Min(Candidates(src, i)) = u + 2
<1> DEFINE n == Len(src)
           S == {q \in (i + 2)..(n + 2) : src[q - 2].lhs # "$$"}
           v == u + 2
<1>0. /\ u \in (i + 1)..n /\ src[u].lhs # "$$" /\ \A q \in i..(u - 1) : src[q].lhs = "$$"
      /\ n \in Nat
  BY DEF UsedIn
<1> HIDE DEF n
<1>1. v \in S
  <2>1. v \in (i + 2)..(n + 2) /\ v - 2 = u
    BY <1>0
  <2>2. QED
    BY <1>0, <2>1
<1>2. ASSUME NEW q \in S PROVE v <= q
  <2>1. q \in (i + 2)..(n + 2) /\ src[q - 2].lhs # "$$"
    OBVIOUS
  <2>2. q - 2 \notin i..(u - 1)
    BY <1>0, <2>1
  <2>3. QED
    BY <1>0, <2>1, <2>2
<1>3. \A q \in S : q \in Int
  OBVIOUS
<1> HIDE DEF S, v
<1>4. ASSUME NEW x \in S, \A y \in S : x <= y PROVE x = v
  <2>1. x \in Int /\ v \in Int /\ x <= v /\ v <= x
    BY <1>1, <1>2, <1>3, <1>4
  <2>2. QED
    BY <2>1
<1>5. Min(S) = v
  <2>1. Min(S) = CHOOSE x \in S : \A y \in S : x <= y
    BY DEF Min
  <2>2. QED
    BY <1>1, <1>2, <1>4, <2>1, Zenon
<1>6. QED
  BY <1>5 DEF S, v, n, Candidates

LEMMA PackedFits ==
    ASSUME NEW items, NEW L, NEW at, NEW rls, NEW syms, NEW src,
           Fits(items, L, at, rls, syms, src), Len(syms) \in Nat,
           NEW p, NEW ix, PackedOf(p, items, L, at, Len(src), ix),
           Backs(p, ix, Len(syms))
    PROVE  PackedFrom(p, syms, src)
<1> DEFINE n == Len(src)
<1>1. /\ Laid(items, n, at) /\ Spelled(items, L, syms, at, src) /\ Used(items, L, at, src, {})
  BY DEF Fits
<1>2. n \in Nat /\ p.nrules = n + 3
  BY <1>1, LaidSizes DEF PackedOf
<1>3. p.nrules = 3 + n /\ p.nrules - 1 = n + 2
  BY <1>2
<1>4. \A i \in 1..n : NamedIn(p, syms, i + 2) = src[i]
  BY <1>1, NamedAre
<1>9. Packing(items, L, at, syms, src, p, ix)
  BY <1>1 DEF Packing
<1>5. ASSUME NEW r \in 3..(n + 2) PROVE r - 2 \in 1..n /\ (r - 2) + 2 = r
  BY <1>2
<1>6. ASSUME NEW r \in 3..(n + 2) PROVE NamedIn(p, syms, r) = src[r - 2]
  BY <1>4, <1>5
<1>7. ASSUME NEW r \in 3..(n + 2) PROVE p.ritem[p.rrhs[r + 1] - 1] = -r
  <2> DEFINE i == r - 2
  <2>1. i \in 1..n /\ i + 1 \in 1..(n + 1) /\ (i + 1) + 2 = r + 1 /\ i + 2 = r
    BY <1>2, <1>5
  <2> HIDE DEF i
  <2>2. p.ritem[at[i + 1] - 1] = -(i + 2)
    BY <2>1 DEF PackedOf
  <2>3. p.rrhs[(i + 1) + 2] = at[i + 1]
    <3>1. \A j \in 1..(n + 1) : p.rrhs[j + 2] = at[j]
      BY DEF PackedOf
    <3>2. QED
      BY <2>1, <3>1
  <2>4. QED
    BY <2>1, <2>2, <2>3
<1>8. ASSUME NEW r \in 3..(n + 2), NamedIn(p, syms, r).lhs = "$$"
      PROVE  UsersIn(p, p.rlhs[r])
               = {Min({q \in r..(n + 2) : NamedIn(p, syms, q).lhs # "$$"})}
  <2> DEFINE i == r - 2
  <2>1. i \in 1..n /\ i + 2 = r
    BY <1>5
  <2>2. src[i].lhs = "$$"
    BY <1>6, <1>8
  <2> HIDE DEF i
  <2>3. p.rlhs[r] = ix[L[i]]
    BY <2>1 DEF PackedOf
  <2>4. PICK u \in 1..n : UsedIn(items, L, at, src, i, u)
    BY <1>1, <2>1, <2>2 DEF Used
  <2>5. OnlyUser(p, ix[L[i]], u)
    <3>1. i \in 1..n /\ UsedIn(items, L, at, src, i, u)
      BY <2>1, <2>4
    <3>2. QED
      BY <1>9, <3>1, UsersAre
  <2>7. Min(Candidates(src, i)) = u + 2
    BY <1>2, <2>1, <2>4, NextUser
  <2>8. {q \in r..(n + 2) : NamedIn(p, syms, q).lhs # "$$"}
          = Candidates(src, i)
    <3>1. \A q \in r..(n + 2) : q \in 3..(n + 2)
      BY <1>2
    <3>2. \A q \in r..(n + 2) : NamedIn(p, syms, q) = src[q - 2]
      BY <1>6, <3>1
    <3>3. {q \in r..(n + 2) : NamedIn(p, syms, q).lhs # "$$"}
            = {q \in r..(n + 2) : src[q - 2].lhs # "$$"}
      BY <3>2, Zenon
    <3>4. QED
      BY <2>1, <3>3 DEF Candidates
  <2>9. QED
    BY <2>3, <2>5, <2>7, <2>8 DEF OnlyUser
<1>10. QED
  BY <1>3, <1>6, <1>7, <1>8 DEF PackedFrom

\* reader() turns its arrays into the grammar that the file has.
LEMMA PackRules == ASSUME TokensInv, RulesInv, pack, ~done PROVE RulesInv'
<1> DEFINE syms == check_symbols(symbols)
           sy == pack_symbols(syms)
           p == pack_grammar(syms, sy)
<1>1. part = "pack" /\ part' = "lr0" /\ symbols' = syms /\ g' = p /\ file' = file
  BY DEF pack
<1>2. symbols \in Tables
  BY DEF TokensInv
<1>3. syms \in Tables /\ SameNames(symbols, syms)
  BY <1>2, Checked, NamesChecked
<1>4. Stops(file, input, pitem, rules, symbols)
  BY <1>1 DEF RulesInv, ReaderPasses
<1>5. PICK k, open, pending :
          /\ Rest(file, input, k) /\ Marked(file, k) /\ (k = Len(file) \/ file[k + 1].k = "mark")
          /\ pitem = Append(open, 0)
          /\ RulesFit(RulesRead(file)[k], open, rules, symbols, pending)
  BY <1>4 DEF Stops
<1>6. EndOfRules(file) = k
  <2>1. Len(file) \in Nat /\ k \in 0..Len(file)
    <3>1. file \in Seq(Lexemes) /\ input \in Seq(Lexemes) /\ k \in Nat /\ Len(file) = k + Len(input)
      BY <1>5 DEF Rest
    <3>2. Len(file) \in Nat /\ Len(input) \in Nat
      BY <3>1
    <3>3. QED
      BY <3>1, <3>2
  <2>2. QED
    BY <1>5, <2>1, StopsAtEnd
<1> DEFINE src == Settled(RulesRead(file)[k])
<1>7. SourceRules(file) = src
  BY <1>6 DEF SourceRules
<1>8. PICK at, L : Fits(open, L, at, rules, symbols, src)
  BY <1>5 DEF RulesFit
<1> HIDE DEF syms, src
<1>9. Fits(open, L, at, rules, syms, src)
  BY <1>3, <1>8, FitsNames
<1>10. PackedOf(p, open, L, at, Len(src), sy.index)
  BY <1>3, <1>5, <1>9, PackedHas
<1>11. Backs(p, sy.index, Len(syms))
  <2>1. p.bucket = sy.bucket
    <3>1. ArraysOf(p, sy)
      BY PackedArrays
    <3> HIDE DEF p, sy
    <3>2. QED
      BY <3>1 DEF ArraysOf
  <2>2. \A b \in 1..Len(syms) : sy.bucket[sy.index[b]] = b
    BY <1>3, IndexBack
  <2> HIDE DEF p, sy
  <2>3. QED
    BY <2>1, <2>2 DEF Backs
<1>12. Len(syms) \in Nat
  BY <1>3 DEF Tables
<1> HIDE DEF p, sy
<1>13. PackedFrom(p, syms, src)
  BY <1>9, <1>10, <1>11, <1>12, PackedFits
<1>14. SourceRules(file') = src
  BY <1>1, <1>7
<1>15. PackedFrom(g', symbols', SourceRules(file'))
  BY <1>1, <1>13, <1>14
<1>16. PackedRules'
  BY <1>15, Zenon DEF PackedFrom, PackedRules, NamedIn, UsersIn, BodyIn, Named, Users, Body, NameOf
<1>17. QED
  BY <1>1, <1>16 DEF RulesInv, ReaderPasses

\* The passes that follow leave the grammar and the symbols alone.
LEMMA SameRules ==
    ASSUME RulesInv, UNCHANGED <<file, input, decls, ruleVars, g>>,
           part' = part \/ (part \notin ReaderPasses /\ part' \notin ReaderPasses)
    PROVE  RulesInv'
<1>1. UNCHANGED <<file, input, symbols, g, pitem, rules, last_was_action>>
  BY DEF decls, ruleVars
<1>2. PackedRules => PackedRules'
  <2>1. ASSUME PackedRules PROVE PackedFrom(g, symbols, SourceRules(file))
    BY <2>1, Zenon DEF PackedFrom, PackedRules, NamedIn, UsersIn, BodyIn, Named, Users, Body, NameOf
  <2>2. ASSUME PackedFrom(g', symbols', SourceRules(file')) PROVE PackedRules'
    BY <2>2, Zenon DEF PackedFrom, PackedRules, NamedIn, UsersIn, BodyIn, Named, Users, Body, NameOf
  <2>3. QED
    BY <1>1, <2>1, <2>2
<1>3. CASE part' = part
  BY <1>1, <1>2, <1>3, Zenon DEF RulesInv, ReaderPasses
<1>4. CASE part \notin ReaderPasses /\ part' \notin ReaderPasses
  <2>1. PackedRules
    BY <1>4 DEF RulesInv, ReaderPasses
  <2>2. QED
    BY <1>2, <1>4, <2>1 DEF RulesInv, ReaderPasses
<1>5. QED
  BY <1>3, <1>4

\* reader() packs the rules of the file: for every grammar file, whatever mix
\* of alternatives, actions and precedences its rules have, the grammar has
\* them in their order, each inner action as an empty rule just before the rule
\* it stands in and used by that rule only.
THEOREM RulesPacked == ReaderSpec => []PackedAsWritten
<1>1. RulesInv => PackedAsWritten
  <2>1. ASSUME RulesInv, part = "lr0" PROVE PackedRules
    BY <2>1 DEF RulesInv
  <2>2. QED
    BY <2>1 DEF PackedAsWritten, PackedRules
<1> DEFINE Next == reader \/ \E from, to : {from, to} \cap ReaderPasses = {} /\ LaterPass(from, to)
<1>2. TokensInv /\ RulesInv /\ [Next]_readerVars => RulesInv'
  <2> SUFFICES ASSUME TokensInv, RulesInv, [Next]_readerVars PROVE RulesInv'
    OBVIOUS
  <2>1. CASE done
    BY <2>1, DoneRules
  <2>2. CASE reader /\ ~done
    <3>1. CASE declare_tokens \/ declare_start \/ initialize_grammar
      BY <2>2, <3>1, DeclareRules
    <3>2. CASE advance_to_start \/ add_rule \/ add_alternative
      BY <2>2, <3>2, FirstRules, RuleRules, AlternativeRules
    <3>3. CASE add_symbol \/ copy_action \/ mark_symbol
      BY <3>3, SymbolRules, ActionRules, PrecRules
    <3>4. CASE end_grammar \/ pack
      BY <2>2, <3>4, EndRules, PackRules
    <3>5. CASE syntax_error
      BY <2>2, <3>5 DEF syntax_error
    <3>6. QED
      BY <2>2, <3>1, <3>2, <3>3, <3>4, <3>5 DEF reader
  <2>3. CASE \E from, to : {from, to} \cap ReaderPasses = {} /\ LaterPass(from, to)
    <3>1. PICK from, to : {from, to} \cap ReaderPasses = {} /\ LaterPass(from, to)
      BY <2>3
    <3>2. /\ part \notin ReaderPasses /\ part' \notin ReaderPasses
          /\ UNCHANGED <<file, input, decls, ruleVars, g>>
      BY <3>1 DEF LaterPass
    <3>3. QED
      BY <3>2, SameRules
  <2>4. CASE UNCHANGED readerVars
    BY <2>4, SameRules DEF readerVars
  <2>5. QED
    BY <2>1, <2>2, <2>3, <2>4
<1>3. ReaderInit => RulesInv
  BY InitRules
<1>4. QED
  BY <1>1, <1>2, <1>3, TokensHold, PTL DEF ReaderSpec
=============================================================================
