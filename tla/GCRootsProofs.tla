---------------------------- MODULE GCRootsProofs ----------------------------
(***************************************************************************)
(* The root table's properties for any number of roots, any distance, any  *)
(* width of int and any addresses.                                         *)
(***************************************************************************)
EXTENDS GCRoots, WellFoundedInduction, TLAPS

USE RootsAssumption DEF Indices, Addrs

\* A non-empty set of root numbers has a first element, and the loops that
\* return at the first hit find it.
LEMMA FirstOfSet ==
    ASSUME NEW S \in SUBSET Indices, S # {}
    PROVE  FirstOf(S) \in S /\ \A j \in S : FirstOf(S) <= j
<1>1. \E i \in S : \A j \in S : i <= j
  <2> DEFINE less == OpToRel(<, Nat)
  <2>1. \E i \in S : \A j \in S : ~(<<j, i>> \in less)
    <3>1. S \subseteq Nat
      OBVIOUS
    <3>2. QED
      BY <3>1, WFMin, NatLessThanWellFounded
  <2>2. \A i, j \in S : j < i => <<j, i>> \in less
    BY DEF OpToRel
  <2>3. PICK i \in S : \A j \in S : ~(<<j, i>> \in less)
    BY <2>1
  <2>4. \A j \in S : ~(j < i)
    BY <2>2, <2>3, Zenon
  <2>5. QED
    BY <2>4
<1>2. QED
  BY <1>1, Zenon DEF FirstOf

\* What __find_closest_root promises of the root it returns: it is the first
\* unused one, or one that is close, or there is no unused one.
LEMMA ClosestRoot ==
    ASSUME TypeOK, NEW g \in Addrs, NEW c \in Indices, c = FindClosestRoot(g)
    PROVE  \/ IsUnused(c) /\ \A j \in Indices : j < c => ~IsUnused(j)
           \/ ~IsUnused(c) /\ IsClose(c, g)
           \/ \A i \in Indices : ~IsUnused(i)
<1> DEFINE close == {i \in Indices : IsClose(i, g)}
           unused == {i \in Indices : IsUnused(i)}
<1>1. CASE 1 \in unused
  BY <1>1 DEF FindClosestRoot
<1>2. CASE 1 \notin unused /\ close # {}
  <2>1. c = FirstOf(close)
    BY <1>2, Zenon DEF FindClosestRoot
  <2>2. c \in close
    BY <1>2, <2>1, FirstOfSet
  <2>3. ~IsUnused(c)
    BY <2>2 DEF IsUnused, IsClose, TypeOK, Root, Unused
  <2>4. QED
    BY <2>2, <2>3
<1>3. CASE 1 \notin unused /\ close = {} /\ unused # {}
  <2>1. c = FirstOf(unused)
    BY <1>3, Zenon DEF FindClosestRoot
  <2>2. c \in unused /\ \A j \in unused : c <= j
    BY <1>3, <2>1, FirstOfSet
  <2>3. QED
    BY <2>2
<1>4. CASE unused = {}
  BY <1>4
<1>5. QED
  BY <1>1, <1>2, <1>3, <1>4

\* One turn of the loop that searches the least bad root.
BadStep(p, f, i) ==
    IF i = 1 THEN [closest |-> 1, distance |-> 0]
    ELSE LET b == f[i - 1]
             d == ToInt(Gap(b.closest, p))
         IN  IF b.distance = 0 \/ d < b.distance
             THEN [closest |-> i, distance |-> d]
             ELSE b
Found == [closest : Indices, distance : Int]

LEMMA BadStepType ==
    ASSUME TypeOK, NEW p \in Addrs, NEW i \in Indices, NEW f, i # 1 => f[i - 1] \in Found
    PROVE  BadStep(p, f, i) \in Found
<1>1. CASE i = 1
  BY <1>1 DEF BadStep, Found
<1>2. CASE i # 1
  <2>1. PICK b \in Found : b = f[i - 1]
    BY <1>2
  <2>2. Gap(b.closest, p) \in Int
    <3>1. PICK r \in Root : r = roots[b.closest]
      BY <2>1 DEF Found, TypeOK
    <3>2. r.low \in Int /\ r.high \in Int
      BY DEF Root, Unused
    <3>3. QED
      BY <3>1, <3>2 DEF Gap
  <2>3. ToInt(Gap(b.closest, p)) \in Int
    <3>1. INT_RANGE \div 2 \in Int
      OBVIOUS
    <3>2. QED
      BY <2>2, <3>1 DEF ToInt
  <2>4. QED
    BY <1>2, <2>1, <2>3 DEF BadStep, Found
<1>3. QED
  BY <1>1, <1>2

\* The loop can be run as far as any root: a first root that it could not reach
\* would follow one that it does reach.
LEMMA LoopRuns ==
    ASSUME TypeOK, NEW p \in Addrs
    PROVE  \A n \in Indices :
             \E f \in [1 .. n -> Found] : \A i \in 1 .. n : f[i] = BadStep(p, f, i)
<1> DEFINE Runs(n) == \E f \in [1 .. n -> Found] : \A i \in 1 .. n : f[i] = BadStep(p, f, i)
           bad == {n \in Indices : ~Runs(n)}
<1> SUFFICES ASSUME bad # {} PROVE FALSE
  OBVIOUS
<1>1. FirstOf(bad) \in bad /\ \A j \in bad : FirstOf(bad) <= j
  <2>1. bad \in SUBSET Indices
    OBVIOUS
  <2>2. QED
    BY <2>1, FirstOfSet, Zenon
<1>2. PICK n \in Indices : ~Runs(n) /\ \A j \in Indices : j < n => Runs(j)
  <2>1. FirstOf(bad) \in Indices /\ ~Runs(FirstOf(bad))
    BY <1>1
  <2>2. \A j \in Indices : j < FirstOf(bad) => Runs(j)
    <3> SUFFICES ASSUME NEW j \in Indices, j < FirstOf(bad), ~Runs(j) PROVE FALSE
      OBVIOUS
    <3>1. j \in bad
      OBVIOUS
    <3>2. FirstOf(bad) <= j
      BY <1>1, <3>1
    <3> HIDE DEF bad, Runs
    <3>3. QED
      BY <2>1, <3>2
  <2>3. QED
    BY <2>1, <2>2
<1>3. PICK f : /\ n # 1 => f \in [1 .. n - 1 -> Found]
               /\ \A i \in 1 .. n - 1 : f[i] = BadStep(p, f, i)
  <2>1. CASE n = 1
    BY <2>1
  <2>2. CASE n # 1
    <3>1. n - 1 \in Indices /\ n - 1 < n
      BY <2>2
    <3>2. QED
      BY <1>2, <3>1
  <2>3. QED
    BY <2>1, <2>2
<1> DEFINE g == [i \in 1 .. n |-> IF i = n THEN BadStep(p, f, n) ELSE f[i]]
<1>4. BadStep(p, f, n) \in Found
  <2>1. n # 1 => f[n - 1] \in Found
    BY <1>3
  <2>2. QED
    BY <2>1, BadStepType
<1>5. g \in [1 .. n -> Found]
  BY <1>3, <1>4
<1>6. ASSUME NEW i \in 1 .. n PROVE g[i] = BadStep(p, g, i)
  <2>1. i # 1 => g[i - 1] = f[i - 1]
    OBVIOUS
  <2>2. BadStep(p, g, i) = BadStep(p, f, i)
    BY <2>1 DEF BadStep
  <2>3. g[i] = BadStep(p, f, i)
    BY <1>3
  <2>4. QED
    BY <2>2, <2>3
<1>7. QED
  BY <1>2, <1>5, <1>6

\* It ends at a root of the table, whatever the distances are cut down to.
LEMMA LeastBadFound ==
    ASSUME TypeOK, NEW p \in Addrs
    PROVE  LeastBad(p) \in Indices
<1> DEFINE step == CHOOSE f : f = [i \in Indices |-> BadStep(p, f, i)]
<1>1. LeastBad(p) = step[NUM_ROOT].closest
  BY Zenon DEF LeastBad, BadStep
<1>2. PICK f \in [Indices -> Found] : \A i \in Indices : f[i] = BadStep(p, f, i)
  <2>1. NUM_ROOT \in Indices /\ Indices = 1 .. NUM_ROOT
    OBVIOUS
  <2>2. QED
    BY <2>1, LoopRuns
<1>3. f = [i \in Indices |-> BadStep(p, f, i)]
  BY <1>2
<1>4. step = [i \in Indices |-> BadStep(p, step, i)]
  BY <1>3, Zenon
<1> HIDE DEF step
<1>5. \A i \in Indices : step[i] = BadStep(p, step, i)
  BY <1>4, Zenon
<1> DEFINE wrong == {i \in Indices : step[i] \notin Found}
<1>6. wrong = {}
  <2> SUFFICES ASSUME wrong # {} PROVE FALSE
    OBVIOUS
  <2>1. FirstOf(wrong) \in wrong /\ \A j \in wrong : FirstOf(wrong) <= j
    <3>1. wrong \in SUBSET Indices
      OBVIOUS
    <3>2. QED
      BY <3>1, FirstOfSet, Zenon
  <2>2. PICK i \in wrong : \A j \in wrong : i <= j
    BY <2>1
  <2>3. i # 1 => step[i - 1] \in Found
    BY <2>2
  <2>4. BadStep(p, step, i) \in Found
    BY <2>2, <2>3, BadStepType
  <2>5. QED
    BY <1>5, <2>2, <2>4
<1>7. step[NUM_ROOT] \in Found
  <2>1. NUM_ROOT \in Indices
    OBVIOUS
  <2>2. QED
    BY <1>6, <2>1
<1>8. QED
  BY <1>1, <1>7 DEF Found

\* __find_closest_root returns a root of the table.
LEMMA RootFound ==
    ASSUME TypeOK, NEW g \in Addrs
    PROVE  FindClosestRoot(g) \in Indices
<1> DEFINE close == {i \in Indices : IsClose(i, g)}
           unused == {i \in Indices : IsUnused(i)}
<1>1. close \in SUBSET Indices /\ unused \in SUBSET Indices /\ 1 \in Indices
  OBVIOUS
<1>2. close # {} => FirstOf(close) \in Indices
  BY <1>1, FirstOfSet, Zenon
<1>3. unused # {} => FirstOf(unused) \in Indices
  BY <1>1, FirstOfSet, Zenon
<1>4. LeastBad(g) \in Indices
  BY LeastBadFound
<1>5. QED
  BY <1>1, <1>2, <1>3, <1>4, Zenon DEF FindClosestRoot

\* Widening a root makes it hold the variable and all it held before, and
\* nothing that is neither in the old root nor between it and the variable.
LEMMA WidenRoot ==
    ASSUME NEW r \in Root, NEW g \in Addrs
    PROVE  LET w == Widen(r, g) IN
           /\ w \in Root /\ w.low # 0
           /\ w.low <= g /\ g <= w.high
           /\ r.low # 0 => w.low <= r.low /\ r.high <= w.high
           /\ \A a \in Addrs : w.low <= a /\ a <= w.high =>
                 \/ a = g
                 \/ r.low # 0 /\ r.low <= a /\ a <= r.high
                 \/ r.low # 0 /\ g <= a /\ a < r.low
                 \/ r.low # 0 /\ r.high < a /\ a <= g
BY DEF Root, Unused, Widen

\* What GC_remove_roots followed by GC_add_roots does to the collector's sets
\* when a root is widened: the new range lies in a set, every old set still
\* lies in a set, and every set is an old one or the new range.
LEMMA TellCollector ==
    ASSUME NEW S \in SUBSET (Addrs \X (1 .. MaxAddr + 1)),
           NEW old \in Root, NEW new \in Root, new.low # 0,
           old.low # 0 => new.low <= old.low /\ old.high <= new.high,
           new = old => \E s \in S : s[1] <= new.low /\ new.high < s[2]
    PROVE  LET T == Tell(S, old, new) IN
           /\ T \in SUBSET (Addrs \X (1 .. MaxAddr + 1))
           /\ \E t \in T : t[1] <= new.low /\ new.high < t[2]
           /\ \A s \in S : \E t \in T : t[1] <= s[1] /\ s[2] <= t[2]
           /\ \A t \in T : t \in S \/ (t[1] = new.low /\ t[2] = new.high + 1)
<1> DEFINE b == new.low
           e == new.high + 1
           R == IF old.low = 0 THEN S ELSE GC_remove_roots(S, old.low, old.high + 1)
           T == Tell(S, old, new)
<1>1. CASE new = old
  BY <1>1 DEF Tell
<1>2. CASE new # old
  <2>1. T = GC_add_roots(R, b, e)
    BY <1>2 DEF Tell
  <2>2. b \in Addrs /\ e \in 1 .. MaxAddr + 1 /\ b < e
    BY DEF Root, Unused
  <2>3. R \subseteq S /\ \A s \in S : s \in R \/ (b <= s[1] /\ s[2] <= e)
    BY DEF GC_remove_roots, Root, Unused
  <2>4. \E t \in T : t[1] = b /\ e <= t[2]
    <3>1. CASE \E s \in R : s[1] = b
      <4>1. PICK s \in R : s[1] = b
        BY <3>1
      <4>2. CASE s[2] >= e
        <5>1. s \in T
          BY <2>1, <3>1, <4>1, <4>2 DEF GC_add_roots
        <5>2. QED
          BY <4>1, <4>2, <5>1
      <4>3. CASE s[2] < e
        <5>1. <<b, e>> \in T
          BY <2>1, <3>1, <4>1, <4>3 DEF GC_add_roots
        <5>2. QED
          BY <2>2, <5>1
      <4>4. QED
        BY <2>2, <2>3, <4>1, <4>2, <4>3
    <3>2. CASE ~ \E s \in R : s[1] = b
      <4>1. <<b, e>> \in T
        BY <2>1, <3>2 DEF GC_add_roots
      <4>2. QED
        BY <2>2, <4>1
    <3>3. QED
      BY <3>1, <3>2
  <2>5. \A s \in R : s \in T \/ (s[1] = b /\ s[2] < e)
    BY <2>1, <2>2, <2>3 DEF GC_add_roots
  <2>6. \A t \in T : t \in R \/ t = <<b, e>>
    BY <2>1 DEF GC_add_roots
  <2>7. T \in SUBSET (Addrs \X (1 .. MaxAddr + 1))
    BY <2>2, <2>3, <2>6
  <2>8. \A s \in S : \E t \in T : t[1] <= s[1] /\ s[2] <= t[2]
    <3> TAKE s \in S
    <3>1. CASE s \in T
      BY <3>1, <2>7
    <3>2. CASE s \notin T
      <4>1. b <= s[1] /\ s[2] <= e
        BY <2>2, <2>3, <2>5, <3>2
      <4>2. PICK t \in T : t[1] = b /\ e <= t[2]
        BY <2>4
      <4>3. QED
        BY <2>2, <2>7, <4>1, <4>2
    <3>3. QED
      BY <3>1, <3>2
  <2>9. \E t \in T : t[1] <= new.low /\ new.high < t[2]
    BY <2>2, <2>4, <2>7 DEF Root, Unused
  <2>10. \A t \in T : t \in S \/ (t[1] = new.low /\ t[2] = new.high + 1)
    BY <2>3, <2>6
  <2>11. QED
    BY <2>7, <2>8, <2>9, <2>10
<1>3. QED
  BY <1>1, <1>2

\* RootsInv holds when no variable is registered.
LEMMA InitRoots == Init => RootsInv
BY DEF Init, RootsInv, TypeOK, SetsInv, PrefixInv, RangeInv, Root, IsUnused, Unused

\* __add_root keeps RootsInv, and everything scanned stays scanned.
LEMMA AddRootStep ==
    ASSUME RootsInv, NEW g \in Addrs, AddRoot(g)
    PROVE  RootsInv' /\ Scanned \subseteq Scanned'
<1> USE DEF RootsInv
<1>1. PICK c \in Indices :
        /\ c = FindClosestRoot(g)
        /\ roots' = [roots EXCEPT ![c] = Widen(@, g)]
        /\ sets' = Tell(sets, roots[c], Widen(roots[c], g))
  BY DEF AddRoot
<1> DEFINE old == roots[c]
           new == Widen(roots[c], g)
<1>2. registered' = registered \cup {g}
  BY DEF AddRoot
<1>3. old \in Root
  BY DEF TypeOK
<1>4. roots' \in [Indices -> Root] /\ roots'[c] = new
      /\ \A i \in Indices : i # c => roots'[i] = roots[i]
  BY <1>1, <1>3, WidenRoot DEF TypeOK
<1>5. /\ new \in Root /\ new.low # 0
      /\ new.low <= g /\ g <= new.high
      /\ old.low # 0 => new.low <= old.low /\ old.high <= new.high
  BY <1>3, WidenRoot
<1>6. new = old => \E s \in sets : s[1] <= new.low /\ new.high < s[2]
  BY <1>5 DEF SetsInv, IsUnused
<1>7. /\ sets' \in SUBSET (Addrs \X (1 .. MaxAddr + 1))
      /\ \E t \in sets' : t[1] <= new.low /\ new.high < t[2]
      /\ \A s \in sets : \E t \in sets' : t[1] <= s[1] /\ s[2] <= t[2]
      /\ \A t \in sets' : t \in sets \/ (t[1] = new.low /\ t[2] = new.high + 1)
  <2>1. sets \in SUBSET (Addrs \X (1 .. MaxAddr + 1))
    BY DEF TypeOK
  <2>2. QED
    BY <1>1, <1>3, <1>5, <1>6, <2>1, TellCollector
<1>8. TypeOK'
  BY <1>2, <1>4, <1>7 DEF TypeOK
<1>9. SetsInv'
  <2>1. ASSUME NEW i \in Indices, ~IsUnused(i)'
        PROVE  \E s \in sets' : s[1] <= roots'[i].low /\ roots'[i].high < s[2]
    <3>1. CASE i = c
      BY <1>4, <1>7, <3>1
    <3>2. CASE i # c
      <4>1. PICK s \in sets : s[1] <= roots[i].low /\ roots[i].high < s[2]
        BY <1>4, <2>1, <3>2 DEF SetsInv, IsUnused
      <4>2. PICK t \in sets' : t[1] <= s[1] /\ s[2] <= t[2]
        BY <1>7
      <4>3. roots[i] \in Root /\ roots[i].low # 0
        BY <1>4, <2>1, <3>2 DEF TypeOK, IsUnused
      <4>4. t[1] <= roots[i].low /\ roots[i].high < t[2]
        <5>1. s \in Addrs \X (1 .. MaxAddr + 1) /\ t \in Addrs \X (1 .. MaxAddr + 1)
          BY <1>7 DEF TypeOK
        <5>2. QED
          BY <4>1, <4>2, <4>3, <5>1 DEF Root, Unused
      <4>5. QED
        BY <1>4, <3>2, <4>4
    <3>3. QED
      BY <3>1, <3>2
  <2>2. ASSUME NEW t \in sets'
        PROVE  \E i \in Indices :
                 ~IsUnused(i)' /\ roots'[i].low <= t[1] /\ t[2] <= roots'[i].high + 1
    <3>1. CASE t[1] = new.low /\ t[2] = new.high + 1
      <4>1. new.low <= new.low /\ new.high + 1 <= new.high + 1
        BY <1>5 DEF Root, Unused
      <4>2. QED
        BY <1>4, <1>5, <3>1, <4>1 DEF IsUnused
    <3>2. CASE t \in sets
      <4>1. PICK i \in Indices :
              ~IsUnused(i) /\ roots[i].low <= t[1] /\ t[2] <= roots[i].high + 1
        BY <3>2 DEF SetsInv
      <4>2. CASE i # c
        BY <1>4, <4>1, <4>2 DEF IsUnused
      <4>3. CASE i = c
        <5>1. new.low <= t[1] /\ t[2] <= new.high + 1
          <6>1. t \in Addrs \X (1 .. MaxAddr + 1)
            BY <1>7
          <6>2. QED
            BY <1>3, <1>5, <4>1, <4>3, <6>1 DEF IsUnused, Root, Unused
        <5>2. QED
          BY <1>4, <1>5, <5>1 DEF IsUnused
      <4>4. QED
        BY <4>2, <4>3
    <3>3. QED
      BY <1>7, <3>1, <3>2
  <2>3. QED
    BY <2>1, <2>2 DEF SetsInv, IsUnused
<1>10. PrefixInv'
  <2> SUFFICES ASSUME NEW i \in Indices, NEW j \in Indices, i < j, roots'[i].low = 0
               PROVE  roots'[j].low = 0
    BY DEF PrefixInv, IsUnused
  <2>1. i # c /\ IsUnused(i)
    BY <1>4, <1>5 DEF IsUnused
  <2>2. IsUnused(j)
    BY <2>1 DEF PrefixInv
  <2>3. j # c
    <3>1. SUFFICES ASSUME j = c PROVE FALSE
      OBVIOUS
    <3>2. CASE ~IsUnused(c)
      BY <2>2, <3>1, <3>2
    <3>3. CASE IsUnused(c) /\ \A k \in Indices : k < c => ~IsUnused(k)
      BY <2>1, <3>1, <3>3
    <3>4. QED
      BY <1>1, <2>1, <3>2, <3>3, ClosestRoot
  <2>4. QED
    BY <1>4, <2>2, <2>3 DEF IsUnused
<1>11. RangeInv'
  <2>1. ASSUME NEW h \in registered'
        PROVE  \E i \in Indices : roots'[i].low <= h /\ h <= roots'[i].high
    <3>1. CASE h = g
      BY <1>4, <1>5, <3>1
    <3>2. CASE h \in registered
      <4>1. PICK i \in Indices : roots[i].low <= h /\ h <= roots[i].high
        BY <3>2 DEF RangeInv
      <4>2. CASE i # c
        BY <1>4, <4>1, <4>2
      <4>3. CASE i = c
        <5>1. new.low <= h /\ h <= new.high
          BY <1>3, <1>5, <3>2, <4>1, <4>3 DEF Root, Unused, TypeOK
        <5>2. QED
          BY <1>4, <5>1
      <4>4. QED
        BY <4>2, <4>3
    <3>3. QED
      BY <1>2, <3>1, <3>2
  <2>2. ASSUME \E k \in Indices : roots'[k].low = 0,
               NEW i \in Indices, NEW a \in Addrs,
               roots'[i].low <= a, a <= roots'[i].high
        PROVE  \E h \in registered' : a - h <= MAX_DISTANCE /\ h - a <= MAX_DISTANCE
    <3>1. PICK k \in Indices : roots'[k].low = 0
      BY <2>2
    <3>2. IsUnused(k)
      BY <1>4, <1>5, <3>1 DEF IsUnused
    <3>3. CASE roots[i].low <= a /\ a <= roots[i].high
      <4>1. PICK h \in registered : a - h <= MAX_DISTANCE /\ h - a <= MAX_DISTANCE
        BY <3>2, <3>3 DEF RangeInv
      <4>2. QED
        BY <1>2, <4>1
    <3>4. CASE ~(roots[i].low <= a /\ a <= roots[i].high)
      <4>1. i = c
        BY <1>4, <2>2, <3>4
      <4>2. \/ a = g
            \/ old.low # 0 /\ g <= a /\ a < old.low
            \/ old.low # 0 /\ old.high < a /\ a <= g
        BY <1>3, <1>4, <2>2, <3>4, <4>1, WidenRoot
      <4>3. old.low # 0 => IsClose(c, g)
        BY <1>1, <3>2, ClosestRoot DEF IsUnused
      <4>4. a - g <= MAX_DISTANCE /\ g - a <= MAX_DISTANCE
        BY <1>3, <4>2, <4>3 DEF IsClose, Root, Unused
      <4>5. QED
        BY <1>2, <4>4
    <3>5. QED
      BY <3>3, <3>4
  <2>3. QED
    BY <2>1, <2>2 DEF RangeInv, IsUnused
<1>12. Scanned \subseteq Scanned'
  <2> SUFFICES ASSUME NEW a \in Addrs, NEW s \in sets, s[1] <= a, a < s[2]
               PROVE  \E t \in sets' : t[1] <= a /\ a < t[2]
    BY DEF Scanned
  <2>1. PICK t \in sets' : t[1] <= s[1] /\ s[2] <= t[2]
    BY <1>7
  <2>2. s \in Addrs \X (1 .. MaxAddr + 1) /\ t \in Addrs \X (1 .. MaxAddr + 1)
    BY <1>7 DEF TypeOK
  <2>3. QED
    BY <2>1, <2>2
<1>13. QED
  BY <1>8, <1>9, <1>10, <1>11, <1>12

\* RootsInv is an invariant of the table.
LEMMA Inductive == Spec => []RootsInv
<1>1. RootsInv /\ [Next]_vars => RootsInv'
  <2>1. CASE UNCHANGED vars
    BY <2>1 DEF vars, RootsInv, TypeOK, SetsInv, PrefixInv, RangeInv, IsUnused
  <2>2. QED
    BY <2>1, AddRootStep DEF Next
<1>2. QED
  BY <1>1, InitRoots, PTL DEF Spec

\* The table and the collector's sets keep their types: every root in use is a
\* range of addresses of static variables.
THEOREM TypeCorrect == Spec => []TypeOK
BY Inductive, PTL DEF RootsInv

\* Whatever the table holds, __find_closest_root returns a root of it for every
\* static variable, so no call of __add_root fails or writes beyond the table,
\* also when the distances do not fit an int.
THEOREM AddRootSucceeds == Spec => [](\A g \in Addrs : FindClosestRoot(g) \in Indices)
<1>1. TypeOK => \A g \in Addrs : FindClosestRoot(g) \in Indices
  BY RootFound
<1>2. QED
  BY <1>1, TypeCorrect, PTL

\* Every static variable that __add_root was given is scanned, for tables and
\* address spaces of any size, however the ranges come to overlap.
THEOREM GlobalsAreRoots == Spec => []Covered
<1>1. RootsInv => Covered
  <2> SUFFICES ASSUME RootsInv, NEW g \in registered
               PROVE  g \in Addrs /\ \E s \in sets : s[1] <= g /\ g < s[2]
    BY DEF Covered, Scanned
  <2>1. PICK i \in Indices : roots[i].low <= g /\ g <= roots[i].high
    BY DEF RootsInv, RangeInv
  <2>2. g \in Addrs /\ roots[i] \in Root
    BY DEF RootsInv, TypeOK
  <2>3. ~IsUnused(i)
    BY <2>1, <2>2 DEF IsUnused, Root, Unused
  <2>4. PICK s \in sets : s[1] <= roots[i].low /\ roots[i].high < s[2]
    BY <2>3 DEF RootsInv, SetsInv
  <2>5. s \in Addrs \X (1 .. MaxAddr + 1)
    BY DEF RootsInv, TypeOK
  <2>6. QED
    BY <2>1, <2>2, <2>4, <2>5 DEF Root, Unused
<1>2. QED
  BY <1>1, Inductive, PTL

\* No call of __add_root takes a scanned word away from the collector.
THEOREM RootsNeverShrink == Spec => StaysScanned
<1>1. RootsInv /\ [Next]_vars => [Scanned \subseteq Scanned']_vars
  BY AddRootStep DEF Next
<1>2. QED
  BY <1>1, Inductive, PTL DEF Spec, StaysScanned

\* While a root is unused the collector scans only words within MAX_DISTANCE
\* of a static variable.
THEOREM RootsAreTight == Spec => []Tight
<1>1. RootsInv => Tight
  <2> SUFFICES ASSUME RootsInv, \E k \in Indices : IsUnused(k),
                      NEW a \in Addrs, NEW s \in sets, s[1] <= a, a < s[2]
               PROVE  \E g \in registered : a - g <= MAX_DISTANCE /\ g - a <= MAX_DISTANCE
    BY DEF Tight, Scanned
  <2>1. PICK i \in Indices :
          ~IsUnused(i) /\ roots[i].low <= s[1] /\ s[2] <= roots[i].high + 1
    BY DEF RootsInv, SetsInv
  <2>2. roots[i].low <= a /\ a <= roots[i].high
    <3>1. s \in Addrs \X (1 .. MaxAddr + 1) /\ roots[i] \in Root
      BY DEF RootsInv, TypeOK
    <3>2. QED
      BY <2>1, <3>1 DEF Root, Unused
  <2>3. QED
    BY <2>2 DEF RootsInv, RangeInv
<1>2. QED
  BY <1>1, Inductive, PTL

\* GC.Roots, which stops at the first unused root, misses no root.
THEOREM RootsAreListed == Spec => []Listed
<1>1. RootsInv => Listed
  <2> SUFFICES ASSUME RootsInv, NEW g \in registered
               PROVE  \E i \in Indices :
                         /\ \A j \in 1 .. i : ~IsUnused(j)
                         /\ roots[i].low <= g /\ g <= roots[i].high
    BY DEF Listed
  <2>1. PICK i \in Indices : roots[i].low <= g /\ g <= roots[i].high
    BY DEF RootsInv, RangeInv
  <2>2. ~IsUnused(i)
    BY <2>1 DEF RootsInv, TypeOK, IsUnused, Root, Unused
  <2>3. \A j \in 1 .. i : ~IsUnused(j)
    BY <2>2 DEF RootsInv, PrefixInv
  <2>4. QED
    BY <2>1, <2>3
<1>2. QED
  BY <1>1, Inductive, PTL
=============================================================================
