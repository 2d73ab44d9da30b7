------------------------------- MODULE GCRoots -------------------------------
(***************************************************************************)
(* The table of garbage collection roots of the run time (lrt-unwind.c).   *)
(*                                                                         *)
(* The static initialiser of every class calls __add_root with the address *)
(* of each static variable.  The run time keeps at most NUM_ROOT ranges of *)
(* addresses: it widens a range that is at most MAX_DISTANCE away, or      *)
(* starts a new one, or, when all are in use, widens one that is further   *)
(* away.  The collector is told of a wider range by taking the old one     *)
(* away (GC_remove_roots) and adding the new one (GC_add_roots).  Ranges   *)
(* can come to overlap or to lie within each other.                        *)
(*                                                                         *)
(* Addresses count machine words.  No static variable has an address so    *)
(* small that a null root is close to it.                                  *)
(***************************************************************************)
EXTENDS Integers

CONSTANTS NUM_ROOT,      \* ranges in the table
          MAX_DISTANCE,  \* how far away a range may be and still be widened
          INT_RANGE,     \* number of values of a C int (distances are ints)
          MaxAddr        \* highest address of a static variable

ASSUME RootsAssumption ==
    /\ NUM_ROOT \in Nat \ {0}
    /\ MAX_DISTANCE \in Nat \ {0}
    /\ INT_RANGE \in Nat \ {0}
    /\ MaxAddr \in Nat

Indices == 1 .. NUM_ROOT
Addrs == MAX_DISTANCE + 1 .. MaxAddr

VARIABLES
    roots,      \* __roots: low and high of each range, 0 if unused
    sets,       \* the collector's root sets <<b, e>>: the words b .. e-1
    registered  \* history: the variables __add_root was called with

vars == <<roots, sets, registered>>

Unused == [low |-> 0, high |-> 0]
Root == {r \in [low : Addrs, high : Addrs] : r.low <= r.high} \cup {Unused}

TypeOK ==
    /\ roots \in [Indices -> Root]
    /\ sets \subseteq Addrs \X (1 .. MaxAddr + 1)
    /\ registered \subseteq Addrs

Init ==
    /\ roots = [i \in Indices |-> Unused]
    /\ sets = {}
    /\ registered = {}

-----------------------------------------------------------------------------
(* __find_closest_root *)

\* Mutant: only the distance above a range is looked at.
IsClose_AboveOnly(i, p) == p <= roots[i].high + MAX_DISTANCE

IsClose(i, p) ==
    /\ p >= roots[i].low - MAX_DISTANCE
    /\ p <= roots[i].high + MAX_DISTANCE

IsUnused(i) == roots[i].low = 0

FirstOf(S) == CHOOSE i \in S : \A j \in S : i <= j

\* int d = ...: the distance cut down to an int.
ToInt(d) == ((d + INT_RANGE \div 2) % INT_RANGE) - INT_RANGE \div 2

Gap(i, p) == IF p < roots[i].low THEN roots[i].low - p ELSE p - roots[i].high

\* "search least bad".  The loop measures the root found so far, not the one
\* it looks at; p lies in no root here, as it is not even close to one.
LeastBad(p) ==
    LET step[i \in Indices] ==
            IF i = 1 THEN [closest |-> 1, distance |-> 0]
            ELSE LET b == step[i - 1]
                     d == ToInt(Gap(b.closest, p))
                 IN  IF b.distance = 0 \/ d < b.distance
                     THEN [closest |-> i, distance |-> d]
                     ELSE b
    IN  step[NUM_ROOT].closest

\* Mutant: the last unused root is taken.
FindClosestRoot_LastUnused(p) ==
    LET close == {i \in Indices : IsClose(i, p)}
        unused == {i \in Indices : IsUnused(i)}
    IN  IF close # {} THEN FirstOf(close)
        ELSE IF unused # {} THEN CHOOSE i \in unused : \A j \in unused : j <= i
        ELSE LeastBad(p)

\* The first root that is close enough, else the first unused one (the only
\* unused root the first loop looks at is the first), else the least bad one.
FindClosestRoot(p) ==
    LET close == {i \in Indices : IsClose(i, p)}
        unused == {i \in Indices : IsUnused(i)}
    IN  IF 1 \in unused THEN 1
        ELSE IF close # {} THEN FirstOf(close)
        ELSE IF unused # {} THEN FirstOf(unused)
        ELSE LeastBad(p)

-----------------------------------------------------------------------------
(* The collector (bdwgc) *)

\* Root sets that lie within b .. e-1 are dropped.
GC_remove_roots(S, b, e) == {s \in S : ~(s[1] >= b /\ s[2] <= e)}

\* A set that starts at b is extended if need be; otherwise there is a new one.
GC_add_roots(S, b, e) ==
    IF \E s \in S : s[1] = b
    THEN {s \in S : s[1] # b \/ s[2] >= e}
            \cup {<<b, e>> : s \in {t \in S : t[1] = b /\ t[2] < e}}
    ELSE S \cup {<<b, e>>}

-----------------------------------------------------------------------------
(* __add_root *)

\* Mutant: an unused root gets no lower end.
Widen_NoLow(r, g) ==
    [low |-> IF g < r.low THEN g ELSE r.low,
     high |-> IF r.high = 0 \/ g > r.high THEN g ELSE r.high]

\* Mutant: the upper end always follows the variable.
Widen_Moves(r, g) ==
    [low |-> IF r.low = 0 \/ g < r.low THEN g ELSE r.low, high |-> g]

Widen(r, g) ==
    [low |-> IF r.low = 0 \/ g < r.low THEN g ELSE r.low,
     high |-> IF r.high = 0 \/ g > r.high THEN g ELSE r.high]

\* Mutant: the word of the last variable is left out.
Tell_Short(S, old, new) ==
    IF new = old THEN S
    ELSE GC_add_roots(IF old.low = 0 THEN S ELSE GC_remove_roots(S, old.low, old.high),
                      new.low, new.high)

\* The collector is told of the range that was widened.
Tell(S, old, new) ==
    IF new = old THEN S
    ELSE GC_add_roots(IF old.low = 0 THEN S ELSE GC_remove_roots(S, old.low, old.high + 1),
                      new.low, new.high + 1)

\* A static variable is registered once: __init_done_ guards the initialiser.
AddRoot(g) ==
    /\ g \notin registered
    /\ registered' = registered \cup {g}
    /\ \E c \in Indices :
        /\ c = FindClosestRoot(g)
        /\ roots' = [roots EXCEPT ![c] = Widen(@, g)]
        /\ sets' = Tell(sets, roots[c], Widen(roots[c], g))

Next == \E g \in Addrs : AddRoot(g)

Spec == Init /\ [][Next]_vars

-----------------------------------------------------------------------------
Scanned == {a \in Addrs : \E s \in sets : s[1] <= a /\ a < s[2]}

\* Every static variable registered so far is scanned by the collector, also
\* when its range overlaps one that was taken away: what it refers to is not
\* collected.
Covered == registered \subseteq Scanned

\* A word that is scanned stays so: widening one range never takes away what
\* another range, or an earlier state of the same range, stands for.
StaysScanned == [][Scanned \subseteq Scanned']_vars

\* While the table is not full the collector scans no word that is more than
\* MAX_DISTANCE from a static variable.
Tight ==
    (\E i \in Indices : IsUnused(i)) =>
        \A a \in Scanned : \E g \in registered : a - g <= MAX_DISTANCE /\ g - a <= MAX_DISTANCE

\* GC.Roots (lib/trusted/gc.l), which walks the table up to the first unused
\* root, lists a range for every registered variable.
Listed ==
    \A g \in registered :
        \E i \in Indices :
            /\ \A j \in 1 .. i : ~IsUnused(j)
            /\ roots[i].low <= g /\ g <= roots[i].high

\* What the function's name, its comments ("closest yet") and its message
\* ("Forced to expand GC root ... even though ... bytes away") say: when no
\* range is close and none unused, the one that is widened is a closest one.
ForcedIsClosest ==
    [][\A g \in registered' \ registered :
          (\A i \in Indices : ~IsUnused(i) /\ ~IsClose(i, g)) =>
              \A c \in Indices : roots'[c] # roots[c] =>
                  \A i \in Indices : Gap(c, g) <= Gap(i, g)]_vars

(***************************************************************************)
(* The inductive invariant.                                                *)
(***************************************************************************)

\* Every range lies within one of the collector's sets, and every set within a
\* range.
SetsInv ==
    /\ \A i \in Indices : ~IsUnused(i) =>
          \E s \in sets : s[1] <= roots[i].low /\ roots[i].high < s[2]
    /\ \A s \in sets : \E i \in Indices :
          ~IsUnused(i) /\ roots[i].low <= s[1] /\ s[2] <= roots[i].high + 1

\* Unused roots follow the used ones.
PrefixInv == \A i, j \in Indices : i < j /\ IsUnused(i) => IsUnused(j)

\* Every variable is in a range, and every word of a range is near a variable
\* while the table is not full.
RangeInv ==
    /\ \A g \in registered : \E i \in Indices :
          roots[i].low <= g /\ g <= roots[i].high
    /\ (\E i \in Indices : IsUnused(i)) =>
          \A i \in Indices : \A a \in Addrs :
              roots[i].low <= a /\ a <= roots[i].high =>
                  \E g \in registered : a - g <= MAX_DISTANCE /\ g - a <= MAX_DISTANCE

RootsInv == TypeOK /\ SetsInv /\ PrefixInv /\ RangeInv
=============================================================================
