------------------------- MODULE TryRefinementProofs -------------------------
(***************************************************************************)
(* The generated code implements the meaning of the try statement, for any *)
(* depth of nesting, any lists of catch clauses and any exceptions and     *)
(* values, until rethrowOrDone loses something.                            *)
(***************************************************************************)
EXTENDS TryLoweringProofs

USE TryAssumption, JunkAssumption

-----------------------------------------------------------------------------
(* What the temporaries hold while nothing has been lost *)

\* Around a point in a part of level k: a body runs with no exception pending,
\* and what a finally clause will rethrow is an exception.
Kept(k, part) ==
    \A j \in 1 .. k :
        /\ PartOf(shape, k, part, j) = "body" => exception_type[j] = 1
        /\ PartOf(shape, k, part, j) = "finally" /\ exception_type[j] = 2 =>
              exception_unwind[j] \in Exceptions

\* The inductive invariant.
TempsInv ==
    \A k \in Levels :
        /\ \A part \in Parts : pc = <<"run", k, part>> => Kept(k, part)
        /\ pc = <<"after", k>> => Kept(k, "finally")

-----------------------------------------------------------------------------
(* The abstract specification's operators are those of TryStatement *)

LEMMA SameConstants ==
    /\ Meaning!Levels = Levels /\ Meaning!Parts = Parts /\ Meaning!Shapes = Shapes
    /\ Meaning!Normal = Normal /\ Meaning!Completions = Completions
<1>1. Meaning!Levels = Levels /\ Meaning!Parts = Parts
  BY DEF Meaning!Levels, Levels, Meaning!Parts, Parts
<1>2. Meaning!Shapes = Shapes
  BY <1>1, Zenon DEF Meaning!Shapes, Shapes
<1>3. Meaning!Normal = Normal
  BY DEF Meaning!Normal, Normal
<1>4. Meaning!Completions = Completions
  BY <1>3, Zenon DEF Meaning!Completions, Completions, Meaning!Throw, Throw, Meaning!Return, Return
<1>5. QED
  BY <1>1, <1>2, <1>3, <1>4

LEMMA SameInPart ==
    ASSUME NEW s, NEW k, NEW part, NEW c, NEW x
    PROVE  Meaning!InPart(s, k, part, c, x) = InPart(s, k, part, c, x)
BY SameConstants, Zenon DEF Meaning!InPart, InPart

LEMMA SameEnded == ASSUME NEW c PROVE Meaning!Ended(c) = Ended(c)
BY SameConstants, Zenon DEF Meaning!Ended, Ended, Meaning!Outside, Outside

LEMMA SameAbrupt ==
    ASSUME NEW h, NEW s, NEW k, NEW part, NEW c
    PROVE  Meaning!Abrupt(h, s, k, part, c) = Abrupt(h, s, k, part, c)
BY Zenon DEF Meaning!Abrupt, Abrupt, Meaning!PartOf, PartOf, Meaning!Max, Max,
   Meaning!FirstClause, FirstClause, Meaning!Min, Min, Meaning!Ended, Ended,
   Meaning!InPart, InPart, Meaning!Normal, Normal, Meaning!Levels, Levels,
   Meaning!Outside, Outside

LEMMA SameComplete ==
    ASSUME NEW h, NEW s, NEW k, NEW part, NEW c
    PROVE  Meaning!Complete(h, s, k, part, c) = Complete(h, s, k, part, c)
<1>1. Meaning!Resume(h, s, k) = Resume(h, s, k)
  BY SameInPart, SameEnded, SameConstants, Zenon DEF Meaning!Resume, Resume
<1>2. QED
  BY <1>1, SameAbrupt, SameInPart, SameConstants, Zenon DEF Meaning!Complete, Complete

-----------------------------------------------------------------------------
(* Where a throw or a return goes *)

ClauseFor(k, part, c, j) ==
    IF c.how = "throw" /\ PartOf(shape, k, part, j) = "body"
    THEN FirstClause(shape, j, c.what) ELSE 0

Stops(k, part, c) ==
    {j \in 1 .. k : \/ ClauseFor(k, part, c, j) # 0
                    \/ (shape.fin[j] /\ PartOf(shape, k, part, j) # "finally")}

\* Nothing stops it: it leaves the method.
LEMMA AbruptOut ==
    ASSUME NEW k, NEW part, NEW s, NEW c, Stops(k, part, c) = {}
    PROVE  Abrupt(shape, s, k, part, c) = Ended(c)
BY DEF Abrupt, Stops, ClauseFor

\* What runs where level j stops it.
Landing(s, k, part, c, j) ==
    IF ClauseFor(k, part, c, j) # 0
    THEN InPart(s, j, "catch", Normal, <<c.what, ClauseFor(k, part, c, j)>>)
    ELSE InPart(s, j, "finally", c, None)

\* The innermost level that stops it.
LEMMA AbruptAt ==
    ASSUME NEW k \in Nat, NEW part, NEW s, NEW c,
           NEW j \in Stops(k, part, c), \A i \in Stops(k, part, c) : i <= j
    PROVE  Abrupt(shape, s, k, part, c) = Landing(s, k, part, c, j)
<1> DEFINE S == Stops(k, part, c)
<1>1. S \subseteq 1 .. k
  BY DEF Stops
<1>2. Max(S) = j
  <2>1. \A i \in S : i \in Int
    BY <1>1
  <2>2. \A i \in S : j >= i
    BY <2>1
  <2>3. \A x \in S : (\A y \in S : x >= y) => x = j
    BY <2>1, <2>2
  <2> HIDE DEF S
  <2>4. QED
    BY <2>2, <2>3 DEF Max, S
<1>3. Abrupt(shape, s, k, part, c) =
        IF S = {} THEN Ended(c)
        ELSE IF ClauseFor(k, part, c, Max(S)) # 0
        THEN InPart(s, Max(S), "catch", Normal, <<c.what, ClauseFor(k, part, c, Max(S))>>)
        ELSE InPart(s, Max(S), "finally", c, None)
  BY DEF Abrupt, Stops, ClauseFor
<1> HIDE DEF S
<1>4. S # {}
  BY DEF S
<1>5. QED
  BY <1>2, <1>3, <1>4 DEF Landing

\* Two states that agree around level j agree on what is around a part of it.
LEMMA InPartBelow ==
    ASSUME NEW s, NEW t, NEW j \in Int, NEW part, NEW c, NEW x,
           \A i \in Levels : i < j => s.comp[i] = t.comp[i] /\ s.caught[i] = t.caught[i]
    PROVE  InPart(s, j, part, c, x) = InPart(t, j, part, c, x)
BY DEF InPart

\* Where no level from m to k stops it, it may as well come from the end of
\* the try of level m.
LEMMA AbruptFrom ==
    ASSUME NEW k \in Levels, NEW part, NEW m \in 1 .. k, NEW c, NEW s, NEW t,
           \A j \in Stops(k, part, c) : j < m,
           \A i \in Levels : i < m => s.comp[i] = t.comp[i] /\ s.caught[i] = t.caught[i]
    PROVE  Abrupt(shape, s, k, part, c) = Abrupt(shape, t, m, "finally", c)
<1>0. k \in Nat /\ m \in Nat /\ m <= k
  BY DEF Levels
<1>1. \A j \in Nat : j < m => PartOf(shape, k, part, j) = PartOf(shape, m, "finally", j)
  BY <1>0 DEF PartOf
<1>2. \A j \in Nat : j < m => ClauseFor(k, part, c, j) = ClauseFor(m, "finally", c, j)
  BY <1>1 DEF ClauseFor
<1>3. PartOf(shape, m, "finally", m) = "finally" /\ ClauseFor(m, "finally", c, m) = 0
  BY DEF ClauseFor, PartOf
<1>4. Stops(k, part, c) = Stops(m, "finally", c)
  <2>1. ASSUME NEW j \in Stops(k, part, c) PROVE j \in Stops(m, "finally", c)
    <3>1. j \in 1 .. k /\ j < m
      BY DEF Stops
    <3>2. j \in Nat /\ j \in 1 .. m
      BY <3>1, <1>0
    <3>3. QED
      BY <3>1, <3>2, <1>1, <1>2 DEF Stops
  <2>2. ASSUME NEW j \in Stops(m, "finally", c) PROVE j \in Stops(k, part, c)
    <3>1. j \in 1 .. m /\ j # m
      BY <1>3 DEF Stops
    <3>2. j \in Nat /\ j < m /\ j \in 1 .. k
      BY <3>1, <1>0
    <3>3. QED
      BY <3>2, <1>1, <1>2 DEF Stops
  <2>3. QED
    BY <2>1, <2>2
<1>5. CASE Stops(k, part, c) = {}
  BY <1>4, <1>5, AbruptOut
<1>6. CASE Stops(k, part, c) # {}
  <2>1. Stops(k, part, c) \in SUBSET (1 .. k)
    BY DEF Stops
  <2>2. PICK j \in Stops(k, part, c) : \A i \in Stops(k, part, c) : i <= j
    BY <1>0, <1>6, <2>1, InnermostLevel
  <2>3. j \in Nat /\ j < m
    BY <2>1, <1>0
  <2>4. ClauseFor(k, part, c, j) = ClauseFor(m, "finally", c, j)
    BY <1>2, <2>3
  <2>5. \A i \in Levels : i < j => s.comp[i] = t.comp[i] /\ s.caught[i] = t.caught[i]
    BY <2>3, <1>0 DEF Levels
  <2>6. \A p, q, x : InPart(s, j, p, q, x) = InPart(t, j, p, q, x)
    BY <2>3, <2>5, InPartBelow
  <2>7. Abrupt(shape, s, k, part, c) = Landing(s, k, part, c, j)
    BY <1>0, <2>2, AbruptAt
  <2>8. Abrupt(shape, t, m, "finally", c) = Landing(t, m, "finally", c, j)
    BY <1>0, <1>4, <2>2, AbruptAt
  <2>9. QED
    BY <2>4, <2>6, <2>7, <2>8 DEF Landing
<1>7. QED
  BY <1>5, <1>6

-----------------------------------------------------------------------------
(* The refinement mapping *)

LEMMA AbstractRun ==
    ASSUME NEW k \in Levels, NEW part \in Parts
    PROVE  /\ pc = <<"run", k, part>> => Abstract = Running(k, part)
           /\ pc' = <<"run", k, part>> => Abstract' = Running(k, part)'
BY DEF Abstract

LEMMA AbstractOut ==
    /\ pc = <<"out">> => Abstract = Ended(result)
    /\ pc' = <<"out">> => Abstract' = Ended(result')
BY DEF Abstract, Ended

\* What the mapping gives at the end of a try.
Leaving(k) ==
    IF Pending(k) # Normal
    THEN Abrupt(shape, Running(k, "finally"), k, "finally", Pending(k))
    ELSE Resume(shape, Running(k, "finally"), k)

LEMMA RunningComp ==
    ASSUME NEW k \in Levels
    PROVE  /\ Running(k, "finally").comp[k] = Pending(k)
           /\ Running(k, "finally")'.comp[k] = Pending(k)'
BY DEF Running, PartOf, Levels

LEMMA AbstractAfter ==
    ASSUME NEW k \in Levels
    PROVE  /\ pc = <<"after", k>> => Abstract = Leaving(k)
           /\ pc' = <<"after", k>> => Abstract' = Leaving(k)'
<1>1. pc = <<"after", k>> => Abstract = Complete(shape, Running(k, "finally"), k, "finally", Normal)
  BY DEF Abstract
<1>2. pc' = <<"after", k>> => Abstract' = Complete(shape', Running(k, "finally")', k, "finally", Normal)
  BY DEF Abstract
<1>3. Complete(shape, Running(k, "finally"), k, "finally", Normal) = Leaving(k)
  BY RunningComp DEF Complete, Leaving
<1>4. Complete(shape', Running(k, "finally")', k, "finally", Normal) = Leaving(k)'
  BY RunningComp DEF Complete, Leaving
<1>5. QED
  BY <1>1, <1>2, <1>3, <1>4

\* What a step leaves alone around level m.
SameBelow(m) ==
    /\ shape' = shape
    /\ \A i \in Levels : i < m =>
          /\ exception_type'[i] = exception_type[i]
          /\ exception_unwind'[i] = exception_unwind[i]
          /\ param'[i] = param[i]

\* Level m and what is around it lie around the point of the method.
Surrounds(m, k, part) ==
    \A i \in Levels : i < m => i <= k /\ PartOf(shape, k, part, i) = shape.where[i + 1]

LEMMA Surrounding ==
    ASSUME NEW k \in Levels, NEW part, NEW m \in 1 .. k PROVE Surrounds(m, k, part)
BY DEF Surrounds, PartOf, Levels

LEMMA RunningBelow ==
    ASSUME NEW k \in Levels, NEW part, NEW m \in Levels, NEW p,
           Surrounds(m, k, part), SameBelow(m)
    PROVE  \A i \in Levels : i < m =>
              /\ Running(m, p)'.comp[i] = Running(k, part).comp[i]
              /\ Running(m, p)'.caught[i] = Running(k, part).caught[i]
<1> SUFFICES ASSUME NEW i \in Levels, i < m
             PROVE  /\ Running(m, p)'.comp[i] = Running(k, part).comp[i]
                    /\ Running(m, p)'.caught[i] = Running(k, part).caught[i]
  OBVIOUS
<1> DEFINE w == shape.where[i + 1]
<1>1. PartOf(shape, k, part, i) = w /\ PartOf(shape', m, p, i) = w /\ i <= k /\ i <= m
  BY DEF Surrounds, SameBelow, PartOf, Levels
<1>2. Pending(i)' = Pending(i) /\ param'[i] = param[i]
  BY DEF SameBelow, Pending
<1>3. Running(k, part).comp[i] = IF w = "finally" THEN Pending(i) ELSE Normal
  BY <1>1 DEF Running
<1>4. Running(m, p)'.comp[i] = IF w = "finally" THEN Pending(i)' ELSE Normal
  BY <1>1 DEF Running
<1>5. Running(k, part).caught[i] = IF w = "catch" THEN param[i] ELSE None
  BY <1>1 DEF Running
<1>6. Running(m, p)'.caught[i] = IF w = "catch" THEN param'[i] ELSE None
  BY <1>1 DEF Running
<1>7. QED
  BY <1>2, <1>3, <1>4, <1>5, <1>6

\* A jump to a part of a level.
LEMMA NewPart ==
    ASSUME NEW k \in Levels, NEW part, NEW m \in Levels, NEW p,
           Surrounds(m, k, part), SameBelow(m)
    PROVE  Running(m, p)' =
             InPart(Running(k, part), m, p, IF p = "finally" THEN Pending(m)' ELSE Normal,
                    IF p = "catch" THEN param'[m] ELSE None)
<1> DEFINE s == Running(k, part)
           t == Running(m, p)'
           c == IF p = "finally" THEN Pending(m)' ELSE Normal
           x == IF p = "catch" THEN param'[m] ELSE None
<1>1. t = [at |-> <<m, p>>, comp |-> [j \in Levels |-> t.comp[j]],
           caught |-> [j \in Levels |-> t.caught[j]], result |-> None]
  BY DEF Running
<1>2. \A j \in Levels : j < m => t.comp[j] = s.comp[j] /\ t.caught[j] = s.caught[j]
  BY RunningBelow
<1>3. t.comp[m] = c /\ t.caught[m] = x
  BY DEF Running, PartOf, Levels
<1>4. \A j \in Levels : j > m => t.comp[j] = Normal /\ t.caught[j] = None
  BY DEF Running, Levels
<1> HIDE DEF s, t, c, x
<1>5. \A j \in Levels :
        /\ t.comp[j] = IF j < m THEN s.comp[j] ELSE IF j = m THEN c ELSE Normal
        /\ t.caught[j] = IF j < m THEN s.caught[j] ELSE IF j = m THEN x ELSE None
  BY <1>2, <1>3, <1>4 DEF Levels
<1>6. t = InPart(s, m, p, c, x)
  BY <1>1, <1>5 DEF InPart
<1>7. QED
  BY <1>6 DEF s, t, c, x

-----------------------------------------------------------------------------
(* The descriptors and where a throw or a return stops *)

\* A level that stops a throw or a return has a descriptor on the stack.
LEMMA StopSeen ==
    ASSUME TypeOK, NEW k \in Levels, NEW part \in Parts, NEW c, NEW j \in 1 .. k
    PROVE  /\ ClauseFor(k, part, c, j) # 0 => <<"C", j>> \in Visible(k, part)
           /\ shape.fin[j] /\ PartOf(shape, k, part, j) # "finally" =>
                 <<"F", j>> \in Visible(k, part)
<1>1. ASSUME ClauseFor(k, part, c, j) # 0
      PROVE  PartOf(shape, k, part, j) = "body" /\ shape.clauses[j] # << >>
  <2>1. PartOf(shape, k, part, j) = "body" /\ FirstClause(shape, j, c.what) # 0
    BY <1>1 DEF ClauseFor
  <2>2. shape.clauses[j] # << >>
    <3>1. SUFFICES ASSUME shape.clauses[j] = << >> PROVE FALSE
      OBVIOUS
    <3>2. DOMAIN shape.clauses[j] = {}
      BY <3>1
    <3>3. FirstClause(shape, j, c.what) = 0
      BY <3>2 DEF FirstClause
    <3>4. QED
      BY <2>1, <3>3
  <2>3. QED
    BY <2>1, <2>2
<1>2. ClauseFor(k, part, c, j) # 0 => <<"C", j>> \in Visible(k, part)
  BY <1>1 DEF Visible
<1>3. shape.fin[j] /\ PartOf(shape, k, part, j) # "finally" => <<"F", j>> \in Visible(k, part)
  BY DEF Visible
<1>4. QED
  BY <1>2, <1>3

\* An exception goes to the innermost level that stops it, or further in.
LEMMA ThrowStops ==
    ASSUME TypeOK, NEW k \in Levels, NEW part \in Parts, NEW c,
           Visible(k, part) # {}, NEW d, d = Top(Visible(k, part))
    PROVE  /\ d \in {"C", "F"} \X Levels /\ d[2] \in 1 .. k
           /\ PartOf(shape, k, part, d[2]) # "finally"
           /\ \A i \in Stops(k, part, c) : i <= d[2]
           /\ d[1] = "C" => PartOf(shape, k, part, d[2]) = "body"
           /\ d[1] # "C" => ClauseFor(k, part, c, d[2]) = 0
<1> DEFINE D == Visible(k, part)
<1>1. D \in SUBSET ({"C", "F"} \X (1 .. k)) /\ 1 .. k \subseteq Levels /\ k \in Nat
  BY VisibleLevels DEF Levels
<1> HIDE DEF D
<1>2. /\ d \in D /\ \A e \in D : e[2] <= d[2]
      /\ <<"C", d[2]>> \in D => d[1] = "C"
  BY <1>1, TopAbove DEF D
<1>3. d \in {"C", "F"} \X Levels /\ d[2] \in 1 .. k
  BY <1>1, <1>2
<1>4. /\ PartOf(shape, k, part, d[2]) # "finally"
      /\ d[1] = "C" => PartOf(shape, k, part, d[2]) = "body"
  BY <1>2 DEF D, Visible
<1>5. ASSUME NEW i \in Stops(k, part, c) PROVE i <= d[2]
  <2>1. i \in 1 .. k
    BY DEF Stops
  <2>2. <<"C", i>> \in D \/ <<"F", i>> \in D
    BY <2>1, StopSeen DEF Stops, D
  <2>3. QED
    BY <1>2, <2>2
<1>6. d[1] # "C" => ClauseFor(k, part, c, d[2]) = 0
  BY <1>2, <1>3, StopSeen DEF D
<1>7. QED
  BY <1>3, <1>4, <1>5, <1>6

\* Where there is no descriptor nothing stops it.
LEMMA ThrowLeaves ==
    ASSUME TypeOK, NEW k \in Levels, NEW part \in Parts, NEW c, Visible(k, part) = {}
    PROVE  Stops(k, part, c) = {}
<1> SUFFICES ASSUME NEW i \in Stops(k, part, c) PROVE FALSE
  OBVIOUS
<1>1. i \in 1 .. k
  BY DEF Stops
<1>2. QED
  BY <1>1, StopSeen DEF Stops

\* A return goes to the innermost finally clause around.
LEMMA ReturnStops ==
    ASSUME TypeOK, NEW k \in Levels, NEW part \in Parts, NEW v,
           NEW F, F = Finallies(Visible(k, part)), F # {}, NEW d, d = Top(F)
    PROVE  /\ d[2] \in 1 .. k /\ d[2] \in Levels
           /\ PartOf(shape, k, part, d[2]) # "finally"
           /\ \A i \in Stops(k, part, Return(v)) : i <= d[2]
           /\ ClauseFor(k, part, Return(v), d[2]) = 0
<1>1. F \in SUBSET ({"C", "F"} \X (1 .. k)) /\ 1 .. k \subseteq Levels /\ k \in Nat
  BY VisibleLevels DEF Levels, Finallies
<1>2. d \in F /\ \A e \in F : e[2] <= d[2]
  BY <1>1, TopAbove
<1>3. d \in {"C", "F"} \X Levels /\ d[2] \in 1 .. k /\ d[2] \in Levels
  BY <1>1, <1>2
<1>4. PartOf(shape, k, part, d[2]) # "finally"
  BY <1>2 DEF Finallies, Visible
<1>5. \A i : ClauseFor(k, part, Return(v), i) = 0
  BY DEF ClauseFor, Return
<1>6. ASSUME NEW i \in Stops(k, part, Return(v)) PROVE i <= d[2]
  <2>1. i \in 1 .. k
    BY DEF Stops
  <2>2. <<"F", i>> \in Visible(k, part)
    BY <1>5, <2>1, StopSeen DEF Stops
  <2>3. <<"F", i>> \in F
    BY <2>2 DEF Finallies
  <2>4. QED
    BY <1>2, <2>3
<1>7. QED
  BY <1>3, <1>4, <1>5, <1>6

LEMMA ReturnLeaves ==
    ASSUME TypeOK, NEW k \in Levels, NEW part \in Parts, NEW v,
           Finallies(Visible(k, part)) = {}
    PROVE  Stops(k, part, Return(v)) = {}
<1> SUFFICES ASSUME NEW i \in Stops(k, part, Return(v)) PROVE FALSE
  OBVIOUS
<1>1. i \in 1 .. k
  BY DEF Stops
<1>2. ClauseFor(k, part, Return(v), i) = 0
  BY DEF ClauseFor, Return
<1>3. <<"F", i>> \in Visible(k, part)
  BY <1>1, <1>2, StopSeen DEF Stops
<1>4. QED
  BY <1>3 DEF Finallies

-----------------------------------------------------------------------------
(* The jumps *)

\* To the catch clause that stops an exception.
LEMMA CatchLands ==
    ASSUME TypeOK, NEW k \in Levels, NEW part \in Parts, NEW e, NEW m \in 1 .. k, m \in Levels,
           \A i \in Stops(k, part, Throw(e)) : i <= m,
           NEW n, n = ClauseFor(k, part, Throw(e), m), n # 0,
           SameBelow(m), param'[m] = <<e, n>>, pc' = <<"run", m, "catch">>
    PROVE  Abstract' = Abrupt(shape, Running(k, part), k, part, Throw(e))
<1>1. m \in Stops(k, part, Throw(e)) /\ k \in Nat
  BY DEF Stops, Levels
<1>2. Abrupt(shape, Running(k, part), k, part, Throw(e)) = Landing(Running(k, part), k, part, Throw(e), m)
  BY <1>1, AbruptAt
<1>3. Landing(Running(k, part), k, part, Throw(e), m) =
        InPart(Running(k, part), m, "catch", Normal, <<e, n>>)
  BY DEF Landing, Throw
<1>4. Abstract' = Running(m, "catch")'
  BY AbstractRun DEF Parts
<1>5. Surrounds(m, k, part)
  BY Surrounding
<1>6. Running(m, "catch")' = InPart(Running(k, part), m, "catch", Normal, param'[m])
  BY <1>5, NewPart
<1>7. QED
  BY <1>2, <1>3, <1>4, <1>6

\* To the finally clause that is run first, or past a try that has none.
LEMMA FinallyLands ==
    ASSUME TypeOK, NEW k \in Levels, NEW part \in Parts, NEW c, NEW m \in 1 .. k, m \in Levels,
           \A i \in Stops(k, part, c) : i <= m,
           ClauseFor(k, part, c, m) = 0, PartOf(shape, k, part, m) # "finally",
           SameBelow(m), Pending(m)' = c, c # Normal, AtFinally(m)
    PROVE  Abstract' = Abrupt(shape, Running(k, part), k, part, c)
<1>0. Surrounds(m, k, part) /\ k \in Nat /\ shape' = shape
  BY Surrounding DEF Levels, SameBelow
<1>1. CASE shape.fin[m]
  <2>1. m \in Stops(k, part, c)
    BY <1>1 DEF Stops
  <2>2. Abrupt(shape, Running(k, part), k, part, c) = Landing(Running(k, part), k, part, c, m)
    BY <1>0, <2>1, AbruptAt
  <2>3. Landing(Running(k, part), k, part, c, m) = InPart(Running(k, part), m, "finally", c, None)
    BY DEF Landing
  <2>4. Abstract' = Running(m, "finally")'
    BY <1>1, AbstractRun DEF AtFinally, Parts
  <2>5. Running(m, "finally")' = InPart(Running(k, part), m, "finally", Pending(m)', None)
    BY <1>0, NewPart
  <2>6. QED
    BY <2>2, <2>3, <2>4, <2>5
<1>2. CASE ~shape.fin[m]
  <2>1. \A i \in Stops(k, part, c) : i < m
    <3>1. m \notin Stops(k, part, c)
      BY <1>2 DEF Stops
    <3>2. \A i \in Stops(k, part, c) : i \in Int /\ i # m
      BY <3>1 DEF Stops
    <3>3. QED
      BY <3>2
  <2> DEFINE s == Running(k, part)
             t == Running(m, "finally")'
  <2>2. Abstract' = Abrupt(shape', t, m, "finally", Pending(m)')
    BY <1>2, AbstractAfter DEF AtFinally, Leaving
  <2>3. \A i \in Levels : i < m => t.comp[i] = s.comp[i] /\ t.caught[i] = s.caught[i]
    <3>1. ASSUME NEW p
          PROVE  \A i \in Levels : i < m =>
                    /\ Running(m, p)'.comp[i] = Running(k, part).comp[i]
                    /\ Running(m, p)'.caught[i] = Running(k, part).caught[i]
      BY <1>0, RunningBelow
    <3>2. QED
      BY <3>1, Zenon
  <2> HIDE DEF s, t
  <2>4. \A i \in Levels : i < m => s.comp[i] = t.comp[i] /\ s.caught[i] = t.caught[i]
    BY <2>3
  <2>5. Abrupt(shape, s, k, part, c) = Abrupt(shape, t, m, "finally", c)
    BY <2>1, <2>4, AbruptFrom
  <2>6. QED
    BY <1>0, <2>2, <2>5 DEF s
<1>3. QED
  BY <1>1, <1>2

\* The same jumps keep the invariant of the temporaries.
LEMMA KeptBelow ==
    ASSUME NEW k \in Levels, NEW part, NEW m \in Levels, NEW p,
           Surrounds(m, k, part), SameBelow(m), Kept(k, part),
           p = "body" => exception_type'[m] = 1,
           p = "finally" /\ exception_type'[m] = 2 => exception_unwind'[m] \in Exceptions
    PROVE  Kept(m, p)'
<1> SUFFICES ASSUME NEW j \in 1 .. m
             PROVE  /\ PartOf(shape', m, p, j) = "body" => exception_type'[j] = 1
                    /\ PartOf(shape', m, p, j) = "finally" /\ exception_type'[j] = 2 =>
                          exception_unwind'[j] \in Exceptions
  BY DEF Kept
<1>1. j \in Levels /\ j \in Nat /\ m \in Nat /\ k \in Nat
  BY DEF Levels
<1>2. CASE j = m
  BY <1>2 DEF PartOf
<1>3. CASE j < m
  <2>1. PartOf(shape', m, p, j) = PartOf(shape, k, part, j) /\ j \in 1 .. k
    BY <1>1, <1>3 DEF Surrounds, SameBelow, PartOf
  <2>2. exception_type'[j] = exception_type[j] /\ exception_unwind'[j] = exception_unwind[j]
    BY <1>1, <1>3 DEF SameBelow
  <2>3. QED
    BY <2>1, <2>2 DEF Kept
<1>4. QED
  BY <1>1, <1>2, <1>3

LEMMA TempsRun ==
    ASSUME NEW m \in Levels, NEW p \in Parts, pc' = <<"run", m, p>>, Kept(m, p)'
    PROVE  TempsInv'
BY DEF TempsInv

LEMMA TempsAfter ==
    ASSUME NEW m \in Levels, pc' = <<"after", m>>, Kept(m, "finally")'
    PROVE  TempsInv'
BY DEF TempsInv

LEMMA TempsOut == ASSUME pc' = <<"out">> PROVE TempsInv'
BY DEF TempsInv

LEMMA FinallyKept ==
    ASSUME TypeOK, NEW k \in Levels, NEW part \in Parts, NEW m \in 1 .. k, m \in Levels,
           SameBelow(m), Kept(k, part), AtFinally(m),
           exception_type'[m] = 2 => exception_unwind'[m] \in Exceptions
    PROVE  TempsInv'
<1>1. Kept(m, "finally")'
  <2>1. Surrounds(m, k, part)
    BY Surrounding
  <2>2. QED
    BY <2>1, KeptBelow
<1>2. CASE shape.fin[m]
  BY <1>1, <1>2, TempsRun DEF AtFinally, Parts
<1>3. CASE ~shape.fin[m]
  BY <1>1, <1>3, TempsAfter DEF AtFinally
<1>4. QED
  BY <1>2, <1>3

-----------------------------------------------------------------------------
(* The steps *)

\* A step of the abstract specification, or none, after which the temporaries
\* hold what they should.
Implemented == TempsInv' /\ (Meaning!Next \/ UNCHANGED Meaning!vars)

LEMMA MeaningEnd ==
    ASSUME NEW k \in Levels, NEW part \in Parts, NEW c \in Completions, shape' = shape,
           Abstract.at = <<k, part>>, Abstract' = Complete(shape, Abstract, k, part, c)
    PROVE  Meaning!Next
<1>1. Meaning!End(k, part, c)
  BY SameComplete DEF Meaning!End
<1>2. QED
  BY <1>1, SameConstants DEF Meaning!Next

LEMMA MeaningEnter ==
    ASSUME NEW k \in Levels, NEW part \in Parts, shape' = shape, k < Depth,
           shape.where[k + 1] = part, Abstract.at = <<k, part>>,
           Abstract' = InPart(Abstract, k + 1, "body", Normal, None)
    PROVE  Meaning!Next
<1>1. Meaning!Enter(k, part)
  BY SameInPart, SameConstants DEF Meaning!Enter
<1>2. QED
  BY <1>1, SameConstants DEF Meaning!Next

LEMMA MeaningSame ==
    ASSUME shape' = shape, Abstract' = Abstract PROVE UNCHANGED Meaning!vars
BY DEF Meaning!vars

\* Where a part of the method is running.
LEMMA RunPoint ==
    ASSUME TempsInv, NEW k \in Levels, NEW part \in Parts, pc = <<"run", k, part>>
    PROVE  Abstract = Running(k, part) /\ Abstract.at = <<k, part>> /\ Kept(k, part)
<1>1. Abstract = Running(k, part)
  BY AbstractRun
<1>2. Running(k, part).at = <<k, part>>
  BY DEF Running
<1>3. Kept(k, part)
  BY DEF TempsInv
<1>4. QED
  BY <1>1, <1>2, <1>3

LEMMA StepEnter ==
    ASSUME TypeOK, TempsInv, NEW k \in Levels, NEW part \in Parts, Enter(k, part)
    PROVE  Implemented
<1>1. /\ pc = <<"run", k, part>> /\ k < Depth /\ shape.where[k + 1] = part
      /\ pc' = <<"run", k + 1, "body">>
      /\ exception_type' = [exception_type EXCEPT ![k + 1] = 1]
      /\ UNCHANGED <<shape, exception_unwind, param>>
  BY DEF Enter
<1>2. k + 1 \in Levels
  BY <1>1 DEF Levels
<1>3. Surrounds(k + 1, k, part)
  BY <1>1 DEF Surrounds, PartOf, Levels
<1>4. SameBelow(k + 1) /\ exception_type'[k + 1] = 1
  BY <1>1, <1>2 DEF SameBelow, TypeOK, Levels
<1>5. Abstract = Running(k, part) /\ Abstract.at = <<k, part>> /\ Kept(k, part)
  BY <1>1, RunPoint
<1>6. Abstract' = Running(k + 1, "body")'
  BY <1>1, <1>2, AbstractRun DEF Parts
<1>7. Running(k + 1, "body")' = InPart(Running(k, part), k + 1, "body", Normal, None)
  BY <1>2, <1>3, <1>4, NewPart
<1>8. Meaning!Next
  BY <1>1, <1>5, <1>6, <1>7, MeaningEnter
<1>9. Kept(k + 1, "body")'
  BY <1>2, <1>3, <1>4, <1>5, KeptBelow
<1>10. TempsInv'
  BY <1>1, <1>2, <1>9, TempsRun DEF Parts
<1>11. QED
  BY <1>8, <1>10 DEF Implemented

\* What the handlers of an exception do.
LEMMA ThrowCases ==
    ASSUME TypeOK, NEW k \in Levels, NEW part \in Parts, NEW e \in Exceptions,
           Visible(k, part) # {}, NEW d, d = Top(Visible(k, part)), AtHandler(d, 2, e)
    PROVE  \/ AtFinally(d[2]) /\ ClauseFor(k, part, Throw(e), d[2]) = 0
           \/ /\ d[1] = "C" /\ ClauseFor(k, part, Throw(e), d[2]) # 0
              /\ pc' = <<"run", d[2], "catch">>
              /\ param' = [param EXCEPT ![d[2]] = <<e, ClauseFor(k, part, Throw(e), d[2])>>]
<1>1. /\ d[1] = "C" => PartOf(shape, k, part, d[2]) = "body"
      /\ d[1] # "C" => ClauseFor(k, part, Throw(e), d[2]) = 0
  BY ThrowStops
<1>2. CASE d[1] # "C"
  BY <1>1, <1>2 DEF AtHandler
<1>3. CASE d[1] = "C"
  <2>1. ClauseFor(k, part, Throw(e), d[2]) = FirstClause(shape, d[2], e)
    BY <1>1, <1>3 DEF ClauseFor, Throw
  <2>2. e # Junk
    OBVIOUS
  <2>3. Chosen(d[2], e) = {FirstClause(shape, d[2], e)}
    BY <2>2 DEF Chosen
  <2>4. AtCatches(d[2], 2, e)
    BY <1>3 DEF AtHandler
  <2>5. \E n \in {FirstClause(shape, d[2], e)} :
          IF n = 0 THEN AtFinally(d[2])
          ELSE /\ pc' = <<"run", d[2], "catch">>
               /\ param' = [param EXCEPT ![d[2]] = <<e, n>>]
               /\ UNCHANGED <<result, ran>>
    BY <2>2, <2>3, <2>4 DEF AtCatches
  <2>6. QED
    BY <1>3, <2>1, <2>5
<1>4. QED
  BY <1>2, <1>3

LEMMA StepRaise ==
    ASSUME TypeOK, TempsInv, NEW k \in Levels, NEW part \in Parts, NEW e \in Exceptions,
           Raise(k, part, e)
    PROVE  Implemented
<1> DEFINE c == Throw(e)
<1>1. pc = <<"run", k, part>> /\ shape' = shape
  BY DEF Raise
<1>2. Abstract = Running(k, part) /\ Abstract.at = <<k, part>> /\ Kept(k, part)
  BY <1>1, RunPoint
<1>3. c \in Completions /\ c # Normal
  BY DEF Completions, Throw, Normal
<1>4. Complete(shape, Abstract, k, part, c) = Abrupt(shape, Running(k, part), k, part, c)
  BY <1>2, <1>3 DEF Complete
<1>5. CASE Visible(k, part) = {}
  <2>1. pc' = <<"out">> /\ result' = c
    BY <1>5 DEF Raise, Out
  <2>2. Abstract' = Ended(c)
    BY <2>1, AbstractOut
  <2> HIDE DEF c
  <2>3. Abrupt(shape, Running(k, part), k, part, c) = Ended(c)
    BY <1>5, ThrowLeaves, AbruptOut
  <2>4. Meaning!Next
    BY <1>1, <1>2, <1>3, <1>4, <2>2, <2>3, MeaningEnd
  <2>5. QED
    BY <2>1, <2>4, TempsOut DEF Implemented
<1>6. CASE Visible(k, part) # {}
  <2> DEFINE d == Top(Visible(k, part))
  <2>0. /\ d \in {"C", "F"} \X Levels /\ d[2] \in 1 .. k /\ PartOf(shape, k, part, d[2]) # "finally"
        /\ \A i \in Stops(k, part, c) : i <= d[2]
    <3> HIDE DEF c
    <3>1. QED
      BY <1>6, ThrowStops
  <2>1. PICK m \in Levels : m = d[2]
    BY <2>0
  <2>2. /\ m \in 1 .. k /\ PartOf(shape, k, part, m) # "finally"
        /\ \A i \in Stops(k, part, c) : i <= m
        /\ exception_unwind' = [exception_unwind EXCEPT ![m] = e]
        /\ exception_type' = [exception_type EXCEPT ![m] = 2]
    BY <1>6, <2>0, <2>1 DEF Raise
  <2>3. \/ AtFinally(m) /\ ClauseFor(k, part, c, m) = 0
        \/ /\ ClauseFor(k, part, c, m) # 0 /\ pc' = <<"run", m, "catch">>
           /\ param' = [param EXCEPT ![m] = <<e, ClauseFor(k, part, c, m)>>]
    <3>1. AtHandler(d, 2, e)
      BY <1>6 DEF Raise
    <3> HIDE DEF c
    <3>2. QED
      BY <1>6, <2>1, <3>1, ThrowCases DEF c
  <2> HIDE DEF d
  <2>4. exception_type'[m] = 2 /\ exception_unwind'[m] = e /\ Pending(m)' = c
    <3>1. exception_type'[m] = 2 /\ exception_unwind'[m] = e
      BY <2>2 DEF TypeOK
    <3>2. QED
      BY <3>1 DEF Pending
  <2>5. SameBelow(m)
    <3>1. \A i \in Levels : i < m => i # m
      BY <2>2 DEF Levels
    <3>2. param \in [Levels -> ((Exceptions \cup {Junk}) \X Nat) \cup {None}]
      BY DEF TypeOK
    <3>3. \A i \in Levels : i # m => param'[i] = param[i]
      BY <2>3, <3>2 DEF AtFinally
    <3>4. \A i \in Levels : i # m => exception_type'[i] = exception_type[i] /\ exception_unwind'[i] = exception_unwind[i]
      BY <2>2 DEF TypeOK
    <3>5. QED
      BY <1>1, <3>1, <3>3, <3>4 DEF SameBelow
  <2>6. CASE AtFinally(m) /\ ClauseFor(k, part, c, m) = 0
    <3>1. Abstract' = Abrupt(shape, Running(k, part), k, part, c)
      <4> HIDE DEF c
      <4>1. QED
        BY <1>3, <2>2, <2>4, <2>5, <2>6, FinallyLands
    <3>2. TempsInv'
      BY <1>2, <2>2, <2>4, <2>5, <2>6, FinallyKept
    <3> HIDE DEF c
    <3>3. Meaning!Next
      BY <1>1, <1>2, <1>3, <1>4, <3>1, MeaningEnd
    <3>4. QED
      BY <3>2, <3>3 DEF Implemented
  <2>7. CASE /\ ClauseFor(k, part, c, m) # 0 /\ pc' = <<"run", m, "catch">>
             /\ param' = [param EXCEPT ![m] = <<e, ClauseFor(k, part, c, m)>>]
    <3>1. param'[m] = <<e, ClauseFor(k, part, c, m)>>
      BY <2>2, <2>7 DEF TypeOK
    <3>2. Abstract' = Abrupt(shape, Running(k, part), k, part, c)
      BY <2>2, <2>5, <2>7, <3>1, CatchLands
    <3>3. Surrounds(m, k, part)
      BY <2>2, Surrounding
    <3>4. Kept(m, "catch")'
      BY <1>2, <2>2, <2>5, <3>3, KeptBelow
    <3>5. TempsInv'
      BY <2>2, <2>7, <3>4, TempsRun DEF Parts
    <3> HIDE DEF c
    <3>6. Meaning!Next
      BY <1>1, <1>2, <1>3, <1>4, <3>2, MeaningEnd
    <3>7. QED
      BY <3>5, <3>6 DEF Implemented
  <2>8. QED
    BY <2>3, <2>6, <2>7
<1>7. QED
  BY <1>5, <1>6

LEMMA StepReturn ==
    ASSUME TypeOK, TempsInv, NEW k \in Levels, NEW part \in Parts, NEW v \in Values,
           ReturnValue(k, part, v)
    PROVE  Implemented
<1> DEFINE c == Return(v)
<1>1. pc = <<"run", k, part>> /\ shape' = shape
  BY DEF ReturnValue
<1>2. Abstract = Running(k, part) /\ Abstract.at = <<k, part>> /\ Kept(k, part)
  BY <1>1, RunPoint
<1>3. c \in Completions /\ c # Normal
  BY DEF Completions, Return, Normal
<1>4. Complete(shape, Abstract, k, part, c) = Abrupt(shape, Running(k, part), k, part, c)
  BY <1>2, <1>3 DEF Complete
<1> DEFINE F == Finallies(Visible(k, part))
<1>5. CASE F = {}
  <2>1. pc' = <<"out">> /\ result' = c
    BY <1>5 DEF ReturnValue, Out
  <2>2. Abstract' = Ended(c)
    BY <2>1, AbstractOut
  <2>3. Stops(k, part, c) = {}
    BY <1>5, ReturnLeaves
  <2> HIDE DEF c
  <2>4. Abrupt(shape, Running(k, part), k, part, c) = Ended(c)
    BY <2>3, AbruptOut
  <2>5. Meaning!Next
    BY <1>1, <1>2, <1>3, <1>4, <2>2, <2>4, MeaningEnd
  <2>6. QED
    BY <2>1, <2>5, TempsOut DEF Implemented
<1>6. CASE F # {}
  <2> DEFINE d == Top(F)
  <2>0. /\ d[2] \in 1 .. k /\ d[2] \in Levels /\ PartOf(shape, k, part, d[2]) # "finally"
        /\ \A i \in Stops(k, part, c) : i <= d[2]
        /\ ClauseFor(k, part, c, d[2]) = 0
    BY <1>6, ReturnStops
  <2>1. PICK m \in Levels : m = d[2]
    BY <2>0
  <2>2. /\ m \in 1 .. k /\ PartOf(shape, k, part, m) # "finally"
        /\ \A i \in Stops(k, part, c) : i <= m
        /\ ClauseFor(k, part, c, m) = 0
    BY <2>0, <2>1
  <2>3. /\ exception_unwind' = [exception_unwind EXCEPT ![m] = v]
        /\ exception_type' = [exception_type EXCEPT ![m] = 3]
        /\ AtFinally(m)
    BY <1>6, <2>1 DEF ReturnValue
  <2> HIDE DEF d, F
  <2>4. exception_type'[m] = 3 /\ Pending(m)' = c
    <3>1. exception_type'[m] = 3 /\ exception_unwind'[m] = v
      BY <2>3 DEF TypeOK
    <3>2. QED
      BY <3>1 DEF Pending
  <2>5. SameBelow(m)
    <3>1. \A i \in Levels : i < m => i # m
      BY DEF Levels
    <3>2. \A i \in Levels : i # m => exception_type'[i] = exception_type[i] /\ exception_unwind'[i] = exception_unwind[i]
      BY <2>3 DEF TypeOK
    <3>3. QED
      BY <1>1, <2>3, <3>1, <3>2 DEF SameBelow, AtFinally
  <2> HIDE DEF c
  <2>6. Abstract' = Abrupt(shape, Running(k, part), k, part, c)
    BY <1>3, <2>2, <2>3, <2>4, <2>5, FinallyLands
  <2>7. TempsInv'
    BY <1>2, <2>2, <2>3, <2>4, <2>5, FinallyKept
  <2>8. Meaning!Next
    BY <1>1, <1>2, <1>3, <1>4, <2>6, MeaningEnd
  <2>9. QED
    BY <2>7, <2>8 DEF Implemented
<1>7. QED
  BY <1>5, <1>6

\* Around the end of the try of level k.
LEMMA OuterBelow ==
    ASSUME NEW k \in Levels, k # 1, NEW p, SameBelow(k)
    PROVE  Resume(shape, Running(k, p), k) = Resume(shape', Running(k, "finally")', k)
<1> DEFINE s == Running(k, p)
           t == Running(k, "finally")'
           m == k - 1
<1>1. m \in Levels /\ m \in Int /\ m < k /\ k \in 1 .. k
  BY DEF Levels
<1>2. \A i \in Levels : i < k => s.comp[i] = t.comp[i] /\ s.caught[i] = t.caught[i]
  <2>0. Surrounds(k, k, p)
    BY <1>1, Surrounding
  <2>1. ASSUME NEW q
        PROVE  \A i \in Levels : i < k =>
                  /\ Running(k, q)'.comp[i] = Running(k, p).comp[i]
                  /\ Running(k, q)'.caught[i] = Running(k, p).caught[i]
    BY <2>0, RunningBelow
  <2>2. QED
    BY <2>1, Zenon
<1> HIDE DEF s, t
<1>3. \A i \in Levels : i < m => s.comp[i] = t.comp[i] /\ s.caught[i] = t.caught[i]
  BY <1>1, <1>2 DEF Levels
<1>4. s.comp[m] = t.comp[m] /\ s.caught[m] = t.caught[m]
  BY <1>1, <1>2
<1>5. shape' = shape
  BY DEF SameBelow
<1> HIDE DEF m
<1>6. \A w, c, x : InPart(s, m, w, c, x) = InPart(t, m, w, c, x)
  BY <1>1, <1>3, InPartBelow
<1>7. /\ Resume(shape, s, k) = InPart(s, m, shape.where[k], s.comp[m], s.caught[m])
      /\ Resume(shape', t, k) = InPart(t, m, shape'.where[k], t.comp[m], t.caught[m])
  BY DEF Resume, m
<1>8. QED
  BY <1>4, <1>5, <1>6, <1>7 DEF s, t

\* The body or a catch clause ends normally.
LEMMA NormalEnd ==
    ASSUME TypeOK, NEW k \in Levels, NEW part \in {"body", "catch"},
           AtFinally(k), SameBelow(k), exception_type'[k] = 1
    PROVE  Abstract' = Complete(shape, Running(k, part), k, part, Normal)
<1>1. Pending(k)' = Normal
  BY DEF Pending
<1>2. Surrounds(k, k, part) /\ shape' = shape
  <2>1. k \in 1 .. k
    BY DEF Levels
  <2>2. QED
    BY <2>1, Surrounding DEF SameBelow
<1>3. CASE shape.fin[k]
  <2>1. Abstract' = Running(k, "finally")'
    BY <1>3, AbstractRun DEF AtFinally, Parts
  <2>2. Running(k, "finally")' = InPart(Running(k, part), k, "finally", Pending(k)', None)
    BY <1>2, NewPart
  <2>3. Complete(shape, Running(k, part), k, part, Normal) =
          InPart(Running(k, part), k, "finally", Normal, None)
    BY <1>3 DEF Complete
  <2>4. QED
    BY <1>1, <2>1, <2>2, <2>3
<1>4. CASE ~shape.fin[k]
  <2>1. Abstract' = Resume(shape', Running(k, "finally")', k)
    BY <1>1, <1>4, AbstractAfter DEF AtFinally, Leaving
  <2>2. Complete(shape, Running(k, part), k, part, Normal) = Resume(shape, Running(k, part), k)
    BY <1>4 DEF Complete
  <2>3. CASE k = 1
    BY <2>1, <2>2, <2>3 DEF Resume
  <2>4. CASE k # 1
    BY <2>1, <2>2, <2>4, OuterBelow
  <2>5. QED
    BY <2>3, <2>4
<1>5. QED
  BY <1>3, <1>4

LEMMA StepNormalEnd ==
    ASSUME TypeOK, TempsInv, NEW k \in Levels, EndBody(k) \/ EndCatch(k)
    PROVE  Implemented
<1>0. PICK part \in {"body", "catch"} :
        /\ pc = <<"run", k, part>>
        /\ part = "body" => EndBody(k)
        /\ part = "catch" => EndCatch(k)
  BY DEF EndBody, EndCatch
<1>1. part \in Parts /\ AtFinally(k) /\ shape' = shape
  BY <1>0 DEF EndBody, EndCatch, Parts
<1>2. Abstract = Running(k, part) /\ Abstract.at = <<k, part>> /\ Kept(k, part)
  BY <1>0, <1>1, RunPoint
<1>3. k \in 1 .. k
  BY DEF Levels
<1>4. exception_type'[k] = 1
  <2>1. CASE part = "body"
    BY <1>0, <1>2, <1>3, <2>1 DEF Kept, PartOf, EndBody, temps
  <2>2. CASE part = "catch"
    BY <1>0, <2>2 DEF EndCatch, TypeOK
  <2>3. QED
    BY <2>1, <2>2
<1>5. SameBelow(k)
  <2>1. \A i \in Levels : i < k => i # k
    BY DEF Levels
  <2>2. \A i \in Levels : i # k => exception_type'[i] = exception_type[i]
    BY <1>0 DEF EndBody, EndCatch, TypeOK, temps
  <2>3. UNCHANGED <<exception_unwind, param>>
    BY <1>0, <1>1 DEF EndBody, EndCatch, temps, AtFinally
  <2>4. QED
    BY <1>1, <2>1, <2>2, <2>3 DEF SameBelow
<1>6. Abstract' = Complete(shape, Abstract, k, part, Normal)
  BY <1>1, <1>2, <1>4, <1>5, NormalEnd
<1>7. Normal \in Completions
  BY DEF Completions
<1>8. Meaning!Next
  BY <1>1, <1>2, <1>6, <1>7, MeaningEnd
<1>9. TempsInv'
  BY <1>1, <1>2, <1>3, <1>4, <1>5, FinallyKept
<1>10. QED
  BY <1>8, <1>9 DEF Implemented

LEMMA StepEndFinally ==
    ASSUME TypeOK, TempsInv, NEW k \in Levels, EndFinally(k)
    PROVE  Implemented
<1>1. /\ pc = <<"run", k, "finally">> /\ pc' = <<"after", k>> /\ "finally" \in Parts
      /\ UNCHANGED <<shape, exception_type, exception_unwind, param>>
  BY DEF EndFinally, temps, Parts
<1>2. Abstract = Running(k, "finally") /\ Abstract.at = <<k, "finally">> /\ Kept(k, "finally")
  BY <1>1, RunPoint
<1>3. Abstract' = Complete(shape', Running(k, "finally")', k, "finally", Normal)
  BY <1>1 DEF Abstract
<1>4. Running(k, "finally")' = Running(k, "finally")
  BY <1>1 DEF Running, Pending, PartOf
<1>5. Abstract' = Complete(shape, Abstract, k, "finally", Normal)
  BY <1>1, <1>2, <1>3, <1>4
<1>6. Normal \in Completions
  BY DEF Completions
<1>7. Meaning!Next
  BY <1>1, <1>2, <1>5, <1>6, MeaningEnd
<1>8. Kept(k, "finally")'
  BY <1>1, <1>2 DEF Kept, PartOf
<1>9. QED
  BY <1>1, <1>7, <1>8, TempsAfter DEF Implemented

\* At the end of the try of level k.
LEMMA AfterPoint ==
    ASSUME TempsInv, NEW k \in Levels, pc = <<"after", k>>
    PROVE  Abstract = Leaving(k) /\ Kept(k, "finally")
<1>1. Abstract = Leaving(k)
  BY AbstractAfter
<1>2. QED
  BY <1>1 DEF TempsInv

LEMMA StepDone ==
    ASSUME TypeOK, TempsInv, NEW k \in Levels, Done(k)
    PROVE  Implemented
<1>1. /\ pc = <<"after", k>> /\ exception_type[k] = 1
      /\ UNCHANGED <<shape, exception_type, exception_unwind>>
  BY DEF Done, temps
<1>2. Abstract = Resume(shape, Running(k, "finally"), k) /\ Kept(k, "finally")
  <2>1. Pending(k) = Normal
    BY <1>1 DEF Pending
  <2>2. QED
    BY <1>1, <2>1, AfterPoint DEF Leaving
<1>3. CASE k = 1
  <2>1. pc' = <<"out">> /\ result' = Normal
    BY <1>3 DEF Done, Out
  <2>2. Abstract' = Abstract
    BY <1>2, <1>3, <2>1, AbstractOut DEF Resume
  <2>3. QED
    BY <1>1, <2>1, <2>2, MeaningSame, TempsOut DEF Implemented
<1>4. CASE k # 1
  <2>1. PICK m \in Levels : m = k - 1
    BY <1>4 DEF Levels
  <2>2. m \in 1 .. k /\ m \in Int /\ m + 1 = k /\ m # k
    BY <2>1 DEF Levels
  <2>3. PICK w \in Parts : w = shape.where[k]
    BY DEF TypeOK, Shapes
  <2>4. pc' = <<"run", m, w>> /\ param' = param
    BY <1>4, <2>1, <2>3 DEF Done
  <2>5. SameBelow(m) /\ Surrounds(m, k, "finally")
    BY <1>1, <2>2, <2>4, Surrounding DEF SameBelow
  <2>6. PartOf(shape, k, "finally", m) = w
    BY <2>2, <2>3 DEF PartOf
  <2>7. Running(m, w)' = InPart(Running(k, "finally"), m, w, IF w = "finally" THEN Pending(m)' ELSE Normal,
                                IF w = "catch" THEN param'[m] ELSE None)
    BY <2>5, NewPart
  <2>8. /\ Running(k, "finally").comp[m] = IF w = "finally" THEN Pending(m) ELSE Normal
        /\ Running(k, "finally").caught[m] = IF w = "catch" THEN param[m] ELSE None
    BY <2>2, <2>6 DEF Running
  <2>9. Pending(m)' = Pending(m)
    BY <1>1 DEF Pending
  <2>10. Resume(shape, Running(k, "finally"), k) =
           InPart(Running(k, "finally"), m, w, Running(k, "finally").comp[m],
                  Running(k, "finally").caught[m])
    BY <1>4, <2>1, <2>3 DEF Resume
  <2>11. Abstract' = Running(m, w)'
    BY <2>4, AbstractRun
  <2>12. Abstract' = Abstract
    BY <1>2, <2>4, <2>7, <2>8, <2>9, <2>10, <2>11
  <2>13. Kept(m, w)'
    <3>1. /\ w = "body" => exception_type[m] = 1
          /\ w = "finally" /\ exception_type[m] = 2 => exception_unwind[m] \in Exceptions
      BY <1>2, <2>2, <2>6 DEF Kept
    <3>2. QED
      BY <1>1, <1>2, <2>5, <3>1, KeptBelow
  <2>14. QED
    BY <1>1, <2>4, <2>12, <2>13, MeaningSame, TempsRun DEF Implemented
<1>5. QED
  BY <1>3, <1>4

\* What goes on from the end of an inner try goes on from the part it is in.
LEMMA OuterStops ==
    ASSUME NEW k \in Levels, NEW m \in Levels, m + 1 = k, NEW w, w = shape.where[k], NEW c
    PROVE  Stops(k, "finally", c) = Stops(m, w, c)
<1>1. k \in Nat /\ m \in Nat
  BY DEF Levels
<1>2. \A j \in 1 .. m : PartOf(shape, k, "finally", j) = PartOf(shape, m, w, j)
  BY <1>1 DEF PartOf
<1>3. \A j \in 1 .. m : ClauseFor(k, "finally", c, j) = ClauseFor(m, w, c, j)
  BY <1>2 DEF ClauseFor
<1>4. k \notin Stops(k, "finally", c)
  BY DEF Stops, ClauseFor, PartOf
<1>5. 1 .. k = 1 .. m \cup {k} /\ k \notin 1 .. m
  BY <1>1
<1>6. QED
  BY <1>2, <1>3, <1>4, <1>5 DEF Stops

LEMMA OuterAbrupt ==
    ASSUME NEW k \in Levels, NEW m \in Levels, m + 1 = k, NEW w, w = shape.where[k], NEW c
    PROVE  Abrupt(shape, Running(k, "finally"), k, "finally", c) =
           Abrupt(shape, Running(m, w), m, w, c)
<1>0. k \in Nat /\ m \in Nat /\ m < k
  BY DEF Levels
<1>1. Stops(k, "finally", c) = Stops(m, w, c)
  BY OuterStops
<1>2. CASE Stops(m, w, c) = {}
  BY <1>1, <1>2, AbruptOut
<1>3. CASE Stops(m, w, c) # {}
  <2>1. Stops(m, w, c) \in SUBSET (1 .. m)
    BY DEF Stops
  <2>2. PICK j \in Stops(m, w, c) : \A i \in Stops(m, w, c) : i <= j
    BY <1>0, <1>3, <2>1, InnermostLevel
  <2>3. j \in Nat /\ j <= m /\ j >= 1
    BY <2>1, <1>0
  <2>4. PartOf(shape, k, "finally", j) = PartOf(shape, m, w, j)
    BY <1>0, <2>3 DEF PartOf
  <2>5. ClauseFor(k, "finally", c, j) = ClauseFor(m, w, c, j)
    BY <2>4 DEF ClauseFor
  <2> DEFINE s == Running(k, "finally")
             t == Running(m, w)
  <2>6. \A i \in Levels : i < j => s.comp[i] = t.comp[i] /\ s.caught[i] = t.caught[i]
    <3> SUFFICES ASSUME NEW i \in Levels, i < j
                 PROVE  s.comp[i] = t.comp[i] /\ s.caught[i] = t.caught[i]
      OBVIOUS
    <3>1. i \in Nat /\ i <= m /\ i <= k /\ i # k /\ i # m
      BY <1>0, <2>3 DEF Levels
    <3>2. PartOf(shape, k, "finally", i) = shape.where[i + 1] /\ PartOf(shape, m, w, i) = shape.where[i + 1]
      BY <3>1 DEF PartOf
    <3>3. QED
      BY <3>1, <3>2 DEF Running
  <2>7. Abrupt(shape, Running(k, "finally"), k, "finally", c) = Landing(Running(k, "finally"), k, "finally", c, j)
    BY <1>0, <1>1, <2>2, AbruptAt
  <2>8. Abrupt(shape, Running(m, w), m, w, c) = Landing(Running(m, w), m, w, c, j)
    BY <1>0, <2>2, AbruptAt
  <2> HIDE DEF s, t
  <2>9. \A p, q, x : InPart(s, j, p, q, x) = InPart(t, j, p, q, x)
    BY <2>3, <2>6, InPartBelow
  <2>10. Landing(s, k, "finally", c, j) = Landing(t, m, w, c, j)
    BY <2>5, <2>9 DEF Landing
  <2>11. QED
    BY <2>7, <2>8, <2>10 DEF s, t
<1>4. QED
  BY <1>2, <1>3

LEMMA StepRethrowOrReturn ==
    ASSUME TypeOK, TempsInv, NEW k \in Levels, RethrowOrReturn(k)
    PROVE  Implemented
<1> DEFINE c == Pending(k)
<1>1. pc = <<"after", k>> /\ exception_type[k] # 1 /\ Around(k) = {} /\ shape' = shape
  BY DEF RethrowOrReturn
<1>2. Abstract = Leaving(k) /\ Kept(k, "finally")
  BY <1>1, AfterPoint
<1>3. exception_type[k] \in {2, 3}
  BY <1>1 DEF TypeOK
<1>4. exception_type[k] = 2 => exception_unwind[k] \in Exceptions
  BY <1>2 DEF Kept, PartOf, Levels
<1>5. pc' = <<"out">> /\ result' = c
  BY <1>3, <1>4 DEF RethrowOrReturn, Out, Pending
<1>6. c # Normal
  BY <1>3 DEF Pending, Throw, Return, Normal
<1>7. Abstract = Abrupt(shape, Running(k, "finally"), k, "finally", c)
  BY <1>2, <1>6 DEF Leaving
<1> HIDE DEF c
<1>8. Stops(k, "finally", c) = {}
  <2>1. CASE k = 1
    BY <2>1 DEF Stops, ClauseFor, PartOf
  <2>2. CASE k # 1
    <3>1. PICK m \in Levels : m = k - 1
      BY <2>2 DEF Levels
    <3>2. m + 1 = k
      BY <3>1 DEF Levels
    <3>3. PICK w \in Parts : w = shape.where[k]
      BY DEF TypeOK, Shapes
    <3>4. Visible(m, w) = {}
      BY <1>1, <2>2, <3>1, <3>3 DEF Around
    <3>5. Stops(m, w, c) = {}
      BY <3>4, ThrowLeaves
    <3>6. QED
      BY <3>2, <3>3, <3>5, OuterStops
  <2>3. QED
    BY <2>1, <2>2
<1>9. Abstract = Ended(c)
  BY <1>7, <1>8, AbruptOut
<1>10. Abstract' = Abstract
  BY <1>5, <1>9, AbstractOut
<1>11. QED
  BY <1>1, <1>5, <1>10, MeaningSame, TempsOut DEF Implemented

LEMMA StepRethrowOrDone ==
    ASSUME TypeOK, TempsInv, NEW k \in Levels, RethrowOrDone(k), ~dropped'
    PROVE  Implemented
<1> DEFINE d == Top(Around(k))
           o == exception_object[k]
<1>1. /\ pc = <<"after", k>> /\ Around(k) # {} /\ shape' = shape
      /\ exception_type' = [exception_type EXCEPT ![d[2]] = exception_type[k]]
      /\ AtHandler(d, exception_type[k], o)
      /\ exception_unwind' = exception_unwind
  BY DEF RethrowOrDone
<1>2. /\ d[1] = "C" /\ exception_type[k] = 2 /\ o \in Exceptions
      /\ o = exception_unwind[k] /\ FirstClause(shape, d[2], o) # 0
  BY Zenon DEF RethrowOrDone
<1>3. k # 1
  BY <1>1 DEF Around
<1>4. PICK m \in Levels : m = k - 1
  BY <1>3 DEF Levels
<1>5. m + 1 = k /\ m \in 1 .. k
  BY <1>4 DEF Levels
<1>6. PICK w \in Parts : w = shape.where[k]
  BY DEF TypeOK, Shapes
<1>7. Around(k) = Visible(m, w)
  BY <1>3, <1>4, <1>6 DEF Around
<1>8. PICK e \in Exceptions : e = o
  BY <1>2
<1>9. /\ d \in {"C", "F"} \X Levels /\ d[2] \in 1 .. m
      /\ \A i \in Stops(m, w, Throw(e)) : i <= d[2]
      /\ PartOf(shape, m, w, d[2]) = "body"
  <2>1. PICK c : c = Throw(e)
    OBVIOUS
  <2>2. /\ d \in {"C", "F"} \X Levels /\ d[2] \in 1 .. m
        /\ \A i \in Stops(m, w, c) : i <= d[2]
        /\ d[1] = "C" => PartOf(shape, m, w, d[2]) = "body"
    BY <1>1, <1>7, ThrowStops
  <2>3. QED
    BY <1>2, <2>1, <2>2
<1>10. PICK j \in Levels : j = d[2]
  BY <1>9
<1>11. PICK n : n = ClauseFor(m, w, Throw(e), j)
  OBVIOUS
<1>12. n = FirstClause(shape, j, e) /\ n # 0
  BY <1>2, <1>8, <1>9, <1>10, <1>11 DEF ClauseFor, Throw
<1>13. pc' = <<"run", j, "catch">> /\ param' = [param EXCEPT ![j] = <<e, n>>]
  <2>1. AtHandler(d, 2, e) /\ Visible(m, w) # {}
    BY <1>1, <1>2, <1>7, <1>8
  <2>2. \/ AtFinally(d[2]) /\ ClauseFor(m, w, Throw(e), d[2]) = 0
        \/ /\ pc' = <<"run", d[2], "catch">>
           /\ param' = [param EXCEPT ![d[2]] = <<e, ClauseFor(m, w, Throw(e), d[2])>>]
    BY <1>7, <2>1, ThrowCases
  <2>3. QED
    BY <2>2, <1>10, <1>11, <1>12
<1>14. exception_type' = [exception_type EXCEPT ![j] = 2]
  BY <1>1, <1>2, <1>10
<1>15. j \in 1 .. m /\ \A i \in Stops(m, w, Throw(e)) : i <= j
  BY <1>9, <1>10
<1>16. Abstract = Leaving(k) /\ Kept(k, "finally")
  BY <1>1, AfterPoint
<1>17. Pending(k) = Throw(e) /\ Throw(e) # Normal
  BY <1>2, <1>8 DEF Pending, Throw, Normal
<1> HIDE DEF d, o
<1>18. SameBelow(j) /\ param'[j] = <<e, n>>
  <2>1. \A i \in Levels : i < j => i # j
    BY DEF Levels
  <2>2. \A i \in Levels : i # j => exception_type'[i] = exception_type[i] /\ param'[i] = param[i]
    BY <1>13, <1>14 DEF TypeOK
  <2>3. param'[j] = <<e, n>>
    BY <1>13 DEF TypeOK
  <2>4. QED
    BY <1>1, <2>1, <2>2, <2>3 DEF SameBelow
<1>19. Abstract' = Abrupt(shape, Running(m, w), m, w, Throw(e))
  BY <1>11, <1>12, <1>13, <1>15, <1>18, CatchLands
<1>20. Abstract = Abrupt(shape, Running(k, "finally"), k, "finally", Throw(e))
  BY <1>16, <1>17 DEF Leaving
<1>21. Abstract' = Abstract
  BY <1>5, <1>6, <1>19, <1>20, OuterAbrupt
<1>22. Kept(j, "catch")'
  <2>1. j \in 1 .. k
    BY <1>5, <1>15 DEF Levels
  <2>2. Surrounds(j, k, "finally")
    BY <2>1, Surrounding
  <2>3. QED
    BY <1>16, <1>18, <2>2, KeptBelow
<1>23. TempsInv'
  BY <1>13, <1>22, TempsRun DEF Parts
<1>24. QED
  BY <1>1, <1>21, <1>23, MeaningSame DEF Implemented

\* Every step is a step of the abstract specification, or none, unless
\* rethrowOrDone has lost something.
LEMMA StepRefines ==
    TypeOK /\ (dropped \/ TempsInv) /\ [Next]_vars => dropped' \/ Implemented
<1> SUFFICES ASSUME TypeOK, dropped \/ TempsInv, [Next]_vars, ~dropped' PROVE Implemented
  OBVIOUS
<1>1. TempsInv
  <2>1. ~dropped
    <3> SUFFICES ASSUME dropped PROVE FALSE
      OBVIOUS
    <3>1. CASE UNCHANGED vars
      BY <3>1, Zenon DEF vars
    <3>2. ASSUME NEW k, RethrowOrDone(k) PROVE FALSE
      BY <3>2, Zenon DEF RethrowOrDone
    <3>3. ASSUME NEW k, NEW part, NEW e, Enter(k, part) \/ Raise(k, part, e) \/ ReturnValue(k, part, e)
          PROVE  FALSE
      BY <3>3, Zenon DEF Enter, Raise, ReturnValue
    <3>4. ASSUME NEW k, EndBody(k) \/ EndCatch(k) \/ EndFinally(k) \/ Done(k) \/ RethrowOrReturn(k)
          PROVE  FALSE
      BY <3>4, Zenon DEF EndBody, EndCatch, EndFinally, Done, RethrowOrReturn
    <3>5. QED
      BY <3>1, <3>2, <3>3, <3>4, Zenon DEF Next
  <2>2. QED
    BY <2>1
<1>2. CASE UNCHANGED vars
  <2>1. UNCHANGED <<shape, pc, exception_type, exception_unwind, param, result>>
    BY <1>2 DEF vars, temps
  <2>2. TempsInv'
    BY <1>1, <2>1 DEF TempsInv, Kept, PartOf
  <2>3. Abstract' = Abstract
    BY <2>1 DEF Abstract, Running, Pending, Ended, PartOf
  <2>4. QED
    BY <2>1, <2>2, <2>3, MeaningSame DEF Implemented
<1>3. QED
  BY <1>1, <1>2, StepEnter, StepRaise, StepReturn, StepNormalEnd, StepEndFinally,
     StepDone, StepRethrowOrReturn, StepRethrowOrDone DEF Next

\* The code TryStatement.compile generates implements the try statement, for
\* every nesting, every list of catch clauses, every exception and every value
\* returned, up to the first rethrow inside the method that loses something.
THEOREM TryRefined == Spec => Refines
<1>1. Init => Meaning!Init
  <2> SUFFICES ASSUME Init PROVE Meaning!Init
    OBVIOUS
  <2>1. 1 \in Levels /\ \A j \in Levels : j >= 1
    BY DEF Levels
  <2>2. Abstract = Running(1, "body")
    BY <2>1, AbstractRun DEF Init, Parts
  <2>3. Running(1, "body") = Start
    <3>1. /\ PartOf(shape, 1, "body", 1) = "body"
          /\ \A j \in Levels : j <= 1 => j = 1
          /\ \A j \in Levels : ~(j < 1)
      BY <2>1 DEF PartOf, Levels
    <3>2. Running(1, "body") = [at |-> <<1, "body">>, comp |-> [j \in Levels |-> Normal],
                                caught |-> [j \in Levels |-> None], result |-> None]
      BY <3>1 DEF Running
    <3>3. Start = [at |-> <<1, "body">>, comp |-> [j \in Levels |-> Normal],
                   caught |-> [j \in Levels |-> None], result |-> None]
      BY <3>1 DEF Start, InPart
    <3>4. QED
      BY <3>2, <3>3
  <2>4. Meaning!Start = Start
    BY SameInPart, SameEnded, SameConstants DEF Meaning!Start, Start
  <2>5. QED
    BY <2>2, <2>3, <2>4, SameConstants DEF Meaning!Init, Init
<1>2. Init => TempsInv
  BY DEF Init, TempsInv, Kept, PartOf, Levels
<1>3. TypeOK /\ (dropped \/ TempsInv) /\ [Next]_vars =>
        /\ (dropped \/ TempsInv)'
        /\ [dropped' \/ Meaning!Next]_(Meaning!vars)
  BY StepRefines DEF Implemented
<1>4. QED
  BY <1>1, <1>2, <1>3, TypeCorrect, PTL DEF Spec, Refines
=============================================================================
