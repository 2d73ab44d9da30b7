-------------------------- MODULE TryLoweringProofs --------------------------
(***************************************************************************)
(* The generated code runs finally clauses once, for any depth of nesting, *)
(* any lists of catch clauses and any exceptions and values.               *)
(***************************************************************************)
EXTENDS TryLowering, WellFoundedInduction, TLAPS

USE TryAssumption, JunkAssumption

\* A non-empty set of natural numbers has a least element.
LEMMA LeastNumber ==
    ASSUME NEW S \in SUBSET Nat, S # {}
    PROVE  \E i \in S : \A j \in S : i <= j
<1> DEFINE less == OpToRel(<, Nat)
<1>1. \E i \in S : \A j \in S : ~(<<j, i>> \in less)
  BY WFMin, NatLessThanWellFounded
<1>2. \A i, j \in S : j < i => <<j, i>> \in less
  BY DEF OpToRel
<1>3. PICK i \in S : \A j \in S : ~(<<j, i>> \in less)
  BY <1>1
<1>4. \A j \in S : ~(j < i)
  BY <1>2, <1>3, Zenon
<1>5. QED
  BY <1>4

\* A non-empty set of levels has an innermost one.
LEMMA InnermostLevel ==
    ASSUME NEW k \in Nat, NEW S \in SUBSET (1 .. k), S # {}
    PROVE  \E i \in S : \A j \in S : j <= i
<1> DEFINE T == {k - i : i \in S}
<1>1. T \in SUBSET Nat /\ T # {}
  <2>1. \A i \in S : k - i \in Nat
    OBVIOUS
  <2>2. PICK i \in S : TRUE
    OBVIOUS
  <2>3. k - i \in T
    OBVIOUS
  <2>4. QED
    BY <2>1, <2>3
<1>2. PICK t \in T : \A u \in T : t <= u
  BY <1>1, LeastNumber
<1>3. PICK i \in S : t = k - i
  BY <1>2
<1>4. \A j \in S : k - i <= k - j
  BY <1>2, <1>3
<1>5. QED
  BY <1>3, <1>4

\* The clause chosen for an exception has a number.
LEMMA ClauseNumber ==
    ASSUME shape \in Shapes, NEW k \in Levels, NEW e
    PROVE  FirstClause(shape, k, e) \in Nat
<1> DEFINE fit == {n \in DOMAIN shape.clauses[k] : e \in shape.clauses[k][n]}
<1>1. shape.clauses[k] \in Seq(SUBSET Exceptions)
  BY DEF Shapes
<1>2. fit \in SUBSET Nat
  BY <1>1
<1>3. CASE fit = {}
  BY <1>3 DEF FirstClause
<1>4. CASE fit # {}
  <2>1. Min(fit) \in fit
    BY <1>2, <1>4, LeastNumber DEF Min
  <2>2. QED
    BY <1>2, <1>4, <2>1 DEF FirstClause
<1>5. QED
  BY <1>3, <1>4

\* TopException finds a descriptor of the innermost level there is one of, the
\* catches' if there is that one.
LEMMA TopAbove ==
    ASSUME NEW k \in Nat, NEW D \in SUBSET ({"C", "F"} \X (1 .. k)), D # {}
    PROVE  /\ Top(D) \in D /\ \A e \in D : e[2] <= Top(D)[2]
           /\ <<"C", Top(D)[2]>> \in D => Top(D)[1] = "C"
<1> DEFINE S == {d[2] : d \in D}
           Above(d) == \A e \in D : d[2] > e[2] \/ (d[2] = e[2] /\ (d[1] = "C" \/ d = e))
<1>1. S \in SUBSET (1 .. k) /\ S # {}
  OBVIOUS
<1>2. PICK i \in S : \A j \in S : j <= i
  BY <1>1, InnermostLevel
<1>3. \A e \in D : e[2] \in 1 .. k /\ e[2] <= i /\ e = <<e[1], e[2]>> /\ e[1] \in {"C", "F"}
  BY <1>2
<1>4. \E d \in D : Above(d)
  <2>1. CASE <<"C", i>> \in D
    <3>1. Above(<<"C", i>>)
      BY <1>1, <1>2, <1>3
    <3>2. QED
      BY <2>1, <3>1
  <2>2. CASE <<"C", i>> \notin D
    <3>1. PICK d \in D : d[2] = i
      BY <1>2
    <3>2. \A e \in D : e[2] = i => e = <<"F", i>>
      BY <1>3, <2>2
    <3>3. Above(d)
      BY <1>1, <1>2, <1>3, <3>1, <3>2
    <3>4. QED
      BY <3>3
  <2>3. QED
    BY <2>1, <2>2
<1>5. Top(D) = CHOOSE d \in D : Above(d)
  BY DEF Top
<1>6. Top(D) \in D /\ Above(Top(D))
  <2> HIDE DEF Above
  <2>1. QED
    BY <1>4, <1>5
<1>7. \A e \in D : e[2] <= Top(D)[2]
  BY <1>3, <1>6
<1>8. ASSUME <<"C", Top(D)[2]>> \in D PROVE Top(D)[1] = "C"
  <2> DEFINE e == <<"C", Top(D)[2]>>
  <2>1. e[1] = "C" /\ e[2] = Top(D)[2] /\ Top(D)[2] \in Int
    BY <1>3, <1>6
  <2>2. Top(D)[2] > e[2] \/ (Top(D)[2] = e[2] /\ (Top(D)[1] = "C" \/ Top(D) = e))
    BY <1>6, <1>8
  <2>3. QED
    BY <2>1, <2>2
<1>9. QED
  BY <1>6, <1>7, <1>8

LEMMA TopDescriptor ==
    ASSUME NEW k \in Nat, NEW D \in SUBSET ({"C", "F"} \X (1 .. k)), D # {}
    PROVE  Top(D) \in D /\ \A e \in D : e[2] <= Top(D)[2]
BY TopAbove

-----------------------------------------------------------------------------
(* Types *)

ControlOK ==
    /\ pc \in ({"run"} \X Levels \X Parts) \cup ({"after"} \X Levels) \cup {<<"out">>}
    /\ param \in [Levels -> ((Exceptions \cup {Junk}) \X Nat) \cup {None}]
    /\ result \in Completions \cup {None, Wild} \cup {Return(w) : w \in Words}
    /\ ran \in [Levels -> Nat]

\* A jump to a finally clause or past the end of a try.
LEMMA FinallyControl ==
    ASSUME TypeOK, NEW k \in Levels, AtFinally(k)
    PROVE  ControlOK'
<1>1. ControlOK
  BY DEF TypeOK, ControlOK
<1>2. CASE shape.fin[k]
  BY <1>1, <1>2 DEF AtFinally, ControlOK, Parts
<1>3. CASE ~shape.fin[k]
  BY <1>1, <1>3 DEF AtFinally, ControlOK
<1>4. QED
  BY <1>2, <1>3

\* The end of the method.
LEMMA OutControl ==
    ASSUME TypeOK, NEW c, Out(c),
           c \in Completions \cup {Wild} \cup {Return(w) : w \in Words}
    PROVE  ControlOK'
BY DEF TypeOK, Out, ControlOK

\* A jump to the catch clauses.
LEMMA CatchesControl ==
    ASSUME TypeOK, NEW k \in Levels, NEW type, NEW o \in Exceptions \cup {Junk},
           AtCatches(k, type, o)
    PROVE  ControlOK'
<1>1. CASE AtFinally(k)
  BY <1>1, FinallyControl
<1>2. CASE Out(Wild)
  BY <1>2, OutControl
<1>3. ASSUME NEW n \in Chosen(k, o), pc' = <<"run", k, "catch">>,
             param' = [param EXCEPT ![k] = <<o, n>>], UNCHANGED <<result, ran>>
      PROVE  ControlOK'
  <2>1. shape \in Shapes /\ shape.clauses[k] \in Seq(SUBSET Exceptions)
    BY DEF TypeOK, Shapes
  <2>2. n \in Nat
    <3>1. CASE o = Junk
      BY <2>1, <3>1 DEF Chosen
    <3>2. CASE o # Junk
      BY <2>1, <3>2, ClauseNumber DEF Chosen
    <3>3. QED
      BY <3>1, <3>2
  <2>3. QED
    BY <1>3, <2>2 DEF TypeOK, ControlOK, Parts
<1>4. QED
  BY <1>1, <1>2, <1>3 DEF AtCatches

\* A jump to the handler of a descriptor.
LEMMA HandlerControl ==
    ASSUME TypeOK, NEW d \in {"C", "F"} \X Levels, NEW type, NEW o \in Exceptions \cup {Junk},
           AtHandler(d, type, o)
    PROVE  ControlOK'
<1>1. d[2] \in Levels
  OBVIOUS
<1>2. CASE d[1] = "C"
  BY <1>1, <1>2, CatchesControl DEF AtHandler
<1>3. CASE d[1] # "C"
  BY <1>1, <1>3, FinallyControl DEF AtHandler
<1>4. QED
  BY <1>2, <1>3

\* The descriptors on the stack belong to levels of the method.
LEMMA VisibleLevels ==
    ASSUME NEW k \in Levels, NEW part
    PROVE  /\ Visible(k, part) \in SUBSET ({"C", "F"} \X (1 .. k))
           /\ 1 .. k \subseteq Levels
BY DEF Visible, Levels

\* So do those around a try, and to outer levels.
LEMMA AroundLevels ==
    ASSUME NEW k \in Levels
    PROVE  Around(k) \in SUBSET ({"C", "F"} \X (1 .. k - 1))
<1>1. CASE k = 1
  BY <1>1 DEF Around
<1>2. CASE k # 1
  <2>1. k - 1 \in Levels
    BY <1>2 DEF Levels
  <2>2. QED
    BY <1>2, <2>1, VisibleLevels DEF Around
<1>3. QED
  BY <1>1, <1>2

\* Every action keeps the types.
LEMMA TypeStep == TypeOK /\ [Next]_vars => TypeOK'
<1> SUFFICES ASSUME TypeOK, [Next]_vars PROVE TypeOK'
  OBVIOUS
<1> DEFINE Temps == /\ exception_type' \in [Levels -> 1 .. 3]
                    /\ exception_unwind' \in [Levels -> Words]
                    /\ exception_object' \in [Levels -> Exceptions \cup {Junk}]
<1>0. ASSUME ControlOK', Temps, UNCHANGED shape, dropped' \in BOOLEAN PROVE TypeOK'
  BY <1>0 DEF TypeOK, ControlOK
<1>1. UNCHANGED temps => Temps
  BY DEF TypeOK, temps
<1>2. dropped \in BOOLEAN
  BY DEF TypeOK
<1>3. ASSUME NEW k \in Levels, NEW part \in Parts, Enter(k, part) PROVE TypeOK'
  <2>1. k + 1 \in Levels
    BY <1>3 DEF Enter, Levels
  <2>2. Temps
    BY <1>3, <2>1 DEF Enter, TypeOK
  <2>3. ControlOK'
    BY <1>3, <2>1 DEF Enter, TypeOK, ControlOK, Parts
  <2>4. QED
    BY <1>0, <1>2, <1>3, <2>2, <2>3 DEF Enter
<1>4. ASSUME NEW k \in Levels, NEW part \in Parts, NEW e \in Exceptions, Raise(k, part, e)
      PROVE  TypeOK'
  <2>1. CASE Visible(k, part) = {}
    <3>1. Out(Throw(e)) /\ UNCHANGED <<temps, shape, dropped>>
      BY <1>4, <2>1 DEF Raise
    <3>2. ControlOK'
      BY <3>1, OutControl DEF Completions
    <3>3. QED
      BY <1>0, <1>1, <1>2, <3>1, <3>2
  <2>2. CASE Visible(k, part) # {}
    <3> DEFINE d == Top(Visible(k, part))
    <3>1. d \in {"C", "F"} \X Levels
      BY <2>2, VisibleLevels, TopDescriptor DEF Levels
    <3>2. /\ exception_unwind' = [exception_unwind EXCEPT ![d[2]] = e]
          /\ exception_type' = [exception_type EXCEPT ![d[2]] = 2]
          /\ exception_object' =
                IF d[1] = "C" THEN [exception_object EXCEPT ![d[2]] = e] ELSE exception_object
          /\ AtHandler(d, 2, e)
          /\ UNCHANGED <<shape, dropped>>
      BY <1>4, <2>2 DEF Raise
    <3> HIDE DEF d
    <3>3. Temps
      BY <3>1, <3>2 DEF TypeOK, Words
    <3>4. ControlOK'
      BY <3>1, <3>2, HandlerControl
    <3>5. QED
      BY <1>0, <1>2, <3>2, <3>3, <3>4
  <2>3. QED
    BY <2>1, <2>2
<1>5. ASSUME NEW k \in Levels, NEW part \in Parts, NEW v \in Values, ReturnValue(k, part, v)
      PROVE  TypeOK'
  <2> DEFINE F == Finallies(Visible(k, part))
  <2>1. CASE F = {}
    <3>1. Out(Return(v)) /\ UNCHANGED <<temps, shape, dropped>>
      BY <1>5, <2>1 DEF ReturnValue
    <3>2. ControlOK'
      BY <3>1, OutControl DEF Completions
    <3>3. QED
      BY <1>0, <1>1, <1>2, <3>1, <3>2
  <2>2. CASE F # {}
    <3> DEFINE d == Top(F)
    <3>1. F \in SUBSET ({"C", "F"} \X (1 .. k)) /\ 1 .. k \subseteq Levels
      BY VisibleLevels DEF Finallies
    <3>2. d \in {"C", "F"} \X Levels
      BY <2>2, <3>1, TopDescriptor DEF Levels
    <3>3. /\ exception_type' = [exception_type EXCEPT ![d[2]] = 3]
          /\ exception_unwind' = [exception_unwind EXCEPT ![d[2]] = v]
          /\ AtFinally(d[2])
          /\ UNCHANGED <<exception_object, shape, dropped>>
      BY <1>5, <2>2 DEF ReturnValue
    <3> HIDE DEF d
    <3>4. Temps
      BY <3>2, <3>3 DEF TypeOK, Words
    <3>5. ControlOK'
      BY <3>2, <3>3, FinallyControl
    <3>6. QED
      BY <1>0, <1>2, <3>3, <3>4, <3>5
  <2>3. QED
    BY <2>1, <2>2
<1>6. ASSUME NEW k \in Levels, EndBody(k) PROVE TypeOK'
  BY <1>0, <1>1, <1>2, <1>6, FinallyControl DEF EndBody
<1>7. ASSUME NEW k \in Levels, EndCatch(k) PROVE TypeOK'
  <2>1. Temps
    BY <1>7 DEF EndCatch, TypeOK
  <2>2. QED
    BY <1>0, <1>2, <1>7, <2>1, FinallyControl DEF EndCatch
<1>8. ASSUME NEW k \in Levels, EndFinally(k) PROVE TypeOK'
  <2>1. ControlOK'
    BY <1>8 DEF EndFinally, TypeOK, ControlOK
  <2>2. QED
    BY <1>0, <1>1, <1>2, <1>8, <2>1 DEF EndFinally
<1>9. ASSUME NEW k \in Levels, Done(k) PROVE TypeOK'
  <2>1. CASE k = 1
    BY <1>0, <1>1, <1>2, <1>9, <2>1, OutControl DEF Done, Completions
  <2>2. CASE k # 1
    <3>1. k - 1 \in Levels
      BY <2>2 DEF Levels
    <3>2. shape.where[k] \in Parts
      BY DEF TypeOK, Shapes
    <3>3. ControlOK'
      BY <1>9, <2>2, <3>1, <3>2 DEF Done, TypeOK, ControlOK
    <3>4. QED
      BY <1>0, <1>1, <1>2, <1>9, <3>3 DEF Done
  <2>3. QED
    BY <2>1, <2>2
<1>10. ASSUME NEW k \in Levels, RethrowOrReturn(k) PROVE TypeOK'
  <2> DEFINE c == IF exception_type[k] = 3 THEN Return(exception_unwind[k])
                  ELSE IF exception_unwind[k] \in Exceptions THEN Throw(exception_unwind[k])
                  ELSE Wild
  <2>1. exception_unwind[k] \in Words
    BY DEF TypeOK
  <2>2. c \in Completions \cup {Wild} \cup {Return(w) : w \in Words}
    BY <2>1 DEF Completions
  <2>3. Out(c) /\ UNCHANGED <<shape, temps, dropped>>
    BY <1>10 DEF RethrowOrReturn
  <2> HIDE DEF c
  <2>4. QED
    BY <1>0, <1>1, <1>2, <2>2, <2>3, OutControl
<1>11. ASSUME NEW k \in Levels, RethrowOrDone(k) PROVE TypeOK'
  <2> DEFINE d == Top(Around(k))
             type == exception_type[k]
             o == exception_object[k]
  <2>1. d \in {"C", "F"} \X Levels
    BY <1>11, AroundLevels, TopDescriptor DEF Levels, RethrowOrDone
  <2>2. type \in 1 .. 3 /\ o \in Exceptions \cup {Junk}
    BY DEF TypeOK
  <2>3. /\ exception_type' = [exception_type EXCEPT ![d[2]] = type]
        /\ exception_object' = [exception_object EXCEPT ![d[2]] = o]
        /\ AtHandler(d, type, o)
        /\ UNCHANGED <<shape, exception_unwind>>
    BY <1>11 DEF RethrowOrDone
  <2>4. dropped' \in BOOLEAN
    BY <1>11, Zenon DEF RethrowOrDone
  <2> HIDE DEF d, type, o
  <2>5. Temps
    BY <2>1, <2>2, <2>3 DEF TypeOK
  <2>6. ControlOK'
    BY <2>1, <2>2, <2>3, HandlerControl
  <2>7. QED
    BY <1>0, <2>3, <2>4, <2>5, <2>6
<1>12. CASE UNCHANGED vars
  BY <1>12 DEF TypeOK, vars, temps
<1>13. QED
  BY <1>3, <1>4, <1>5, <1>6, <1>7, <1>8, <1>9, <1>10, <1>11, <1>12 DEF Next

\* The variables keep their types: what the method returns is a value or an
\* uninitialised word, what it throws is an exception.
THEOREM TypeCorrect == Spec => []TypeOK
<1>1. Init => TypeOK
  <2> SUFFICES ASSUME Init PROVE TypeOK
    OBVIOUS
  <2>1. 1 \in Levels
    BY DEF Levels
  <2>2. ran \in [Levels -> Nat]
    BY DEF Init
  <2>3. pc \in {"run"} \X Levels \X Parts
    BY <2>1 DEF Init, Parts
  <2>4. exception_type \in [Levels -> 1 .. 3]
    BY DEF Init
  <2>5. /\ exception_unwind \in [Levels -> Words]
        /\ exception_object \in [Levels -> Exceptions \cup {Junk}]
        /\ param \in [Levels -> ((Exceptions \cup {Junk}) \X Nat) \cup {None}]
    BY DEF Init, Words
  <2>6. QED
    BY <2>2, <2>3, <2>4, <2>5 DEF Init, TypeOK
<1>2. QED
  BY <1>1, TypeStep, PTL DEF Spec

-----------------------------------------------------------------------------
(* Finally clauses *)

\* What FinallyOnce says of a point of the method whose innermost level that
\* counts is k: around k as the parts say, at k as given, within k all run.
Counted(k, n) ==
    \A j \in Levels : shape.fin[j] =>
        ran[j] = IF j < k THEN IF shape.where[j + 1] = "finally" THEN 1 ELSE 0
                 ELSE IF j = k THEN n
                 ELSE 1

\* FinallyOnce while a part of level k runs.
LEMMA RunningCounted ==
    ASSUME TypeOK, NEW k \in Levels, NEW part \in Parts, pc = <<"run", k, part>>
    PROVE  FinallyOnce <=> Counted(k, IF part = "finally" THEN 1 ELSE 0)
BY DEF FinallyOnce, Counted, Open, PartOf, TypeOK, Levels

\* FinallyOnce at the end of the try of level k.
LEMMA AfterCounted ==
    ASSUME TypeOK, NEW k \in Levels, pc = <<"after", k>>
    PROVE  FinallyOnce <=> Counted(k, 1)
BY DEF FinallyOnce, Counted, Open, TypeOK, Levels

\* A jump to a finally clause that has not run.
LEMMA FinallyJump ==
    ASSUME TypeOK, TypeOK', UNCHANGED shape, NEW k \in Levels, Counted(k, 0), AtFinally(k)
    PROVE  FinallyOnce'
<1>1. CASE shape.fin[k]
  <2>1. pc' = <<"run", k, "finally">> /\ ran' = [ran EXCEPT ![k] = @ + 1]
    BY <1>1 DEF AtFinally
  <2>2. Counted(k, 1)'
    <3>1. ran[k] = 0
      BY <1>1 DEF Counted, Levels
    <3>2. \A j \in Levels : ran'[j] = IF j = k THEN 1 ELSE ran[j]
      BY <2>1, <3>1 DEF TypeOK
    <3>3. QED
      BY <3>2 DEF Counted, Levels
  <2>3. QED
    BY <2>1, <2>2 DEF FinallyOnce, Counted, Open, PartOf, TypeOK, Levels
<1>2. CASE ~shape.fin[k]
  <2>1. pc' = <<"after", k>> /\ UNCHANGED ran
    BY <1>2 DEF AtFinally
  <2>2. Counted(k, 1)'
    BY <1>2, <2>1 DEF Counted, TypeOK
  <2>3. QED
    BY <2>1, <2>2 DEF FinallyOnce, Counted, Open, TypeOK, Levels
<1>3. QED
  BY <1>1, <1>2

\* A jump to the handler of a descriptor.
LEMMA HandlerJump ==
    ASSUME TypeOK, TypeOK', UNCHANGED shape, NEW d \in {"C", "F"} \X Levels, Counted(d[2], 0),
           NEW type, NEW o, AtHandler(d, type, o)
    PROVE  FinallyOnce'
<1>0. d[2] \in Levels
  OBVIOUS
<1>1. CASE AtFinally(d[2])
  BY <1>0, <1>1, FinallyJump
<1>2. CASE Out(Wild)
  BY <1>2 DEF Out, FinallyOnce
<1>3. CASE pc' = <<"run", d[2], "catch">> /\ UNCHANGED <<result, ran>>
  <2> DEFINE k == d[2]
  <2>1. Counted(k, 0)'
    BY <1>3 DEF Counted
  <2>2. QED
    BY <1>0, <1>3, <2>1 DEF FinallyOnce, Counted, Open, PartOf, TypeOK, Levels
<1>4. QED
  BY <1>1, <1>2, <1>3 DEF AtHandler, AtCatches

\* The finally clauses of the levels between a point of the method and the
\* descriptor that gets control have run: had one not, its descriptor would be
\* nearer.
LEMMA InnerOnesRan ==
    ASSUME TypeOK, NEW k \in Levels, NEW part \in Parts,
           Counted(k, IF part = "finally" THEN 1 ELSE 0),
           NEW D, Finallies(Visible(k, part)) \subseteq D, D \subseteq Visible(k, part), D # {}
    PROVE  Top(D) \in {"C", "F"} \X Levels /\ Counted(Top(D)[2], 0)
<1> DEFINE d == Top(D)
<1>1. D \in SUBSET ({"C", "F"} \X (1 .. k)) /\ 1 .. k \subseteq Levels
  BY VisibleLevels
<1>2. d \in D /\ \A e \in D : e[2] <= d[2]
  BY <1>1, TopDescriptor DEF Levels
<1>3. d \in {"C", "F"} \X (1 .. k) /\ d[2] \in Levels /\ d[2] <= k
  BY <1>1, <1>2
<1>4. PartOf(shape, k, part, d[2]) # "finally"
  BY <1>2 DEF Visible
<1> HIDE DEF d
<1>5. ASSUME NEW j \in 1 .. k, j > d[2], shape.fin[j]
      PROVE  PartOf(shape, k, part, j) = "finally"
  <2>1. SUFFICES ASSUME PartOf(shape, k, part, j) # "finally" PROVE FALSE
    OBVIOUS
  <2>2. <<"F", j>> \in Visible(k, part)
    BY <1>5, <2>1 DEF Visible
  <2>3. <<"F", j>> \in D
    BY <2>2 DEF Finallies
  <2>4. QED
    BY <1>2, <1>3, <1>5, <2>3
<1>6. Counted(d[2], 0)
  <2> SUFFICES ASSUME NEW j \in Levels, shape.fin[j]
               PROVE  ran[j] = IF j < d[2] THEN IF shape.where[j + 1] = "finally" THEN 1 ELSE 0
                               ELSE IF j = d[2] THEN 0 ELSE 1
    BY DEF Counted
  <2>1. CASE j < d[2]
    BY <1>3, <2>1 DEF Counted, Levels
  <2>2. CASE j = d[2]
    BY <1>3, <1>4, <2>2 DEF Counted, Levels, PartOf
  <2>3. CASE j > d[2] /\ j <= k
    BY <1>3, <1>5, <2>3 DEF Counted, Levels, PartOf
  <2>4. CASE j > k
    BY <1>3, <2>4 DEF Counted, Levels
  <2>5. QED
    BY <1>3, <2>1, <2>2, <2>3, <2>4 DEF Levels
<1>7. QED
  BY <1>3, <1>6 DEF d

\* Where no finally clause is on the stack all have run.
LEMMA AllRan ==
    ASSUME TypeOK, NEW k \in Levels, NEW part \in Parts,
           Counted(k, IF part = "finally" THEN 1 ELSE 0), Finallies(Visible(k, part)) = {}
    PROVE  \A j \in Levels : shape.fin[j] => ran[j] = 1
<1> SUFFICES ASSUME NEW j \in Levels, shape.fin[j] PROVE ran[j] = 1
  OBVIOUS
<1>1. CASE j <= k
  <2>1. <<"F", j>> \notin Visible(k, part)
    BY DEF Finallies
  <2>2. PartOf(shape, k, part, j) = "finally"
    BY <1>1, <2>1 DEF Visible, Levels
  <2>3. QED
    BY <1>1, <2>2 DEF Counted, PartOf, Levels
<1>2. CASE j > k
  BY <1>2 DEF Counted, Levels
<1>3. QED
  BY <1>1, <1>2 DEF Levels

\* An inner try stands in a part of the one around it.
LEMMA OuterPart ==
    ASSUME TypeOK, NEW k \in Levels, k # 1
    PROVE  k - 1 \in Levels /\ shape.where[k] \in Parts
<1>1. k - 1 \in Levels
  BY DEF Levels
<1>2. shape.where[k] \in Parts
  BY DEF TypeOK, Shapes
<1>3. QED
  BY <1>1, <1>2

\* Every action keeps FinallyOnce.
LEMMA FinallyStep == TypeOK /\ TypeOK' /\ FinallyOnce /\ [Next]_vars => FinallyOnce'
<1> SUFFICES ASSUME TypeOK, TypeOK', FinallyOnce, [Next]_vars PROVE FinallyOnce'
  OBVIOUS
<1>1. ASSUME NEW k \in Levels, NEW part \in Parts, Enter(k, part) PROVE FinallyOnce'
  <2>1. /\ k + 1 \in Levels /\ pc = <<"run", k, part>> /\ shape.where[k + 1] = part
        /\ pc' = <<"run", k + 1, "body">> /\ UNCHANGED shape
        /\ ran' = [ran EXCEPT ![k + 1] = 0]
    BY <1>1 DEF Enter, Levels
  <2>2. Counted(k, IF part = "finally" THEN 1 ELSE 0)
    BY <2>1, RunningCounted
  <2>3. \A j \in Levels : ran'[j] = IF j = k + 1 THEN 0 ELSE ran[j]
    BY <2>1 DEF TypeOK
  <2>4. Counted(k + 1, 0)'
    BY <2>1, <2>2, <2>3 DEF Counted, Levels
  <2>5. QED
    BY <2>1, <2>4 DEF FinallyOnce, Counted, Open, PartOf, TypeOK, Levels
<1>2. ASSUME NEW k \in Levels, NEW part \in Parts, NEW e \in Exceptions, Raise(k, part, e)
      PROVE  FinallyOnce'
  <2>1. Counted(k, IF part = "finally" THEN 1 ELSE 0) /\ UNCHANGED shape
    BY <1>2, RunningCounted DEF Raise
  <2>2. CASE Visible(k, part) = {}
    <3>1. \A j \in Levels : shape.fin[j] => ran[j] = 1
      BY <2>1, <2>2, AllRan DEF Finallies
    <3>2. QED
      BY <1>2, <2>1, <2>2, <3>1 DEF Raise, Out, FinallyOnce, Open
  <2>3. CASE Visible(k, part) # {}
    <3> DEFINE d == Top(Visible(k, part))
    <3>1. d \in {"C", "F"} \X Levels /\ Counted(d[2], 0)
      BY <2>1, <2>3, InnerOnesRan DEF Finallies
    <3>2. AtHandler(d, 2, e)
      BY <1>2, <2>3 DEF Raise
    <3> HIDE DEF d
    <3>3. QED
      BY <2>1, <3>1, <3>2, HandlerJump
  <2>4. QED
    BY <2>2, <2>3
<1>3. ASSUME NEW k \in Levels, NEW part \in Parts, NEW v \in Values, ReturnValue(k, part, v)
      PROVE  FinallyOnce'
  <2> DEFINE F == Finallies(Visible(k, part))
  <2>1. Counted(k, IF part = "finally" THEN 1 ELSE 0) /\ UNCHANGED shape
    BY <1>3, RunningCounted DEF ReturnValue
  <2>2. CASE F = {}
    <3>1. \A j \in Levels : shape.fin[j] => ran[j] = 1
      BY <2>1, <2>2, AllRan
    <3>2. QED
      BY <1>3, <2>1, <2>2, <3>1 DEF ReturnValue, Out, FinallyOnce, Open
  <2>3. CASE F # {}
    <3> DEFINE d == Top(F)
    <3>1. d \in {"C", "F"} \X Levels /\ Counted(d[2], 0)
      <4>1. F \subseteq Visible(k, part)
        BY DEF Finallies
      <4>2. QED
        BY <2>1, <2>3, <4>1, InnerOnesRan
    <3>2. AtFinally(d[2])
      BY <1>3, <2>3 DEF ReturnValue
    <3> HIDE DEF d
    <3>3. d[2] \in Levels
      BY <3>1
    <3>4. QED
      BY <2>1, <3>1, <3>2, <3>3, FinallyJump
  <2>4. QED
    BY <2>2, <2>3
<1>4. ASSUME NEW k \in Levels, EndBody(k) PROVE FinallyOnce'
  <2>1. Counted(k, 0)
    BY <1>4, RunningCounted DEF EndBody, Parts
  <2>2. QED
    BY <1>4, <2>1, FinallyJump DEF EndBody
<1>5. ASSUME NEW k \in Levels, EndCatch(k) PROVE FinallyOnce'
  <2>1. Counted(k, 0)
    BY <1>5, RunningCounted DEF EndCatch, Parts
  <2>2. QED
    BY <1>5, <2>1, FinallyJump DEF EndCatch
<1>6. ASSUME NEW k \in Levels, EndFinally(k) PROVE FinallyOnce'
  <2>1. Counted(k, 1)
    BY <1>6, RunningCounted DEF EndFinally, Parts
  <2>2. QED
    BY <1>6, <2>1 DEF EndFinally, FinallyOnce, Counted, Open, TypeOK, Levels
<1>7. ASSUME NEW k \in Levels, pc = <<"after", k>>
      PROVE  /\ k # 1 => Counted(k - 1, IF shape.where[k] = "finally" THEN 1 ELSE 0)
             /\ k = 1 => \A j \in Levels : shape.fin[j] => ran[j] = 1
  <2>1. Counted(k, 1)
    BY <1>7, AfterCounted
  <2>2. QED
    BY <2>1 DEF Counted, Levels
<1>8. ASSUME NEW k \in Levels, Done(k) PROVE FinallyOnce'
  <2>1. CASE k = 1
    <3>1. \A j \in Levels : shape.fin[j] => ran[j] = 1
      BY <1>7, <1>8, <2>1 DEF Done
    <3>2. pc' = <<"out">> /\ UNCHANGED <<shape, ran>>
      BY <1>8, <2>1 DEF Done, Out
    <3>3. QED
      BY <3>1, <3>2 DEF FinallyOnce, Open
  <2>2. CASE k # 1
    <3>1. k - 1 \in Levels /\ shape.where[k] \in Parts
      BY <2>2, OuterPart
    <3>2. /\ Counted(k - 1, IF shape.where[k] = "finally" THEN 1 ELSE 0)
          /\ pc' = <<"run", k - 1, shape.where[k]>> /\ UNCHANGED <<shape, ran>>
      BY <1>7, <1>8, <2>2 DEF Done
    <3>3. Counted(k - 1, IF shape.where[k] = "finally" THEN 1 ELSE 0)'
      BY <3>2 DEF Counted
    <3>4. QED
      BY <3>1, <3>2, <3>3 DEF FinallyOnce, Counted, Open, PartOf, TypeOK, Levels
  <2>3. QED
    BY <2>1, <2>2
<1>9. ASSUME NEW k \in Levels, RethrowOrReturn(k) PROVE FinallyOnce'
  <2>1. \A j \in Levels : shape.fin[j] => ran[j] = 1
    <3>1. CASE k = 1
      BY <1>7, <1>9, <3>1 DEF RethrowOrReturn
    <3>2. CASE k # 1
      <4>1. k - 1 \in Levels /\ shape.where[k] \in Parts
        BY <3>2, OuterPart
      <4>2. Visible(k - 1, shape.where[k]) = {}
        BY <1>9, <3>2 DEF RethrowOrReturn, Around
      <4>3. QED
        BY <1>7, <1>9, <3>2, <4>1, <4>2, AllRan DEF RethrowOrReturn, Finallies
    <3>3. QED
      BY <3>1, <3>2
  <2>2. pc' = <<"out">> /\ UNCHANGED <<shape, ran>>
    BY <1>9 DEF RethrowOrReturn, Out
  <2>3. QED
    BY <2>1, <2>2 DEF FinallyOnce, Open
<1>10. ASSUME NEW k \in Levels, RethrowOrDone(k) PROVE FinallyOnce'
  <2> DEFINE d == Top(Around(k))
  <2>1. k # 1 /\ k - 1 \in Levels /\ shape.where[k] \in Parts
    BY <1>10, OuterPart DEF RethrowOrDone, Around
  <2>2. Around(k) = Visible(k - 1, shape.where[k]) /\ Around(k) # {}
    BY <1>10, <2>1 DEF RethrowOrDone, Around
  <2>3. d \in {"C", "F"} \X Levels /\ Counted(d[2], 0)
    BY <1>7, <1>10, <2>1, <2>2, InnerOnesRan DEF RethrowOrDone, Finallies
  <2>4. AtHandler(d, exception_type[k], exception_object[k]) /\ UNCHANGED shape
    BY <1>10 DEF RethrowOrDone
  <2> HIDE DEF d
  <2>5. QED
    BY <2>3, <2>4, HandlerJump
<1>11. CASE UNCHANGED vars
  BY <1>11 DEF FinallyOnce, Open, PartOf, vars
<1>12. QED
  BY <1>1, <1>2, <1>3, <1>4, <1>5, <1>6, <1>8, <1>9, <1>10, <1>11 DEF Next

\* Whatever leaves a try, its finally clause has run exactly once, and does not
\* run before: for every nesting, every catch clause and every exception.
THEOREM FinallyRunsOnce == Spec => []FinallyOnce
<1>1. Init => FinallyOnce
  <2> SUFFICES ASSUME Init PROVE FinallyOnce
    OBVIOUS
  <2>1. \A j \in Levels : ran[j] = IF j = 1 THEN 0 ELSE 1
    BY DEF Init
  <2>2. \A j \in Levels : Open(j) <=> j = 1
    BY DEF Init, Open, PartOf, Levels
  <2>3. QED
    BY <2>1, <2>2 DEF FinallyOnce
<1>2. TypeOK /\ TypeOK' /\ FinallyOnce /\ [Next]_vars => FinallyOnce'
  BY FinallyStep
<1>3. QED
  BY <1>1, <1>2, TypeCorrect, PTL DEF Spec
=============================================================================
