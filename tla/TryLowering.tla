----------------------------- MODULE TryLowering -----------------------------
(***************************************************************************)
(* The code generated for try statements (parsetry.l, addLandingPad,       *)
(* callOrInvoke and ReturnStatement in parsetree.l).                       *)
(*                                                                         *)
(* Each try has three local variables in its method: exception_type (1     *)
(* caught or none, 2 uncaught exception, 3 return), exception_unwind (the  *)
(* unwinder's object, or the value to return) and exception_object (the L  *)
(* object the catch clauses look at).  While code is generated a stack of  *)
(* descriptors says where an exception or a return goes: "C", the landing  *)
(* pad and handler of the catch clauses of a level, and "F", those of its  *)
(* finally clause.                                                         *)
(***************************************************************************)
EXTENDS TryStatement

CONSTANT Junk          \* what an uninitialised local variable holds

ASSUME JunkAssumption == Junk \notin Exceptions \cup Values \cup {None}

VARIABLES
    shape,             \* the method
    pc,                \* <<"run", k, part>>, <<"after", k>> or <<"out">>
    exception_type,
    exception_unwind,
    exception_object,
    param,             \* the catch parameter and clause of each level
    result,            \* how the method ended
    ran,               \* history: finally clauses run since the try was entered
    dropped            \* history: rethrowOrDone has lost something

temps == <<exception_type, exception_unwind, exception_object>>
vars == <<shape, pc, temps, param, result, ran, dropped>>

Wild == [how |-> "wild", what |-> None]     \* a wild pointer was followed
Words == Exceptions \cup Values \cup {Junk}

TypeOK ==
    /\ shape \in Shapes
    /\ pc \in ({"run"} \X Levels \X Parts) \cup ({"after"} \X Levels) \cup {<<"out">>}
    /\ exception_type \in [Levels -> 1 .. 3]
    /\ exception_unwind \in [Levels -> Words]
    /\ exception_object \in [Levels -> Exceptions \cup {Junk}]
    /\ param \in [Levels -> ((Exceptions \cup {Junk}) \X Nat) \cup {None}]
    /\ result \in Completions \cup {None, Wild} \cup {Return(w) : w \in Words}
    /\ ran \in [Levels -> Nat]
    /\ dropped \in BOOLEAN

\* The body of the outermost try begins and has set its exception_type; an
\* inner try sets its own when it is entered.
Init ==
    /\ shape \in Shapes
    /\ pc = <<"run", 1, "body">>
    /\ exception_type = [k \in Levels |-> 1]
    /\ exception_unwind = [k \in Levels |-> Junk]
    /\ exception_object = [k \in Levels |-> Junk]
    /\ param = [k \in Levels |-> None]
    /\ result = None
    /\ ran = [k \in Levels |-> IF k = 1 THEN 0 ELSE 1]
    /\ dropped = FALSE

-----------------------------------------------------------------------------
(* The descriptors *)

\* Mutant: the finally descriptor is pushed after the catches are compiled.
Visible_CatchWithoutFinally(k, part) ==
    {d \in {"C", "F"} \X (1 .. k) :
        LET in == PartOf(shape, k, part, d[2])
        IN  IF d[1] = "C" THEN in = "body" /\ shape.clauses[d[2]] # << >>
            ELSE in = "body" /\ shape.fin[d[2]]}

\* The descriptors on the stack while a part of level k is compiled: a body
\* sees the catches of its try and then its finally, a catch clause sees the
\* finally, and a finally clause only what surrounds the try.
Visible(k, part) ==
    {d \in {"C", "F"} \X (1 .. k) :
        LET in == PartOf(shape, k, part, d[2])
        IN  IF d[1] = "C" THEN in = "body" /\ shape.clauses[d[2]] # << >>
            ELSE in # "finally" /\ shape.fin[d[2]]}

\* The descriptors around the try of level k.
Around(k) == IF k = 1 THEN {} ELSE Visible(k - 1, shape.where[k])

\* TopException: the innermost level, its catches before its finally.
Top(D) == CHOOSE d \in D : \A e \in D : d[2] > e[2] \/ (d[2] = e[2] /\ (d[1] = "C" \/ d = e))

\* TopFinallyOrReturn
Finallies(D) == {d \in D : d[1] = "F"}

-----------------------------------------------------------------------------
(* The handlers *)

\* finally_handler, or the label .done of a try without a finally clause.
AtFinally(k) ==
    /\ IF shape.fin[k]
       THEN pc' = <<"run", k, "finally">> /\ ran' = [ran EXCEPT ![k] = @ + 1]
       ELSE pc' = <<"after", k>> /\ UNCHANGED ran
    /\ UNCHANGED <<param, result>>

Out(c) == pc' = <<"out">> /\ result' = c /\ UNCHANGED <<param, ran>>

\* The clauses the vtable walk of Catch.compile may choose for object o of
\* level k (0: none).  The walk through an uninitialised object may do anything.
Chosen(k, o) ==
    IF o = Junk THEN 0 .. Len(shape.clauses[k]) ELSE {FirstClause(shape, k, o)}

\* catches_handler
AtCatches(k, type, o) ==
    \/ type # 2 /\ AtFinally(k)
    \/ type = 2 /\ \E n \in Chosen(k, o) :
        IF n = 0 THEN AtFinally(k)
        ELSE /\ pc' = <<"run", k, "catch">>
             /\ param' = [param EXCEPT ![k] = <<o, n>>]
             /\ UNCHANGED <<result, ran>>
    \/ type = 2 /\ o = Junk /\ Out(Wild)

AtHandler(d, type, o) ==
    IF d[1] = "C" THEN AtCatches(d[2], type, o) ELSE AtFinally(d[2])

-----------------------------------------------------------------------------
(* Code of the method *)

\* The try of level k+1 is entered: its body sets its exception_type.
Enter(k, part) ==
    /\ pc = <<"run", k, part>>
    /\ k < Depth
    /\ shape.where[k + 1] = part
    /\ pc' = <<"run", k + 1, "body">>
    /\ exception_type' = [exception_type EXCEPT ![k + 1] = 1]
    /\ ran' = [ran EXCEPT ![k + 1] = 0]
    /\ UNCHANGED <<shape, exception_unwind, exception_object, param, result, dropped>>

\* throw, or a call that throws: an invoke with the landing pad of the top
\* descriptor, where addLandingPad stores what the unwinder passes; the pad of
\* a finally clause does not store the L object.
Raise(k, part, e) ==
    /\ pc = <<"run", k, part>>
    /\ IF Visible(k, part) = {}
       THEN Out(Throw(e)) /\ UNCHANGED temps
       ELSE LET d == Top(Visible(k, part)) IN
            /\ exception_unwind' = [exception_unwind EXCEPT ![d[2]] = e]
            /\ exception_type' = [exception_type EXCEPT ![d[2]] = 2]
            /\ exception_object' =
                  IF d[1] = "C" THEN [exception_object EXCEPT ![d[2]] = e] ELSE exception_object
            /\ AtHandler(d, 2, e)
    /\ UNCHANGED <<shape, dropped>>

\* Mutant: throwReturn is given the wrong variable.
ReturnValue_IntoObject(k, part, v) ==
    /\ pc = <<"run", k, part>>
    /\ IF Finallies(Visible(k, part)) = {}
       THEN Out(Return(v)) /\ UNCHANGED temps
       ELSE LET d == Top(Finallies(Visible(k, part))) IN
            /\ exception_type' = [exception_type EXCEPT ![d[2]] = 3]
            /\ exception_object' = [exception_object EXCEPT ![d[2]] = v]
            /\ AtFinally(d[2])
            /\ UNCHANGED exception_unwind
    /\ UNCHANGED <<shape, dropped>>

\* return v: with a finally around, throwReturn to the innermost one.
ReturnValue(k, part, v) ==
    /\ pc = <<"run", k, part>>
    /\ IF Finallies(Visible(k, part)) = {}
       THEN Out(Return(v)) /\ UNCHANGED temps
       ELSE LET d == Top(Finallies(Visible(k, part))) IN
            /\ exception_type' = [exception_type EXCEPT ![d[2]] = 3]
            /\ exception_unwind' = [exception_unwind EXCEPT ![d[2]] = v]
            /\ AtFinally(d[2])
            /\ UNCHANGED exception_object
    /\ UNCHANGED <<shape, dropped>>

EndBody(k) ==
    /\ pc = <<"run", k, "body">>
    /\ AtFinally(k)
    /\ UNCHANGED <<shape, temps, dropped>>

\* Mutant: the exception is not marked as caught.
EndCatch_Uncaught(k) ==
    /\ pc = <<"run", k, "catch">>
    /\ AtFinally(k)
    /\ UNCHANGED <<shape, temps, dropped>>

EndCatch(k) ==
    /\ pc = <<"run", k, "catch">>
    /\ exception_type' = [exception_type EXCEPT ![k] = 1]
    /\ AtFinally(k)
    /\ UNCHANGED <<shape, exception_unwind, exception_object, dropped>>

EndFinally(k) ==
    /\ pc = <<"run", k, "finally">>
    /\ pc' = <<"after", k>>
    /\ UNCHANGED <<shape, temps, param, result, ran, dropped>>

-----------------------------------------------------------------------------
(* The end of a try *)

\* Nothing is pending: on after the try.
Done(k) ==
    /\ pc = <<"after", k>>
    /\ exception_type[k] = 1
    /\ IF k = 1 THEN Out(Normal)
       ELSE pc' = <<"run", k - 1, shape.where[k]>> /\ UNCHANGED <<param, result, ran>>
    /\ UNCHANGED <<shape, temps, dropped>>

\* rethrowOrReturn, where no descriptor surrounds the try.
RethrowOrReturn(k) ==
    /\ pc = <<"after", k>>
    /\ exception_type[k] # 1
    /\ Around(k) = {}
    /\ Out(IF exception_type[k] = 3 THEN Return(exception_unwind[k])
           ELSE IF exception_unwind[k] \in Exceptions THEN Throw(exception_unwind[k])
           ELSE Wild)
    /\ UNCHANGED <<shape, temps, dropped>>

\* rethrowOrDone, inside another try of the method: exception_type and
\* exception_object are handed on and exception_unwind is not.
RethrowOrDone(k) ==
    /\ pc = <<"after", k>>
    /\ exception_type[k] # 1
    /\ Around(k) # {}
    /\ LET d == Top(Around(k))
           type == exception_type[k]
           o == exception_object[k]
       IN  /\ exception_type' = [exception_type EXCEPT ![d[2]] = type]
           /\ exception_object' = [exception_object EXCEPT ![d[2]] = o]
           /\ AtHandler(d, type, o)
           /\ dropped' = (dropped \/ ~(/\ d[1] = "C" /\ type = 2
                                       /\ o \in Exceptions /\ o = exception_unwind[k]
                                       /\ FirstClause(shape, d[2], o) # 0))
    /\ UNCHANGED <<shape, exception_unwind>>

Next ==
    \E k \in Levels :
        \/ \E part \in Parts :
            \/ Enter(k, part)
            \/ \E e \in Exceptions : Raise(k, part, e)
            \/ \E v \in Values : ReturnValue(k, part, v)
        \/ EndBody(k) \/ EndCatch(k) \/ EndFinally(k)
        \/ Done(k) \/ RethrowOrReturn(k) \/ RethrowOrDone(k)

Spec == Init /\ [][Next]_vars

-----------------------------------------------------------------------------
\* Level j was entered and neither left nor got to its finally clause.
Open(j) ==
    \/ pc[1] = "run" /\ j <= pc[2] /\ PartOf(shape, pc[2], pc[3], j) # "finally"
    \/ pc[1] = "after" /\ j < pc[2] /\ shape.where[j + 1] # "finally"

\* The finally clause of a try does not run while the body or a catch clause
\* does and has been run exactly once when the try is left, whichever of the
\* ways through the landing pads, handlers and rethrows of the tries around it
\* that was; also where rethrowOrDone hands on the wrong exception.
FinallyOnce ==
    \A j \in Levels :
        shape.fin[j] /\ (pc = <<"out">> => result # Wild)
        => ran[j] = IF Open(j) THEN 0 ELSE 1

(***************************************************************************)
(* The refinement mapping.                                                 *)
(***************************************************************************)
Pending(k) ==
    CASE exception_type[k] = 1 -> Normal
      [] exception_type[k] = 2 -> Throw(exception_unwind[k])
      [] exception_type[k] = 3 -> Return(exception_unwind[k])

Running(k, part) ==
    LET In(j) == IF j <= k THEN PartOf(shape, k, part, j) ELSE "none" IN
    [at |-> <<k, part>>,
     comp |-> [j \in Levels |-> IF In(j) = "finally" THEN Pending(j) ELSE Normal],
     caught |-> [j \in Levels |-> IF In(j) = "catch" THEN param[j] ELSE None],
     result |-> None]

\* Between two pieces of the method's own code the abstract state is already
\* the one the next piece runs in.
Abstract ==
    CASE pc[1] = "run" -> Running(pc[2], pc[3])
      [] pc[1] = "after" -> Complete(shape, Running(pc[2], "finally"), pc[2], "finally", Normal)
      [] pc[1] = "out" -> Ended(result)

Meaning == INSTANCE TrySemantics WITH s <- Abstract

\* The generated code does what the try statement means: the right clause
\* catches the right exception, finally clauses run in the right order, a
\* return keeps its value and an exception stays itself, until rethrowOrDone
\* hands on a return, or an exception that is not the one in exception_object
\* or that the clauses around do not catch.
Refines == Meaning!Init /\ [][dropped' \/ Meaning!Next]_(Meaning!vars)

\* What the comment in TryStatement.compile says, "code within the body sees
\* catches, then any finally/return handler, then any outer handlers from
\* enclosing blocks": what one of them rethrows, or looks at, is the exception
\* the body threw and never an uninitialised pointer.
NoWildPointer == result # Wild
=============================================================================
