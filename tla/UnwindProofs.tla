---------------------------- MODULE UnwindProofs ----------------------------
(***************************************************************************)
(* Exceptions at run time for any methods, any code, any depth of the      *)
(* stack and any number of exceptions.                                     *)
(***************************************************************************)
EXTENDS Unwind, LsdaProofs

-----------------------------------------------------------------------------
(* Sequences *)

LEMMA SameDomain ==
    ASSUME NEW S, NEW s \in Seq(S), NEW t,
           t = [i \in DOMAIN s |-> t[i]], \A i \in DOMAIN s : t[i] \in S
    PROVE  t \in Seq(S) /\ Len(t) = Len(s)
<1>1. DOMAIN s = 1..Len(s) /\ Len(s) \in Nat
  OBVIOUS
<1>2. t \in [1..Len(s) -> S]
  BY <1>1
<1>3. QED
  BY <1>1, <1>2

IsSeq(s) == \E S : s \in Seq(S)

LEMMA LastReplaced ==
    ASSUME NEW S, NEW s \in Seq(S), Len(s) >= 1, NEW x
    PROVE  LET t == [s EXCEPT ![Len(s)] = x]
           IN  /\ t \in Seq(S \cup {x}) /\ Len(t) = Len(s) /\ t[Len(s)] = x
               /\ \A i \in 1..(Len(s) - 1) : t[i] = s[i]
<1> DEFINE t == [s EXCEPT ![Len(s)] = x]
<1>1. DOMAIN s = 1..Len(s) /\ Len(s) \in Nat /\ s \in Seq(S \cup {x})
  OBVIOUS
<1>2. /\ t = [i \in DOMAIN s |-> t[i]] /\ t[Len(s)] = x
      /\ \A i \in 1..(Len(s) - 1) : t[i] = s[i]
  <2>1. t = [i \in DOMAIN s |-> IF i = Len(s) THEN x ELSE s[i]]
    BY <1>1
  <2>2. \A i \in DOMAIN s : t[i] = IF i = Len(s) THEN x ELSE s[i]
    BY <2>1
  <2>3. t = [i \in DOMAIN s |-> t[i]]
    BY <2>1, Zenon
  <2>4. QED
    BY <1>1, <2>2, <2>3
<1>3. \A i \in DOMAIN s : t[i] \in S \cup {x}
  BY <1>1
<1> HIDE DEF t
<1>4. t \in Seq(S \cup {x}) /\ Len(t) = Len(s)
  BY <1>1, <1>2, <1>3, SameDomain
<1>5. QED
  BY <1>2, <1>4 DEF t

LEMMA FrontOf ==
    ASSUME NEW S, NEW s \in Seq(S), Len(s) >= 1
    PROVE  /\ Front(s) \in Seq(S) /\ Len(Front(s)) = Len(s) - 1
           /\ \A i \in 1..(Len(s) - 1) : Front(s)[i] = s[i]
<1>1. Len(s) \in Nat /\ DOMAIN s = 1..Len(s)
  OBVIOUS
<1>2. Front(s) = [i \in 1..(Len(s) - 1) |-> s[i]]
  BY <1>1 DEF Front
<1>3. Front(s) \in [1..(Len(s) - 1) -> S]
  BY <1>1, <1>2
<1>4. QED
  BY <1>1, <1>2, <1>3

LEMMA AppendOf ==
    ASSUME NEW S, NEW s \in Seq(S), NEW x \in S
    PROVE  /\ Append(s, x) \in Seq(S) /\ Len(Append(s, x)) = Len(s) + 1
           /\ \A i \in 1..Len(s) : Append(s, x)[i] = s[i]
           /\ Append(s, x)[Len(s) + 1] = x
           /\ DOMAIN Append(s, x) = DOMAIN s \cup {Len(s) + 1}
  OBVIOUS

\* What the steps of the program do to a stack.
LEMMA StackLast ==
    ASSUME NEW s, IsSeq(s), Len(s) >= 1, NEW x
    PROVE  LET t == [s EXCEPT ![Len(s)] = x]
           IN  /\ IsSeq(t) /\ Len(t) = Len(s) /\ t[Len(s)] = x
               /\ \A i \in 1..(Len(s) - 1) : t[i] = s[i]
<1>1. PICK S : s \in Seq(S)
  BY DEF IsSeq
<1>2. QED
  BY <1>1, LastReplaced DEF IsSeq

LEMMA StackFront ==
    ASSUME NEW s, IsSeq(s), Len(s) >= 1
    PROVE  /\ IsSeq(Front(s)) /\ Len(Front(s)) = Len(s) - 1
           /\ \A i \in 1..(Len(s) - 1) : Front(s)[i] = s[i]
<1>1. PICK S : s \in Seq(S)
  BY DEF IsSeq
<1>2. QED
  BY <1>1, FrontOf DEF IsSeq

LEMMA StackAppend ==
    ASSUME NEW s, IsSeq(s), NEW x
    PROVE  IsSeq(Append(s, x)) /\ Len(Append(s, x)) = Len(s) + 1
<1>1. PICK S : s \in Seq(S)
  BY DEF IsSeq
<1>2. s \in Seq(S \cup {x})
  BY <1>1
<1>3. Append(s, x) \in Seq(S \cup {x}) /\ Len(Append(s, x)) = Len(s) + 1
  BY <1>2
<1>4. QED
  BY <1>3 DEF IsSeq

LEMMA StackLength == ASSUME NEW s, IsSeq(s) PROVE Len(s) \in Nat
<1>1. PICK S : s \in Seq(S)
  BY DEF IsSeq
<1>2. QED
  BY <1>1

-----------------------------------------------------------------------------
(* The flag of the signal handler *)

\* What SegvFlagExact rests on: a fault's exception is made only where there is
\* no other, so that there is at most one and the finaliser of that one may
\* clear the flag for all.
SegvInv ==
    /\ heap \in Seq({"object", "fault", "freed", "lost"})
    /\ __in_segv \in BOOLEAN
    /\ status = "handler" => installed /\ \A o \in DOMAIN heap : heap[o] # "fault"
    /\ \A o, q \in DOMAIN heap : heap[o] = "fault" /\ heap[q] = "fault" => o = q
    /\ SegvFlagExact

LEMMA SegvInit == Init => SegvInv
<1> SUFFICES ASSUME Init PROVE SegvInv
  OBVIOUS
<1>1. heap = <<>> /\ status = "running" /\ __in_segv = FALSE
  BY DEF Init
<1>2. DOMAIN heap = {} /\ heap \in Seq({"object", "fault", "freed", "lost"})
  BY <1>1
<1>3. QED
  BY <1>1, <1>2 DEF SegvInv, SegvFlagExact

LEMMA SegvStep == SegvInv /\ [Next]_vars => SegvInv'
<1> SUFFICES ASSUME SegvInv, [Next]_vars PROVE SegvInv'
  OBVIOUS
<1> USE DEF SegvInv, SegvFlagExact
<1>1. CASE ThrowNew
  BY <1>1 DEF ThrowNew, CanThrow, Running, Raise, __alloc_object
<1>2. CASE Fault
  BY <1>2 DEF Fault, CanThrow, Running, __segv_handler
<1>3. CASE FaultInHandler
  BY <1>3 DEF FaultInHandler, __segv_handler
<1>4. CASE throwME
  BY <1>4 DEF throwME, Raise, __alloc_object_finalize
<1>5. CASE Collect
  <2>1. PICK S \in SUBSET {o \in DOMAIN heap \ Reachable : heap[o] \in {"object", "fault"}} :
          /\ dispose(S)
          /\ heap' = [o \in DOMAIN heap |->
                         IF o \notin S THEN heap[o]
                         ELSE IF o \in InFinally THEN "lost" ELSE "freed"]
    BY <1>5 DEF Collect
  <2>2. DOMAIN heap' = DOMAIN heap /\ heap' \in Seq({"object", "fault", "freed", "lost"})
    <3>1. DOMAIN heap' = DOMAIN heap /\ heap' = [o \in DOMAIN heap |-> heap'[o]]
      BY <2>1, Zenon
    <3>2. heap \in Seq({"object", "fault", "freed", "lost"})
      OBVIOUS
    <3> HIDE DEF SegvInv
    <3>3. \A o \in DOMAIN heap : heap[o] \in {"object", "fault", "freed", "lost"}
      BY <3>2
    <3>4. \A o \in DOMAIN heap : heap'[o] \in {heap[o], "freed", "lost"}
      BY <2>1
    <3>5. \A o \in DOMAIN heap : heap'[o] \in {"object", "fault", "freed", "lost"}
      BY <3>3, <3>4
    <3>6. QED
      BY <3>1, <3>2, <3>5, SameDomain
  <2>3. \A o \in DOMAIN heap : heap'[o] = "fault" <=> heap[o] = "fault" /\ o \notin S
    BY <2>1
  <2>4. __in_segv' = (__in_segv /\ \A o \in S : heap[o] # "fault")
    BY <2>1 DEF dispose
  <2>5. status' = status /\ installed' = installed /\ S \subseteq DOMAIN heap
    BY <1>5 DEF Collect
  <2>6. SegvFlagExact'
    BY <1>5, <2>2, <2>3, <2>4, <2>5 DEF Collect, Running
  <2>7. __in_segv' \in BOOLEAN
    BY <2>4
  <2>8. QED
    BY <2>2, <2>3, <2>5, <2>6, <2>7
<1>6. ASSUME \/ Call \/ Return \/ ThrowCaught \/ ThrowForeign
             \/ Search \/ Cleanup \/ Land \/ Match \/ Rethrow
             \/ EndCatch \/ uncaughtException \/ Terminated \/ UNCHANGED vars
      PROVE  SegvInv'
  <2>1. UNCHANGED <<heap, installed, __in_segv>>
    BY <1>6 DEF Call, Return, ThrowCaught, ThrowForeign, Search, Cleanup, Land, Match,
       Rethrow, EndCatch, uncaughtException, Terminated, Kept, memory, vars
  <2>2. \/ status' = status
        \/ {status, status'} \cap {"handler", "segv in segv"} = {}
    BY <1>6 DEF Call, Return, ThrowCaught, ThrowForeign, Search, Cleanup, Land, Match,
       Rethrow, EndCatch, uncaughtException, Terminated, vars, Raise, CanThrow, Running
  <2>3. QED
    BY <2>1, <2>2
<1>7. QED
  BY <1>1, <1>2, <1>3, <1>4, <1>5, <1>6 DEF Next

\* The flag of __segv_handler is set exactly while it runs, has found a fault
\* within itself, or an exception it made has not been finalised.
THEOREM SegvFlag == Spec => []SegvFlagExact
<1>1. SegvInv => SegvFlagExact
  BY DEF SegvInv
<1>2. QED
  BY SegvInit, SegvStep, <1>1, PTL DEF Spec

-----------------------------------------------------------------------------
(* The two phases *)

\* While the search runs, no frame it has passed has a landing pad; when it has
\* found one, that frame has one and none above it.
PhaseInv ==
    /\ IsSeq(stack) /\ Len(stack) >= 1
    /\ status = "search" =>
          /\ cursor \in 1..Len(stack)
          /\ \A j \in (cursor + 1)..Len(stack) : PadFor(stack[j]) = 0
    /\ status \in {"cleanup", "landing"} =>
          /\ handler \in 1..Len(stack)
          /\ PadFor(stack[handler]) # 0
          /\ \A j \in (handler + 1)..Len(stack) : PadFor(stack[j]) = 0
    /\ PhasesAgree

LEMMA PhaseInit == Init => PhaseInv
<1> SUFFICES ASSUME Init PROVE PhaseInv
  OBVIOUS
<1>1. stack = <<Frame(EntryPoint)>> /\ status = "running"
  BY DEF Init
<1>2. stack \in Seq({Frame(EntryPoint)}) /\ Len(stack) = 1
  BY <1>1
<1>3. QED
  <2>1. IsSeq(stack)
    BY <1>2 DEF IsSeq
  <2>2. QED
    BY <1>1, <1>2, <2>1 DEF PhaseInv, PhasesAgree

\* At(k) is the stack with another last frame.
LEMMA AtStack ==
    ASSUME IsSeq(stack), Len(stack) >= 1, NEW k
    PROVE  IsSeq(At(k)) /\ Len(At(k)) = Len(stack)
  BY StackLast DEF At

LEMMA RaisePhase ==
    ASSUME NEW frames, NEW w, NEW isDirect,
           IsSeq(frames), Len(frames) >= 1, Raise(frames, w, isDirect)
    PROVE  PhaseInv'
<1>1. /\ stack' = frames /\ status' = "search" /\ cursor' = Len(frames)
      /\ Len(frames) \in Nat
  BY StackLength DEF Raise
<1>2. QED
  BY <1>1 DEF PhaseInv, PhasesAgree, IsSeq

LEMMA PhaseStep == PhaseInv /\ [Next]_vars => PhaseInv'
<1> SUFFICES ASSUME PhaseInv, [Next]_vars PROVE PhaseInv'
  OBVIOUS
<1>0. IsSeq(stack) /\ Len(stack) >= 1 /\ Len(stack) \in Nat
  BY StackLength DEF PhaseInv
<1>1. ASSUME IsSeq(stack'), Len(stack') >= 1, status' \notin {"search", "cleanup", "landing", "fatal"}
      PROVE  PhaseInv'
  BY <1>1 DEF PhaseInv, PhasesAgree, IsSeq
<1>2. CASE Call
  <2>1. PICK k, m : stack' = Append(At(k), Frame(m))
    BY <1>2 DEF Call
  <2>2. IsSeq(stack') /\ Len(stack') >= 1
    BY <1>0, <2>1, AtStack, StackAppend
  <2>3. QED
    BY <1>1, <1>2, <2>2 DEF Call, Running
<1>3. CASE Return
  <2>1. IsSeq(stack') /\ Len(stack') >= 1
    <3>1. CASE Len(stack) = 1
      BY <1>0, <1>3, <3>1 DEF Return
    <3>2. CASE Len(stack) # 1
      <4>1. stack' = Front(stack) /\ Len(stack) > 1
        <5>1. stack' = Front(stack)
          BY <1>3, <3>2, Zenon DEF Return
        <5>2. Len(stack) > 1
          BY <1>0, <3>2
        <5>3. QED
          BY <5>1, <5>2
      <4>2. QED
        BY <1>0, <4>1, StackFront
    <3>3. QED
      BY <3>1, <3>2
  <2>2. QED
    BY <1>1, <1>3, <2>1 DEF Return, Running
<1>4. CASE ThrowNew \/ ThrowCaught \/ ThrowForeign
  <2>1. PICK k : Raise(At(k), Len(wrappers) + 1, FALSE)
    BY <1>4 DEF ThrowNew, ThrowCaught, ThrowForeign
  <2>2. QED
    BY <1>0, <2>1, AtStack, RaisePhase
<1>5. CASE Fault
  <2>1. PICK k : stack' = At(k)
    BY <1>5 DEF Fault
  <2>2. QED
    BY <1>0, <1>1, <1>5, <2>1, AtStack DEF Fault, CanThrow, Running, __segv_handler
<1>6. CASE FaultInHandler
  BY <1>0, <1>1, <1>6 DEF FaultInHandler, __segv_handler
<1>7. CASE throwME
  BY <1>0, <1>7, RaisePhase DEF throwME
<1>8. CASE Collect \/ uncaughtException
  BY <1>0, <1>1, <1>8 DEF Collect, uncaughtException, Running
<1>9. CASE Search
  <2>1. /\ stack' = stack /\ lsda' = lsda /\ status = "search"
        /\ cursor \in 1..Len(stack)
        /\ \A j \in (cursor + 1)..Len(stack) : PadFor(stack[j]) = 0
    BY <1>9 DEF Search, Kept, PhaseInv
  <2>2. \A j \in 1..Len(stack) : PadFor(stack[j])' = PadFor(stack[j])
    BY <2>1 DEF PadFor, PadIn, pcOffset
  <2>3. __l_personality(stack[cursor], TRUE).code = "handler found"
           <=> PadFor(stack[cursor]) # 0
    BY DEF __l_personality, handleLsda
  <2>4. CASE PadFor(stack[cursor]) # 0
    <3>1. status' = "cleanup" /\ handler' = cursor
      BY <1>9, <2>3, <2>4 DEF Search
    <3>2. QED
      BY <1>0, <2>1, <2>2, <2>4, <3>1 DEF PhaseInv, PhasesAgree
  <2>5. CASE PadFor(stack[cursor]) = 0 /\ cursor = 1
    BY <1>0, <1>1, <1>9, <2>1, <2>3, <2>5 DEF Search
  <2>6. CASE PadFor(stack[cursor]) = 0 /\ cursor # 1
    <3>1. status' = "search" /\ cursor' = cursor - 1
      BY <1>9, <2>1, <2>3, <2>6 DEF Search
    <3>2. \A j \in cursor..Len(stack) : PadFor(stack[j]) = 0
      BY <1>0, <2>1, <2>6
    <3>3. QED
      BY <1>0, <2>1, <2>2, <2>6, <3>1, <3>2 DEF PhaseInv, PhasesAgree
  <2>7. QED
    BY <2>4, <2>5, <2>6
<1>10. CASE Cleanup
  <2>1. /\ lsda' = lsda /\ handler' = handler /\ status = "cleanup"
        /\ handler \in 1..Len(stack)
        /\ PadFor(stack[handler]) # 0
        /\ \A j \in (handler + 1)..Len(stack) : PadFor(stack[j]) = 0
    BY <1>10 DEF Cleanup, Kept, PhaseInv
  <2>2. __l_personality(Top, FALSE).code = "install context" <=> PadFor(Top) # 0
    BY DEF __l_personality, handleLsda
  <2>3. PadFor(Top) # 0 <=> Len(stack) = handler
    BY <1>0, <2>1 DEF Top, Last
  <2>4. CASE Len(stack) = handler
    <3>1. stack' = stack /\ status' = "landing"
      BY <1>10, <2>2, <2>3, <2>4 DEF Cleanup
    <3>2. \A j \in 1..Len(stack) : PadFor(stack[j])' = PadFor(stack[j])
      BY <2>1, <3>1 DEF PadFor, PadIn, pcOffset
    <3>3. QED
      BY <1>0, <2>1, <2>4, <3>1, <3>2 DEF PhaseInv, PhasesAgree
  <2>5. CASE Len(stack) # handler
    <3>1. stack' = Front(stack) /\ status' = "cleanup"
      BY <1>10, <2>1, <2>2, <2>3, <2>5 DEF Cleanup
    <3>2. /\ IsSeq(stack') /\ Len(stack') = Len(stack) - 1
          /\ \A j \in 1..(Len(stack) - 1) : stack'[j] = stack[j]
      BY <1>0, <3>1, StackFront
    <3>3. \A j \in 1..Len(stack') : PadFor(stack[j])' = PadFor(stack[j])
      BY <1>0, <2>1, <3>2 DEF PadFor, PadIn, pcOffset
    <3>4. QED
      BY <1>0, <2>1, <2>5, <3>1, <3>2, <3>3 DEF PhaseInv, PhasesAgree
  <2>6. QED
    BY <2>4, <2>5
<1>11. CASE Land \/ Match \/ EndCatch
  <2>1. PICK x : stack' = [stack EXCEPT ![Len(stack)] = x]
    BY <1>11 DEF Land, Match, EndCatch
  <2>2. status' = "running"
    BY <1>11 DEF Land, Match, EndCatch, Running
  <2>3. QED
    BY <1>0, <1>1, <2>1, <2>2, StackLast
<1>12. CASE Rethrow
  <2>1. PICK k : Raise(At(k), Top.unwind, FALSE)
    BY <1>12 DEF Rethrow
  <2>2. QED
    BY <1>0, <2>1, AtStack, RaisePhase
<1>13. CASE Terminated \/ UNCHANGED vars
  BY <1>13 DEF Terminated, vars, raising, PhaseInv, PhasesAgree, PadFor, PadIn, pcOffset, IsSeq
<1>14. QED
  BY <1>2, <1>3, <1>4, <1>5, <1>6, <1>7, <1>8, <1>9, <1>10, <1>11, <1>12, <1>13 DEF Next

\* The cleanup phase always ends where the search phase said it would: the
\* personality routine gives the same answer for the same frame, and no frame
\* above the handler stops it.
THEOREM Phases == Spec => []PhasesAgree
<1>1. PhaseInv => PhasesAgree
  BY DEF PhaseInv
<1>2. QED
  BY PhaseInit, PhaseStep, <1>1, PTL DEF Spec

-----------------------------------------------------------------------------
(* Frames, wrappers and exceptions *)

FrameType ==
    [method: Methods, point: Nat, ip: Nat, doing: {"body", "match", "catch", "finally"},
     unwind: Nat, object: Nat]
WrapperType == [class: {"L", "foreign"}, l_exception: Nat]
Raising == {"search", "cleanup", "landing"}

Types ==
    /\ status \in Statuses
    /\ stack \in Seq(FrameType) /\ Len(stack) \in 1..MaxDepth
    /\ heap \in Seq({"object", "fault", "freed", "lost"})
    /\ wrappers \in Seq(WrapperType) /\ Len(wrappers) <= MaxThrows
    /\ current \in 0..Len(wrappers)
    /\ status = "handler" => Len(wrappers) < MaxThrows

\* The exception in wrapper w, if there is one, has not been reclaimed unnoticed.
Live(w, ws, objects) ==
    ws[w].l_exception # Foreign => objects[ws[w].l_exception] # "freed"

\* A clause has the wrapper that brought it there, and a catch clause the
\* exception in it.
FrameRefs(fr, ws, objects) ==
    /\ fr.unwind <= Len(ws) /\ fr.object <= Len(objects)
    /\ fr.doing # "body" => fr.unwind # 0 /\ Live(fr.unwind, ws, objects)
    /\ fr.doing \in {"match", "catch"} => fr.object = ws[fr.unwind].l_exception

References ==
    /\ \A w \in DOMAIN wrappers : wrappers[w].l_exception <= Len(heap)
    /\ \A i \in DOMAIN stack : FrameRefs(stack[i], wrappers, heap)
    /\ status \in Raising => current # 0 /\ Live(current, wrappers, heap)
    /\ status = "landing" => registers.gr0 = current

AtPoint(fr) ==
    /\ fr.point \in DOMAIN Code[fr.method].points
    /\ PointOf(fr).clause = (fr.doing # "body")
    /\ fr.ip = Address(PointOf(fr))
AtCall(fr) == AtPoint(fr) /\ PointOf(fr).kind = "call"

\* Every frame below the last is at a call, and so is the last while an exception
\* is raised, unless its own code has faulted.
Places ==
    /\ \E e \in Encodings : \A m \in Methods : lsda[m] = Area[m][e]
    /\ stack[1].method = EntryPoint
    /\ \A i \in 1..(Len(stack) - 1) : AtCall(stack[i])
    /\ status \in Raising \cup {"handler"} => AtPoint(Top)
    /\ status \in Raising /\ Len(stack) # direct => AtCall(Top)
    /\ status = "search" => direct \in {0, Len(stack)}

\* Where the exception is bound for, and that it gets there.
Arrival ==
    /\ status = "search" =>
          innermost = Innermost(IF direct = 0 THEN stack ELSE Front(stack))
    /\ status \in {"cleanup", "landing"} /\ handler # direct =>
          innermost = [frame |-> handler, pad |-> PointOf(stack[handler]).pad]
    /\ status = "landing" => registers.ip = PadFor(Top)
    /\ ReturnsOnlyAtTop

\* The inductive invariant of an exception's way.
WayInv == Types /\ References /\ Places /\ Arrival

LEMMA PointFacts ==
    ASSUME NEW m \in Methods, NEW k \in DOMAIN Code[m].points
    PROVE  /\ k \in Nat /\ Code[m].points[k] \in PointType
           /\ Address(Code[m].points[k]) \in Nat
<1>1. Code[m].points \in Seq(PointType)
  BY UnwindAssumption
<1>2. k \in Nat /\ Code[m].points[k] \in PointType
  BY <1>1
<1>3. QED
  BY <1>2 DEF Address, PointType

LEMMA TopFrame == ASSUME Types PROVE Top \in FrameType /\ Top = stack[Len(stack)]
  BY DEF Types, Top, Last

LEMMA LastFrame ==
    ASSUME Types, NEW x \in FrameType
    PROVE  LET t == [stack EXCEPT ![Len(stack)] = x]
           IN  /\ t \in Seq(FrameType) /\ Len(t) = Len(stack) /\ t[Len(stack)] = x
               /\ \A i \in 1..(Len(stack) - 1) : t[i] = stack[i]
<1>1. FrameType \cup {x} = FrameType
  OBVIOUS
<1>2. stack \in Seq(FrameType) /\ Len(stack) >= 1
  BY DEF Types
<1>3. QED
  BY <1>1, <1>2, LastReplaced

\* The frame that At puts last.
Moved(k) == [Top EXCEPT !.point = k, !.ip = Address(Code[Top.method].points[k])]

LEMMA MovedFrame ==
    ASSUME Types, NEW k \in Points(Top)
    PROVE  /\ Moved(k) \in FrameType
           /\ Moved(k).method = Top.method /\ Moved(k).doing = Top.doing
           /\ Moved(k).unwind = Top.unwind /\ Moved(k).object = Top.object
           /\ AtPoint(Moved(k))
           /\ k \in Calls(Top) => AtCall(Moved(k))
           /\ PointOf(Moved(k)).kind = "call" => AtCall(Moved(k))
<1>1. Top \in FrameType
  BY TopFrame
<1>2. k \in DOMAIN Code[Top.method].points /\ Top.method \in Methods
  BY <1>1 DEF Points, FrameType
<1>3. k \in Nat /\ Address(Code[Top.method].points[k]) \in Nat
  BY <1>2, PointFacts
<1>4. /\ Moved(k) \in FrameType
      /\ Moved(k).method = Top.method /\ Moved(k).doing = Top.doing
      /\ Moved(k).unwind = Top.unwind /\ Moved(k).object = Top.object
      /\ Moved(k).point = k /\ Moved(k).ip = Address(Code[Top.method].points[k])
  BY <1>1, <1>3 DEF Moved, FrameType
<1>5. AtPoint(Moved(k))
  BY <1>2, <1>4 DEF AtPoint, PointOf, Points
<1>6. QED
  BY <1>4, <1>5 DEF AtCall, PointOf, Calls

LEMMA AtFrames ==
    ASSUME Types, NEW k \in Points(Top)
    PROVE  /\ At(k) \in Seq(FrameType) /\ Len(At(k)) = Len(stack)
           /\ At(k)[Len(stack)] = Moved(k)
           /\ \A i \in 1..(Len(stack) - 1) : At(k)[i] = stack[i]
<1>1. At(k) = [stack EXCEPT ![Len(stack)] = Moved(k)]
  BY TopFrame DEF At, Moved
<1>2. QED
  BY <1>1, MovedFrame, LastFrame

\* handleLsda reads the tables of a method as they were written.
LEMMA TablesAsWritten == ReadsAsWritten
<1> SUFFICES ASSUME NEW m \in Methods, NEW e \in Supported, Fits(m, e),
                    NEW p \in Range(Code[m].points)
             PROVE  /\ Reads(m, p, e) \in {0} \cup DOMAIN Code[m].pads
                    /\ p.kind = "call" => Reads(m, p, e) = p.pad
  BY DEF ReadsAsWritten
<1> DEFINE sites == Code[m].sites
           area == Emit(sites, e)
           off == Address(p) - 1
           x == Reads(m, p, e)
<1>1. /\ p \in PointType /\ sites \in Seq(SiteType)
      /\ \A s \in Range(sites) : s \in SiteType /\ s.pad \in {0} \cup DOMAIN Code[m].pads
  BY UnwindAssumption DEF Range
<1>2. p.kind = "call" =>
         /\ p.size > 0
         /\ p.pad # 0 => \E s \in Range(sites) : Within(p, s)
         /\ \A s \in Range(sites) : Meets(p, s) => s.pad = p.pad
  BY UnwindAssumption DEF Invokes
<1>3. p.at \in Nat /\ p.size \in Nat /\ (p.kind = "call" => off = p.at + p.size - 1)
  BY <1>1 DEF PointType, Address
<1>4. x = IF area = <<>> THEN 0 ELSE LandingPad(area, off)
  BY DEF Reads, PadIn, Area, pcOffset
<1>5. CASE sites = <<>>
  <2>1. x = 0
    BY <1>4, <1>5 DEF Emit
  <2>2. Range(sites) = {}
    BY <1>5 DEF Range
  <2>3. QED
    BY <1>2, <2>1, <2>2
<1>6. CASE sites # <<>>
  <2>1. SitesFit(sites, e)
    <3>1. ASSUME NEW k \in DOMAIN sites PROVE SiteFits(sites[k], e)
      <4>1. sites[k] \in Range(sites) /\ sites[k] \in SiteType
        BY <1>1 DEF Range
      <4>2. {sites[k].start, sites[k].length, sites[k].pad} \subseteq 0..Largest(e)
        BY <4>1 DEF Fits
      <4>3. QED
        BY <4>1, <4>2 DEF SiteFits, SiteType
    <3>2. QED
      BY <3>1 DEF SitesFit, Fits
  <2>2. x = LandingPad(area, off)
    <3>1. area \in Seq(Bytes) /\ Len(sites) <= Len(area) \div 4
      BY <1>1, <1>6, <2>1, EmitLaid
    <3> HIDE DEF area
    <3>2. Len(sites) >= 1
      BY <1>1, <1>6
    <3>3. area # <<>>
      BY <1>1, <3>1, <3>2
    <3>4. QED
      BY <1>4, <3>3
  <2>3. FirstAbout(sites, Len(sites), off, x)
    BY <1>1, <1>6, <2>1, <2>2, LandingPadFound
  <2> HIDE DEF x, off, sites
  <2>4. \A i \in 1..Len(sites) : sites[i] \in Range(sites)
    BY <1>1 DEF Range
  <2>5. ASSUME NEW s \in Range(sites), p.kind = "call", About(s, off) PROVE s.pad = p.pad
    <3>1. s.start \in Nat /\ s.length \in Nat
      BY <1>1 DEF SiteType
    <3>2. Meets(p, s)
      BY <1>2, <1>3, <2>5, <3>1 DEF Meets, About
    <3>3. QED
      BY <1>2, <2>5, <3>2
  <2>6. ASSUME NEW s \in Range(sites), p.kind = "call", p.pad # 0, Within(p, s)
        PROVE  About(s, off)
    <3>1. s.start \in Nat /\ s.length \in Nat
      BY <1>1 DEF SiteType
    <3>2. Meets(p, s) /\ s.start <= off /\ off < s.start + s.length
      BY <1>2, <1>3, <2>6, <3>1 DEF Meets, Within
    <3>3. s.pad # 0
      BY <1>2, <2>6, <3>2
    <3>4. QED
      BY <3>2, <3>3 DEF About
  <2>7. CASE x = 0 /\ \A i \in 1..Len(sites) : ~About(sites[i], off)
    <3>1. \A s \in Range(sites) : ~About(s, off)
      BY <1>1, <2>7 DEF Range
    <3>2. QED
      BY <1>2, <2>6, <2>7, <3>1 DEF x
  <2>8. CASE \E i \in 1..Len(sites) : About(sites[i], off) /\ x = sites[i].pad
    <3>1. PICK s \in Range(sites) : About(s, off) /\ x = s.pad
      BY <2>4, <2>8
    <3>2. QED
      BY <1>1, <2>5, <3>1 DEF x, sites
  <2>9. QED
    BY <2>3, <2>7, <2>8 DEF FirstAbout
<1>7. QED
  BY <1>5, <1>6

\* What handleLsda reads for a frame.
LEMMA FrameReads ==
    ASSUME Places, NEW fr \in FrameType, AtPoint(fr)
    PROVE  /\ PadFor(fr) \in {0} \cup DOMAIN Code[fr.method].pads
           /\ AtCall(fr) => PadFor(fr) = PointOf(fr).pad
<1> DEFINE m == fr.method
           p == PointOf(fr)
<1>1. m \in Methods /\ p \in Range(Code[m].points) /\ fr.ip = Address(p)
  BY DEF FrameType, AtPoint, PointOf, Range
<1>2. PICK e \in Encodings : lsda[m] = Area[m][e]
  BY <1>1 DEF Places
<1>3. PadFor(fr) = Reads(m, p, e)
  BY <1>1, <1>2 DEF PadFor, PadIn, Reads, pcOffset
<1>4. e \in Supported /\ Fits(m, e)
  BY <1>1, UnwindAssumption
<1>5. QED
  BY <1>1, <1>3, <1>4, TablesAsWritten DEF ReadsAsWritten, AtCall

LEMMA WayInit == Init => WayInv
<1> SUFFICES ASSUME Init PROVE WayInv
  OBVIOUS
<1>1. /\ stack = <<Frame(EntryPoint)>> /\ status = "running" /\ heap = <<>> /\ wrappers = <<>>
      /\ current = 0
  BY DEF Init
<1>2. Frame(EntryPoint) \in FrameType
  BY UnwindAssumption DEF Frame, FrameType
<1>3. stack \in Seq(FrameType) /\ Len(stack) = 1 /\ stack[1] = Frame(EntryPoint)
  BY <1>1, <1>2
<1>4. Types
  BY <1>1, <1>3, UnwindAssumption DEF Types, Statuses
<1>5. References
  BY <1>1, <1>3 DEF References, FrameRefs, Raising, Frame
<1>6. Places
  <2>1. \E e \in Encodings : \A m \in Methods : lsda[m] = Area[m][e]
    BY DEF Init
  <2>2. QED
    BY <1>1, <1>3, <2>1 DEF Places, Raising, Frame
<1>7. Arrival
  BY <1>1 DEF Arrival, ReturnsOnlyAtTop
<1>8. QED
  BY <1>4, <1>5, <1>6, <1>7 DEF WayInv

\* What each step does to the last frame and the frames below it.
LEMMA RaisedFrames ==
    ASSUME Types, \/ ThrowNew \/ ThrowCaught \/ ThrowForeign \/ Rethrow
    PROVE  \E k \in Calls(Top) :
              Raise(At(k), IF Rethrow THEN Top.unwind ELSE Len(wrappers) + 1, FALSE)
<1>1. CASE Rethrow
  BY <1>1 DEF Rethrow
<1>2. CASE ~Rethrow
  BY <1>2 DEF ThrowNew, ThrowCaught, ThrowForeign
<1>3. QED
  BY <1>1, <1>2

LEMMA LandedFrame ==
    ASSUME WayInv, PhaseInv, status = "landing"
    PROVE  LET kind == Code[Top.method].pads[registers.ip]
           IN  /\ registers.ip \in DOMAIN Code[Top.method].pads
               /\ kind \in {"match", "finally"}
               /\ current \in DOMAIN wrappers /\ registers.gr0 = current
               /\ addLandingPad(kind) \in FrameType
               /\ addLandingPad(kind).method = Top.method
               /\ addLandingPad(kind).doing = kind
               /\ addLandingPad(kind).unwind = current
               /\ addLandingPad(kind).object =
                     IF kind = "match" THEN wrappers[current].l_exception ELSE 0
<1> DEFINE kind == Code[Top.method].pads[registers.ip]
<1>1. Top \in FrameType /\ Top = stack[Len(stack)] /\ AtPoint(Top)
  BY TopFrame DEF WayInv, Places, Raising
<1>2. registers.ip = PadFor(Top) /\ PadFor(Top) # 0
  BY <1>1 DEF WayInv, Arrival, PhaseInv, PhasesAgree
<1>3. registers.ip \in DOMAIN Code[Top.method].pads
  BY <1>1, <1>2, FrameReads DEF WayInv
<1>4. kind \in {"match", "finally"}
  BY <1>1, <1>3, UnwindAssumption DEF FrameType
<1>5. current \in DOMAIN wrappers /\ registers.gr0 = current
  BY DEF WayInv, Types, References, Raising
<1>6. wrappers[current].l_exception \in Nat /\ current \in Nat
  <2>1. wrappers \in Seq(WrapperType)
    BY DEF WayInv, Types
  <2>2. wrappers[current] \in WrapperType /\ current \in Nat
    BY <1>5, <2>1
  <2>3. QED
    BY <2>2 DEF WrapperType
<1> HIDE DEF kind
<1>7. /\ addLandingPad(kind) \in FrameType
      /\ addLandingPad(kind).method = Top.method
      /\ addLandingPad(kind).doing = kind
      /\ addLandingPad(kind).unwind = current
      /\ addLandingPad(kind).object =
            IF kind = "match" THEN wrappers[current].l_exception ELSE 0
  BY <1>1, <1>4, <1>5, <1>6 DEF addLandingPad, FrameType, __get_l_exception
<1>8. QED
  BY <1>3, <1>4, <1>5, <1>7 DEF kind

LEMMA TypesStep == WayInv /\ PhaseInv /\ [Next]_vars => Types'
<1> SUFFICES ASSUME WayInv, PhaseInv, [Next]_vars PROVE Types'
  OBVIOUS
<1>0. Types /\ Top \in FrameType /\ Top = stack[Len(stack)]
  BY TopFrame DEF WayInv
<1>1. ASSUME NEW k \in Points(Top), stack' = At(k)
      PROVE  stack' \in Seq(FrameType) /\ Len(stack') \in 1..MaxDepth
  BY <1>0, <1>1, AtFrames DEF Types
<1>2. CASE Call
  <2>1. PICK k \in Calls(Top), m \in Methods : stack' = Append(At(k), Frame(m))
    BY <1>2 DEF Call
  <2>2. At(k) \in Seq(FrameType) /\ Len(At(k)) = Len(stack) /\ Frame(m) \in FrameType
    BY <1>0, <2>1, AtFrames DEF Calls, Frame, FrameType
  <2>3. stack' \in Seq(FrameType) /\ Len(stack') \in 1..MaxDepth
    BY <1>0, <1>2, <2>1, <2>2, UnwindAssumption DEF Call, Types
  <2>4. QED
    BY <1>0, <1>2, <2>3 DEF Call, Types, Kept, memory, raising
<1>3. CASE Return \/ Cleanup
  <2>1. Len(stack) # 1 => Front(stack) \in Seq(FrameType) /\ Len(Front(stack)) \in 1..MaxDepth
    <3>1. stack \in Seq(FrameType) /\ Len(stack) \in 1..MaxDepth /\ MaxDepth \in Nat
      BY <1>0, UnwindAssumption DEF Types
    <3>2. Front(stack) \in Seq(FrameType) /\ Len(Front(stack)) = Len(stack) - 1
      BY <3>1, FrontOf
    <3>3. QED
      BY <3>1, <3>2
  <2>2. stack' \in Seq(FrameType) /\ Len(stack') \in 1..MaxDepth
    <3>1. CASE Return
      BY <1>0, <2>1, <3>1 DEF Return, Types
    <3>2. CASE Cleanup
      <4>1. handler \in 1..Len(stack)
        BY <3>2 DEF Cleanup, PhaseInv
      <4>2. QED
        <5>1. stack' = stack \/ (Len(stack) # handler /\ stack' = Front(stack))
          BY <3>2 DEF Cleanup
        <5>2. Len(stack) # handler => Len(stack) # 1
          <6>1. Len(stack) = 1 => handler \in 1..1
            BY <4>1, Zenon
          <6>2. handler \in 1..1 => handler = 1
            OBVIOUS
          <6>3. QED
            BY <6>1, <6>2, Zenon
        <5>3. QED
          BY <1>0, <2>1, <5>1, <5>2 DEF Types
    <3>3. QED
      BY <1>3, <3>1, <3>2
  <2>3. status' \in Statuses /\ status' # "handler"
    BY <1>0, <1>3 DEF Return, Cleanup, Running, Types, Statuses, Ended
  <2>4. UNCHANGED <<heap, wrappers, current>>
    BY <1>3 DEF Return, Cleanup, Kept, memory, raising
  <2>5. QED
    BY <1>0, <2>2, <2>3, <2>4 DEF Types
<1>4. CASE ThrowNew \/ ThrowCaught \/ ThrowForeign \/ Rethrow
  <2>1. PICK k \in Calls(Top) :
           Raise(At(k), IF Rethrow THEN Top.unwind ELSE Len(wrappers) + 1, FALSE)
    BY <1>0, <1>4, RaisedFrames
  <2>2. stack' \in Seq(FrameType) /\ Len(stack') \in 1..MaxDepth
    BY <1>1, <2>1 DEF Raise, Calls
  <2>3. status' = "search" /\ current' = IF Rethrow THEN Top.unwind ELSE Len(wrappers) + 1
    BY <2>1 DEF Raise
  <2>4. CASE Rethrow
    <3>1. UNCHANGED <<heap, wrappers>>
      BY <2>4 DEF Rethrow, memory
    <3>2. Top.unwind \in 0..Len(wrappers)
      BY <1>0 DEF WayInv, References, FrameRefs, Types, FrameType
    <3>3. QED
      BY <1>0, <2>2, <2>3, <2>4, <3>1, <3>2 DEF Types, Statuses
  <2>5. CASE ~Rethrow
    <3>1. PICK w \in WrapperType : wrappers' = Append(wrappers, w)
      <4>1. Top.object \in Nat /\ Len(heap) + 1 \in Nat
        BY <1>0 DEF FrameType, Types
      <4>2. QED
        BY <1>4, <2>5, <4>1
           DEF ThrowNew, ThrowCaught, ThrowForeign, makeException, WrapperType, Foreign
    <3>2. wrappers' \in Seq(WrapperType) /\ Len(wrappers') = Len(wrappers) + 1
      BY <1>0, <3>1 DEF Types
    <3>3. Len(wrappers) < MaxThrows
      BY <1>4, <2>5 DEF ThrowNew, ThrowCaught, ThrowForeign, CanThrow
    <3>4. heap' \in Seq({"object", "fault", "freed", "lost"})
      <4>1. heap' = heap \/ heap' = Append(heap, "object")
        BY <1>4, <2>5 DEF ThrowNew, ThrowCaught, ThrowForeign, __alloc_object
      <4>2. heap \in Seq({"object", "fault", "freed", "lost"})
        BY <1>0, Zenon DEF Types
      <4>3. QED
        BY <4>1, <4>2
    <3>5. Len(wrappers) \in Nat
      BY <1>0 DEF Types
    <3>6. QED
      BY <2>2, <2>3, <2>5, <3>2, <3>3, <3>4, <3>5, UnwindAssumption DEF Types, Statuses
  <2>6. QED
    BY <2>4, <2>5
<1>5. CASE Fault
  <2>1. PICK k \in Points(Top) : stack' = At(k)
    BY <1>5 DEF Fault
  <2>2. status' \in Statuses /\ Len(wrappers) < MaxThrows
    BY <1>5 DEF Fault, CanThrow, __segv_handler, Statuses, Ended
  <2>3. QED
    BY <1>0, <1>1, <1>5, <2>1, <2>2 DEF Fault, Types, raising
<1>6. CASE FaultInHandler
  <2>1. status' \in Statuses /\ Len(wrappers) < MaxThrows
    BY <1>0, <1>6 DEF FaultInHandler, __segv_handler, Statuses, Ended, Types
  <2>2. QED
    BY <1>0, <1>6, <2>1 DEF FaultInHandler, Types, raising
<1>7. CASE throwME
  <2>1. /\ stack' = stack /\ status' = "search" /\ current' = Len(wrappers) + 1
        /\ Len(wrappers) < MaxThrows /\ Len(wrappers) \in Nat /\ Len(heap) \in Nat
    BY <1>0, <1>7 DEF throwME, Raise, Types
  <2>2. wrappers' \in Seq(WrapperType) /\ Len(wrappers') = Len(wrappers) + 1
    BY <1>0, <1>7, <2>1 DEF throwME, makeException, Types, WrapperType
  <2>3. heap' \in Seq({"object", "fault", "freed", "lost"})
    BY <1>0, <1>7 DEF throwME, __alloc_object_finalize, Types
  <2>4. QED
    BY <1>0, <2>1, <2>2, <2>3, UnwindAssumption DEF Types, Statuses
<1>8. CASE Collect
  <2>1. PICK S : heap' = [o \in DOMAIN heap |->
                            IF o \notin S THEN heap[o]
                            ELSE IF o \in InFinally THEN "lost" ELSE "freed"]
    BY <1>8 DEF Collect
  <2>2. heap' = [o \in DOMAIN heap |-> heap'[o]]
    BY <2>1, Zenon
  <2>3. heap \in Seq({"object", "fault", "freed", "lost"})
    BY <1>0 DEF Types
  <2>4. \A o \in DOMAIN heap : heap'[o] \in {"object", "fault", "freed", "lost"}
    BY <2>1, <2>3
  <2>5. heap' \in Seq({"object", "fault", "freed", "lost"})
    BY <2>2, <2>3, <2>4, SameDomain
  <2>6. QED
    BY <1>0, <1>8, <2>5 DEF Collect, Types, raising
<1>9. CASE Land
  <2>1. stack' = [stack EXCEPT ![Len(stack)] = addLandingPad(Code[Top.method].pads[registers.ip])]
    BY <1>9 DEF Land
  <2>2. stack' \in Seq(FrameType) /\ Len(stack') = Len(stack)
    <3>1. status = "landing"
      BY <1>9 DEF Land
    <3>2. addLandingPad(Code[Top.method].pads[registers.ip]) \in FrameType
      BY <1>0, <3>1, LandedFrame, Zenon
    <3>3. QED
      BY <1>0, <2>1, <3>2, LastFrame
  <2>3. QED
    BY <1>0, <1>9, <2>2 DEF Land, Types, Statuses, Kept, memory, raising
<1>10. CASE Match
  <2>1. stack' = [stack EXCEPT ![Len(stack)] = [Top EXCEPT !.doing = "catch"]]
    BY <1>0, <1>10 DEF Match
  <2>2. [Top EXCEPT !.doing = "catch"] \in FrameType
    BY <1>0 DEF FrameType
  <2>3. stack' \in Seq(FrameType) /\ Len(stack') = Len(stack)
    BY <1>0, <2>1, <2>2, LastFrame
  <2>4. QED
    BY <1>0, <1>10, <2>3 DEF Match, Types, Statuses, Kept, memory, raising
<1>11. CASE EndCatch
  <2>1. stack' = [stack EXCEPT ![Len(stack)] = Frame(Top.method)]
    BY <1>0, <1>11 DEF EndCatch
  <2>2. Frame(Top.method) \in FrameType
    BY <1>0 DEF FrameType, Frame
  <2>3. stack' \in Seq(FrameType) /\ Len(stack') = Len(stack)
    BY <1>0, <2>1, <2>2, LastFrame
  <2>4. QED
    BY <1>0, <1>11, <2>3 DEF EndCatch, Types, Kept, memory, raising
<1>12. CASE Search \/ uncaughtException \/ Terminated \/ UNCHANGED vars
  <2>1. UNCHANGED <<stack, heap, wrappers, current>>
    BY <1>12 DEF Search, uncaughtException, Terminated, vars, Kept, memory, raising
  <2>2. status' = status \/ status' \in {"cleanup", "returned", "search", "uncaught"}
    BY <1>12 DEF Search, uncaughtException, Terminated, vars
  <2>3. QED
    BY <1>0, <2>1, <2>2 DEF Types, Statuses, Ended
<1>13. QED
  BY <1>2, <1>3, <1>4, <1>5, <1>6, <1>7, <1>8, <1>9, <1>10, <1>11, <1>12 DEF Next

\* A reference stays good while wrappers and objects are only added.
LEMMA Growth ==
    ASSUME NEW ws \in Seq(WrapperType), NEW objects \in Seq({"object", "fault", "freed", "lost"}),
           \A w \in DOMAIN ws : ws[w].l_exception <= Len(objects),
           NEW x \in WrapperType, NEW c,
           NEW ws2 \in {ws, Append(ws, x)}, NEW objects2 \in {objects, Append(objects, c)}
    PROVE  /\ \A w \in DOMAIN ws : Live(w, ws, objects) => Live(w, ws2, objects2)
           /\ \A fr \in FrameType : FrameRefs(fr, ws, objects) => FrameRefs(fr, ws2, objects2)
<1>1. /\ Len(ws) \in Nat /\ DOMAIN ws = 1..Len(ws)
      /\ \A w \in DOMAIN ws : ws[w] \in WrapperType
      /\ Len(ws2) >= Len(ws) /\ \A w \in DOMAIN ws : ws2[w] = ws[w]
  <2>1. CASE ws2 = ws
    BY <2>1
  <2>2. CASE ws2 = Append(ws, x)
    BY <2>2
  <2>3. QED
    BY <2>1, <2>2
<1>2. /\ Len(objects) \in Nat /\ Len(objects2) \in Nat
      /\ Len(objects2) >= Len(objects) /\ \A o \in 1..Len(objects) : objects2[o] = objects[o]
  <2>1. CASE objects2 = objects
    BY <2>1
  <2>2. CASE objects2 = Append(objects, c)
    BY <2>2
  <2>3. QED
    BY <2>1, <2>2
<1>3. Len(ws2) \in Nat
  <2>1. CASE ws2 = ws
    BY <2>1
  <2>2. CASE ws2 = Append(ws, x)
    BY <2>2
  <2>3. QED
    BY <2>1, <2>2
<1>4. ASSUME NEW w \in DOMAIN ws, Live(w, ws, objects) PROVE Live(w, ws2, objects2)
  <2>1. ws[w].l_exception \in 0..Len(objects) /\ ws2[w] = ws[w]
    BY <1>1, <1>2 DEF WrapperType
  <2>2. QED
    BY <1>2, <1>4, <2>1 DEF Live, Foreign
<1>5. ASSUME NEW fr \in FrameType, FrameRefs(fr, ws, objects)
      PROVE  FrameRefs(fr, ws2, objects2)
  <2>1. /\ fr.unwind \in Nat /\ fr.object \in Nat
        /\ fr.unwind <= Len(ws) /\ fr.object <= Len(objects)
    BY <1>5 DEF FrameType, FrameRefs
  <2>2. fr.doing # "body" => fr.unwind # 0 /\ Live(fr.unwind, ws, objects)
    BY <1>5 DEF FrameRefs
  <2>3. fr.unwind # 0 => fr.unwind \in DOMAIN ws
    BY <1>1, <2>1
  <2>4. fr.doing # "body" => fr.unwind # 0 /\ Live(fr.unwind, ws2, objects2)
    BY <1>4, <2>2, <2>3
  <2>5. fr.doing \in {"match", "catch"} => fr.object = ws2[fr.unwind].l_exception
    <3>1. fr.doing \in {"match", "catch"} => fr.object = ws[fr.unwind].l_exception
      BY <1>5 DEF FrameRefs
    <3>2. fr.doing \in {"match", "catch"} => fr.unwind \in DOMAIN ws
      BY <2>2, <2>3
    <3>3. QED
      BY <1>1, <3>1, <3>2
  <2>6. QED
    BY <1>1, <1>2, <1>3, <2>1, <2>4, <2>5 DEF FrameRefs
<1>6. QED
  BY <1>4, <1>5

\* Every frame a step leaves on the stack refers to what there was before it.
LEMMA FramesOld ==
    ASSUME WayInv, PhaseInv, [Next]_vars
    PROVE  \A i \in DOMAIN stack' : FrameRefs(stack'[i], wrappers, heap)
<1> DEFINE Good(fr) == FrameRefs(fr, wrappers, heap)
<1>0. /\ Types /\ Top \in FrameType /\ Top = stack[Len(stack)]
      /\ \A i \in DOMAIN stack : Good(stack[i])
      /\ DOMAIN stack = 1..Len(stack) /\ Len(stack) \in Nat /\ Len(stack) >= 1
  BY TopFrame DEF WayInv, References, Types
<1>1. Good(Top) /\ Types'
  BY <1>0, TypesStep
<1>2. ASSUME NEW t \in Seq(FrameType), Len(t) = Len(stack), Good(t[Len(stack)]),
             \A i \in 1..(Len(stack) - 1) : t[i] = stack[i]
      PROVE  \A i \in DOMAIN t : Good(t[i])
  <2>1. \A i \in DOMAIN t : i = Len(stack) \/ i \in 1..(Len(stack) - 1)
    BY <1>0, <1>2
  <2> HIDE DEF Good
  <2>2. QED
    BY <1>0, <1>2, <2>1
<1>3. ASSUME NEW k \in Points(Top) PROVE \A i \in DOMAIN At(k) : Good(At(k)[i])
  <2>1. Good(Moved(k))
    BY <1>0, <1>1, MovedFrame DEF FrameRefs
  <2> HIDE DEF Good
  <2>2. QED
    BY <1>0, <1>2, <2>1, AtFrames
<1>4. ASSUME NEW m PROVE Good(Frame(m))
  <2>1. Len(wrappers) >= 0 /\ Len(heap) >= 0
    BY <1>0 DEF Types
  <2>2. QED
    BY <2>1 DEF FrameRefs, Frame
<1>5. CASE Call
  <2>1. PICK k \in Calls(Top), m \in Methods : stack' = Append(At(k), Frame(m))
    BY <1>5 DEF Call
  <2>2. At(k) \in Seq(FrameType)
    BY <1>0, <2>1, AtFrames DEF Calls
  <2>3. \A i \in DOMAIN At(k) : Good(At(k)[i])
    BY <1>3, <2>1 DEF Calls
  <2> HIDE DEF Good
  <2>4. \A i \in DOMAIN stack' : stack'[i] = Frame(m) \/ (i \in DOMAIN At(k) /\ stack'[i] = At(k)[i])
    <3>1. Frame(m) \in FrameType
      BY DEF Frame, FrameType
    <3>2. DOMAIN At(k) = 1..Len(At(k))
      BY <2>2
    <3>3. QED
      BY <2>1, <2>2, <3>1, <3>2, AppendOf
  <2>5. \A i \in DOMAIN stack' : Good(stack'[i])
    BY <1>4, <2>3, <2>4
  <2>6. QED
    BY <2>5 DEF Good
<1>6. CASE Return \/ Cleanup
  <2>1. stack' = stack \/ stack' = Front(stack)
    BY <1>6 DEF Return, Cleanup
  <2>2. /\ Front(stack) \in Seq(FrameType) /\ Len(Front(stack)) = Len(stack) - 1
        /\ \A i \in 1..(Len(stack) - 1) : Front(stack)[i] = stack[i]
    BY <1>0, FrontOf DEF Types
  <2>3. \A i \in DOMAIN Front(stack) : i \in DOMAIN stack /\ Front(stack)[i] = stack[i]
    BY <1>0, <2>2
  <2>4. QED
    BY <1>0, <2>1, <2>3
<1>7. CASE ThrowNew \/ ThrowCaught \/ ThrowForeign \/ Rethrow
  <2>1. PICK k \in Calls(Top) :
           Raise(At(k), IF Rethrow THEN Top.unwind ELSE Len(wrappers) + 1, FALSE)
    BY <1>0, <1>7, RaisedFrames
  <2>2. QED
    BY <1>3, <2>1 DEF Raise, Calls
<1>8. CASE Fault
  <2>1. PICK k \in Points(Top) : stack' = At(k)
    BY <1>8 DEF Fault
  <2>2. QED
    BY <1>3, <2>1
<1>9. CASE Land
  <2> DEFINE kind == Code[Top.method].pads[registers.ip]
  <2>1. stack' = [stack EXCEPT ![Len(stack)] = addLandingPad(kind)]
    BY <1>9 DEF Land
  <2>2. /\ addLandingPad(kind) \in FrameType /\ current \in DOMAIN wrappers
        /\ kind \in {"match", "finally"}
        /\ addLandingPad(kind).doing = kind
        /\ addLandingPad(kind).unwind = current
        /\ addLandingPad(kind).object =
              IF kind = "match" THEN wrappers[current].l_exception ELSE 0
    BY <1>9, LandedFrame DEF Land
  <2> HIDE DEF kind
  <2>3. current # 0 /\ current <= Len(wrappers) /\ Live(current, wrappers, heap)
    BY <1>9, <2>2 DEF Land, WayInv, Types, References, Raising
  <2>4. wrappers[current].l_exception <= Len(heap) /\ 0 <= Len(heap)
    BY <2>2 DEF WayInv, References, Types
  <2>5. Good(addLandingPad(kind))
    BY <2>2, <2>3, <2>4 DEF FrameRefs
  <2> HIDE DEF Good
  <2>6. \A i \in DOMAIN stack' : Good(stack'[i])
    BY <1>0, <1>2, <2>1, <2>2, <2>5, LastFrame
  <2>7. QED
    BY <2>6 DEF Good
<1>10. CASE Match
  <2> DEFINE f == [Top EXCEPT !.doing = "catch"]
  <2>1. stack' = [stack EXCEPT ![Len(stack)] = f] /\ Top.doing = "match"
    BY <1>0, <1>10 DEF Match
  <2>2. /\ f \in FrameType /\ f.doing = "catch" /\ f.unwind = Top.unwind
        /\ f.object = Top.object
    BY <1>0 DEF FrameType
  <2> HIDE DEF f
  <2>3. Good(f)
    BY <1>1, <2>1, <2>2 DEF FrameRefs
  <2> HIDE DEF Good
  <2>4. \A i \in DOMAIN stack' : Good(stack'[i])
    BY <1>0, <1>2, <2>1, <2>2, <2>3, LastFrame
  <2>5. QED
    BY <2>4 DEF Good
<1>11. CASE EndCatch
  <2>1. stack' = [stack EXCEPT ![Len(stack)] = Frame(Top.method)]
    BY <1>0, <1>11 DEF EndCatch
  <2>2. Frame(Top.method) \in FrameType
    BY <1>0 DEF FrameType, Frame
  <2> HIDE DEF Good
  <2>3. \A i \in DOMAIN stack' : Good(stack'[i])
    BY <1>0, <1>2, <1>4, <2>1, <2>2, LastFrame
  <2>4. QED
    BY <2>3 DEF Good
<1>12. CASE \/ FaultInHandler \/ throwME \/ Collect \/ Search \/ uncaughtException
            \/ Terminated \/ UNCHANGED vars
  <2>1. stack' = stack
    BY <1>12 DEF FaultInHandler, throwME, Raise, Collect, Search, uncaughtException,
       Terminated, vars
  <2>2. QED
    BY <1>0, <2>1
<1>13. QED
  BY <1>5, <1>6, <1>7, <1>8, <1>9, <1>10, <1>11, <1>12 DEF Next

LEMMA ReferencesStep == WayInv /\ PhaseInv /\ [Next]_vars => References'
<1> SUFFICES ASSUME WayInv, PhaseInv, [Next]_vars PROVE References'
  OBVIOUS
<1>0. /\ wrappers \in Seq(WrapperType) /\ heap \in Seq({"object", "fault", "freed", "lost"})
      /\ stack \in Seq(FrameType) /\ stack' \in Seq(FrameType)
      /\ \A w \in DOMAIN wrappers : wrappers[w].l_exception <= Len(heap)
      /\ Len(heap) \in Nat /\ Len(wrappers) \in Nat /\ DOMAIN wrappers = 1..Len(wrappers)
  BY TypesStep DEF WayInv, Types, References
<1>1. \A i \in DOMAIN stack' : FrameRefs(stack'[i], wrappers, heap) /\ stack'[i] \in FrameType
  BY <1>0, FramesOld
<1>2. FrameRefs(Top, wrappers, heap) /\ Top \in FrameType
  BY <1>0, TopFrame DEF WayInv, References, Types
<1>3. ASSUME UNCHANGED <<heap, wrappers>>,
             status' \in Raising => current' # 0 /\ Live(current', wrappers, heap),
             status' = "landing" => registers'.gr0 = current'
      PROVE  References'
  BY <1>0, <1>1, <1>3 DEF References
\* An exception is wrapped.
<1>4. ASSUME NEW c \in {"object", "fault"}, NEW x \in WrapperType,
             heap' \in {heap, Append(heap, c)}, wrappers' = Append(wrappers, x),
             x.l_exception <= Len(heap'),
             x.l_exception # Foreign => heap'[x.l_exception] # "freed",
             status' = "search", current' = Len(wrappers) + 1
      PROVE  References'
  <2>1. /\ Len(wrappers') = Len(wrappers) + 1 /\ wrappers'[Len(wrappers) + 1] = x
        /\ \A w \in DOMAIN wrappers : wrappers'[w] = wrappers[w]
        /\ DOMAIN wrappers' = DOMAIN wrappers \cup {Len(wrappers) + 1}
    BY <1>0, <1>4, AppendOf
  <2>2. Len(heap') >= Len(heap) /\ Len(heap') \in Nat
    BY <1>0, <1>4
  <2>3. \A w \in DOMAIN wrappers' : wrappers'[w].l_exception <= Len(heap')
    <3>1. \A w \in DOMAIN wrappers : wrappers[w].l_exception \in Nat
      <4>1. \A w \in DOMAIN wrappers : wrappers[w] \in WrapperType
        BY <1>0
      <4>2. QED
        BY <4>1 DEF WrapperType
    <3>2. \A w \in DOMAIN wrappers : wrappers'[w].l_exception <= Len(heap')
      BY <1>0, <2>1, <2>2, <3>1
    <3>3. QED
      BY <1>4, <2>1, <3>2
  <2>4. \A i \in DOMAIN stack' : FrameRefs(stack'[i], wrappers', heap')
    BY <1>0, <1>1, <1>4, Growth
  <2>5. Live(current', wrappers', heap') /\ current' # 0
    BY <1>0, <1>4, <2>1 DEF Live
  <2>6. QED
    BY <1>4, <2>3, <2>4, <2>5 DEF References, Raising
<1>5. CASE ThrowNew \/ throwME
  <2>1. PICK c \in {"object", "fault"} : heap' = Append(heap, c)
    BY <1>5 DEF ThrowNew, throwME, __alloc_object, __alloc_object_finalize
  <2> DEFINE x == [class |-> "L", l_exception |-> Len(heap) + 1]
  <2>2. /\ wrappers' = Append(wrappers, x)
        /\ status' = "search" /\ current' = Len(wrappers) + 1
    BY <1>5 DEF ThrowNew, throwME, makeException, Raise
  <2>3. x \in WrapperType /\ x.l_exception = Len(heap) + 1
    BY <1>0 DEF WrapperType
  <2> HIDE DEF x
  <2>4. Len(heap') = Len(heap) + 1 /\ heap'[Len(heap) + 1] = c
    BY <1>0, <2>1
  <2>5. QED
    BY <1>4, <2>1, <2>2, <2>3, <2>4
<1>6. CASE ThrowCaught
  <2> DEFINE x == [class |-> "L", l_exception |-> Top.object]
  <2>1. /\ wrappers' = Append(wrappers, x) /\ heap' = heap /\ Top.doing = "catch"
        /\ status' = "search" /\ current' = Len(wrappers) + 1
    BY <1>6 DEF ThrowCaught, makeException, Raise
  <2>2. x \in WrapperType /\ x.l_exception = Top.object
    BY <1>2 DEF WrapperType, FrameType
  <2> HIDE DEF x
  <2>3. Top.object <= Len(heap) /\ (Top.object # Foreign => heap[Top.object] # "freed")
    BY <1>2, <2>1 DEF FrameRefs, Live
  <2>4. QED
    BY <1>4, <2>1, <2>2, <2>3
<1>7. CASE ThrowForeign
  <2> DEFINE x == [class |-> "foreign", l_exception |-> Foreign]
  <2>1. /\ wrappers' = Append(wrappers, x) /\ heap' = heap
        /\ status' = "search" /\ current' = Len(wrappers) + 1
    BY <1>7 DEF ThrowForeign, Raise
  <2>2. x \in WrapperType /\ x.l_exception = Foreign /\ Foreign <= Len(heap)
    BY <1>0 DEF WrapperType, Foreign
  <2> HIDE DEF x
  <2>3. QED
    BY <1>4, <2>1, <2>2
<1>8. CASE Rethrow
  <2>1. UNCHANGED <<heap, wrappers>> /\ status' = "search" /\ current' = Top.unwind
    BY <1>8 DEF Rethrow, Raise, memory
  <2>2. Top.doing # "body"
    BY <1>8 DEF Rethrow
  <2>3. Top.unwind # 0 /\ Live(Top.unwind, wrappers, heap)
    BY <1>2, <2>2 DEF FrameRefs
  <2>4. QED
    BY <1>3, <2>1, <2>3
<1>9. CASE Collect
  <2>1. PICK S \in SUBSET {o \in DOMAIN heap \ Reachable : heap[o] \in {"object", "fault"}} :
          heap' = [o \in DOMAIN heap |->
                         IF o \notin S THEN heap[o]
                         ELSE IF o \in InFinally THEN "lost" ELSE "freed"]
    BY <1>9 DEF Collect
  <2>2. UNCHANGED <<stack, status, wrappers, current, registers>>
    BY <1>9 DEF Collect, raising
  <2>3. status \notin Raising
    BY <1>9 DEF Collect, Running, Raising
  <2>4. Len(heap') = Len(heap)
    <3>1. heap' \in Seq({"object", "fault", "freed", "lost"})
      BY TypesStep DEF Types
    <3>2. DOMAIN heap' = DOMAIN heap
      BY <2>1
    <3>3. QED
      BY <1>0, <3>1, <3>2
  <2>5. ASSUME NEW i \in DOMAIN stack PROVE FrameRefs(stack[i], wrappers, heap')
    <3> DEFINE fr == stack[i]
               o == wrappers[fr.unwind].l_exception
    <3>1. fr \in FrameType /\ FrameRefs(fr, wrappers, heap)
      BY <1>0 DEF WayInv, References
    <3>2. fr.doing # "body" => o \in 0..Len(heap)
      <4>1. fr.doing # "body" => fr.unwind \in DOMAIN wrappers
        BY <1>0, <3>1 DEF FrameRefs, FrameType
      <4>2. \A w \in DOMAIN wrappers : wrappers[w] \in WrapperType
        BY <1>0
      <4>3. \A w \in DOMAIN wrappers : wrappers[w].l_exception \in 0..Len(heap)
        BY <1>0, <4>2 DEF WrapperType
      <4>4. QED
        BY <4>1, <4>3
    <3>3. fr.doing \in {"match", "catch"} => o \notin S
      <4>1. fr.doing \in {"match", "catch"} => fr.object \in Reachable
        BY DEF Reachable, Range
      <4>2. QED
        BY <2>1, <3>1, <4>1 DEF FrameRefs
    <3>4. fr.doing = "finally" => o \in InFinally
      BY DEF InFinally, Range
    <3>5. fr.doing # "body" /\ o # Foreign /\ heap[o] # "freed" => heap'[o] # "freed"
      <4>1. fr.doing \in {"body", "match", "catch", "finally"}
        BY <3>1 DEF FrameType
      <4>2. o # Foreign /\ o \in 0..Len(heap) => o \in DOMAIN heap
        BY <1>0 DEF Foreign
      <4> HIDE DEF fr, o
      <4>3. o \in DOMAIN heap /\ o \notin S => heap'[o] = heap[o]
        BY <2>1
      <4>4. o \in DOMAIN heap /\ o \in InFinally => heap'[o] \in {heap[o], "lost"}
        BY <2>1
      <4>5. QED
        BY <3>2, <3>3, <3>4, <4>1, <4>2, <4>3, <4>4
    <3>6. QED
      BY <2>4, <3>1, <3>5 DEF FrameRefs, Live
  <2>6. QED
    BY <1>0, <2>2, <2>3, <2>4, <2>5 DEF References, Raising
<1>10. CASE Search
  <2>1. /\ UNCHANGED <<heap, wrappers, current>> /\ status = "search"
        /\ status' \in {"search", "cleanup", "returned"}
    BY <1>10 DEF Search, Kept, memory
  <2>2. current # 0 /\ Live(current, wrappers, heap)
    BY <2>1 DEF WayInv, References, Raising
  <2>3. QED
    BY <1>3, <2>1, <2>2 DEF Raising
<1>11. CASE Cleanup
  <2>1. /\ UNCHANGED <<heap, wrappers, current>> /\ status = "cleanup"
    BY <1>11 DEF Cleanup, Kept, memory
  <2>2. current # 0 /\ Live(current, wrappers, heap)
    BY <2>1 DEF WayInv, References, Raising
  <2>3. status' = "landing" => registers' = __l_personality(Top, FALSE).registers
                                /\ __l_personality(Top, FALSE).code = "install context"
    BY <1>11 DEF Cleanup
  <2>4. status' = "landing" => registers'.gr0 = current
    BY <2>3 DEF __l_personality, handleLsda
  <2>5. QED
    BY <1>3, <2>1, <2>2, <2>4
<1>12. CASE \/ Call \/ Return \/ Fault \/ FaultInHandler \/ Land \/ Match \/ EndCatch
            \/ uncaughtException
  <2>1. UNCHANGED <<heap, wrappers>>
    BY <1>12 DEF Call, Return, Fault, FaultInHandler, Land, Match, EndCatch,
       uncaughtException, Kept, memory
  <2>2. status' \notin Raising
    BY <1>12 DEF Call, Return, Fault, FaultInHandler, Land, Match, EndCatch,
       uncaughtException, CanThrow, Running, __segv_handler, Raising
  <2>3. QED
    BY <1>3, <2>1, <2>2 DEF Raising
<1>13. CASE Terminated \/ UNCHANGED vars
  <2>1. UNCHANGED <<heap, wrappers, status, current, registers>>
    BY <1>13 DEF Terminated, vars, memory, raising
  <2>2. QED
    BY <1>3, <2>1 DEF WayInv, References
<1>14. QED
  BY <1>5, <1>6, <1>7, <1>8, <1>9, <1>10, <1>11, <1>12, <1>13 DEF Next

LEMMA TablesStay == [Next]_vars => lsda' = lsda
  BY DEF Next, vars, Call, Return, ThrowNew, ThrowCaught, ThrowForeign, Raise, Fault,
     FaultInHandler, throwME, Collect, Search, Cleanup, Land, Match, Rethrow, EndCatch,
     uncaughtException, Terminated, Kept

LEMMA PlacesStep == WayInv /\ PhaseInv /\ [Next]_vars => Places'
<1> SUFFICES ASSUME WayInv, PhaseInv, [Next]_vars PROVE Places'
  OBVIOUS
<1>0. /\ Types /\ Types' /\ Top \in FrameType /\ Top = stack[Len(stack)]
      /\ stack \in Seq(FrameType) /\ Len(stack) \in Nat /\ Len(stack) >= 1
      /\ DOMAIN stack = 1..Len(stack)
      /\ stack[1].method = EntryPoint
      /\ \A i \in 1..(Len(stack) - 1) : AtCall(stack[i])
  BY TopFrame, TypesStep DEF WayInv, Types, Places
<1>1. \E e \in Encodings : \A m \in Methods : lsda'[m] = Area[m][e]
  BY TablesStay DEF WayInv, Places
\* A step that leaves the frames below the last alone.
<1>2. ASSUME Len(stack') = Len(stack), stack'[Len(stack)].method = Top.method,
             \A i \in 1..(Len(stack) - 1) : stack'[i] = stack[i],
             status' \in Raising \cup {"handler"} => AtPoint(stack'[Len(stack)]),
             status' \in Raising /\ Len(stack) # direct' => AtCall(stack'[Len(stack)]),
             status' = "search" => direct' \in {0, Len(stack)}
      PROVE  Places'
  <2>1. stack'[1].method = EntryPoint
    BY <1>0, <1>2
  <2>2. \A i \in 1..(Len(stack') - 1) : AtCall(stack'[i])
    BY <1>0, <1>2
  <2>3. Top' = stack'[Len(stack)]
    BY <1>2 DEF Top, Last
  <2>4. QED
    BY <1>1, <1>2, <2>1, <2>2, <2>3 DEF Places
<1>3. CASE Call
  <2>1. PICK k \in Calls(Top), m \in Methods : stack' = Append(At(k), Frame(m))
    BY <1>3 DEF Call
  <2>2. k \in Points(Top)
    BY <2>1 DEF Calls
  <2>3. /\ At(k) \in Seq(FrameType) /\ Len(At(k)) = Len(stack)
        /\ At(k)[Len(stack)] = Moved(k)
        /\ \A i \in 1..(Len(stack) - 1) : At(k)[i] = stack[i]
    BY <1>0, <2>2, AtFrames
  <2>4. AtCall(Moved(k)) /\ Moved(k).method = Top.method
    BY <1>0, <2>1, <2>2, MovedFrame
  <2>5. Frame(m) \in FrameType
    BY DEF Frame, FrameType
  <2>6. Len(stack') = Len(stack) + 1 /\ \A i \in 1..Len(stack) : stack'[i] = At(k)[i]
    BY <2>1, <2>3, <2>5, AppendOf
  <2>7. \A i \in 1..Len(stack) : AtCall(stack'[i])
    BY <1>0, <2>3, <2>4, <2>6
  <2>8. stack'[1].method = EntryPoint
    <3>1. CASE Len(stack) = 1
      BY <1>0, <2>3, <2>4, <2>6, <3>1
    <3>2. CASE Len(stack) > 1
      BY <1>0, <2>3, <2>6, <3>2
    <3>3. QED
      BY <1>0, <3>1, <3>2
  <2>9. status' = "running"
    BY <1>3 DEF Call, Running
  <2>10. QED
    BY <1>0, <1>1, <2>6, <2>7, <2>8, <2>9 DEF Places, Raising
<1>4. CASE Return \/ Cleanup
  <2>1. stack' = stack \/ (stack' = Front(stack) /\ Len(stack) > 1)
    <3>1. CASE Return
      BY <1>0, <3>1 DEF Return
    <3>2. CASE Cleanup
      <4>1. handler \in 1..Len(stack)
        BY <3>2 DEF Cleanup, PhaseInv
      <4>2. QED
        <5>1. stack' = stack \/ (Len(stack) # handler /\ stack' = Front(stack))
          BY <3>2 DEF Cleanup
        <5>2. Len(stack) # handler => Len(stack) > 1
          <6>1. Len(stack) \in Nat /\ Len(stack) >= 1
            BY <1>0
          <6> HIDE DEF WayInv, PhaseInv
          <6>2. QED
            BY <4>1, <6>1
        <5>3. QED
          BY <5>1, <5>2
    <3>3. QED
      BY <1>4, <3>1, <3>2
  <2>2. direct' = direct
    BY <1>4 DEF Return, Cleanup, raising
  <2>3. Return => status' \notin Raising \cup {"handler"}
    BY DEF Return, Running, Raising
  <2>4. Cleanup => status = "cleanup" /\ status' \in {"cleanup", "landing", "fatal"}
    BY DEF Cleanup
  <2>5. CASE stack' = stack
    <3>1. Cleanup => AtPoint(Top) /\ (Len(stack) # direct => AtCall(Top))
      BY <2>4 DEF WayInv, Places, Raising
    <3>2. QED
      BY <1>0, <1>2, <1>4, <2>2, <2>3, <2>4, <2>5, <3>1 DEF Raising
  <2>6. CASE stack' = Front(stack) /\ Len(stack) > 1
    <3>1. /\ Len(stack') = Len(stack) - 1
          /\ \A i \in 1..(Len(stack) - 1) : stack'[i] = stack[i]
      BY <1>0, <2>6, FrontOf
    <3>2. /\ stack'[1].method = EntryPoint
          /\ \A i \in 1..(Len(stack') - 1) : AtCall(stack'[i])
      BY <1>0, <2>6, <3>1
    <3>3. AtCall(Top') /\ AtPoint(Top')
      BY <1>0, <2>6, <3>1 DEF Top, Last, AtCall
    <3>4. status' # "search"
      BY <1>4, <2>3, <2>4 DEF Raising
    <3>5. QED
      BY <1>1, <3>2, <3>3, <3>4 DEF Places
  <2>7. QED
    BY <2>1, <2>5, <2>6
<1>5. CASE ThrowNew \/ ThrowCaught \/ ThrowForeign \/ Rethrow
  <2>1. PICK k \in Calls(Top) :
           Raise(At(k), IF Rethrow THEN Top.unwind ELSE Len(wrappers) + 1, FALSE)
    BY <1>0, <1>5, RaisedFrames
  <2>2. stack' = At(k) /\ status' = "search" /\ direct' = 0 /\ k \in Points(Top)
    BY <2>1 DEF Raise, Calls
  <2>3. /\ Len(stack') = Len(stack) /\ stack'[Len(stack)] = Moved(k)
        /\ \A i \in 1..(Len(stack) - 1) : stack'[i] = stack[i]
    BY <1>0, <2>2, AtFrames
  <2>4. AtCall(Moved(k)) /\ AtPoint(Moved(k)) /\ Moved(k).method = Top.method
    BY <1>0, <2>1, <2>2, MovedFrame
  <2>5. QED
    BY <1>2, <2>2, <2>3, <2>4
<1>6. CASE Fault
  <2>1. PICK k \in Points(Top) : stack' = At(k)
    BY <1>6 DEF Fault
  <2>2. /\ Len(stack') = Len(stack) /\ stack'[Len(stack)] = Moved(k)
        /\ \A i \in 1..(Len(stack) - 1) : stack'[i] = stack[i]
    BY <1>0, <2>1, AtFrames
  <2>3. AtPoint(Moved(k)) /\ Moved(k).method = Top.method
    BY <1>0, MovedFrame
  <2>4. status' \notin Raising
    BY <1>6 DEF Fault, __segv_handler, Raising
  <2>5. QED
    BY <1>2, <2>2, <2>3, <2>4 DEF Raising
<1>7. CASE FaultInHandler
  <2>1. stack' = stack /\ status = "handler" /\ status' \notin Raising
    BY <1>7 DEF FaultInHandler, __segv_handler, Raising
  <2>2. AtPoint(Top)
    BY <2>1 DEF WayInv, Places
  <2>3. QED
    BY <1>0, <1>2, <2>1, <2>2 DEF Raising
<1>8. CASE throwME
  <2>1. /\ stack' = stack /\ status = "handler" /\ status' = "search"
        /\ direct' = IF PointOf(Top).kind # "call" THEN Len(stack) ELSE 0
    BY <1>8 DEF throwME, Raise
  <2>2. AtPoint(Top)
    BY <2>1 DEF WayInv, Places
  <2>3. Len(stack) # direct' => AtCall(Top)
    BY <2>1, <2>2 DEF AtCall
  <2>4. QED
    BY <1>0, <1>2, <2>1, <2>2, <2>3
<1>9. CASE Collect \/ Search \/ uncaughtException \/ Terminated \/ UNCHANGED vars
  <2>1. stack' = stack /\ direct' = direct
    BY <1>9 DEF Collect, Search, uncaughtException, Terminated, vars, raising
  <2>2. \/ status' = status
        \/ status = "search" /\ status' \in {"cleanup", "returned"}
        \/ status' = "uncaught"
    BY <1>9 DEF Collect, Search, uncaughtException, Terminated, vars
  <2>3. /\ status \in Raising \cup {"handler"} => AtPoint(Top)
        /\ status \in Raising /\ Len(stack) # direct => AtCall(Top)
        /\ status = "search" => direct \in {0, Len(stack)}
    BY DEF WayInv, Places
  <2>4. QED
    BY <1>0, <1>2, <2>1, <2>2, <2>3 DEF Raising
<1>10. CASE Land \/ Match \/ EndCatch
  <2>1. PICK x \in FrameType : x.method = Top.method /\ stack' = [stack EXCEPT ![Len(stack)] = x]
    <3>1. CASE Land
      BY <3>1, LandedFrame DEF Land
    <3>2. CASE Match
      <4>1. stack' = [stack EXCEPT ![Len(stack)] = [Top EXCEPT !.doing = "catch"]]
        BY <1>0, <3>2 DEF Match
      <4>2. /\ [Top EXCEPT !.doing = "catch"] \in FrameType
            /\ [Top EXCEPT !.doing = "catch"].method = Top.method
        BY <1>0 DEF FrameType
      <4>3. QED
        BY <4>1, <4>2
    <3>3. CASE EndCatch
      <4>1. stack' = [stack EXCEPT ![Len(stack)] = Frame(Top.method)]
        BY <1>0, <3>3 DEF EndCatch
      <4>2. Frame(Top.method) \in FrameType /\ Frame(Top.method).method = Top.method
        BY <1>0 DEF FrameType, Frame
      <4>3. QED
        BY <4>1, <4>2
    <3>4. QED
      BY <1>10, <3>1, <3>2, <3>3
  <2>2. /\ Len(stack') = Len(stack) /\ stack'[Len(stack)] = x
        /\ \A i \in 1..(Len(stack) - 1) : stack'[i] = stack[i]
    BY <1>0, <2>1, LastFrame
  <2>3. status' = "running"
    BY <1>10 DEF Land, Match, EndCatch, Running
  <2>4. QED
    BY <1>2, <2>1, <2>2, <2>3 DEF Raising
<1>11. QED
  BY <1>3, <1>4, <1>5, <1>6, <1>7, <1>8, <1>9, <1>10 DEF Next

\* The last frame with a try statement around its call is the innermost.
LEMMA InnermostIs ==
    ASSUME NEW frames \in Seq(FrameType), NEW h \in 1..Len(frames),
           PointOf(frames[h]).pad # 0,
           \A j \in (h + 1)..Len(frames) : PointOf(frames[j]).pad = 0
    PROVE  Innermost(frames) = [frame |-> h, pad |-> PointOf(frames[h]).pad]
<1> DEFINE inTry == {i \in DOMAIN frames : PointOf(frames[i]).pad # 0}
           last == CHOOSE i \in inTry : \A j \in inTry : j <= i
<1>1. Len(frames) \in Nat /\ DOMAIN frames = 1..Len(frames)
  OBVIOUS
<1>2. h \in inTry /\ \A j \in inTry : j <= h /\ j \in Nat
  BY <1>1
<1>3. last \in inTry /\ \A j \in inTry : j <= last
  BY <1>2
<1>4. last = h
  <2> HIDE DEF last, inTry
  <2>1. h <= last /\ last <= h /\ last \in Nat /\ h \in Nat
    BY <1>2, <1>3
  <2>2. QED
    BY <2>1
<1>5. QED
  BY <1>2, <1>4, Zenon DEF Innermost

LEMMA ArrivalStep == WayInv /\ PhaseInv /\ [Next]_vars => Arrival'
<1> SUFFICES ASSUME WayInv, PhaseInv, [Next]_vars PROVE Arrival'
  OBVIOUS
<1>0. /\ Types /\ Places /\ Top = stack[Len(stack)] /\ stack \in Seq(FrameType)
      /\ Len(stack) \in Nat /\ Len(stack) >= 1 /\ DOMAIN stack = 1..Len(stack)
  BY TopFrame DEF WayInv, Types
<1>00. Len(stack) \in Nat /\ Len(stack) >= 1
  BY <1>0
<1>1. ASSUME status' \notin Raising \cup {"returned"} PROVE Arrival'
  BY <1>1 DEF Arrival, ReturnsOnlyAtTop, Raising
\* What the tables say of the frames while an exception is raised.
<1>2. ASSUME status \in Raising, NEW i \in 1..Len(stack), i # direct
      PROVE  AtCall(stack[i]) /\ PadFor(stack[i]) = PointOf(stack[i]).pad
  <2>1. AtCall(stack[i])
    <3>1. CASE i = Len(stack)
      BY <1>0, <1>2, <3>1 DEF Places
    <3>2. CASE i # Len(stack)
      <4>1. i \in 1..(Len(stack) - 1)
        BY <1>00, <3>2
      <4>2. QED
        BY <1>0, <4>1 DEF Places
    <3>3. QED
      BY <3>1, <3>2
  <2>2. stack[i] \in FrameType /\ AtPoint(stack[i])
    BY <1>0, <2>1 DEF AtCall
  <2>3. QED
    BY <1>0, <2>1, <2>2, FrameReads
<1>3. CASE ThrowNew \/ ThrowCaught \/ ThrowForeign \/ Rethrow
  <2>1. PICK k \in Calls(Top) :
           Raise(At(k), IF Rethrow THEN Top.unwind ELSE Len(wrappers) + 1, FALSE)
    BY <1>0, <1>3, RaisedFrames
  <2>2. status' = "search" /\ direct' = 0 /\ innermost' = Innermost(stack')
    BY <2>1 DEF Raise
  <2>3. QED
    BY <2>2 DEF Arrival, ReturnsOnlyAtTop
<1>4. CASE throwME
  <2> DEFINE own == PointOf(Top).kind # "call"
  <2>1. /\ stack' = stack /\ status' = "search"
        /\ direct' = IF own THEN Len(stack) ELSE 0
        /\ innermost' = Innermost(IF own THEN Front(stack) ELSE stack)
    BY <1>4 DEF throwME, Raise
  <2>2. direct' = 0 <=> ~own
    BY <1>0, <2>1
  <2>3. innermost' = Innermost(IF direct' = 0 THEN stack' ELSE Front(stack'))
    <3> HIDE DEF own
    <3>1. CASE own
      BY <2>1, <2>2, <3>1, Zenon
    <3>2. CASE ~own
      BY <2>1, <2>2, <3>2, Zenon
    <3>3. QED
      BY <3>1, <3>2
  <2>4. QED
    BY <2>1, <2>3 DEF Arrival, ReturnsOnlyAtTop
<1>5. CASE Search
  <2>1. /\ status = "search" /\ cursor \in 1..Len(stack) /\ direct \in {0, Len(stack)}
        /\ \A j \in (cursor + 1)..Len(stack) : PadFor(stack[j]) = 0
        /\ innermost = Innermost(IF direct = 0 THEN stack ELSE Front(stack))
    BY <1>5 DEF Search, PhaseInv, WayInv, Places, Arrival
  <2>2. UNCHANGED <<stack, innermost, direct>>
    BY <1>5 DEF Search
  <2>3. __l_personality(stack[cursor], TRUE).code = "handler found"
           <=> PadFor(stack[cursor]) # 0
    BY DEF __l_personality, handleLsda
  <2>4. CASE PadFor(stack[cursor]) # 0
    <3>1. status' = "cleanup" /\ handler' = cursor
      BY <1>5, <2>3, <2>4 DEF Search
    <3>2. ASSUME cursor # direct
          PROVE  innermost = [frame |-> cursor, pad |-> PointOf(stack[cursor]).pad]
      <4>1. PointOf(stack[cursor]).pad # 0
        BY <1>2, <2>1, <2>4, <3>2 DEF Raising
      <4>2. \A j \in (cursor + 1)..Len(stack) : j # direct => PointOf(stack[j]).pad = 0
        <5>1. \A j \in (cursor + 1)..Len(stack) : j \in 1..Len(stack)
          <6>1. cursor \in 1..Len(stack)
            BY <2>1
          <6>2. QED
            BY <1>00, <6>1
        <5>2. \A j \in 1..Len(stack) : j # direct => PadFor(stack[j]) = PointOf(stack[j]).pad
          BY <1>2, <2>1 DEF Raising
        <5>3. QED
          BY <2>1, <5>1, <5>2
      <4>3. CASE direct = 0
        <5>1. \A j \in (cursor + 1)..Len(stack) : PointOf(stack[j]).pad = 0
          BY <2>1, <4>2, <4>3
        <5>2. QED
          BY <1>0, <2>1, <4>1, <4>3, <5>1, InnermostIs
      <4>4. CASE direct # 0
        <5>1. /\ Front(stack) \in Seq(FrameType) /\ Len(Front(stack)) = Len(stack) - 1
              /\ \A i \in 1..(Len(stack) - 1) : Front(stack)[i] = stack[i]
          BY <1>0, FrontOf
        <5>2. direct = Len(stack) /\ cursor \in 1..Len(Front(stack))
          <6>1. direct = Len(stack)
            BY <2>1, <4>4
          <6>2. cursor \in 1..Len(stack) /\ cursor # Len(stack) /\ Len(stack) \in Nat
            BY <1>0, <2>1, <3>2, <6>1
          <6>3. QED
            BY <5>1, <6>1, <6>2
        <5>3. \A j \in (cursor + 1)..Len(Front(stack)) : PointOf(Front(stack)[j]).pad = 0
          <6>1. cursor \in Nat /\ Len(stack) \in Nat
            <7>1. cursor \in 1..Len(stack)
              BY <2>1
            <7>2. QED
              BY <1>00, <7>1
          <6>2. \A j \in (cursor + 1)..(Len(stack) - 1) :
                   j \in (cursor + 1)..Len(stack) /\ j # direct /\ j \in 1..(Len(stack) - 1)
            BY <5>2, <6>1
          <6>3. QED
            BY <4>2, <5>1, <6>2
        <5>4. Front(stack)[cursor] = stack[cursor]
          BY <5>1, <5>2
        <5>5. QED
          BY <2>1, <4>1, <4>4, <5>1, <5>2, <5>3, <5>4, InnermostIs
      <4>5. QED
        BY <4>3, <4>4
    <3>3. QED
      BY <2>2, <3>1, <3>2 DEF Arrival, ReturnsOnlyAtTop
  <2>5. CASE PadFor(stack[cursor]) = 0 /\ cursor = 1
    <3>1. status' = "returned"
      BY <1>5, <2>3, <2>5 DEF Search
    <3>2. ASSUME direct # 1 PROVE stack[1].doing # "body"
      <4>1. AtCall(stack[1]) /\ PointOf(stack[1]).pad = 0
        BY <1>0, <1>2, <2>1, <2>5, <3>2 DEF Raising
      <4>2. stack[1].method = EntryPoint
        BY <1>0 DEF Places
      <4>3. PointOf(stack[1]) \in Invokes(EntryPoint)
        BY <4>1, <4>2 DEF AtCall, AtPoint, PointOf, Invokes, Range
      <4>4. PointOf(stack[1]).clause
        BY <4>1, <4>3, UnwindAssumption
      <4>5. QED
        BY <4>1, <4>4 DEF AtCall, AtPoint
    <3>3. QED
      BY <2>2, <3>1, <3>2 DEF Arrival, ReturnsOnlyAtTop
  <2>6. CASE PadFor(stack[cursor]) = 0 /\ cursor # 1
    <3>1. status' = "search"
      BY <1>5, <2>1, <2>3, <2>6 DEF Search
    <3>2. QED
      BY <2>1, <2>2, <3>1 DEF Arrival, ReturnsOnlyAtTop
  <2>7. QED
    BY <2>4, <2>5, <2>6
<1>6. CASE Cleanup
  <2>1. /\ status = "cleanup" /\ handler \in 1..Len(stack) /\ lsda' = lsda
        /\ UNCHANGED <<handler, innermost, direct>>
        /\ handler # direct => innermost = [frame |-> handler, pad |-> PointOf(stack[handler]).pad]
    BY <1>6 DEF Cleanup, PhaseInv, WayInv, Arrival, Kept
  <2>2. __l_personality(Top, FALSE).code = "install context" <=> PadFor(Top) # 0
    BY DEF __l_personality, handleLsda
  <2>3. CASE PadFor(Top) # 0
    <3>1. stack' = stack /\ status' = "landing" /\ registers' = __l_personality(Top, FALSE).registers
      BY <1>6, <2>2, <2>3 DEF Cleanup
    <3>2. registers'.ip = PadFor(Top)
      BY <2>3, <3>1 DEF __l_personality, handleLsda
    <3>3. PadFor(Top)' = PadFor(Top)
      BY <2>1, <3>1 DEF PadFor, PadIn, pcOffset, Top
    <3>4. QED
      BY <2>1, <3>1, <3>2, <3>3 DEF Arrival, ReturnsOnlyAtTop
  <2>4. CASE PadFor(Top) = 0 /\ Len(stack) # handler
    <3>1. stack' = Front(stack) /\ status' = "cleanup"
      BY <1>6, <2>1, <2>2, <2>4 DEF Cleanup
    <3>2. stack'[handler] = stack[handler]
      BY <1>0, <2>1, <2>4, <3>1, FrontOf
    <3>3. QED
      BY <2>1, <3>1, <3>2 DEF Arrival, ReturnsOnlyAtTop
  <2>5. CASE PadFor(Top) = 0 /\ Len(stack) = handler
    BY <1>1, <1>6, <2>2, <2>5 DEF Cleanup, Raising
  <2>6. QED
    BY <2>3, <2>4, <2>5
<1>7. CASE Call \/ Return \/ Fault \/ FaultInHandler \/ Collect \/ Land \/ Match \/ EndCatch
         \/ uncaughtException
  <2>1. status' \notin Raising \cup {"returned"}
    BY <1>7 DEF Call, Return, Fault, FaultInHandler, Collect, Land, Match, EndCatch,
       uncaughtException, CanThrow, Running, __segv_handler, Raising
  <2>2. QED
    BY <1>1, <2>1
<1>8. CASE Terminated \/ UNCHANGED vars
  <2>1. UNCHANGED vars
    BY <1>8 DEF Terminated
  <2>2. PadFor(Top)' = PadFor(Top)
    BY <2>1 DEF vars, PadFor, PadIn, pcOffset, Top
  <2>3. QED
    BY <2>1, <2>2 DEF vars, raising, WayInv, Arrival, ReturnsOnlyAtTop
<1>9. QED
  BY <1>3, <1>4, <1>5, <1>6, <1>7, <1>8 DEF Next

-----------------------------------------------------------------------------
(* What follows *)

LEMMA WayHolds == Spec => [](WayInv /\ PhaseInv)
<1>1. WayInv /\ PhaseInv /\ [Next]_vars => WayInv'
  BY TypesStep, ReferencesStep, PlacesStep, ArrivalStep DEF WayInv
<1>2. QED
  BY WayInit, PhaseInit, PhaseStep, <1>1, PTL DEF Spec

\* Types; control goes only to addresses where a landing pad starts.
THEOREM TypeCorrect == Spec => []TypeOK
<1>1. ASSUME WayInv, PhaseInv PROVE TypeOK
  <2>1. Types /\ References
    BY <1>1 DEF WayInv
  <2>2. status = "landing" => registers.ip \in DOMAIN Code[Top.method].pads
    BY <1>1, LandedFrame
  <2>3. \A fr \in Range(stack) :
          /\ fr \in FrameType
          /\ FrameRefs(fr, wrappers, heap)
    BY <2>1 DEF Range, Types, References
  <2>4. \A fr \in Range(stack) :
          /\ fr.method \in Methods
          /\ fr.doing \in {"body", "match", "catch", "finally"}
          /\ fr.unwind \in 0..Len(wrappers) /\ fr.object \in 0..Len(heap)
    <3>1. Len(wrappers) \in Nat /\ Len(heap) \in Nat
      BY <2>1 DEF Types
    <3>2. QED
      BY <2>3, <3>1 DEF FrameType, FrameRefs
  <2>5. Range(heap) \subseteq {"object", "fault", "freed", "lost"}
    BY <2>1 DEF Types, Range
  <2>6. QED
    BY <2>1, <2>2, <2>4, <2>5 DEF TypeOK, Types
<1>2. QED
  BY WayHolds, <1>1, PTL

\* An exception arrives at the innermost try statement around any call on the
\* stack, whatever the tables of the methods look like.
THEOREM ArrivesInnermost == Spec => []InnermostPad
<1>1. ASSUME WayInv, PhaseInv PROVE InnermostPad
  <2> SUFFICES ASSUME status = "landing", Len(stack) # direct
               PROVE  innermost = [frame |-> Len(stack), pad |-> registers.ip]
    BY DEF InnermostPad
  <2>1. Len(stack) = handler
    BY <1>1 DEF PhaseInv, PhasesAgree
  <2>2. /\ innermost = [frame |-> handler, pad |-> PointOf(stack[handler]).pad]
        /\ registers.ip = PadFor(Top)
    BY <1>1, <2>1 DEF WayInv, Arrival
  <2>3. AtCall(Top) /\ Top \in FrameType /\ Top = stack[handler]
    BY <1>1, <2>1, TopFrame DEF WayInv, Places, Raising
  <2>4. PadFor(Top) = PointOf(Top).pad
    BY <1>1, <2>3, FrameReads DEF WayInv, AtCall
  <2>5. QED
    BY <2>1, <2>2, <2>3, <2>4
<1>2. QED
  BY WayHolds, <1>1, PTL

\* The exception a catch clause works on is the thrown one and has not been
\* reclaimed.
THEOREM CaughtAlive == Spec => []CaughtIsAlive
<1>1. ASSUME WayInv PROVE CaughtIsAlive
  <2>1. \A fr \in Range(stack) : FrameRefs(fr, wrappers, heap)
    BY <1>1 DEF WayInv, References, Range
  <2>2. QED
    BY <2>1 DEF CaughtIsAlive, FrameRefs, Live
<1>2. QED
  BY WayHolds, <1>1, PTL

\* __throw_exception returns only where the entry point is past its try
\* statement or has faulted itself.
THEOREM ReturnsAtTop == Spec => []ReturnsOnlyAtTop
<1>1. WayInv => ReturnsOnlyAtTop
  BY DEF WayInv, Arrival
<1>2. QED
  BY WayHolds, <1>1, PTL

\* The tables in memory are those that were written, and handleLsda finds in them
\* the landing pad of every call.
THEOREM TablesRead == Spec => []TablesReadRight
<1>1. ASSUME WayInv PROVE TablesReadRight
  BY <1>1, TablesAsWritten DEF WayInv, Places, TablesReadRight
<1>2. QED
  BY WayHolds, <1>1, PTL
=============================================================================
