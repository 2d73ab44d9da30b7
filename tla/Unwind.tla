------------------------------- MODULE Unwind -------------------------------
(***************************************************************************)
(* Exceptions at run time (lrt-throw.cpp, lrt-unwind.c, lrt-exception.c):  *)
(* a thrown object is wrapped for the unwind library, which calls the      *)
(* personality routine for one frame after another, once to search for a   *)
(* handler and once more to get there, and enters the landing pad the      *)
(* routine chose.  A catch clause takes the object out of the wrapper; a   *)
(* finally clause keeps the wrapper and raises it again at its end.  An    *)
(* invalid memory access becomes an exception in the signal handler.       *)
(*                                                                         *)
(* The stack is a sequence of frames, the entry point's first.  Methods    *)
(* have points at which they call or touch memory; an address counts bytes *)
(* from a method's start.  What a try statement means inside one method    *)
(* is the subject of TryLowering; here a method has one level of them.     *)
(***************************************************************************)
EXTENDS Lsda, FiniteSets

CONSTANTS
    Methods,     \* the compiled methods
    EntryPoint,  \* StartUp.run, which catches everything
    Code,        \* their code and call sites
    Encodings,   \* of the numbers in a call-site table
    MaxDepth,    \* bound on the frames of the stack
    MaxThrows    \* bound on the exceptions raised for the first time

\* Code[m].points: the calls and memory accesses of a method, each with the
\* landing pad of the try statement it stands in (0 for none); those of the
\* clauses themselves (clause = TRUE) stand in none.  Code[m].sites: LLVM's
\* call-site table.  Code[m].pads: the kinds of the landing pads.
PointType == [kind: {"call", "load"}, at: Nat, size: Nat, pad: Nat, clause: BOOLEAN]
SiteType == [start: Nat, length: Nat, pad: Nat]
Invokes(m) == {p \in Range(Code[m].points) : p.kind = "call"}
Within(p, s) == s.start <= p.at /\ p.at + p.size <= s.start + s.length
Meets(p, s) == s.start < p.at + p.size /\ p.at < s.start + s.length
Fits(m, e) ==
    /\ \A s \in Range(Code[m].sites) : {s.start, s.length, s.pad} \subseteq 0..Largest(e)
    /\ Len(CallSiteTable(Code[m].sites, e)) <= INT_MAX - 8

\* The table is true to the calls: a call in a try statement lies within a call
\* site, and every call site that any call lies in, or is cut by, has the landing
\* pad of that call.  All that the entry point calls, but for what its catch
\* clause does, it calls in its try statement.
ASSUME UnwindAssumption ==
    /\ EntryPoint \in Methods
    /\ Encodings \subseteq Supported
    /\ MaxDepth \in Nat \ {0} /\ MaxThrows \in Nat
    /\ \A m \in Methods :
          /\ Code[m].points \in Seq(PointType) /\ Code[m].sites \in Seq(SiteType)
          /\ \A x \in DOMAIN Code[m].pads : Code[m].pads[x] \in {"match", "finally"}
          /\ \A s \in Range(Code[m].sites) : s.pad \in {0} \cup DOMAIN Code[m].pads
          /\ \A e \in Encodings : Fits(m, e)
          /\ \A p \in Invokes(m) :
                /\ p.size > 0
                /\ p.pad # 0 => \E s \in Range(Code[m].sites) : Within(p, s)
                /\ \A s \in Range(Code[m].sites) : Meets(p, s) => s.pad = p.pad
    /\ \A p \in Invokes(EntryPoint) : p.clause \/ p.pad # 0

VARIABLES
    lsda,         \* the language specific data area of each method
    stack,
    status,
    heap,         \* the exception objects: "object", "fault", "freed" or "lost"
    wrappers,     \* the _Unwind_Exception structures, which malloc keeps
    current,      \* the wrapper being raised
    cursor,       \* the frame the search phase has come to
    handler,      \* the frame it found
    registers,    \* what the personality routine left for the landing pad
    installed,    \* __segv_handler is the handler of SIGSEGV
    __in_segv,
    innermost,    \* history: where the raised exception should arrive
    direct        \* history: the frame whose own code faulted, 0 if none did

raising == <<current, cursor, handler, registers, innermost, direct>>
memory == <<heap, wrappers, installed, __in_segv>>
vars == <<lsda, stack, status, memory, raising>>

Foreign == 0     \* what __get_l_exception finds behind a foreign exception
Nothing == [frame |-> 0, pad |-> 0]
NoRegisters == [gr0 |-> 0, gr1 |-> 0, ip |-> 0]

Top == Last(stack)
PointOf(fr) == Code[fr.method].points[fr.point]
Running == status = "running" /\ Top.doing # "match"
Kept == UNCHANGED <<lsda, memory>>

-----------------------------------------------------------------------------
(* Running code *)

Frame(m) == [method |-> m, point |-> 0, ip |-> 0,
             doing |-> "body", unwind |-> 0, object |-> 0]

\* The points a frame can be at: those of the body or those of its clauses.
Points(fr) == {k \in DOMAIN Code[fr.method].points :
                  Code[fr.method].points[k].clause = (fr.doing # "body")}
Calls(fr) == {k \in Points(fr) : Code[fr.method].points[k].kind = "call"}

\* A frame that has called shows its return address; one interrupted by a
\* signal, the instruction it was at.
Address(p) == IF p.kind = "call" THEN p.at + p.size ELSE p.at

\* The stack with its last frame at point k.
At(k) ==
    [stack EXCEPT ![Len(stack)] =
        [@ EXCEPT !.point = k, !.ip = Address(Code[Top.method].points[k])]]

Call ==
    /\ Running /\ Len(stack) < MaxDepth
    /\ \E k \in Calls(Top), m \in Methods \ {EntryPoint} :
          stack' = Append(At(k), Frame(m))
    /\ Kept /\ UNCHANGED <<status, raising>>

Return ==
    /\ Running /\ Top.doing = "body"
    /\ IF Len(stack) = 1 THEN status' = "ended" /\ stack' = stack
       ELSE status' = status /\ stack' = Front(stack)
    /\ Kept /\ UNCHANGED raising

-----------------------------------------------------------------------------
(* Throwing *)

\* Where an exception raised in this stack should arrive: the last frame that
\* is inside a try statement, at that statement's landing pad.
Innermost(frames) ==
    LET inTry == {i \in DOMAIN frames : PointOf(frames[i]).pad # 0}
        last  == CHOOSE i \in inTry : \A j \in inTry : j <= i
    IN  IF inTry = {} THEN Nothing
        ELSE [frame |-> last, pad |-> PointOf(frames[last]).pad]

\* _Unwind_RaiseException: the search starts at the frame that throws.
Raise(frames, w, isDirect) ==
    /\ stack' = frames
    /\ status' = "search"
    /\ current' = w /\ cursor' = Len(frames) /\ handler' = 0
    /\ registers' = NoRegisters
    /\ innermost' = Innermost(IF isDirect THEN Front(frames) ELSE frames)
    /\ direct' = IF isDirect THEN Len(frames) ELSE 0
    /\ lsda' = lsda

\* new: an object, or one with a dispose method and so a finaliser.
__alloc_object == heap' = Append(heap, "object")
__alloc_object_finalize == heap' = Append(heap, "fault")

makeException(l_exception) ==
    wrappers' = Append(wrappers, [class |-> "L", l_exception |-> l_exception])

CanThrow == Running /\ Len(wrappers) < MaxThrows

\* throw new Exception(...)
ThrowNew ==
    /\ CanThrow
    /\ \E k \in Calls(Top) : Raise(At(k), Len(wrappers) + 1, FALSE)
    /\ __alloc_object
    /\ makeException(Len(heap) + 1)
    /\ UNCHANGED <<installed, __in_segv>>

\* throw e in a catch clause, where e is the exception it caught.
ThrowCaught ==
    /\ CanThrow /\ Top.doing = "catch"
    /\ \E k \in Calls(Top) : Raise(At(k), Len(wrappers) + 1, FALSE)
    /\ makeException(Top.object)
    /\ UNCHANGED <<heap, installed, __in_segv>>

\* Code that was not written in L, called from here, throws.
ThrowForeign ==
    /\ CanThrow
    /\ \E k \in Calls(Top) : Raise(At(k), Len(wrappers) + 1, FALSE)
    /\ wrappers' = Append(wrappers, [class |-> "foreign", l_exception |-> Foreign])
    /\ UNCHANGED <<heap, installed, __in_segv>>

-----------------------------------------------------------------------------
(* Invalid memory accesses *)

__segv_handler ==
    IF ~installed THEN status' = "killed" /\ UNCHANGED __in_segv
    ELSE IF __in_segv THEN status' = "segv in segv" /\ UNCHANGED __in_segv
    ELSE status' = "handler" /\ __in_segv' = TRUE

\* The method reads or writes through a bad pointer, or a C function it has
\* called does.
Fault ==
    /\ CanThrow
    /\ \E k \in Points(Top) : stack' = At(k)
    /\ __segv_handler
    /\ UNCHANGED <<lsda, heap, wrappers, installed, raising>>

\* The handler walks the stack to print it and may itself fault.
FaultInHandler ==
    /\ status = "handler"
    /\ __segv_handler
    /\ UNCHANGED <<lsda, stack, heap, wrappers, installed, raising>>

\* The end of the handler: MemoryException.throwME().
throwME ==
    /\ status = "handler"
    /\ __alloc_object_finalize
    /\ makeException(Len(heap) + 1)
    /\ Raise(stack, Len(wrappers) + 1, PointOf(Top).kind # "call")
    /\ UNCHANGED <<installed, __in_segv>>

-----------------------------------------------------------------------------
(* The garbage collector *)

\* The collector scans the stack, where a catch clause has its exception, and
\* not the memory of malloc, where the wrappers are.
Reachable == {fr.object : fr \in {f \in Range(stack) : f.doing \in {"match", "catch"}}}

\* Objects that only a wrapper kept for a finally clause refers to.
InFinally == {wrappers[fr.unwind].l_exception :
                 fr \in {f \in Range(stack) : f.doing = "finally"}}

\* Mutant: MemoryProtectionException has no dispose method.
dispose_Nothing(S) == UNCHANGED __in_segv

\* MemoryProtectionException.dispose, called by __call_dispose as a finaliser.
dispose(S) ==
    __in_segv' = (__in_segv /\ \A o \in S : heap[o] # "fault")

\* A collection in the program or in the signal handler: the stack is scanned
\* conservatively, so an unreachable object may stay.
Collect ==
    /\ status = "handler" \/ Running
    /\ \E S \in SUBSET {o \in DOMAIN heap \ Reachable : heap[o] \in {"object", "fault"}} :
          /\ S # {}
          /\ dispose(S)
          /\ heap' = [o \in DOMAIN heap |->
                         IF o \notin S THEN heap[o]
                         ELSE IF o \in InFinally THEN "lost" ELSE "freed"]
    /\ UNCHANGED <<lsda, stack, status, wrappers, installed, raising>>

-----------------------------------------------------------------------------
(* Unwinding *)

\* Mutant: the return address itself is looked up.
pcOffset_ReturnAddress(fr) == fr.ip

\* A return address is the address behind the call.
pcOffset(fr) == fr.ip - 1

\* The landing pad a data area gives for a frame, 0 for none.
PadIn(area, fr) == IF area = <<>> THEN 0 ELSE LandingPad(area, pcOffset(fr))
PadFor(fr) == PadIn(lsda[fr.method], fr)

\* Mutant: the search takes any call site that covers the address.
handleLsda_FoundWithoutPad(fr, search) ==
    IF lsda[fr.method] = <<>> THEN [code |-> "continue", registers |-> NoRegisters]
    ELSE IF search THEN [code |-> "handler found", registers |-> NoRegisters]
    ELSE IF PadFor(fr) = 0 THEN [code |-> "continue", registers |-> NoRegisters]
    ELSE [code |-> "install context",
          registers |-> [gr0 |-> current,
                         gr1 |-> IF wrappers[current].class = "L" THEN 2 ELSE 4,
                         ip |-> PadFor(fr)]]

handleLsda(fr, search) ==
    IF PadFor(fr) = 0 THEN [code |-> "continue", registers |-> NoRegisters]
    ELSE IF search THEN [code |-> "handler found", registers |-> NoRegisters]
    ELSE [code |-> "install context",
          registers |-> [gr0 |-> current,
                         gr1 |-> IF wrappers[current].class = "L" THEN 2 ELSE 4,
                         ip |-> PadFor(fr)]]

\* The personality routine.
__l_personality(fr, search) == handleLsda(fr, search)

\* Phase 1.  Past the last frame _Unwind_RaiseException returns, the code after
\* the throw runs.
Search ==
    /\ status = "search"
    /\ IF __l_personality(stack[cursor], TRUE).code = "handler found"
       THEN status' = "cleanup" /\ handler' = cursor /\ UNCHANGED cursor
       ELSE IF cursor = 1 THEN status' = "returned" /\ UNCHANGED <<cursor, handler>>
       ELSE cursor' = cursor - 1 /\ UNCHANGED <<status, handler>>
    /\ Kept /\ UNCHANGED <<stack, current, registers, innermost, direct>>

\* Phase 2, from the same frame again; frames are given up on the way.
Cleanup ==
    /\ status = "cleanup"
    /\ LET result == __l_personality(Top, FALSE)
       IN  IF result.code = "install context"
           THEN /\ status' = "landing" /\ registers' = result.registers
                /\ UNCHANGED stack
           ELSE IF Len(stack) = handler
           THEN status' = "fatal" /\ UNCHANGED <<stack, registers>>
           ELSE stack' = Front(stack) /\ UNCHANGED <<status, registers>>
    /\ Kept /\ UNCHANGED <<current, cursor, handler, innermost, direct>>

\* The landing pad: either stores the wrapper, a catch also the object in it
\* (whatever the selector says).
__get_l_exception(w) == wrappers[w].l_exception

\* Mutant: the exception is taken out of the wrapper for finally clauses.
addLandingPad_Swapped(kind) ==
    [Top EXCEPT !.doing = kind, !.unwind = registers.gr0,
                !.object = IF kind = "finally" THEN __get_l_exception(registers.gr0) ELSE 0]

addLandingPad(kind) ==
    [Top EXCEPT !.doing = kind, !.unwind = registers.gr0,
                !.object = IF kind = "match" THEN __get_l_exception(registers.gr0) ELSE 0]

Land ==
    /\ status = "landing"
    /\ stack' = [stack EXCEPT ![Len(stack)] =
                    addLandingPad(Code[Top.method].pads[registers.ip])]
    /\ status' = "running"
    /\ Kept /\ UNCHANGED raising

\* A catch clause is for this exception.
Match ==
    /\ status = "running" /\ Top.doing = "match"
    /\ stack' = [stack EXCEPT ![Len(stack)].doing = "catch"]
    /\ Kept /\ UNCHANGED <<status, raising>>

\* What was caught is not an exception object, or no longer.
Junk(object) == IF object = Foreign THEN TRUE ELSE heap[object] \in {"freed", "lost"}

\* No catch clause is for this exception, or the finally clause is at its end:
\* rethrowOrReturn raises the wrapper again.  The entry point has a clause for
\* every exception, but finds out by looking at the object.
Rethrow ==
    /\ status = "running"
    /\ \/ Top.doing = "match" /\ (Len(stack) > 1 \/ Junk(Top.object))
       \/ Top.doing = "finally"
    /\ \E k \in Calls(Top) : Raise(At(k), Top.unwind, FALSE)
    /\ UNCHANGED memory

EndCatch ==
    /\ Running /\ Top.doing = "catch" /\ Len(stack) > 1
    /\ stack' = [stack EXCEPT ![Len(stack)] = Frame(@.method)]
    /\ Kept /\ UNCHANGED <<status, raising>>

\* The entry point prints the exception and ends the program.
uncaughtException ==
    /\ Running /\ Top.doing = "catch" /\ Len(stack) = 1
    /\ status' = "uncaught"
    /\ Kept /\ UNCHANGED <<stack, raising>>

-----------------------------------------------------------------------------

\* The handler is not installed with GC_ENABLE_INCREMENTAL, whose collector has
\* one of its own.
__install_segv_handler == installed \in BOOLEAN

\* The data area LLVM emits for a method with a given encoding.
Area == [m \in Methods |-> [e \in Supported |-> Emit(Code[m].sites, e)]]

Init ==
    /\ \E e \in Encodings : lsda = [m \in Methods |-> Area[m][e]]
    /\ stack = <<Frame(EntryPoint)>>
    /\ status = "running"
    /\ heap = <<>> /\ wrappers = <<>>
    /\ __install_segv_handler
    /\ __in_segv = FALSE
    /\ current = 0 /\ cursor = 0 /\ handler = 0
    /\ registers = NoRegisters
    /\ innermost = Nothing /\ direct = 0

Ended == {"ended", "uncaught", "killed", "segv in segv", "returned", "fatal"}
Terminated == status \in Ended /\ UNCHANGED vars

Next ==
    \/ Call \/ Return
    \/ ThrowNew \/ ThrowCaught \/ ThrowForeign
    \/ Fault \/ FaultInHandler \/ throwME
    \/ Collect
    \/ Search \/ Cleanup \/ Land
    \/ Match \/ Rethrow \/ EndCatch \/ uncaughtException
    \/ Terminated

Spec == Init /\ [][Next]_vars

-----------------------------------------------------------------------------
(* Properties *)

Statuses == {"running", "handler", "search", "cleanup", "landing"} \cup Ended

\* What handleLsda reads for a frame of method m at point p.
Reads(m, p, e) == PadIn(Area[m][e], [method |-> m, ip |-> Address(p)])

\* The types of the variables; control never goes to an address that is not
\* the start of a landing pad (handleLsda's _Unwind_SetIP).
TypeOK ==
    /\ status \in Statuses
    /\ Len(stack) \in 1..MaxDepth /\ Len(wrappers) <= MaxThrows
    /\ \A fr \in Range(stack) :
          /\ fr.method \in Methods
          /\ fr.doing \in {"body", "match", "catch", "finally"}
          /\ fr.unwind \in 0..Len(wrappers) /\ fr.object \in 0..Len(heap)
    /\ Range(heap) \subseteq {"object", "fault", "freed", "lost"}
    /\ current \in 0..Len(wrappers)
    /\ status = "landing" => registers.ip \in DOMAIN Code[Top.method].pads

\* What handleLsda reads in the tables is what LLVM wrote there: for the address
\* of any call the landing pad of the try statement around it, and for that of
\* any other instruction, if anything, a landing pad of the same method, in
\* every encoding that the numbers of the method fit in.
ReadsAsWritten ==
    \A m \in Methods, e \in Supported : Fits(m, e) => \A p \in Range(Code[m].points) :
        /\ Reads(m, p, e) \in {0} \cup DOMAIN Code[m].pads
        /\ p.kind = "call" => Reads(m, p, e) = p.pad

\* At every moment handleLsda finds in the tables what LLVM wrote there.
TablesReadRight ==
    /\ \E e \in Encodings : \A m \in Methods : lsda[m] = Area[m][e]
    /\ ReadsAsWritten

\* An exception arrives at the innermost try statement that any method on the
\* stack is in when it is thrown, and at no other landing pad: no handler is
\* passed over and no frame between is entered, whatever the shape of the
\* call-site tables and the lengths of their numbers.  In the method that makes
\* an invalid access itself the pad is decided by the instruction before it.
InnermostPad ==
    status = "landing" =>
        \/ Len(stack) = direct
        \/ innermost = [frame |-> Len(stack), pad |-> registers.ip]

\* The two calls of the personality routine agree: the cleanup phase installs
\* the context of the very frame for which the search phase said that it has a
\* handler.
PhasesAgree ==
    /\ status # "fatal"
    /\ status = "landing" => Len(stack) = handler

\* The exception a catch clause works on is the one that was thrown and has not
\* been reclaimed, although the structure that brought it there is not memory
\* the collector looks at; but for those that a finally clause, run on the way,
\* has held in that structure only while a collection took place.
CaughtIsAlive ==
    \A fr \in Range(stack) :
        fr.doing \in {"match", "catch"} /\ wrappers[fr.unwind].class = "L" =>
            /\ fr.object = wrappers[fr.unwind].l_exception
            /\ fr.object # Foreign => heap[fr.object] # "freed"

\* __in_segv is set while an exception made by the signal handler exists that
\* has not been finalised, and else only inside the handler: a fault ends the
\* program as a fault within the handler exactly while an earlier one's
\* exception is still there.
SegvFlagExact ==
    __in_segv <=> \/ status \in {"handler", "segv in segv"}
                  \/ \E o \in DOMAIN heap : heap[o] = "fault"

\* __throw_exception returns to the code behind the throw only when the entry
\* point is past its try statement, handling an uncaught exception already,
\* or faulted itself.
ReturnsOnlyAtTop ==
    status = "returned" =>
        \/ stack[1].doing # "body"
        \/ direct = 1
=============================================================================
